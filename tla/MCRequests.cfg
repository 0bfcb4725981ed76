CONSTANTS
  ask1 = ask1
  ask2 = ask2
  adb = adb
  peer = peer
  Ask = {ask1, ask2}
  Peer = {peer}
  Key = {ask1, ask2, peer}
  Rank <- MCRank
  Slots = 1
  Tool = {adb}
  ToolOf <- MCToolOf
  MaxFault = 2
  MaxStray = 1
SPECIFICATION DispatchSpec
CHECK_DEADLOCK FALSE
INVARIANTS DeliveredMeansReceived OrderedBeforeReceived
PROPERTIES NoRevival RequestsEnd FairRequests

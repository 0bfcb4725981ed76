CONSTANTS
  me = me
  peer = peer
  adb = adb
  j1 = j1
  j3 = j3
  argv = argv
  NoJob = NoJob
  NoGrant = NoGrant
  Me = me
  Origin = peer
  Job = {j1, j3}
  Tool = {adb}
  Args = {argv}
  Body <- MCBody
  Caller <- MCCaller
  ToolOf <- MCToolOf
  ArgsOf <- MCArgsOf
  Permission <- MCPermission
  Children = 1
  MaxSerial = 1
  MaxAsk = 0
  MaxFault = 1
  MaxLoss = 2
  MaxSlip = 1
  MaxStray = 1
SPECIFICATION FairDelivery
CHECK_DEADLOCK FALSE
INVARIANTS OriginTruthful OrderedBeforeStart
PROPERTIES RunnerSpec EndsFinal LossIsNoEnd OrdersEnd

CONSTANTS
  me = me
  peer = peer
  adb = adb
  j1 = j1
  j3 = j3
  argv = argv
  NoJob = NoJob
  NoGrant = NoGrant
  Me = me
  Job = {j1, j3}
  Tool = {adb}
  Args = {argv}
  Body <- MCBody
  Caller <- MCCaller
  ToolOf <- MCToolOf
  ArgsOf <- MCArgsOf
  Permission <- MCPermission
  Children = 1
  MaxSerial = 2
  MaxAsk = 1
  MaxFault = 3
SPECIFICATION FairSpec
CHECK_DEADLOCK FALSE
INVARIANTS RunsAtMostOnce OncePermission ReservationHasRun TruthfulStatus FreshRequests
PROPERTIES OutcomesFinal ReservationOutlivesDoubt ImplementsSingleUse RunsSettle QueueDrains

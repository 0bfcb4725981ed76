CONSTANTS
  me = me
  peer = peer
  adb = adb
  j1 = j1
  j3 = j3
  argv = argv
  NoJob = NoJob
  NoGrant = NoGrant
  Me = me
  Job = {j1, j3}
  Tool = {adb}
  Args = {argv}
  Body <- MCBody
  Caller <- MCCaller
  ToolOf <- MCToolOf
  ArgsOf <- MCArgsOf
  Permission <- MCScoped
  Children = 2
  MaxSerial = 2
  MaxAsk = 1
  MaxFault = 3
SPECIFICATION Spec
CHECK_DEADLOCK FALSE
PROPERTIES ReapprovalIdempotent

CONSTANTS
  file1 = file1
  file2 = file2
  file3 = file3
  file4 = file4
  bytes1 = bytes1
  bytes2 = bytes2
  token1 = token1
  token2 = token2
  token3 = token3
  Name = {file1, file2, file3, file4}
  Version = {bytes1, bytes2}
  Absent = Absent
  Token = {token1, token2, token3}
  NoToken = NoToken
  Reserve = 2
  MaxEdit = 1
  MaxKill = 1
SPECIFICATION FairPin
CHECK_DEADLOCK FALSE
PROPERTIES DisposalInspected NoVersionLost ReviewEnds

CONSTANTS
  laptop = laptop
  desktop = desktop
  path1 = path1
  path2 = path2
  bytes1 = bytes1
  bytes2 = bytes2
  Machine = {laptop, desktop}
  Session = {"first", "second"}
  Local <- MCLocal
  Remote <- MCRemote
  Path = {path1, path2}
  Version = {bytes1}
  Absent = Absent
  MaxEdit = 1
  MaxBreak = 1
SPECIFICATION SyncSpec
CHECK_DEADLOCK FALSE
PROPERTIES StopsNamePath

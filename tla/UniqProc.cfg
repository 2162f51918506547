CONSTANTS
  Pid = {p1, p2, p3}
  Dirs = 2
  Absent = absent
  Empty = empty
  NoPid = none
SPECIFICATION SpecSerial
INVARIANTS
  TypeOK
  OneDaemon
  DaemonIsListed
  OnlyKillsLeaveFile

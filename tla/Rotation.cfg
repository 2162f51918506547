CONSTANTS
  Sav = {s1}
  Routine = {r1, r2}
  Stack = 4
  Backup = {b1, b2, b3, b4}
  NoBackup = free
  NoSav = none
SPECIFICATION SpecAlone
INVARIANTS
  TypeOK
  NothingLost
  OrderKept
  NextIsAfterNewest
PROPERTIES
  RotationEnds

CONSTANTS
  Sav = {s1, s2}
  Routine = {r1, r2}
  Poster = {p1, p2}
  MaxOverload = 1
  Window = 0
  NoSav = none
  Stack = 2
  Backup = {b1}
  NoBackup = free
SPECIFICATION SpecUnhurried
PROPERTY RotatesAlone

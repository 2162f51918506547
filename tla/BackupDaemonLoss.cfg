CONSTANTS
  Sav = {s1}
  Routine = {r1, r2}
  Poster = {p1}
  MaxOverload = 1
  Window = 0
  NoSav = none
  Stack = 2
  Backup = {b1, b2}
  NoBackup = free
SPECIFICATION DaemonSpec
INVARIANT OnlyOldestGoes

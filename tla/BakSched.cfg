CONSTANTS
  Sav = {s1, s2}
  Routine = {r1, r2}
  Poster = {p1, p2}
  MaxOverload = 1
  Window = 1
  NoSav = none
SPECIFICATION Spec
INVARIANTS
  TypeOK
  BitMatchesQueue
  ClearsCalmOnly
PROPERTIES
  CalmClears

CONSTANTS
  Sav = {s1}
  Routine = {r1, r2}
  Poster = {p1}
  MaxOverload = 1
  Window = 1
  NoSav = none
SPECIFICATION Spec
PROPERTY PostedIsServed

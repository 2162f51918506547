CONSTANTS
  Name <- Names
  Width <- Widths
  Jobs <- JobSet
  MaxDepth = 5
  MaxTroubles = 2
SPECIFICATION Spec
INVARIANTS
  TypeOK
  CopyIsWhole
  NeverMixed
  OnlyDestTouched
  RemovalHasCause
  SizesAddUp
PROPERTIES
  CommandEnds

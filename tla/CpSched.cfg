CONSTANTS
  Worker = {w1, w2}
  File = {f1, f2, f3}
  MaxPending = 1
  Main = main
  NoThread = nobody
  NoFile = nothing
SPECIFICATION Spec
INVARIANTS
  TypeOK
  PendingBound
  OnePlace
  JoinedQuiescent
  FailureVisible
  RefusedForCause
PROPERTIES
  WalkEnds
  OnlyWaitersRemain
  IsCopyJob

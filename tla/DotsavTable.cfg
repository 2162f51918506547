CONSTANTS
  Files <- SmallFiles
  Piece <- Pieces
  WordSize = 2
  PeriodRange = 4096
  LongRange = 65536
SPECIFICATION DotsavSpec
INVARIANT BitsInTable
CHECK_DEADLOCK FALSE

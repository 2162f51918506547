CONSTANTS
  CommandLines <- Lines
  Digit <- DigitWorth
  UINT32_MAX = 69
  ULLONG_MAX = 99
  Savs <- Configs
  User <- Users
  Root <- Roots
  Base <- Bases
  Usage <- Usages
  LineWidth = 4
  Spare = 1
  MaxSteps = 12
  Size = 12
  Table = 3
  Lead <- Leads
  Message <- Messages
  Extra <- Extras
  Files <- SmallFiles
  Piece <- Pieces
  WordSize = 2
  PeriodRange = 4096
  LongRange = 65536
SPECIFICATION MCSpec
INVARIANTS
  ParsedAsMeant
  UnreadUntouched
  TextAsMeant
  ReportAsMade
  TypeOK
  ConfigsUsable
  ReadsAsWritten
  BitsApart
  PrefixesApart

SPECIFICATION FairSpec
CONSTANTS
  CellSize = 32
  WordSize = 64
  GprCount = 3
  QueueDepth = 4
  SsrCount = 1
  Decoder <- MCDecoder
  Finisher = 7
  StatusSize = 4
  Pass = 1
  Fail = 2
  ResetCode = 3
  Files <- MCFiles
  CommandLines <- MCCommandLines
  Numbers <- MCNumbers
  Names <- MCNames
INVARIANTS
  ExitTellsOutcome
  WindowsAreTails
  ArgumentsKept
PROPERTIES
  ImplementsReference
  Returns
CHECK_DEADLOCK FALSE

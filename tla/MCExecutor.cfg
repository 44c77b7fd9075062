SPECIFICATION ExecutorSpec
CONSTANTS
  CellSize = 32
  WordSize = 64
  GprCount = 3
  QueueDepth = 4
  SsrCount = 1
  Decoder <- MCDecoder
  Finisher = 7
  StatusSize = 4
  Pass = 1
  Fail = 2
  ResetCode = 3
  Images <- MCImages
  Reloads <- MCReloads
  StopPcs <- MCStops
  CycleBound = 8
INVARIANTS
  TypeOK
  TraceTellsState
  BlockDiscipline
  Replays
PROPERTY
  RejectIsSilent

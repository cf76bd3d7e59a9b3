CONSTANTS
  Byte <- SomeBytes
  PeekNone = 0
  IN_QUEUE = 2
  OUT_BYTES = 4
  OUT_HIGH_WATER = 2
  CounterModulus = 4
  BudgetModulus = 8
  PRELUDE <- LongText
  Texts <- MCTexts
  Recovery <- MCRecovery
  Slice0 = 2
  SliceMin = 1
  SliceMax = 4
  MaxPending = 3
  Kills = {"INT"}
  MaxSignals = 3
  Width = 3
  MinCells = 2
  MaxCells = 8
  Argvs <- MCArgvs
  Files <- MCFiles
  DefaultImage <- MCImage
  MaxKeys = 2
SPECIFICATION HostsSpec
INVARIANTS
  OutputFits RestIsReal
  LoadsWhole RawWhenWanted RestoresTerminal
PROPERTIES InputIsAStream EveryByteRead AnswersAreTrue KillsEnd
CHECK_DEADLOCK FALSE

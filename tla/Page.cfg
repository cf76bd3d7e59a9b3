CONSTANTS
  PreludeMayFail = TRUE
  UserLines = {"quiet", "raw", "bad", "hide"}
  MaxInFlight = 3
  MaxKept = 1
  Lines <- MCLines
  Words <- MCWords
  Steppable <- MCSteppable
  Pastes <- MCPastes
  Key = "key"
  Source = "source"
  MaxMachines = 3
  MaxFed = 3
SPECIFICATION PageSpec
INVARIANTS
  UserBytesShown RepairedAtRest NothingWithheld
  NoInterleaving SuccessorClean SourceOnce
PROPERTIES PumpReturns SteppedLinesFinish

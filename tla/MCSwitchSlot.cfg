\* Power cuts at every write, up to two write errors, two starts.
CONSTANTS
  boot = boot
  xbl = xbl
  NumDisks = 2
  Pairs <- MCPairs
  Home <- MCHome
  BootPair = boot
  Guids <- MCGuids
  Torn = Torn
  NoTable = NoTable
  InitialTables <- MCInitialTables
  MaxFaults = 2
  MaxRuns = 2
SPECIFICATION FairSpec
INVARIANTS SurvivesPowerCut RollbackRestores SuccessIsComplete
PROPERTIES UpdateEnds WritesOnlyUniformPhones BootLuMovesLast TablesSwitchAtomically
\* The application ends.
CHECK_DEADLOCK FALSE

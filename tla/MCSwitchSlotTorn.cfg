\* One write error, then a power cut during the rollback.
CONSTANTS
  boot = boot
  xbl = xbl
  NumDisks = 2
  Pairs <- MCPairs
  Home <- MCHome
  BootPair = boot
  Guids <- MCGuids
  Torn = Torn
  NoTable = NoTable
  InitialTables <- MCUniformTables
  MaxFaults = 1
  MaxRuns = 1
SPECIFICATION Spec
INVARIANTS AlwaysBootable
\* The application ends.
CHECK_DEADLOCK FALSE

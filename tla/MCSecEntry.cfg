CONSTANTS
  MemoryMaps <- MCMemoryMaps
  RamPartitions <- MCRamPartitions
  SystemMemoryBase = 1
  MAX_ARM_MEMORY_REGION_DESCRIPTOR_COUNT = 3
  CountLimit = 3
  NumSmrg = 3
  NumContextBanks = 3
  ContextBankMax = 2
  Streams = {"display", "usb"}
  SmmuStates <- MCSmmuStates
  FD_BASE = 8
  FD_SIZE = 3
  ShimSize = 4
  LoopBlocks <- MCLoopBlocks
  CPUCoresStackBase = 6
  CPUCorePrimaryStackSize = 2
  Phones <- MCPhones
SPECIFICATION SecSpec
INVARIANTS
  MemoryDisjoint
  HandsOutFreeRam
  NothingForgotten
  HandedOutOnce
  KeptStreamsTranslate
  Detached
  FirmwareWhole
\* SEC stops in a dead loop or goes on to DXE, which ends.
CHECK_DEADLOCK FALSE

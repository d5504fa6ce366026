CONSTANTS
  FileSystems = {"esp", "usb"}
  Block = {"c1", "c2", "o"}
  Custom <- MCCustom
  NoFile <- MCNoFile
  Loaders <- MCLoaders
  MaxCalls = 3
  DpuRegions <- MCDpuRegions
  Storages = 3
  MsdDevices <- MCMsdDevices
  SmBiosPhones <- MCSmBiosPhones
  Machines <- MCMachines
  MaxResets = 1
SPECIFICATION BootSpec
INVARIANTS
  PolicyServed
  HookTransparent
  WinloadSealed
  ReadsGuarded
  LunsFreed
  TablesRefer
  TextsReturned
PROPERTY CallbackEnds
\* A boot ends in the operating system, a shutdown, a dead loop or a fault.
CHECK_DEADLOCK FALSE

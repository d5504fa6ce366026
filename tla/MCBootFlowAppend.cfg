CONSTANTS
  FileSystems = {"esp", "usb"}
  Block = {"c1", "c2", "o"}
  Custom <- MCCustom
  NoFile <- MCNoFile
  Loaders <- MCLoaders
  MaxCalls = 3
  DpuRegions <- MCDpuRegions
  Storages = 3
  MsdDevices <- MCMsdDevices
  SmBiosPhones <- MCSmBiosPhones
  Machines <- MCMachines
  MaxResets = 1
SPECIFICATION BootSpec
INVARIANT PolicyReplaced
CHECK_DEADLOCK FALSE

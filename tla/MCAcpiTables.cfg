CONSTANTS
  Bodies <- MCBodies
  EFICHIPINFO_MAX_ID_LENGTH = 3
  MaxFailures = 2
SPECIFICATION Spec
INVARIANTS
  DsdtServed
  LayoutKept
  OriginsRight
  EveryNameTold
\* BDS goes on to boot, which is not part of this module.
CHECK_DEADLOCK FALSE

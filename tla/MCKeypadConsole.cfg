CONSTANTS
  k1 = k1
  k2 = k2
  NoKey = NoKey
  KEYPAD_EFI_KEY_MAX_COUNT = 4
  Keys <- MCKeys
  MaxStarts = 3
SPECIFICATION ConsoleSpec
INVARIANTS
  OpenWhileInstalled
  TimerOnlyOnLive
PROPERTY IsFifo
\* Without memory for the first instance CleanUp may fault.
CHECK_DEADLOCK FALSE

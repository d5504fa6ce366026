CONSTANTS
  up = up
  KeyNotify = KeyNotify
  OtherNotify = OtherNotify
  h1 = h1
  h2 = h2
  Null = Null
  AnyShift = AnyShift
  End = End
  KEYPAD_EFI_KEY_MAX_COUNT = 3
  Codes <- MCCodes
  Shifts <- MCShifts
  Functions <- MCFunctions
  Handles <- MCHandles
  Bits <- MCExposed
  MaxPresses = 3
  MaxPerPoll = 2
SPECIFICATION CSpec
\* A walk that followed a freed link into nowhere takes the system with it.
CHECK_DEADLOCK FALSE
INVARIANTS
  NoKeySkipped
  NotifyServed
  WalkOnLive
PROPERTIES
  NotifiedInOrder
  AllNotified
  NotifyDrains

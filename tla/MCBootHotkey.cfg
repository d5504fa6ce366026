CONSTANTS
  SCAN_UP = SCAN_UP
  down = down
  ctrl = ctrl
  KeyNotify = KeyNotify
  OtherNotify = OtherNotify
  NoHandle = NoHandle
  h1 = h1
  h2 = h2
  Null = Null
  AnyShift = AnyShift
  End = End
  KEYPAD_EFI_KEY_MAX_COUNT = 5
  Codes <- MCCodes
  Shifts <- MCShifts
  Functions <- MCFunctions
  Handles <- MCHandles
  Bits <- MCNoBits
  MaxPresses = 2
  MaxPerPoll = 2
SPECIFICATION HSpec
INVARIANTS
  MenuWhenPressed
  HandleIsOurs

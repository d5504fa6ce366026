CONSTANTS
  Declared = {"Display", "Silicium_Log", "UEFI_Log"}
  Small = {"UEFI_Log"}
  Size = 3
  Printable = {a}
  LF = LF
  CR = CR
  Space = Space
  Skipped = Skipped
  Old = Old
  MaxX = 2
  MaxY = 2
SPECIFICATION Spec
INVARIANTS
  CursorOnScreen
  StoresInRing
  TailIsRecent

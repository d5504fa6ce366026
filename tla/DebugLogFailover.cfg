CONSTANTS
  Declared = {"Display", "UEFI_Log"}
  Small = {}
  Size = 3
  Printable = {a}
  LF = LF
  CR = CR
  Space = Space
  Skipped = Skipped
  Old = Old
  MaxX = 2
  MaxY = 2
SPECIFICATION Spec
INVARIANT LogIsWritten

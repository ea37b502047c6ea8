SPECIFICATION Spec
CONSTANTS
  Size = 3
  Files <- GeneralFiles
  Leftover <- SmallInts
  None = None
INVARIANT
  VectorsSpanSlots

SPECIFICATION Spec
CONSTANTS
  Size = 3
  Files <- EmptyLastFiles
  Leftover <- SmallInts
  None = None
INVARIANT
  ConsecutiveRows

SPECIFICATION Spec
CONSTANTS
  Size = 3
  Files <- TwoRowsFiles
  Leftover <- SmallInts
  None = None
INVARIANT
  RowlessRankStops

SPECIFICATION Spec
CONSTANTS
  Jobs <- MCJobs
  Calls <- MCCalls
  WarpTile = 2
  RowTile = 2
  NarrowTiles = {1}
  FlatThreads = 2
INVARIANTS
  TypeOK
  ProductExact
  BoundsExact

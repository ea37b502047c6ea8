SPECIFICATION FairSpec
CONSTANTS
  Ranks = {0, 1, 2}
  Sources <- Edges
  Params <- AllParams
  None = None
INVARIANTS
  TypeOK
  InStep
  ColumnsFit
PROPERTIES
  RanksKeepContract
  Ends

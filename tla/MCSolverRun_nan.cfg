SPECIFICATION Spec
CONSTANTS
  Ranks = {0, 1, 2}
  Sources <- Edges
  Params <- FixedGMRES
  None = None
INVARIANTS
  NoNaN

SPECIFICATION FairSpec
CONSTANTS
  Ranks = {0, 1, 2}
  Plans <- MCPlans
  MaxApply = 3
  Overlap = FALSE
  NudgeChunks = 1
  Synchronous = FALSE
  None = None
INVARIANTS
  IInv
PROPERTIES
  ImplementsDistSpMV
  AllDone

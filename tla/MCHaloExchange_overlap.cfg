SPECIFICATION FairSpec
CONSTANTS
  Ranks = {0, 1, 2}
  Plans <- CRSPlans
  MaxApply = 3
  Overlap = TRUE
  NudgeChunks = 2
  Synchronous = TRUE
  None = None
INVARIANTS
  TypeOK
  IInv
  HaloFresh
  ProductExact
  BacklogBounded
PROPERTIES
  ImplementsDistSpMV
  AllDone

SPECIFICATION Spec
CONSTANTS
  Degree = 4
  Gc <- Weights
  Contexts <- AllContexts
  Calls <- AllCalls
  MaxCalls = 2
  GramTile = 2
  GramSubsMax = 2
  PartialMax = 9
  ResRows = 1
  None = None
INVARIANTS
  TypeOK
  NoRace
  ResultExact
  ScratchFinite
  PartialFits
PROPERTIES
  PipelineKept

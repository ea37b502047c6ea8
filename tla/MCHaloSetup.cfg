SPECIFICATION FairSpec
CONSTANTS
  Size = 3
  Matrices <- MCMatrices
  Garbage = Garbage
INVARIANTS
  TypeOK
  PlanEstablished
  RowsPreserved
  SendArraysAlive
  OwnersFound
PROPERTY
  Terminates

SPECIFICATION FairSpec
CONSTANTS
  Size = 3
  Files <- AllFiles
  Leftover <- SmallInts
  None = None
INVARIANTS
  TypeOK
  FilledIsConsecutive
  RowsOfTheFile
PROPERTY
  Ends

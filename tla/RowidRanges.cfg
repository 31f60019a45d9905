SPECIFICATION Spec
CONSTANTS
  MaxObject = 2
  MaxFile = 2
  BlockSpace = 6
  BigFile = 3
  kMinUnitBlocks = 1
  Extents <- MCExtents
  MaxExtents = 3
  MaxSessions = 2
INVARIANTS
  RowidsOnce
  SizesAreTrue
  UnitsAreBalanced
CHECK_DEADLOCK FALSE

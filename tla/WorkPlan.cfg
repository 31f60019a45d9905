SPECIFICATION Spec
CONSTANTS
  MaxPart = 2
  MaxRow = 2
  MaxSessions = 2
  MaxCommits = 1
INVARIANTS
  SnapshotIsExact
  StableRowsOnce
  ForcedOptionsHold
  TaskIsDropped
PROPERTIES
  TheirTaskStays
CHECK_DEADLOCK FALSE

SPECIFICATION Spec
CONSTANTS
  MaxPart = 2
  MaxRow = 2
  MaxSessions = 2
  MaxCommits = 1
INVARIANTS
  SingleUnitIsConsistent
CHECK_DEADLOCK FALSE

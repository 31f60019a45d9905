SPECIFICATION FairSpec
CONSTANTS
  t1 = t1
  t2 = t2
  Threads = {t1, t2}
  MaxSessions = 2
  MaxUnits = 3
  MaxUnitRows = 3
  VectorSize = 2
  FetchRows = 2
INVARIANTS
  ExactlyOnce
  SessionsWithinPlan
PROPERTIES
  ImplementsRowSource
  ScanEnds
CHECK_DEADLOCK FALSE

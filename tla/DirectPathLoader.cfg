SPECIFICATION FairSpec
CONSTANTS
  MaxRows = 5
  ArrayRows = 3
  kMaxStreamsWithoutProgress = 2
  LostAck = TRUE
INVARIANTS
  RowsAreKept
  CommitIsComplete
PROPERTIES
  OutcomeIsFinal
  SessionEnds
  ImplementsLoadSession
CHECK_DEADLOCK FALSE

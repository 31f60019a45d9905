SPECIFICATION FairSpec
CONSTANTS
  t1 = t1
  t2 = t2
  s1 = s1
  s2 = s2
  s3 = s3
  b1 = b1
  b2 = b2
  b3 = b3
  b4 = b4
  None = None
  Threads = {t1, t2}
  Sessions = {s1, s2, s3}
  Batches = {b1, b2, b3, b4}
  Chunks = 2
  LostAck = FALSE
INVARIANTS
  WriterIsExclusive
  SessionsWithinThreads
  NothingVisibleBeforeFinalize
  ReportIsTrue
  NoSessionLeft
PROPERTIES
  SpoiledIsNeverUsed
  ImplementsAtomicLoad
  CopyEnds
CHECK_DEADLOCK FALSE

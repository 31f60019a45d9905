SPECIFICATION Spec
CONSTANTS
  t1 = t1
  t2 = t2
  s1 = s1
  s2 = s2
  s3 = s3
  b1 = b1
  b2 = b2
  None = None
  Threads = {t1, t2}
  Sessions = {s1, s2, s3}
  Batches = {b1, b2}
  Chunks = 1
  LostAck = TRUE
INVARIANTS
  NoDataMeansNone
CHECK_DEADLOCK FALSE

SPECIFICATION Spec
CONSTANTS
  budget = 3
  row_bytes = 1
  kInitialLobBytes = 2
  kMaxUtf8BytesPerChar = 2
  MaxChars = 3
  MaxRows = 3
  MaxBatches = 3
  Null = Null
INVARIANTS
  ValuesAreIntact
  HandlesAreFreed
  BufferIsBounded
PROPERTIES
  FreedInOrder
CHECK_DEADLOCK FALSE

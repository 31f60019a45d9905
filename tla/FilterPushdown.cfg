SPECIFICATION Spec
CONSTANTS
  HalfWord = 16
  kChunkDigits = 2
  kMaxPairs = 3
  kMaxKeep = 6
  kMicrosPerSecond = 2
  SecondsPerMinute = 2
  MinutesPerHour = 2
  HoursPerDay = 2
  MaxPrecision = 4
  SmallDigits = 1
  SmallMax = 15
  kMaxInList = 2
  MaxPasses = 2
  Null = Null
  OutOfRange = OutOfRange
  Infinite = Infinite
  NoFilter = NoFilter
  Cases <- MCCases
INVARIANTS
  SameRows
  ReadIsExact
  LoadedIsRead
CHECK_DEADLOCK FALSE

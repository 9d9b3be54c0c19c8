SPECIFICATION Spec
CONSTANTS
  NULL = NULL
  kTimeSlots = 3
  Readers = {r1, r2}
  MaxLag = 1
  Ticking = TRUE
  Logger = logger
  Dier = r1
  Levels <- LevelsOf
  MaxLines <- LinesOf
  LogPeriod = 1
  FlushPeriod = 2
  MaxFails = 1
INVARIANTS StampWhole FileIsLog AbortLosesNothing
PROPERTIES EventuallyOnDisk
CHECK_DEADLOCK FALSE

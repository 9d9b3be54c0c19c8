SPECIFICATION FairSpec
CONSTANTS
  NULL = NULL
  MaxTimers = 3
  MaxClock = 3
  Delays = {0, 1, 2}
  Default = 5
  Ticking = FALSE
CHECK_DEADLOCK FALSE
PROPERTY EventuallyFires

SPECIFICATION FairSpec
CONSTANTS
  NULL = NULL
  MaxTimers = 3
  MaxClock = 3
  Delays = {0, 1, 2}
  Default = 5
  Ticking = TRUE
CHECK_DEADLOCK FALSE
INVARIANT MapsAgree
PROPERTIES FiredInOrder NoneOverdue NoneAfterEnd EventuallyFires

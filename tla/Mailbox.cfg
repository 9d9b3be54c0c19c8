SPECIFICATION FairSpec
CONSTANTS
  NULL = NULL
  Senders = {s1, s2, s3}
  MaxSend = 2
  Dummies = {0, 1, 2}
CHECK_DEADLOCK FALSE
INVARIANTS TypeOK StoreUnraced NoStaleMessage OneSignal NoLostWakeup
PROPERTIES FifoSafe FifoLive

SPECIFICATION FairSpec
CONSTANTS
  c1 = c1
  c2 = c2
  c3 = c3
  c4 = c4
  Calls = {c1, c2, c3, c4}
  SessionCalls = {d1}
  Kind <- Mixed
  Faults = TRUE
  Outside = {c2, c4}
CHECK_DEADLOCK FALSE
INVARIANTS IInv Accounted InCallOrder
PROPERTIES PromiseKept EventuallyAnswered

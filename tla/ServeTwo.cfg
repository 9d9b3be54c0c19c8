SPECIFICATION FairSpec
CONSTANTS
  NULL = NULL
  l1 = l1  l2 = l2  s1 = s1  s2 = s2
  Listeners = {l1, l2}
  Services = {s1, s2}
  EndpointOf <- TwoEndpoints
  Conns = {k1, k2}
  Dialers = {d1, d2}
  Main = main
  NWorkers = 2
CHECK_DEADLOCK FALSE
PROPERTY BoundEventually

SPECIFICATION FairSpec
CONSTANTS
  NULL = NULL
  Servers = {s1, s2}
  Clients = {c1}
  Busy = s1
  MaxIn <- Input
  MaxOut <- Units
  MaxOpen = 2
  Room = 1
  Faults = {"fin", "rst"}
  StaleErrno = {"ok", "again", "error"}
CHECK_DEADLOCK FALSE
INVARIANTS WritableMeansData NoLostInput NoLostOutput
PROPERTIES NotDispatchedClosed EventuallySent EventuallyRead

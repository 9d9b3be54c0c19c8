SPECIFICATION Spec
CONSTANTS
  NULL = NULL
  Servers = {}
  Clients = {c1}
  Busy = c1
  MaxIn <- Units
  MaxOut <- Units
  MaxOpen = 1
  Room = 1
  Faults = {"fin", "rst"}
  StaleErrno = {"again"}
CHECK_DEADLOCK FALSE
INVARIANT ClientOutput

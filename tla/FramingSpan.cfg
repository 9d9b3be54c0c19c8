SPECIFICATION Spec
CONSTANTS
  NULL = NULL
  Grow = 3
  MaxBuffers = 12
  Lists <- MCLists
  BufferSize = 3
  Meta = 2
  Sizes = {0, 1, 3}
  MaxPackets = 3
CHECK_DEADLOCK FALSE
INVARIANT SentAsWritten

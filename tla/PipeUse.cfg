SPECIFICATION Spec
CONSTANTS
  NULL = NULL
  MaxWrite = 6
  N = 2
  MaxChunks = 8
  NoChunk = NoChunk
CHECK_DEADLOCK FALSE
INVARIANTS WholeItems NoTakeBack WakeOwed CellsInPlace ChunksOwned
PROPERTY FlushedIsRead

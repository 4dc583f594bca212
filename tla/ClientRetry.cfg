CONSTANTS
  b = b
  Conn = {b}
  PoolSize = 2
  PoolMax = 4
  ChunkSize = 3125
  MaxChunks = 1
  MaxQueued = 2
SPECIFICATION Spec
INVARIANT RefusedIsRetried
CHECK_DEADLOCK FALSE

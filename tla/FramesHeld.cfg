CONSTANTS
  c1 = c1
  c2 = c2
  Conn = {c1, c2}
  PoolSize = 1
  PoolMax = 2
  ChunkSize = 10
  MaxChunks = 2
  CliRaces = FALSE
SPECIFICATION Spec
INVARIANTS TypeOK FramesHaveOneHolder OwedIsPicked
PROPERTIES OnlyHalfReadFramesAreLost OrdersGetOut FullPoolGetsRoom
CHECK_DEADLOCK FALSE

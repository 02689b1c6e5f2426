SPECIFICATION Spec
CONSTANTS
  MAX_RETR = 2
  MaxConns = 2
  MaxIdle = 1
  MaxDgrams = 3
  MaxTorn = 1
  MaxTime = 3
  NSlots = 1
  ChunkMax = 3
INVARIANTS AsIs
CHECK_DEADLOCK FALSE

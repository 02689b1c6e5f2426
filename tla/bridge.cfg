SPECIFICATION LiveSpec
CONSTANTS
  MAX_RETR = 2
  MaxConns = 3
  MaxIdle = 1
  MaxDgrams = 2
  MaxTorn = 1
  MaxTime = 2
  NSlots = 2
  ChunkMax = 2
INVARIANTS TypeOK OneWatchedConn SlotsHoldOpen NoDoubles OneTryASecond AsIsOverUDP PipeInOrder
PROPERTIES DeadConnDropped
CHECK_DEADLOCK FALSE

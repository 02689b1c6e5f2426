SPECIFICATION LiveSpec
CONSTANTS
  a = a
  b = b
  Foreign = Foreign
  Sock = {a, b}
  Pubs = {a}
  Pingers = {a, b}
  Subs = {a, b}
  Svcs = {1}
  LenMod = 2
  Cap = 5
  PnoMod = 3
  PingLen = 1
  DLens = {1}
  Calls = {"flush", "ping", "chck"}
  Faults = {}
  QMax = 2
  MaxMsgs = 1
  MaxPings = 1
  MaxEnv = 0
INVARIANTS NoUnsolicitedPong EveryPingAnswered NoPackLost
PROPERTIES QueuedIsDelivered PingsSettle
CHECK_DEADLOCK FALSE

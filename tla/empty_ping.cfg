SPECIFICATION Spec
CONSTANTS
  a = a
  b = b
  Foreign = Foreign
  Sock = {a, b}
  Pubs = {a}
  Pingers = {a}
  Subs = {b}
  Svcs = {1, 2}
  LenMod = 2
  Cap = 5
  PnoMod = 3
  PingLen = 1
  DLens = {0, 1}
  Calls = {"flush", "chck"}
  Faults = {"foreign"}
  QMax = 2
  MaxMsgs = 3
  MaxPings = 0
  MaxEnv = 1
INVARIANTS EveryPingAnswered
CHECK_DEADLOCK FALSE

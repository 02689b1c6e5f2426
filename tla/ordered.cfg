SPECIFICATION Spec
CONSTANTS
  a = a
  b = b
  Foreign = Foreign
  Sock = {a, b}
  Pubs = {a}
  Pingers = {a}
  Subs = {b}
  Svcs = {1, 2}
  LenMod = 2
  Cap = 5
  PnoMod = 3
  PingLen = 1
  DLens = {1}
  Calls = {"flush", "chck", "ping"}
  Faults = {"lose", "fail"}
  QMax = 2
  MaxMsgs = 4
  MaxPings = 1
  MaxEnv = 1
INVARIANTS GapFree
PROPERTIES ImplementsPubSub
CHECK_DEADLOCK FALSE

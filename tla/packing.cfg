SPECIFICATION Spec
CONSTANTS
  a = a
  b = b
  Foreign = Foreign
  Sock = {a, b}
  Pubs = {a}
  Pingers = {a}
  Subs = {b}
  Svcs = {1, 2}
  LenMod = 2
  Cap = 5
  PnoMod = 3
  PingLen = 1
  DLens = {0, 1}
  Calls = {"flush", "ping", "chck", "dscrd"}
  Faults = {"lose", "dup", "reorder", "fail", "foreign"}
  QMax = 2
  MaxMsgs = 2
  MaxPings = 1
  MaxEnv = 1
INVARIANTS TypeOK FramingAgrees Integrity NoPackLost NoUnsolicitedPong
CHECK_DEADLOCK FALSE
PROPERTIES ImplementsReader

SPECIFICATION LiveSpec
CONSTANTS
  ChnSize = 1
  NPages = 2
  d = d
  e = e
  Decoder = {d, e}
  Null = Null
  Ping = 2
  MonDecPing = d
  Texts = {2, 3}
  Arriving = {0, 2}
  Bodies <- MCBodies
  QMax = 2
  MaxDgrams = 3
INVARIANTS PrintsWhatCame RightDecoder
PROPERTIES ImplementsRegistry QueuedIsPrinted
CHECK_DEADLOCK FALSE

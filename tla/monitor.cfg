SPECIFICATION Spec
CONSTANTS
  Chans = 3
  Period = 4
  MaxTime = 16
INVARIANTS DetachesAll Reminded
PROPERTIES ReportsApart
CHECK_DEADLOCK FALSE

SPECIFICATION Spec
CONSTANTS
  MaxOpens = 3
  MaxFiles = 3
  MaxMsgs = 4
INVARIANTS OneStream ClosedAtExit RotatesFilesOnly
CHECK_DEADLOCK FALSE

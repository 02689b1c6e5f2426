SPECIFICATION Spec
CONSTANTS
  MaxOpens = 3
  MaxFiles = 3
  MaxMsgs = 4
PROPERTIES ReopensFile
CHECK_DEADLOCK FALSE

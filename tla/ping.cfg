SPECIFICATION LiveSpec
CONSTANTS
  Hosts = {1, 58}
  Self = 1
  Count = 2
  MaxQueue = 3
  MaxOthers = 1
INVARIANTS ExactCount AnswersShown NamesWhole
PROPERTIES PongsShown Stops
CHECK_DEADLOCK FALSE

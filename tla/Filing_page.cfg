SPECIFICATION Spec
CONSTANTS
  Tables = 1
  RoundBound = 1
  DayBound = 0
  GameBound = 1
  RestartBound = 0
  Faults = {}
INVARIANTS PageFindsGame
CHECK_DEADLOCK FALSE

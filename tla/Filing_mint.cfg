SPECIFICATION Spec
CONSTANTS
  Tables = 1
  RoundBound = 2
  DayBound = 0
  GameBound = 2
  RestartBound = 1
  Faults = {"crash"}
PROPERTIES MintsNothingOnDisk
CHECK_DEADLOCK FALSE

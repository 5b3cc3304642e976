SPECIFICATION FairSpec
CONSTANTS
  Tables = 1
  RoundBound = 2
  DayBound = 0
  GameBound = 2
  RestartBound = 1
  Faults = {"files", "database"}
PROPERTIES LinesGoOut
CHECK_DEADLOCK FALSE

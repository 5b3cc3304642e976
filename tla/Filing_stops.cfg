SPECIFICATION FairSpec
CONSTANTS
  Tables = 1
  RoundBound = 2
  DayBound = 1
  GameBound = 2
  RestartBound = 1
  Faults = {"crash", "power"}
INVARIANTS ToldIsOnDisk IdentifierIsUnique RowReturns
PROPERTIES FiledIsKept GameIsFiled
CHECK_DEADLOCK FALSE

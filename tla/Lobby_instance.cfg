SPECIFICATION Spec
CONSTANTS
  x = x
  Externals = {x}
  Kinds <- OneResident
  Ratings <- NoRating
  Unrated = 3000
  Interval = 2
  IdleDelay = 1
  CloseRounds = FALSE
  Revocable = {}
  HandRun = {}
  Leavers = {}
  Crashing = {}
  LongGames = FALSE
  RequestCapacity = 1
  PerToken = 1
  Names = {1,2}
INVARIANTS OneInstance
CHECK_DEADLOCK FALSE

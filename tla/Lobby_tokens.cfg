SPECIFICATION Spec
CONSTANTS
  x = x
  Externals = {x}
  Kinds <- OneResident
  Ratings <- NoRating
  Unrated = 3000
  Interval = 1
  IdleDelay = 1
  CloseRounds = FALSE
  Revocable = {x,1}
  HandRun = {}
  Leavers = {x}
  Crashing = {1}
  LongGames = TRUE
  RequestCapacity = 1
  PerToken = 2
  Names = {1,2}
INVARIANTS RegistryAgrees PoolIsWaiting
PROPERTIES SessionsAreProtected
CHECK_DEADLOCK FALSE

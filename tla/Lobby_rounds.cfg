SPECIFICATION FairSpec
CONSTANTS
  x = x
  Externals = {x}
  Kinds <- TwoAndHand
  Ratings <- NoRating
  Unrated = 3000
  Interval = 2
  IdleDelay = 1
  CloseRounds = FALSE
  Revocable = {}
  HandRun = {3}
  Leavers = {}
  Crashing = {}
  LongGames = FALSE
  RequestCapacity = 1
  PerToken = 1
  Names = {1,2}
INVARIANTS CapHolds OnDemandIsSingle
PROPERTY LeftoverPlays
CHECK_DEADLOCK FALSE

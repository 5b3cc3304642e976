SPECIFICATION Spec
CONSTANTS
  Pools <- AllPools
  Spares = {0, 1, 2}
  Unrated = 1200
PROPERTY FollowsTheRules
CHECK_DEADLOCK FALSE

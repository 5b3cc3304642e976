SPECIFICATION FairSpec
CONSTANTS
  CountMax = 20
  Configs <- TimeSettings
  Authored = {0, 1}
  MaxMoves = 3
  SideLines <- AllLines
  ElapsedBound = 6
  PlyBound = 7
  LineBound = 2
INVARIANTS ClientsAgree DeadlineIsExact NoEarlyFlag StartAllowances
PROPERTIES SilenceIsFlagged
CHECK_DEADLOCK FALSE

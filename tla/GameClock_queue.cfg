SPECIFICATION Spec
CONSTANTS
  CountMax = 20
  Configs <- TimeSettings
  Authored = {0}
  MaxMoves = 3
  SideLines <- Moves
  ElapsedBound = 6
  PlyBound = 7
  LineBound = 2
PROPERTIES QueuedMoveIsInTime
CHECK_DEADLOCK FALSE

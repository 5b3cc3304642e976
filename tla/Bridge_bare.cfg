SPECIFICATION Spec
CONSTANTS
  Games = 1
  Plies = 2
  MayAnswerBare = TRUE
  MayFail = FALSE
PROPERTY NoMoveBreaksOff
CHECK_DEADLOCK FALSE

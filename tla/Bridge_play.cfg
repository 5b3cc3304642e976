SPECIFICATION FairSpec
CONSTANTS
  Games = 3
  Plies = 2
  MayAnswerBare = FALSE
  MayFail = TRUE
INVARIANTS EveryGoIsOwed MovesAreCurrent
PROPERTIES TurnIsTaken
CHECK_DEADLOCK FALSE

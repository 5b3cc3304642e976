SPECIFICATION Spec
CONSTANT Games <- MCGames
CHECK_DEADLOCK FALSE
INVARIANTS MostIsNotAll

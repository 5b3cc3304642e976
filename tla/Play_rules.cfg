SPECIFICATION Spec
CONSTANT Games <- MCGames
CHECK_DEADLOCK FALSE
INVARIANTS OnlyMatesAreRefused VerdictIsTheLine OneDeclarer

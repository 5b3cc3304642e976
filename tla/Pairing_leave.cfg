SPECIFICATION Spec
CONSTANTS
  OutboundCapacity = 1
  MessageCapacity = 1
  ControlCapacity = 16
  WireBound = 1
  GameBound = 1
  ClientCommands <- Leaving
  Repeats = FALSE
  Timed = TRUE
  PresetGame = FALSE
  Leavers = {}
  Replaced = {}
  Faults = {"game"}
INVARIANTS OneClaim DisconnectIsTrue
CHECK_DEADLOCK FALSE

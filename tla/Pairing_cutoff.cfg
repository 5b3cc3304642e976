SPECIFICATION Spec
CONSTANTS
  OutboundCapacity = 1
  MessageCapacity = 1
  ControlCapacity = 16
  WireBound = 1
  GameBound = 1
  ClientCommands <- Agreeing
  Repeats = FALSE
  Timed = FALSE
  PresetGame = FALSE
  Leavers = {}
  Replaced = {}
  Faults = {"game"}
INVARIANTS WaitingInPool
CHECK_DEADLOCK FALSE

SPECIFICATION Spec
CONSTANTS
  OutboundCapacity = 1
  MessageCapacity = 1
  ControlCapacity = 16
  WireBound = 1
  GameBound = 1
  ClientCommands <- Moving
  Repeats = FALSE
  Timed = FALSE
  PresetGame = FALSE
  Leavers = {"white"}
  Replaced = {}
  Faults = {}
PROPERTIES DiscardAnswerDiscards
CHECK_DEADLOCK FALSE

SPECIFICATION Spec
CONSTANTS
  OutboundCapacity = 1
  MessageCapacity = 1
  ControlCapacity = 16
  WireBound = 1
  GameBound = 2
  ClientCommands <- Playing
  Repeats = FALSE
  Timed = TRUE
  PresetGame = FALSE
  Leavers = {}
  Replaced = {"black"}
  Faults = {"session"}
INVARIANTS OneTaskAtATime WaitingInPool PlaysWhatBothAgreedTo PromptsInOrder NoEdgeDropped
PROPERTIES PromptedLineIsRouted
CHECK_DEADLOCK FALSE

SPECIFICATION FairSpec
CONSTANTS
  OutboundCapacity = 1
  MessageCapacity = 1
  ControlCapacity = 16
  WireBound = 1
  GameBound = 1
  ClientCommands <- Ending
  Repeats = FALSE
  Timed = TRUE
  PresetGame = TRUE
  Leavers = {"white"}
  Replaced = {}
  Faults = {}
PROPERTIES OfferIsResolved SeatIsReturned ClosedSocketLeaves AbortFreesTheSlot
CHECK_DEADLOCK FALSE

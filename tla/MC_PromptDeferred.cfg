SPECIFICATION WatchSpec
CONSTANTS
  MaxPrompts = 2
  MaxCompactions = 2
  LateSteers = FALSE
  SystemTurns <- Others
PROPERTIES
  DeferredIsReplayed
CHECK_DEADLOCK FALSE

SPECIFICATION FairSpec
CONSTANTS
  MaxPrompts = 3
  MaxCompactions = 2
  LateSteers = FALSE
  SystemTurns <- Others
INVARIANTS
  NobodyLost
  OneTurnAtATime
PROPERTIES
  InOrder
  OutcomeIsFinal
  EveryPromptSettles
CHECK_DEADLOCK FALSE

SPECIFICATION Spec
CONSTANTS
  MaxRequests = 3
  MaxSteps = 2
  MaxAttempts = 2
  MaxCrashes = 0
  Outside = {"dispose"}
INVARIANTS
  TypeOK
  TurnsRunInOrder
  PendingIsQueuedOnce
  NoStepForWithdrawn
  EndedTurnHasNoLiveSteps
  ToolResultsConsumed
PROPERTIES
  NoStepAfterCancel
CHECK_DEADLOCK FALSE

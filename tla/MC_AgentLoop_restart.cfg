SPECIFICATION Spec
CONSTANTS
  MaxRequests = 3
  MaxSteps = 1
  MaxAttempts = 1
  MaxCrashes = 1
  Outside = {}
PROPERTIES
  TurnIdsFresh
CHECK_DEADLOCK FALSE

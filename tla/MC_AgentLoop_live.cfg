SPECIFICATION FairSpec
CONSTANTS
  MaxRequests = 2
  MaxSteps = 3
  MaxAttempts = 2
  MaxCrashes = 0
  Outside = {"settled"}
PROPERTIES
  TurnsEnd
  SettledResolves
CHECK_DEADLOCK FALSE

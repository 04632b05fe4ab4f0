SPECIFICATION FairSpec
CONSTANTS
  Tasks <- MCTasks
  MaxConcurrency = 2
  LaunchLimit = 2
  LaunchInterval = 1
  RetryBase = 1
  ShrinkInterval = 1
  RecoverInterval = 2
  MaxRateLimits = 2
INVARIANTS
  TasksAccountedFor
PROPERTIES
  LaunchesArePaced
  ReturnedIsFinal
  BatchEnds
CHECK_DEADLOCK FALSE

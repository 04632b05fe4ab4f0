SPECIFICATION FairSpec
CONSTANTS
  N = 3
  Segment <- MCSegment
  Fold <- MCFold
  Files <- MCFiles
  AccessLists <- MCAccessLists
INVARIANTS
  TypeOK
  NoConflictingBodies
  ProviderOrder
  WaitsOnlyForClashes
  NothingRunsAfterStop
  EndsQuiet
PROPERTIES
  AbortEndsBatch
CHECK_DEADLOCK FALSE

SPECIFICATION Spec
CONSTANTS
  k1 = k1
  k2 = k2
  Keys <- TwoKeys
  MaxCalls = 3
  Writes <- Shapes
  Databases <- AllDatabases
  MaxCompactions = 1
  MaxFailedCompactions = 1
  MaxFailedBatches = 0
  MaxCrashes = 1
INVARIANTS
  TypeOK
  MemoryIsLog
  NothingAppendedUnopened
PROPERTIES
  KeepsPromise
CHECK_DEADLOCK FALSE

SPECIFICATION FairSpec
CONSTANTS
  k1 = k1
  k2 = k2
  Keys <- TwoKeys
  MaxCalls = 3
  Writes <- Batches
  Databases <- Serialised
  MaxCompactions = 1
  MaxFailedCompactions = 1
  MaxFailedBatches = 1
  MaxCrashes = 0

  
PROPERTIES
  CallsSettle
CHECK_DEADLOCK FALSE

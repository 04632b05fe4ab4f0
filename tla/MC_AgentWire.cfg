SPECIFICATION FairSpec
CONSTANTS
  Records <- MCRecords
  MaxAgents = 2
  MaxCrashes = 1
  MaxFailures = 1
  Overlap = FALSE
  BlobsFail = TRUE

  
  
PROPERTIES
  FlushesEnd
CHECK_DEADLOCK FALSE

SPECIFICATION FairSpec
CONSTANTS
  MaxRecords = 3
  MaxRewrites = 2
  MaxBuffers = 2
  MaxCrashes = 1
  Callers = {c1}
  RewriteEarly = FALSE
  Faults = {"append", "write"}
INVARIANTS
  TypeOK
  NobodyForgotten
  
PROPERTIES
  
  FlushesSettle
CHECK_DEADLOCK FALSE

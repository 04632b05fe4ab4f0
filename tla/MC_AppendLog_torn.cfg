SPECIFICATION Spec
CONSTANTS
  MaxRecords = 3
  MaxRewrites = 1
  MaxBuffers = 2
  MaxCrashes = 1
  Callers = {c1}
  RewriteEarly = FALSE
  Faults = {"append", "write", "torn"}
INVARIANTS
  AlwaysReadable
CHECK_DEADLOCK FALSE

SPECIFICATION FairSpec
CONSTANTS
  MaxCrashes = 1
  MaxFailures = 0
  CrashInWrite = TRUE
PROPERTIES
  OperationSettles
CHECK_DEADLOCK FALSE

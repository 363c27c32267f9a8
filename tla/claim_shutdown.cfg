CONSTANTS
  MaxRetries = 1
  Faults = {"tasks"}
SPECIFICATION FairSpec
PROPERTIES ShutdownCompletes
CHECK_DEADLOCK FALSE

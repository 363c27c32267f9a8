CONSTANTS
  MaxRetries = 2
  Faults = {"splash"}
SPECIFICATION FairSpec
PROPERTIES AttemptResolves IgnitionHandled
CHECK_DEADLOCK FALSE

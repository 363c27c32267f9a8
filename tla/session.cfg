CONSTANTS
  PollInterval = 2
  ProbeTime = 1
  ReachTime = 3
SPECIFICATION FairSpec
INVARIANTS TypeOK EndsForCause
PROPERTIES GoneIsNoticed
CHECK_DEADLOCK FALSE

CONSTANTS
  Phones = {1}
  None = None
  MaxRecords = 1
  Second = 2
  Interval = 2
  MaxTime = 8
  MaxFaults = 0
SPECIFICATION Spec
INVARIANTS AtMostStale
CHECK_DEADLOCK FALSE

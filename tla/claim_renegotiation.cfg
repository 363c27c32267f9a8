CONSTANTS
  MaxRetries = 1
  Faults = {}
SPECIFICATION Spec
PROPERTIES RenegotiationIgnored
CHECK_DEADLOCK FALSE

CONSTANTS
  Phones = {1, 2, 3}
  None = None
  MaxRecords = 2
  Second = 2
  Interval = 2
  MaxTime = 8
  MaxFaults = 1
SPECIFICATION Spec
INVARIANTS TypeOK NoRecordAhead
PROPERTIES FreshAfterSave RemembersLatest
CHECK_DEADLOCK FALSE

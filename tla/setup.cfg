CONSTANTS
  Speakers = {a, b}
  None = None
  MaxLines = 4
  MaxFaults = 2
SPECIFICATION FairSpec
INVARIANTS TypeOK NeverStuck ToldIsSaved
PROPERTIES SetupKept BackReturns
CHECK_DEADLOCK FALSE

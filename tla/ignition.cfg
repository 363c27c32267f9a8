CONSTANTS
  Debounce = 3
  MaxToggles = 6
  MaxRestarts = 1
SPECIFICATION GpioFairSpec
INVARIANTS GpioTypeOK NoEdgeLost
PROPERTIES SteadyLowConfirmed NoCycling WarmIsCooled
CHECK_DEADLOCK FALSE

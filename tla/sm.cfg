CONSTANTS
  MaxRetries = 3
  Faults = {"splash", "bluez", "tasks", "raise"}
SPECIFICATION Spec
INVARIANTS TypeOK DisplayHandedOver IdleIsClean SessionIsComplete BackgroundWorkContained EndsClean
PROPERTIES KeepsLifecycle IgnitionWins SessionAdvances
CHECK_DEADLOCK FALSE

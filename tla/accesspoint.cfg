CONSTANT Standalone = TRUE
SPECIFICATION Spec
INVARIANTS TypeOK IdleIsDark ClientEvident
PROPERTIES ForeignAddressKept
CHECK_DEADLOCK FALSE

CONSTANT MaxFailures = 3
SPECIFICATION Spec
INVARIANTS TypeOK FlagsAreTrue DiscoverableInIdle

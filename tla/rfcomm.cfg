CONSTANTS
  MaxRetries = 3
  MaxConns = 4
SPECIFICATION FairSpec
INVARIANTS TypeOK OwnedOnce CredentialsToPhone
PROPERTIES DeliversInOrder ConnectionServed
CHECK_DEADLOCK FALSE

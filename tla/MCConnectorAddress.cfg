CONSTANTS
  Lookups <- MCLookups
  Stagger = 2
  ConnectTimeout = 3
  Backoff = 1
  BackoffMax = 2
  MaxOpen = 3
SPECIFICATION ConnectorSpec
INVARIANT AttemptsHaveAddress
CHECK_DEADLOCK FALSE

CONSTANTS
  Lookups <- MCLookups
  Stagger = 1
  ConnectTimeout = 1
  Backoff = 1
  BackoffMax = 2
  MaxOpen = 2
  Interval = 6
  PollDelay = 1
  WriteDelay = 7
  ReplyDelay = 0
  MaxPublishes = 1
SPECIFICATION Spec
INVARIANT HealthyIsKept
CHECK_DEADLOCK FALSE

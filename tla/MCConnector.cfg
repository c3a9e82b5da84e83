CONSTANTS
  Lookups <- MCLookups
  Stagger = 2
  ConnectTimeout = 3
  Backoff = 1
  BackoffMax = 2
  MaxOpen = 3
SPECIFICATION ConnectorLiveSpec
INVARIANTS
  ConnectorTypeOK
  DescriptorsOwned
  AddressesAlive
  AdoptedIsConnected
  ReachableIsFound
  AddressOrder
PROPERTY RoundEnds
CHECK_DEADLOCK FALSE

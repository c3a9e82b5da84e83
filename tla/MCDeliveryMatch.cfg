CONSTANTS
  a = a
  b = b
  m = m
  Plus = Plus
  Hash = Hash
  Empty = Empty
  ProtocolName = ProtocolName
  ByteRange = 4
  AnnouncedKeepAlive = 6
  Filters <- MCFilters
  Messages <- MCMessages
  Wills <- MCWills
  ClientId <- MCClientId
  Characters <- MCCharacters
  MaxCallbacks = 2
  MaxPending = 2
SPECIFICATION Spec
PROPERTY OnlyMatchingAreCalled

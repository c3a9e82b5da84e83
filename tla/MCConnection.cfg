CONSTANTS
  SendQueueSize = 0
  PublishQueueSize = 1
  MaxTopics = 1
  MaxPings = 1
  MaxCalls = 3
SPECIFICATION FairSpec
INVARIANTS
  TypeOK
  Lifecycle
  ConnectingIsReported
  FreshQueue
  OneConnectQueued
  BacklogDrained
  NoLostPacket
  DataBounded
PROPERTIES
  NoResurrection
  ImplementsLifecycle
  QueueServed
  Reconnects
CHECK_DEADLOCK FALSE

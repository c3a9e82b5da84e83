CONSTANTS
  SendQueueSize = 0
  PublishQueueSize = 1
  MaxTopics = 1
  MaxPings = 1
  MaxCalls = 2
SPECIFICATION Spec
INVARIANT ReconnectingIsNotConnected
CHECK_DEADLOCK FALSE

CONSTANTS
  SendQueueSize = 0
  PublishQueueSize = 1
  MaxTopics = 1
  MaxPings = 1
  MaxCalls = 2
SPECIFICATION FairSpec
PROPERTY DisconnectReturns
CHECK_DEADLOCK FALSE

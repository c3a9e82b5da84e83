CONSTANTS
  SendQueueSize = 0
  PublishQueueSize = 1
  MaxTopics = 1
  MaxPings = 1
  MaxCalls = 2
SPECIFICATION Spec
INVARIANT RestoreSurvives
CHECK_DEADLOCK FALSE

CONSTANTS
  Topics = {a, b}
  PublishQueueSizes = {0, 1, 2}
  SendQueueSizes = {0, 1}
  IdRange = 4
  MaxMessages = 4
SPECIFICATION Spec
INVARIANT UnsubscribeIsDefined
CHECK_DEADLOCK FALSE

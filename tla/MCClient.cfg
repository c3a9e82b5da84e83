CONSTANTS
  Topics = {a, b}
  PublishQueueSizes = {0, 1, 2}
  SendQueueSizes = {0, 1}
  IdRange = 4
  MaxMessages = 4
SPECIFICATION Spec
INVARIANTS
  TypeOK
  PublishOrder
  QueueDiscipline
  SubscriptionSync
  NoOrphanCallback
  PacketIdsDistinct
CHECK_DEADLOCK FALSE

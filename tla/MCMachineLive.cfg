SPECIFICATION FairSpec
CONSTANTS
  Irqs = {4, 6}
  BufferSize = 2
  MaxLen = 2
  HostBytes = 3
  QueueWords = 3
  MaxPosts = 2
  MaxResets = 1
CHECK_DEADLOCK FALSE
PROPERTIES
  StreamDelivered
  EventsServed

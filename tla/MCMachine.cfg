SPECIFICATION Spec
CONSTANTS
  Irqs = {4, 6}
  BufferSize = 2
  MaxLen = 2
  HostBytes = 3
  QueueWords = 6
  MaxPosts = 4
  MaxResets = 2
CHECK_DEADLOCK FALSE
INVARIANTS
  SnapshotHonest
  BytesNotStranded
  OnlyEarlyEventsStranded
  FramedUnlessTorn

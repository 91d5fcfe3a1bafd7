SPECIFICATION FairSpec
CONSTANTS
  MaxDevs = 32
  Halves = {0, 1}
  NoName = NoName
INVARIANTS
  FoundInOrder
  InterruptMeansDevice
PROPERTIES
  DevicesFound

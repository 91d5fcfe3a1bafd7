SPECIFICATION TtySpec
CONSTANTS
  BufferSize = 3
  HostBytes = 7
  MaxLen = 4
INVARIANTS
  NoReceiveOverrun
  StreamInOrder
  BytesReadyIsLowerBound
  NoLostWakeup
PROPERTIES
  ImplementsIrqFifo

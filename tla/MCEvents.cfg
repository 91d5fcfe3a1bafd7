SPECIFICATION KeysSpec
CONSTANTS
  QueueWords = 6
  Width = 320
  Height = 1
  Qcodes = {"END", "F4"}
  AbsValues <- MCAbsValues
INVARIANTS
  WholeEvents
  AdvertisedOnly
  KeysFollow
PROPERTIES
  ImplementsIrqFifo

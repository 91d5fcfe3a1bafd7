SPECIFICATION FairSpec
CONSTANTS
  Half = 2
  Bytes = {0, 1}
  BufferSize = 2
  MaxLen = 5
  MaxOut = 5
PROPERTIES
  ImplementsTransfer
  CommandsEnd

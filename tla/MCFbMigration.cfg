SPECIFICATION Spec
CONSTANTS
  Buffers = {b1, b2}
  b1 = b1
  b2 = b2
  MaxFrames = 1
  MaxResets = 0
  Period = 2
PROPERTIES
  MigrationKeepsVsync

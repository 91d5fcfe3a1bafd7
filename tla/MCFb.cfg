SPECIFICATION FairSpec
CONSTANTS
  Buffers = {b1, b2}
  b1 = b1
  b2 = b2
  MaxFrames = 3
  MaxResets = 1
  Period = 2
INVARIANTS
  NoTearing
  FlipIsShown
  VsyncTimerRuns
PROPERTIES
  FlipCompletes
  VsyncComes

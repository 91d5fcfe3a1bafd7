SPECIFICATION PicSpec
CONSTANTS
  Irqs = {i1, i2, i3}
  i1 = i1
  i2 = i2
  i3 = i3
INVARIANTS
  NoLostInterrupt
  NoSpuriousInterrupt
PROPERTIES
  MaskingKeepsPending

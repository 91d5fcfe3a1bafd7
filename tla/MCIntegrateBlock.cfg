SPECIFICATION Spec
CONSTANTS
  Manifest <- MCManifest
  DefaultBoard <- MCDefaultBoard
  ExtraSelects <- MCExtraSelects
  Trees <- MCTrees
  Forced <- MCForced
  NoVersion <- MCNoVersion
  MaxEdits = 2
  MaxKills = 0
INVARIANTS
  AggregatorSelectsAll

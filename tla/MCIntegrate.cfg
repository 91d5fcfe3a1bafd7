SPECIFICATION FairSpec
CONSTANTS
  Manifest <- MCManifest
  DefaultBoard <- MCDefaultBoard
  ExtraSelects <- MCExtraSelects
  Trees <- MCTrees
  Forced <- MCForced
  NoVersion <- MCNoVersion
  MaxEdits = 2
  MaxKills = 1
INVARIANTS
  EachLineOnce
  NothingDangling
  FinishedIsComplete
  RightApis
PROPERTIES
  Idempotent
  Converges

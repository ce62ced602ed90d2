CONSTANTS
  None = None
  Genesis = 0
  Blocks <- MCBlocks
  parent <- SmallTree
  Parent <- SmallTree
  height <- MCheight
  anc <- MCanc
  rank <- MCrank
  Post <- MCPost
  Applies <- MCApplies
  Authorizes <- MCAuthorizes
  Carries = {1, 2, 3}
  Invalid = {4}
  Registers = {1}
  NewValidators = {3}
  Emits = {}
  BadLogs = {}
  Own = {5}
  Engines = {TRUE}
  Listed <- MCBlocks
  Anchor <- NoAnchor
  FinalityDepth = 1
  GenesisConfig = TRUE
  SyncTips = {}
  Unsigned = {}
  Snapshots <- NoSnapshots
  MaxCrashes = 2
SPECIFICATION Spec
INVARIANTS
  BaseIsTrueState
PROPERTIES
  FinalityNeverMovesBack
CHECK_DEADLOCK FALSE

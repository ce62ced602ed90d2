CONSTANTS
  None = None
  Genesis = 0
  Blocks <- MCBlocks
  parent <- ForkTree
  Parent <- ForkTree
  height <- MCheight
  anc <- MCanc
  rank <- MCrank
  Post <- MCPost
  Applies <- MCApplies
  Authorizes <- MCAuthorizes
  Carries = {1, 2, 3, 4, 7}
  Invalid = {1, 4}
  Registers = {}
  NewValidators = {}
  Emits = {}
  BadLogs = {}
  Own = {}
  Engines = {TRUE}
  Listed <- MCBlocks
  Anchor <- NoAnchor
  FinalityDepth = 0
  GenesisConfig = TRUE
  SyncTips = {}
  Unsigned = {}
  Snapshots <- NoSnapshots
  MaxCrashes = 0
SPECIFICATION Spec
INVARIANTS
  StateMatchesHead
CHECK_DEADLOCK FALSE

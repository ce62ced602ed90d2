CONSTANTS
  None = None
  Genesis = 0
  Blocks <- MCBlocks
  parent <- ForkTree
  Parent <- ForkTree
  height <- MCheight
  anc <- MCanc
  rank <- MCrank
  Post <- MCPost
  Applies <- MCApplies
  Authorizes <- MCAuthorizes
  Carries = {1, 2, 3, 4, 7}
  Invalid = {}
  Registers = {}
  NewValidators = {}
  Emits = {}
  BadLogs = {}
  Own = {}
  Engines = {TRUE}
  Listed <- MCBlocks
  Anchor <- NoAnchor
  FinalityDepth = 1
  GenesisConfig = TRUE
  SyncTips = {5, 6}
  Unsigned = {}
  Snapshots <- SameSnapshot
  MaxCrashes = 0
SPECIFICATION FairSpec
INVARIANTS
  StateMatchesHead
  HeadKeepsFinalized
PROPERTIES
  JoinerCatchesUp
CHECK_DEADLOCK FALSE

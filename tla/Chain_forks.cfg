CONSTANTS
  None = None
  Genesis = 0
  Blocks <- MCBlocks
  parent <- ForkTree
  Parent <- ForkTree
  height <- MCheight
  anc <- MCanc
  rank <- MCrank
  Post <- MCPost
  Applies <- MCApplies
  Authorizes <- MCAuthorizes
  Carries = {1, 2, 3, 4, 7}
  Invalid = {}
  Registers = {}
  NewValidators = {}
  Emits = {1, 3, 4, 5}
  BadLogs = {}
  Own = {3, 6, 8}
  Engines = {TRUE, FALSE}
  Listed <- MCBlocks
  Anchor <- GenesisAnchor
  FinalityDepth = 2
  GenesisConfig = TRUE
  SyncTips = {}
  Unsigned = {}
  Snapshots <- NoSnapshots
  MaxCrashes = 0
SPECIFICATION Spec
INVARIANTS
  StateMatchesHead
  HeadIsHeaviest
  HeadersAreCanonical
  LogsReadable
PROPERTIES
  NeverShorter
CHECK_DEADLOCK FALSE

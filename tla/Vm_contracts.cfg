CONSTANTS
  Contracts <- MCContracts
  Code <- MCCode
  Balance <- MCBalance
  Requests <- PassCalls
  Word = 512
  WordBytes = 2
  MaxStack = 5
  MaxSteps = 300
  MaxDepth = 2
  MaxTopics = 4
  QueryGas = 3000
  MaxCalls = 2
  BitAnd <- MCAnd
  BitOr <- MCOr
  Mix <- MCMix
  Digest <- MCDigest
  Programs <- MCPrograms
  AmpleGas = 3000
  localBase = 500
  stateBase = 400
  Selector <- MCSelector
SPECIFICATION FairSpec
INVARIANTS
  GasBounded
  
  JumpsLand
  

  
CHECK_DEADLOCK FALSE

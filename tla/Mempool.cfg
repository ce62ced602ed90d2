CONSTANTS
  a = a
  b = b
  Txs <- MCTxs
  Funds <- MCFunds
  Foreign <- MCForeign
  MaxRequests = 2
  limit = 3
  MaxReap = 2
  MaxReorgs = 1
SPECIFICATION FairSpec
INVARIANTS
  PoolBounded
  BatchContiguous
  
PROPERTIES
  LeavesWithItsBlock
  Drains
CHECK_DEADLOCK FALSE

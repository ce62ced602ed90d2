CONSTANTS
  g = g
  u = u
  k = k
  m = m
  Addr <- MCAddr
  GenesisVal = g
  Treasury = g
  Premine = 8
  Txs <- MoneyTxs
  Word = 32
  MaxSupply = 13
  InitialReward = 4
  HalvingInterval = 2
  Subsidy <- MCSubsidy
  MinBond = 3
  BountyDivisor = 2
  FaucetAmount = 2
  FaucetCooldown = 2
  FaucetDepth = 1
  FaucetRecent = 3
  StorageWindow = 3
  StorageMinDepth = 1
  StorageCap = 1
  MaxHeight = 4
  MaxTxs = 2
SPECIFICATION Spec
INVARIANTS
  Conservation
PROPERTIES
  OnlySignersPay
  
CHECK_DEADLOCK FALSE

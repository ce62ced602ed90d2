CONSTANTS
  Nodes = {1, 2, 3}
  Rank <- MCRank
  Flaky = {3}
  Rotten = {1, 2}
  MaxSpoilt = 1
  Threshold = 1
  Readers = {2}
  None = None
SPECIFICATION Spec
INVARIANTS
  
  Tolerates
  FullyReplicated
  

  

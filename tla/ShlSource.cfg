CONSTANTS
  Programs <- MCPrograms
  Tokens <- MCTokens
  MaxEdits <- MCMaxEdits
SPECIFICATION Spec
INVARIANTS ReadBack NothingIgnored NeverPastEnd
CHECK_DEADLOCK FALSE

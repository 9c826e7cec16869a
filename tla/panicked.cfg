SPECIFICATION FairSpec
CONSTANTS
  Calls = {a, b}
  Guesses <- NoGuesses
  ChildPanics = TRUE
  MaxBatches = 2
  MaxApprovals = 0
PROPERTIES
  EveryCallReturns
CHECK_DEADLOCK FALSE

SPECIFICATION FairSpec
CONSTANTS
  Calls = {a, b}
  Guesses <- NoGuesses
  ChildPanics = TRUE
  MaxBatches = 2
  MaxApprovals = 1
INVARIANTS
  SessionExclusive SessionsRemember
PROPERTIES
  ReturnsUnlessOrphaned
CHECK_DEADLOCK FALSE

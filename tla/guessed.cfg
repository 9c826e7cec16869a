SPECIFICATION Spec
CONSTANTS
  Calls = {a, b}
  Guesses <- SomeGuesses
  ChildPanics = FALSE
  MaxBatches = 2
  MaxApprovals = 0
INVARIANTS
  SessionsRemember
CHECK_DEADLOCK FALSE

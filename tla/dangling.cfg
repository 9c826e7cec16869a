SPECIFICATION Spec
CONSTANTS
  CallId = {c1}
  MaxIterations = 2
  Configs <- OnlyOff
  CustomProposals <- NoProposals
  HookRequests <- Trims
  Completions <- Answers
  ContextWindow = 9
  Env <- ErrorsOnly
  MaxRuns = 2
  MaxSpent = 3
INVARIANTS
  AlwaysResumable
CHECK_DEADLOCK FALSE

SPECIFICATION Spec
CONSTANTS
  CallId = {c1}
  MaxIterations = 2
  Configs <- OnlySlidingAtFive
  CustomProposals <- NoProposals
  HookRequests <- Trims
  Completions <- Answers
  ContextWindow = 8
  Env <- NoShortcuts
  MaxRuns = 6
  MaxSpent = 3
INVARIANTS
  RequestsFit
CHECK_DEADLOCK FALSE

SPECIFICATION FairSpec
CONSTANTS
  CallId = {c1}
  MaxIterations = 2
  Configs <- LibraryConfigs
  CustomProposals <- NoProposals
  HookRequests <- TrimsAndBlowsUp
  Completions <- Answers
  ContextWindow = 6
  Env <- WithoutRescue
  MaxRuns = 3
  MaxSpent = 3
PROPERTIES
  RunTerminates CompactionsSeparatedByCalls DroppedWasArchived
CHECK_DEADLOCK FALSE

SPECIFICATION Spec
CONSTANTS
  CallId = {c1}
  MaxIterations = 2
  Configs <- AllConfigs
  CustomProposals <- CustomAnswers
  HookRequests <- Trims
  Completions <- AllAnswers
  ContextWindow = 6
  Env <- ArchivesAtOnce
  MaxRuns = 3
  MaxSpent = 2
INVARIANTS
  TypeOK RollbackAnchor CommittedResumable RequestsCompliant ResultsKeepTheirUses
PROPERTIES
  FailureRestoresBase ImplementsTurnLog
CHECK_DEADLOCK FALSE

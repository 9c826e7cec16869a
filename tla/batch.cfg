SPECIFICATION FairSpec
CONSTANTS
  N = 3
INVARIANTS
  TypeOK OnlyClearedCallsRun BrokenGateIsFatal AnswersAligned AnswersTrue
PROPERTIES
  ImplementsToolBatch BatchEnds
CHECK_DEADLOCK FALSE

SPECIFICATION Spec
CONSTANTS
  CallId = {c1}
  MaxAny = 4
  MaxFormed = 14
  Keeps = {0, 1, 2, 3}
  Chunks = {0, 1, 2, 3}
INVARIANTS
  ValidatorExact StrategiesAccepted WindowBounds SummaryKeepsWindow
PROPERTIES
  WindowAdvancesInChunks
CHECK_DEADLOCK FALSE

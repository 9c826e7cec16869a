SPECIFICATION FairSpec
CONSTANTS
  a = a
  b = b
  c = c
  x = x
  y = y
  Children = {a, b, c}
  Defs = {x, y}
  DefOf <- Definitions
  Batches <- ApartOrAlike
  Forwarding = {x}
  Observed = {x}
  MaxEvents <- Lengths
  MaxMisses <- Misses
  MaxAnswers = 2
  MaxBatches = 2
INVARIANTS
  HandlerSerial DoneEndsItsAnswer ResultIsLastAnswer NothingLeftOpen
PROPERTIES
  RunEnds
CHECK_DEADLOCK FALSE

SPECIFICATION FairSpec
CONSTANTS
  p1 = p1
  p2 = p2
  d1 = d1
  r1 = r1
  r2 = r2
  r3 = r3
  Parents = {p1, p2}
  Defs = {d1}
  Registries = {r1, r2, r3}
  Wirings <- OneSubAgent
  MaxLevel = 2
  MaxHops = 3
INVARIANTS
  TypeOK NeverUngated GoverningGate DepthOfOne
PROPERTIES
  EveryApprovalAnswered
CHECK_DEADLOCK FALSE

SPECIFICATION Spec
CONSTANTS
  Pair = {p1}
  Minute = {p1}
  Depth = 2
  PerSlot = 2
  Market <- MCMarket
  Worker = {w1, w2}
  Request = {r1, r2}
  DefaultFrom = 2
  MaxTracked = 1
  MaxJob = 1
  MaxAttempt = 2
  MaxFault = 1
  NoChunk = NoChunk
SYMMETRY Symmetry
INVARIANTS
  ClaimIsExclusive
  CoverageIsBacked
  StatusIsHonest
CHECK_DEADLOCK FALSE

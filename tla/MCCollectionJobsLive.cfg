SPECIFICATION FairSpec
CONSTANTS
  Pair = {p1}
  Minute = {p1}
  Depth = 2
  PerSlot = 1
  Market <- MCMarket
  Worker = {w1, w2}
  Request = {r1}
  DefaultFrom = 2
  MaxTracked = 1
  MaxJob = 1
  MaxAttempt = 2
  MaxFault = 2
  NoChunk = NoChunk
PROPERTIES
  ChunksSettle
CHECK_DEADLOCK FALSE

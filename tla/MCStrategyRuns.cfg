SPECIFICATION FairSpec
CONSTANTS
  p1 = p1
  p2 = p2
  c1 = c1
  Process <- MCProcesses
  Call <- MCCalls
  MaxRun = 2
  Concurrency = 1
  MaxFault = 1
INVARIANTS TradesAreOfDoneRuns ComputedOnce
PROPERTIES EveryRunEnds
CHECK_DEADLOCK FALSE

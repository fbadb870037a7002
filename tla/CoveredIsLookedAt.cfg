SPECIFICATION Spec
CONSTANTS
  Last = 6
  PageMax = 3
  NoMoment = NoMoment
INVARIANT CoveredIsLookedAt
CHECK_DEADLOCK FALSE

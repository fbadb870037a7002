SPECIFICATION Spec
CONSTANTS
  Schedule = {s1}
  Trigger = {t1}
  Kept <- MCKept
  Threshold = 1
  MaxFault = 1
  Nothing = Nothing
INVARIANTS NoOverlap
CHECK_DEADLOCK FALSE

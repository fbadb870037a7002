SPECIFICATION FairSpec
CONSTANTS
  r1 = r1
  r2 = r2
  r3 = r3
  Request <- MCRequests
  MaxSession = 6
  MaxFault = 2
INVARIANTS RenewedOrdersStayHome PlacedOnce
PROPERTIES EveryRequestEnds
CHECK_DEADLOCK FALSE

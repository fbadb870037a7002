SPECIFICATION FairSpec
CONSTANTS
  i1 = i1
  v = v
  w = w
  e1 = e1
  Instance <- MCInstances
  Rule <- MCRules
  Once <- MCOnce
  Valued <- MCValued
  Event <- MCEvents
  MaxEdge = 2
  Parts = 2
  Cap = 1
  MaxRule = 1
  MaxEdit = 1
  MaxFault = 1
INVARIANTS DeliveredIsWhole ToldTwiceByFaultsOnly OnceTellsOnce OnceIsNotMute
PROPERTIES EveryFireSettles
CHECK_DEADLOCK FALSE

SPECIFICATION FairSpec
CONSTANTS
  Pair = {p1}
  Request = {r1, r2}
  Main = main
  Timer = timer
  TasksPerPair = 3
  ReviveTries = 1
  MaxFault = 2
  NoTask = noTask
  NoPair = noPair
  NoActor = noActor
INVARIANTS NoStrayTask DeletionIsQuiet
PROPERTIES CollectionResumes
CHECK_DEADLOCK FALSE

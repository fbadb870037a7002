CONSTANTS
    analyst = analyst
    sceptic = sceptic
    executor = executor
    Agents <- Team
    Before <- Edges
    RunLimit = 4
    OrdersPerRun = 1
    RoundCeiling = 2
    MaxFault = 1
SPECIFICATION FairSpec
INVARIANTS OrderIsOnRecord CeilingOvershoot OpenRunIsWorked ViewerHearsTheEnd
PROPERTIES EveryRunEnds ImplementsLifecycle
CHECK_DEADLOCK FALSE

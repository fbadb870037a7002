CONSTANTS
    c1 = c1
    c2 = c2
    Clients <- TwoClients
    MaxRoom = 2
    MaxPeriod = 3
    MaxTrouble = 1
SPECIFICATION FairStream
INVARIANTS DailySettledMeansSealed ConnectionFollowsAudience
PROPERTIES BoundaryIsFound
CHECK_DEADLOCK FALSE

SPECIFICATION SideBySide
CONSTANTS
  LastPeriod = 5
  CollectFrom = 1
  DefaultBars = 6
  MaxBars = 5
  Overlap = 2
  MaxFault = 2
  Market = {1, 2, 4, 5, 6}
  Horizon = 3
  Writer = {w1, w2}
  Other = {x1}
  NoMoment = NoMoment
  NoOffer = NoOffer
  Last = 6
  PageMax = 3
  Clients = {s1, s2}
  MaxRoom = 2
  MaxCandle = 2
  Caller = {c1, c2, c3}
  Limit = 2
  Per = 3
  LastTick = 7
  Price = {1, 3, 5}
  Level = {2, 4}
  Minutes = 6
  BarLength = 2
  DayLength = 5
  Rollover = 0
  Spread = 1
  Slippage = 1
  LongRate = 1
  ShortRate = 0
  Capital = 4
  AfterR = 30
  Parts = 60
  MaxHeld = 1
  ExpiresBars = 1
  Nothing = Nothing
INVARIANTS NoHoleUnexcused RowsApart RateIsKept DayStopHolds NoDebtWithoutAJump StopBoundsTheLoss EndIsTheEnd ChunkLacksTheShared OneRoomSeesEverything
PROPERTIES ImplementsLooks
CHECK_DEADLOCK FALSE

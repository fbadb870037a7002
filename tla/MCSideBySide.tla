--------------------------- MODULE MCSideBySide ---------------------------
(* The machines that are small enough to share a run, each by itself: the   *)
(* first state chooses the one that moves.                                  *)
EXTENDS CoverageRows, RateGate

CONSTANT LastTick   \* bound: when the gate's clock stops

-----------------------------------------------------------------------------
(* The ingest task of one pair.  The run's market is shut during the third  *)
(* period, and a page of the gateway holds three candles.                   *)
CONSTANTS LastPeriod, Market, CollectFrom, DefaultBars, MaxBars, Overlap, PageMax, MaxFault
VARIABLES period, source, covered, pc, nested, moment, bars, page, heard, link, feed, inbox,
          excuse, faults

Pair == INSTANCE PairIngest WITH now <- period

(* A closed period is in the archive, or one of the named ways to miss it  *)
(* happened (ingest/backfill.py, ingest/live.py).                          *)
NoHoleUnexcused == Pair!NoHoleUnexcused

-----------------------------------------------------------------------------
(* A backtest of six minutes in bars of two: a day of five and the start of *)
(* the next.                                                                *)
CONSTANTS Price, Level, Minutes, BarLength, DayLength, Rollover, Spread, Slippage, LongRate,
          ShortRate, Capital, AfterR, Parts, MaxHeld, ExpiresBars, Nothing
VARIABLES minute, stops, bar, candle, due, order, pos, book, trades

NightRate == [side \in {1, -1} |-> IF side = 1 THEN LongRate ELSE ShortRate]
DailyStop == -((3 * Parts) \div 2)

Engine == INSTANCE BacktestEngine WITH now <- minute, MaxBars <- MaxHeld

(* No position is opened on a day whose stop was reached.                  *)
DayStopHolds == Engine!DayStopHolds
(* The account ends below zero by slippage only, unless the price jumped.  *)
NoDebtWithoutAJump == Engine!NoDebtWithoutAJump
(* A stopped position loses what it risked, unless the price jumped.       *)
StopBoundsTheLoss == Engine!StopBoundsTheLoss

-----------------------------------------------------------------------------
(* A read of at most seven periods in pages of three.                       *)
CONSTANT Last
VARIABLES market, barsAsked, before, after, reading, held, got, cursor, requests,
          reached_floor, history_ended

History == INSTANCE HistoryPaging WITH bars <- barsAsked, at <- reading

(* History is said to have ended only where it has.                        *)
EndIsTheEnd == History!EndIsTheEnd
(* A chunk's answer lacks no more than the pages counted twice.            *)
ChunkLacksTheShared == History!ChunkLacksTheShared

-----------------------------------------------------------------------------
(* The contract layer's rooms of one pair, and two subscribers.             *)
CONSTANTS Clients, MaxRoom, MaxCandle
VARIABLES stored, silent, hub, subs, forming, lock, pub, client, seenBy, twice, split

Rooms == INSTANCE MarketRooms WITH seen <- seenBy

(* A subscriber is sent all that is stored from its snapshot on, but for   *)
(* what nobody published, and nothing both in the snapshot and by the      *)
(* publish that wrote it, until its room is forgotten while somebody waits *)
(* for it.                                                                 *)
OneRoomSeesEverything == Rooms!OneRoomSeesEverything

-----------------------------------------------------------------------------
VARIABLE part

pair == <<period, source, covered, pc, nested, moment, bars, page, heard, link, feed, inbox,
          excuse, faults>>
engine == <<minute, stops, bar, candle, due, order, pos, book, trades>>
history == <<market, barsAsked, before, after, reading, held, got, cursor, requests,
             reached_floor, history_ended>>
rooms == <<stored, silent, hub, subs, forming, lock, pub, client, seenBy, twice, split>>

Start ==
  /\ part \in {"rows", "gate", "pair", "engine", "history", "rooms"}
  /\ Init /\ GateInit /\ Pair!Init /\ Engine!Init /\ History!Init /\ Rooms!Init
  /\ part # "engine" => stops
  /\ part # "history" => market = {} /\ after = 0 /\ before = NoMoment /\ barsAsked = 1

Move ==
  /\ UNCHANGED part
  /\ \/ part = "rows" /\ Next /\ UNCHANGED <<gate, pair, engine, history, rooms>>
     \/ part = "gate" /\ GateNext /\ now' <= LastTick
        /\ UNCHANGED <<vars, pair, engine, history, rooms>>
     \/ part = "pair" /\ Pair!Next /\ UNCHANGED <<vars, gate, engine, history, rooms>>
     \/ part = "engine" /\ Engine!Next /\ UNCHANGED <<vars, gate, pair, history, rooms>>
     \/ part = "history" /\ History!Next /\ UNCHANGED <<vars, gate, pair, engine, rooms>>
     \/ part = "rooms" /\ Rooms!Next /\ UNCHANGED <<vars, gate, pair, engine, history>>

SideBySide == Start /\ [][Move]_<<part, vars, gate, pair, engine, history, rooms>>
=============================================================================

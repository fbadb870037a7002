--------------------------- MODULE BacktestEngine ---------------------------
(***************************************************************************)
(* The walk of one backtest (strategies/engine.py): decisions on the close *)
(* of each bar, orders, stops and targets settled minute by minute, one    *)
(* position at a time, and the book of what the trades made.               *)
(*                                                                         *)
(* Every formula of the document is a choice: what a strategy decides is   *)
(* one of them.  Prices are whole numbers, a result in R is counted in     *)
(* parts of 1 R, and a position has one unit.                              *)
(***************************************************************************)
EXTENDS Integers, Sequences, FiniteSetsExt

CONSTANTS Price,       \* the bid prices there are
          Level,       \* what a formula of a price may come to
          Minutes,     \* in the range
          BarLength,   \* minutes in a bar of the strategy's timeframe
          DayLength,   \* minutes in a day
          Rollover,    \* the minute of the day a night is charged at
          Spread, Slippage,
          NightRate,   \* of the value at entry, for each side
          Capital,
          DailyStop,   \* limits.daily_stop_r, in parts of 1 R
          AfterR,      \* exits.trail.after_r, in parts of 1 R
          Parts,       \* parts of 1 R; every risk divides them
          MaxBars,     \* exits.max_bars
          ExpiresBars, \* order.expires_bars
          Nothing

VARIABLES now,     \* the start of the next minute
          stops,   \* whether the document has a stop
          bar,     \* the decision bar the walk is at; bars nobody traded in are none
          candle,  \* the last minute there was, and when it ended
          due,     \* whether the bar has traded, and awaits its decision
          order,   \* the pending entry
          pos,     \* the open position
          book,    \* realized, the day and its R, broke
          trades   \* the closed trades, in the order they were closed

vars == <<now, stops, bar, candle, due, order, pos, book, trades>>

Long == 1
Short == -1

Candle == {c \in [open : Price, high : Price, low : Price, close : Price] :
             c.low <= c.open /\ c.low <= c.close /\ c.open <= c.high /\ c.close <= c.high}

Init == /\ now = 0 /\ bar = 0 /\ due = FALSE
        /\ stops \in BOOLEAN
        /\ candle = Nothing /\ order = Nothing /\ pos = Nothing
        /\ book = [realized |-> 0, day |-> -1, dayR |-> 0, broke |-> FALSE]
        /\ trades = <<>>

-----------------------------------------------------------------------------
(* Prices: the archive has the bid, the ask is a spread above it.  A side   *)
(* enters on one and leaves on the other.                                   *)

Ask(c) == [k \in DOMAIN c |-> c[k] + Spread]
Entering(side, c) == IF side = Long THEN Ask(c) ELSE c
Leaving(side, c) == IF side = Long THEN c ELSE Ask(c)

Best(side, c) == IF side = Long THEN c.high ELSE c.low
Worst(side, c) == IF side = Long THEN c.low ELSE c.high

(* a is at b, or past it on the way the side hopes for.                     *)
AtOrPast(side, a, b) == side * (a - b) >= 0

Day(moment) == moment \div DayLength

(* The rollovers between entry and moment; the first is after the entry.    *)
Nights(entered, moment) ==
    LET today == (entered \div DayLength) * DayLength + Rollover
        first == IF today <= entered THEN today + DayLength ELSE today
    IN  IF moment < first THEN 0 ELSE (moment - first) \div DayLength + 1

Financing(p, moment) == Nights(p.entry, moment) * NightRate[p.side] * p.price

Equity == Capital + book.realized

(* The price the equity reaches zero at.                                    *)
Floor(p, moment) == p.price - p.side * (Equity - Financing(p, moment))

-----------------------------------------------------------------------------
(* The book.                                                                *)

NewDay(b, moment) == IF b.day = Day(moment) THEN b
                     ELSE [b EXCEPT !.day = Day(moment), !.dayR = 0]

Money(p, moment, price) == p.side * (price - p.price) - Financing(p, moment)
R(p, money) == IF p.risk = Nothing THEN 0 ELSE (money * Parts) \div p.risk

Close(p, moment, price, reason, jumped, b) ==
    LET money == Money(p, moment, price)
        today == NewDay(b, moment)
    IN  /\ book' = [today EXCEPT !.realized = @ + money,
                                 !.dayR = @ + R(p, money),
                                 !.broke = @ \/ reason = "out_of_capital"
                                             \/ Capital + b.realized + money <= 0]
        /\ trades' = Append(trades, [entry |-> p.entry, exit |-> moment, money |-> money,
                                     r |-> R(p, money), risk |-> p.risk,
                                     nights |-> Financing(p, moment),
                                     reason |-> reason, jumped |-> jumped])
        /\ pos' = Nothing

-----------------------------------------------------------------------------
(* A minute.                                                                *)

(* A stop that is jumped over leaves at the open; every other at its level. *)
Jumps(p, c, level) == AtOrPast(p.side, level, Leaving(p.side, c).open)
LeavesAt(p, c, level) == (IF Jumps(p, c, level) THEN Leaving(p.side, c).open ELSE level)
                         - p.side * Slippage

(* Of the stop and the floor the one the price comes to first.              *)
StopComesFirst(p, floor) == p.stop # Nothing
ComesFirst(p, floor) == p.stop # Nothing /\ AtOrPast(p.side, p.stop, floor)

(* What the minute does to position p, which it may have opened inside.  b  *)
(* is the book it was opened with.                                          *)
Settle(p, c, inside, b) ==
    LET side == p.side
        out == Leaving(side, c)
        floor == Floor(p, now)
        stopHit == p.stop # Nothing /\ AtOrPast(side, p.stop, Worst(side, out))
        floorHit == AtOrPast(side, floor, Worst(side, out))
        stopFirst == stopHit /\ ComesFirst(p, floor)
        targetHit == p.target # Nothing /\ AtOrPast(side, Best(side, out), p.target)
    IN  \/ /\ floorHit /\ ~stopFirst
           /\ Close(p, now, LeavesAt(p, c, floor), "out_of_capital", Jumps(p, c, floor), b)
        \/ /\ stopHit /\ (floorHit => stopFirst)
           /\ Close(p, now, LeavesAt(p, c, p.stop), IF p.trailed THEN "trail" ELSE "stop",
                    Jumps(p, c, p.stop), b)
        \/ /\ targetHit /\ ~inside /\ ~stopHit /\ ~floorHit
           /\ Close(p, now, IF AtOrPast(side, out.open, p.target) THEN out.open ELSE p.target,
                    "target", FALSE, b)
        \/ /\ ~stopHit /\ ~floorHit /\ ~(targetHit /\ ~inside)
           /\ pos' = p /\ book' = b
           /\ UNCHANGED trades

MinuteOver(c) == /\ now' = now + 1
                 /\ candle' = [ends |-> now + 1, close |-> c.close]
                 /\ due' = TRUE
                 /\ UNCHANGED <<stops, bar>>

ExitDue(c) ==
    /\ pos # Nothing /\ pos.due # Nothing
    /\ LET open == Leaving(pos.side, c).open
       IN  Close(pos, now, open - pos.side * Slippage, pos.due, Jumps(pos, c, Floor(pos, now)), book)
    /\ UNCHANGED order

Hold(c) == /\ pos # Nothing /\ pos.due = Nothing
           /\ Settle(pos, c, FALSE, book)
           /\ UNCHANGED order

(* The price an order fills at, Nothing if it does not.                     *)
FillPrice(o, c) ==
    LET in == Entering(o.side, c)
        worse == IF AtOrPast(o.side, in.open, o.price) THEN in.open ELSE o.price
        better == IF AtOrPast(o.side, in.open, o.price) THEN o.price ELSE in.open
    IN  CASE o.kind = "market" -> in.open + o.side * Slippage
          [] o.kind = "stop" /\ AtOrPast(o.side, Best(o.side, in), o.price)
                -> worse + o.side * Slippage
          [] o.kind = "limit" /\ AtOrPast(o.side, o.price, Worst(o.side, in)) -> better
          [] OTHER -> Nothing

(* Its stop and target are computed once, here; a stop on the wrong side of *)
(* the fill, or none where there should be one, is no trade.                *)
Open(o, price, stop, target) ==
    [side |-> o.side, entry |-> now, price |-> price, bar |-> bar,
     stop |-> stop, target |-> target, trailed |-> FALSE, due |-> Nothing,
     risk |-> IF stop = Nothing THEN Nothing ELSE o.side * (price - stop)]

(* No order fills after the last decision.                                 *)
LastDecision == (Minutes \div BarLength) * BarLength

IsStop(o, price, stop) == stop # Nothing /\ o.side * (price - stop) > 0

Fill(c) ==
    /\ pos = Nothing /\ order # Nothing
    /\ now < LastDecision /\ FillPrice(order, c) # Nothing
    /\ order' = Nothing
    /\ \E stop \in IF stops THEN Level \cup {Nothing} ELSE {Nothing},
          target \in Level \cup {Nothing} :
         LET price == FillPrice(order, c)
         IN  \/ /\ stops /\ ~IsStop(order, price, stop)
                /\ UNCHANGED <<pos, book, trades>>
             \/ /\ stops => IsStop(order, price, stop)
                /\ Settle(Open(order, price, stop, target), c, order.kind # "market",
                          NewDay(book, now))

NothingToFill(c) == /\ pos = Nothing
                    /\ order # Nothing /\ now < LastDecision => FillPrice(order, c) = Nothing
                    /\ UNCHANGED <<order, pos, book, trades>>

Minute == /\ now < Minutes
          /\ due => now % BarLength # 0
          /\ \E c \in Candle : /\ MinuteOver(c)
                               /\ ExitDue(c) \/ Hold(c) \/ Fill(c) \/ NothingToFill(c)

(* A minute nobody traded in has no candle.                                 *)
QuietMinute == /\ now < Minutes
               /\ due => now % BarLength # 0
               /\ now' = now + 1
               /\ UNCHANGED <<stops, bar, candle, due, order, pos, book, trades>>
-----------------------------------------------------------------------------
(* A decision.                                                              *)

Expired(o) == o # Nothing /\ o.expires # Nothing /\ bar >= o.expires

Follows(p, stop) == TRUE
Tightens(p, stop) == p.side * (stop - p.stop) > 0

(* The trailing stop, on the side the position leaves on, only tightens.    *)
Trailed(p, distance) ==
    LET close == IF p.side = Long THEN candle.close ELSE candle.close + Spread
        stop == close - p.side * distance
    IN  IF /\ p.stop # Nothing
           /\ R(p, Money(p, now, close)) >= AfterR
           /\ Tightens(p, stop)
        THEN [p EXCEPT !.stop = stop, !.trailed = TRUE]
        ELSE p

DecideOnPosition ==
    /\ pos # Nothing
    /\ \E distance \in Level \ {0}, trails, when \in BOOLEAN :
         LET p == IF trails THEN Trailed(pos, distance) ELSE pos
         IN  pos' = IF when THEN [p EXCEPT !.due = "when"]
                    ELSE IF bar - p.bar >= MaxBars THEN [p EXCEPT !.due = "max_bars"]
                    ELSE p
    /\ UNCHANGED order

BlockedBelow(b) == b.broke \/ b.dayR < DailyStop
Blocked(b) == b.broke \/ b.dayR <= DailyStop

(* An entry whose price is not known yet is no order.                       *)
Orders == {o \in [side : {Long, Short}, kind : {"market", "stop", "limit"},
                  price : Level \cup {Nothing},
                  expires : {Nothing, bar + ExpiresBars}] :
             (o.price = Nothing) = (o.kind = "market")}

DecideOnEntry ==
    /\ pos = Nothing /\ UNCHANGED pos
    /\ LET kept == IF Expired(order) THEN Nothing ELSE order
       IN  order' \in IF kept # Nothing THEN {kept}
                      ELSE IF Blocked(NewDay(book, now)) THEN {Nothing}
                      ELSE Orders \cup {Nothing}

Decide == /\ due /\ now % BarLength = 0
          /\ book' = NewDay(book, now)
          /\ DecideOnPosition \/ DecideOnEntry
          /\ bar' = bar + 1 /\ due' = FALSE
          /\ UNCHANGED <<now, stops, candle, trades>>

EndOfRange ==
    /\ now = Minutes /\ (due => now % BarLength # 0) /\ pos # Nothing
    /\ Close(pos, candle.ends,
             IF pos.side = Long THEN candle.close ELSE candle.close + Spread, "end_of_range",
             Nights(pos.entry, candle.ends) > Nights(pos.entry, candle.ends - 1), book)
    /\ UNCHANGED <<now, stops, bar, candle, due, order>>

Next == Minute \/ QuietMinute \/ Decide \/ EndOfRange

Spec == Init /\ [][Next]_vars
-----------------------------------------------------------------------------
(* "After daily_stop_r no new position is opened until the end of the UTC  *)
(* day" (strategies-backtest): whatever had been ordered, on whichever day *)
(* the trades before it were opened.                                       *)
DayR(moment, n) ==
    MapThenSumSet(LAMBDA j : trades[j].r,
                  {j \in 1 .. n : Day(trades[j].exit) = Day(moment)})
DayStopHolds ==
    /\ \A k \in DOMAIN trades : DayR(trades[k].entry, k - 1) > DailyStop
    /\ pos # Nothing => DayR(pos.entry, Len(trades)) > DailyStop

MadeBy(k) == MapThenSumSet(LAMBDA j : trades[j].money, 1 .. k)

(* An account ends below zero by slippage only, unless the price jumped    *)
(* over the level its last position had to be closed at.                   *)
NoDebtWithoutAJump ==
    Capital + MadeBy(Len(trades)) < -Slippage => trades[Len(trades)].jumped

(* What a stop is for: a position closed by it, or by the capital that was *)
(* nearer, loses what it risked at its entry, its slippage and its nights, *)
(* and more only if the price jumped over the level.                       *)
StopBoundsTheLoss ==
    \A k \in DOMAIN trades :
      LET t == trades[k]
      IN  t.reason \in {"stop", "trail", "out_of_capital"} /\ t.risk # Nothing /\ ~t.jumped
            => t.money >= -(t.risk + Slippage + t.nights)
=============================================================================

---------------------------- MODULE HistoryPaging ----------------------------
(***************************************************************************)
(* A deep read of the provider's history (capital_gateway/history.py,      *)
(* collect) as the archive asks for it: a chunk of a job names both edges  *)
(* and as many candles as there are periods between them (jobs/runner.py), *)
(* a fill names only how many, and how deep at most (ingest/backfill.py).  *)
(*                                                                         *)
(* A period is two ticks, so that an edge may lie inside one.  The provider*)
(* is external: it answers a window with the candles in it, both edges     *)
(* included, and refuses a window that has none.                           *)
(***************************************************************************)
EXTENDS Integers, FiniteSets, FiniteSetsExt

CONSTANTS Last,      \* the number of the newest period
          PageMax,   \* MAX_BARS_PER_REQUEST
          NoMoment

VARIABLES market,    \* the starts of the periods the provider has a candle of
          bars, before, after,    \* what is asked for
          at,        \* "paging", "done" or "failed"
          held,      \* len(collected), the candles two pages share counted twice
          got,       \* the candles collected
          cursor, requests, reached_floor, history_ended

asked == <<market, bars, before, after>>
vars == <<asked, at, held, got, cursor, requests, reached_floor, history_ended>>

Period == 2
Now == Last * Period + 1
Starts == {p * Period : p \in 0 .. Last}

page_size == Min({PageMax, bars})

(* Both edges count: n candles take n - 1 periods.                          *)
window == (page_size - 1) * Period

whole_periods_between(from, to) == (to - from) \div Period
periods_between(from, to) == (to - from + Period - 1) \div Period

Init == /\ market \in SUBSET Starts
        /\ after \in 0 .. Now - 1
        /\ \/ /\ before \in after + 1 .. Now
              /\ bars = periods_between(after, before)
           \/ /\ before = NoMoment
              /\ bars \in 1 .. Last
        /\ at = "paging"
        /\ held = 0 /\ got = {} /\ cursor = NoMoment /\ requests = 0
        /\ reached_floor = FALSE /\ history_ended = FALSE

-----------------------------------------------------------------------------
edge == IF cursor # NoMoment THEN cursor ELSE before

(* Whether the window's older edge is the floor and not the calendar.       *)
NeverOnTheFloor == FALSE
on_the_floor == edge # NoMoment /\ edge - window <= after

Newest(n, S) == {m \in S : Cardinality({q \in S : q > m}) < n}

(* External: the newest candles there are, or those of a window.            *)
fetch_page ==
    IF edge = NoMoment THEN Newest(page_size, market)
    ELSE {m \in market : Max({edge - window, after}) <= m /\ m <= edge}

Done == at' = "done" /\ UNCHANGED asked

(* The window is beyond the floor already.                                  *)
StopBeforeFloor ==
    /\ at = "paging" /\ held < bars
    /\ edge # NoMoment /\ after >= edge
    /\ reached_floor' = TRUE
    /\ Done /\ UNCHANGED <<held, got, cursor, requests, history_ended>>

Ask == /\ at = "paging" /\ held < bars
       /\ edge # NoMoment => after < edge
       /\ requests' = requests + 1

Collected(page) == /\ held' = held + Cardinality(page)
                   /\ got' = got \cup page

(* The cursor is the oldest candle there was, never the clock.              *)
NextCursor(page) == Min(page)

PageToFloor == /\ Ask /\ fetch_page # {} /\ Min(fetch_page) <= after
               /\ Collected(fetch_page)
               /\ reached_floor' = TRUE
               /\ Done /\ UNCHANGED <<cursor, history_ended>>

IsOlder(page) == IF cursor = NoMoment THEN TRUE ELSE Min(page) < cursor

PageOnTheWay == /\ Ask /\ fetch_page # {} /\ Min(fetch_page) > after
                /\ IsOlder(fetch_page)
                /\ Collected(fetch_page)
                /\ cursor' = NextCursor(fetch_page)
                /\ UNCHANGED <<asked, at, reached_floor, history_ended>>

(* A refusal, or only what is held already: the end of what there is, or    *)
(* of what was asked for.                                                   *)
NothingOlder == /\ Ask
                /\ fetch_page # {} => Min(fetch_page) > after /\ ~IsOlder(fetch_page)
                /\ Collected(fetch_page)
                /\ reached_floor' = on_the_floor
                /\ history_ended' = (~on_the_floor /\ got' # {})
                /\ Done /\ UNCHANGED cursor

Enough == /\ at = "paging" /\ held >= bars
          /\ Done /\ UNCHANGED <<held, got, cursor, requests, reached_floor, history_ended>>

(* Another refusal, or the caller is gone: nobody reads an answer.          *)
Fails == /\ at = "paging" /\ at' = "failed"
         /\ UNCHANGED <<asked, held, got, cursor, requests, reached_floor, history_ended>>

Next == StopBeforeFloor \/ PageToFloor \/ PageOnTheWay \/ NothingOlder \/ Enough \/ Fails

Spec == Init /\ [][Next]_vars

-----------------------------------------------------------------------------
(* The answer: each candle once, none before the floor, the newest of them. *)
answer == Newest(bars, {m \in got : m >= after})
says_ended == history_ended /\ ~reached_floor /\ Cardinality(answer) < bars

(* History is said to have ended only where it has: the consumer keeps this *)
(* as the permanent boundary of the instrument and never asks deeper.  It   *)
(* is so of a market that is nowhere shut for as long as a window is wide.  *)
OpenOften == \A m \in market : m = Min(market)
                               \/ \E q \in market : q < m /\ m - q <= window
EndIsTheEnd ==
    at = "done" /\ says_ended /\ OpenOften => \A m \in market : \E a \in answer : a <= m

(* A chunk is recorded as looked at from edge to edge.  If it met the market*)
(* at all, its answer lacks as many candles at most as pages shared one     *)
(* with the page before: those were counted twice.                          *)
Missed == {m \in market : after < m /\ m < before} \ answer
ChunkLacksTheShared ==
    at = "done" /\ before # NoMoment /\ got # {} /\ OpenOften => Cardinality(Missed) < requests

(* "In a verified range without a candle for a period the archive says that *)
(* the market was shut then, and not that data is missing"                  *)
(* (openspec/specs/market-data-store/spec.md): a chunk's read brings every  *)
(* candle of its window.                                                    *)
CoveredIsLookedAt == at = "done" /\ before # NoMoment => Missed = {}
=============================================================================

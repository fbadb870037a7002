----------------------------- MODULE PairIngest -----------------------------
(***************************************************************************)
(* What one pair's ingest task (workbench/market_data/ingest) does with    *)
(* the candles: it closes the gap behind the newest one it holds with a    *)
(* history read, subscribes to the gateway, stores every closed candle it  *)
(* is sent, and does it again when the subscription ends.  IngestSuper-    *)
(* visor says when such a task runs; this is its place "collect".          *)
(*                                                                         *)
(* Time is counted in the pair's periods: period i has closed once         *)
(* now >= i.  Of the gateway there is the room, which sends a candle when  *)
(* its period closes unless its own connection to the provider is down,    *)
(* and the history read, which answers with the newest candles there are,  *)
(* all it was asked for if one page holds them (HistoryPaging).            *)
(***************************************************************************)
EXTENDS Integers, FiniteSets, FiniteSetsExt, Sequences

CONSTANTS
  LastPeriod,   \* bound: the last period that closes
  Market,       \* the periods in which the provider makes a candle, up to the running one
  CollectFrom,  \* the pair's collect_from, as a period
  DefaultBars,  \* default_backfill_bars
  MaxBars,      \* MAX_BARS_PER_FILL
  Overlap,      \* OVERLAP_BARS
  PageMax,      \* MAX_BARS_PER_REQUEST, the candles of one page of the gateway's reads
  MaxFault      \* bound: failed reads and writes, lost sockets and feeds

Period == 1..LastPeriod

VARIABLES
  now,      \* how many periods have closed
  source,   \* candles.source of each stored period, "none" where no row is
  covered,  \* the periods some coverage range spans
  pc,       \* where the task is
  nested,   \* the fill under way was asked for by _listen
  moment,   \* fill_gap's "moment"
  bars,     \* how many candles it asks for
  page,     \* the closed candles of the answer that are worth storing
  heard,    \* how far the last fill looked
  link,     \* the socket to the gateway stands
  feed,     \* the StreamState of the gateway's room
  inbox,    \* what the gateway has sent and the task has not read
  excuse,   \* why a candle may have been missed so far
  faults    \* how many failures have happened

fill == <<moment, bars, page>>
vars == <<now, source, covered, pc, nested, fill, heard, link, feed, inbox, excuse, faults>>

Stored == {i \in Period : source[i] # "none"}
Latest == Max(Stored)
Waiting == {inbox[k] : k \in DOMAIN inbox} \ {0}

Fault == faults < MaxFault /\ faults' = faults + 1

Init ==
  /\ now = 0 /\ source = [i \in Period |-> "none"] /\ covered = {}
  /\ pc = "measure" /\ nested = FALSE
  /\ moment = 0 /\ bars = 0 /\ page = {} /\ heard = 0
  /\ link = FALSE /\ feed = "connected" /\ inbox = <<>>
  /\ excuse = {} /\ faults = 0

(***************************************************************************)
(* The gateway and the clock                                               *)
(***************************************************************************)

(* A period closes; the room sends its candle to whoever listens, if the   *)
(* provider's connection is up to tell it (the provider seals each period  *)
(* it made a candle of, once).                                             *)
PeriodCloses ==
  LET i == now + 1 IN
  /\ now < LastPeriod
  /\ now' = i
  /\ inbox' = IF i \in Market /\ link /\ feed = "connected" THEN Append(inbox, i) ELSE inbox
  /\ excuse' = IF i \in Market /\ link /\ feed # "connected" THEN excuse \cup {feed} ELSE excuse
  /\ UNCHANGED <<source, covered, pc, nested, fill, heard, link, feed, faults>>

(* Upstream._run: a session that raised is reported as an error before the *)
(* reconnect, one the provider closed is not.  Of the statuses nothing     *)
(* comes but the reset of a delay.                                         *)
FeedBreaks(raised) ==
  /\ feed = "connected" /\ Fault
  /\ feed' = "reconnecting"
  /\ inbox' = IF raised /\ link THEN Append(inbox, 0) ELSE inbox
  /\ UNCHANGED <<now, source, covered, pc, nested, fill, heard, link, excuse>>

FeedConnects ==
  /\ feed # "connected"
  /\ feed' = "connected"
  /\ UNCHANGED <<now, source, covered, pc, nested, fill, heard, link, inbox, excuse, faults>>

(* The socket to the gateway dies with some of what was sent on it.        *)
SocketDies ==
  /\ link /\ Fault
  /\ link' = FALSE
  /\ \E n \in 0..Len(inbox) : inbox' = SubSeq(inbox, 1, n)
  /\ UNCHANGED <<now, source, covered, pc, nested, fill, heard, feed, excuse>>

(***************************************************************************)
(* fill_gap                                                                *)
(***************************************************************************)
Clamp(n) == IF n < MaxBars THEN n ELSE MaxBars

(* Mutant: the newest closed period is always taken for stored.            *)
bars_but_the_last ==
  LET missing == now - Latest IN
  IF Stored = {} THEN Clamp(Min({DefaultBars, Max({0, now - CollectFrom + 1})}))
  ELSE IF missing <= 1 THEN 0
  ELSE Clamp(missing + Overlap)

(* The newest closed candle may be up to one period old: what is missing   *)
(* are the closed periods after it.                                        *)
bars_to_close_gap ==
  LET missing == now - Latest IN
  IF Stored = {} THEN Clamp(Min({DefaultBars, Max({0, now - CollectFrom + 1})}))
  ELSE IF missing <= 0 THEN 0
  ELSE Clamp(missing + Overlap)

Leave == pc' = IF nested THEN "listen" ELSE "subscribe"

(* Less is asked for than there is behind: a gap deeper than one request,  *)
(* or the first fill of an archive whose first candles are already here,   *)
(* sent and not yet read.                                                  *)
FallsShort ==
  \/ Stored # {} /\ now - Latest + Overlap > MaxBars
  \/ Stored = {} /\ Waiting # {} /\ now - CollectFrom + 1 > bars_to_close_gap

(* The archive is read before the shared limiter is taken.                 *)
MeasureGap ==
  /\ pc = "measure"
  /\ moment' = now /\ bars' = bars_to_close_gap
  /\ heard' = now
  /\ excuse' = IF FallsShort THEN excuse \cup {"deep"} ELSE excuse
  /\ IF bars' = 0 THEN Leave ELSE pc' = "ask"
  /\ UNCHANGED <<now, source, covered, nested, page, link, feed, inbox, faults>>

(* The newest n candles at the time of the answer, the running period      *)
(* counted among them if the provider has begun it, and none older than    *)
(* collect_from or still forming.                                          *)
Newest(n, running) ==
  LET newest == IF running THEN now + 1 ELSE now
      upTo(i) == Cardinality({j \in Market : i <= j /\ j <= newest})
  IN {i \in Period \cap Market : i <= now /\ CollectFrom <= i /\ upTo(i) <= n}

(* The first page has no edge and holds the newest candles there are.  The *)
(* ones behind it are windows of the clock: one that falls in a shut       *)
(* market ends the read, and a candle two pages share counts twice, so of  *)
(* what does not fit the first page any of the oldest may be lacking.      *)
Answer(running, n) ==
  /\ pc = "ask"
  /\ running => now + 1 \in Market
  /\ n \in Min({bars, PageMax}) .. bars
  /\ page' = Newest(n, running)
  /\ heard' = now
  /\ excuse' = excuse
       \cup (IF now >= moment + (IF Stored = {} THEN 1 ELSE Overlap) THEN {"slow"} ELSE {})
       \cup (IF page' # Newest(bars, running) THEN {"paged"} ELSE {})
  /\ pc' = "write"
  /\ UNCHANGED <<now, source, covered, nested, moment, bars, link, feed, inbox, faults>>

(* A GatewayError is an outcome: the task goes on to listen.               *)
AnswerFails ==
  /\ pc = "ask" /\ Fault
  /\ excuse' = excuse \cup {"failed"}
  /\ Leave
  /\ UNCHANGED <<now, source, covered, nested, fill, heard, link, feed, inbox>>

Span(from, to) == {i \in Period : from <= i /\ i <= to}

(* commit_candles, taken as one step here: CollectionJobs models what may  *)
(* come between its transactions.                                          *)
CommitPage ==
  /\ pc = "write"
  /\ source' = [i \in Period |-> IF i \in page THEN "history" ELSE source[i]]
  /\ covered' = IF page = {} THEN covered
                ELSE covered \cup Span(Min(page), Max(page \cup {moment}))
  /\ page' = {}
  /\ Leave
  /\ UNCHANGED <<now, nested, moment, bars, heard, link, feed, inbox, excuse, faults>>

(***************************************************************************)
(* PairIngest._listen                                                      *)
(***************************************************************************)

(* The first subscriber makes the room, which has to connect.  A room that *)
(* is live hands a joiner the bar it holds: the sealed one of the period   *)
(* just closed if no quote came since, else the forming one.               *)
Subscribe(handed) ==
  /\ pc = "subscribe"
  /\ handed => now \in Market /\ feed = "connected"
  /\ feed' \in IF handed THEN {feed} ELSE {feed, "connecting"}
  /\ link' = TRUE
  /\ inbox' = IF handed THEN <<now>> ELSE <<>>
  /\ excuse' = IF \E i \in Market : heard < i /\ i <= now /\ ~(handed /\ i = now)
               THEN excuse \cup {"late"} ELSE excuse
  /\ pc' = "listen"
  /\ UNCHANGED <<now, source, covered, nested, fill, heard, faults>>

SubscribeFails ==
  /\ pc = "subscribe" /\ Fault
  /\ pc' = "measure"
  /\ UNCHANGED <<now, source, covered, nested, fill, heard, link, feed, inbox, excuse>>

(* A streamed candle never displaces a stored history value; the stretch   *)
(* is verified up to now, not only to the end of the period.               *)
StoreClosedCandle(i) ==
  /\ source' = [source EXCEPT ![i] = IF @ = "history" THEN @ ELSE "stream"]
  /\ covered' = covered \cup Span(i, now)

HearCandle ==
  /\ pc = "listen" /\ inbox # <<>> /\ Head(inbox) # 0
  /\ StoreClosedCandle(Head(inbox))
  /\ inbox' = Tail(inbox)
  /\ UNCHANGED <<now, pc, nested, fill, heard, link, feed, excuse, faults>>

(* FeedFailure: the gap is closed there and then, the messages wait.       *)
HearFailure ==
  /\ pc = "listen" /\ inbox # <<>> /\ Head(inbox) = 0
  /\ inbox' = Tail(inbox)
  /\ pc' = "measure" /\ nested' = TRUE
  /\ UNCHANGED <<now, source, covered, fill, heard, link, feed, excuse, faults>>

(* Back to the top of run(): the iteration ended with the socket, or any   *)
(* statement of the guarded part raised.  A killed process comes back the  *)
(* same way.                                                               *)
BackToTop ==
  /\ pc' = "measure" /\ nested' = FALSE
  /\ link' = FALSE /\ inbox' = <<>> /\ page' = {}
  /\ UNCHANGED <<now, source, covered, moment, bars, heard, feed, excuse>>

ListenEnds == pc = "listen" /\ ~link /\ inbox = <<>> /\ BackToTop /\ UNCHANGED faults

Interrupted == Fault /\ BackToTop

Task ==
  \/ MeasureGap \/ CommitPage \/ HearCandle \/ HearFailure \/ ListenEnds
  \/ \E b \in BOOLEAN, n \in 0 .. MaxBars : Answer(b, n)
  \/ \E b \in BOOLEAN : Subscribe(b)

Next ==
  \/ Task
  \/ PeriodCloses \/ FeedConnects \/ SocketDies
  \/ \E raised \in BOOLEAN : FeedBreaks(raised)
  \/ AnswerFails \/ SubscribeFails \/ Interrupted

Spec == Init /\ [][Next]_vars

(***************************************************************************)
(* Properties                                                              *)
(***************************************************************************)

(* Every variable keeps its type, and only closed periods are stored.      *)
TypeOK ==
  /\ now \in 0..LastPeriod
  /\ source \in [Period -> {"none", "stream", "history"}]
  /\ Stored \subseteq 1..now
  /\ covered \subseteq Period
  /\ pc \in {"measure", "ask", "write", "subscribe", "listen"}
  /\ nested \in BOOLEAN /\ link \in BOOLEAN
  /\ feed \in {"connecting", "connected", "reconnecting"}
  /\ moment \in 0..now /\ heard \in 0..now /\ bars \in 0..MaxBars
  /\ page \subseteq Period
  /\ \A k \in DOMAIN inbox : inbox[k] \in 0..now
  /\ excuse \subseteq {"connecting", "reconnecting", "slow", "late", "failed", "deep",
                         "paged"}
  /\ faults \in 0..MaxFault

HoleFree ==
  \A i \in Period \cap Market :
    (\E j, k \in Stored : j < i /\ i < k) => i \in Stored \cup Waiting

(* Between two stored candles none is missing or on its way, whatever was  *)
(* interrupted and in whatever order fills, live candles and lost sockets  *)
(* came, unless one of the things happened that the code does not make up  *)
(* for: a fill failed, fell short of what was behind or was answered two   *)
(* periods after it was measured (one, for the first fill); it was paged   *)
(* and the gateway's answer lacked some of the older candles; or a period  *)
(* closed between the fill and the subscription, while the room was        *)
(* connecting or while it was reconnecting.                                *)
NoHoleUnexcused == excuse = {} => HoleFree

(***************************************************************************)
(* Statements of the repository the code does not keep.                    *)
(***************************************************************************)

(* fill_gap: "Close whatever gap this pair has" - also when the provider   *)
(* call waited for the limiter.                                            *)
FillClosesItsGap == excuse \subseteq {"slow"} => HoleFree

(* "a provider reconnect [...] is one nobody listened for, so the gap is   *)
(* closed here".                                                           *)
ReconnectClosesItsGap == excuse \subseteq {"reconnecting"} => HoleFree
=============================================================================

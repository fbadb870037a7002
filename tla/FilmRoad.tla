------------------------------ MODULE FilmRoad ------------------------------
(***************************************************************************)
(* The road of a film through the YouTube archive (youtube_data/ingest.py  *)
(* with the statements of store.py, the hand-over of alerts.py and the     *)
(* films somebody names by hand, watchlist.py and prompts.py).  The loop's *)
(* pass and the tasks of the requests take turns by one lock; a request    *)
(* itself does not.  Money is counted in two steps: a provider writes what *)
(* it was paid on a shared meter, and whoever drains the meter writes it   *)
(* into the day's usage, which is what the ceilings are compared with.     *)
(*                                                                         *)
(* Left out: topics and their candidates, the source's own units, batch    *)
(* limits, the order in which due films are taken.                         *)
(***************************************************************************)
EXTENDS Naturals, Sequences

CONSTANTS Films,
          Filtered,          \* the films of a channel with a filter
          LiveAtFirst,       \* streams still running at the start
          Hands,             \* requests about one film, each made once
          Loop,              \* the loop's own task
          Length,            \* how many pieces a film is asked about in: its price
          DaySeconds,        \* gemini_daily_video_seconds, in pieces
          DayTokens,         \* daily_token_limit
          ReadingCost, JudgeCost,  \* tokens of one answer
          Retries,           \* how many retry_delays there are
          MaxFailures,       \* reading_max_failures
          JudgeMaxFailures,  \* JUDGE_MAX_FAILURES
          MaxFaults,         \* crashes, failed calls and statements, a bound
          None

ASSUME RoadAssumption == /\ Filtered \subseteq Films /\ LiveAtFirst \subseteq Films
                         /\ Loop \notin Hands
                         /\ DaySeconds \in Nat /\ DayTokens \in Nat
                         /\ Length \in [Films -> 1..DaySeconds]
                         /\ ReadingCost \in Nat \ {0} /\ JudgeCost \in 0..ReadingCost
                         /\ Retries \in Nat /\ MaxFailures \in Nat \ {0}
                         /\ JudgeMaxFailures \in Nat \ {0} /\ MaxFaults \in Nat
                         /\ None \notin {"pass", "named", "again"}

VARIABLES
  shape,    \* what the source says of a film: "live", then "fit" or "unfit" (too short, too long)
  row,      \* the table videos
  usage,    \* the day's row of the table usage
  meter,    \* Meter: paid and not yet drained
  billed,   \* what the providers charged since midnight, for checking only: followed as
  astray,   \* long as nothing was drained by a request, or lost, and not yet written down
  resting,  \* the transcriber refused us, less than a cooldown ago
  written,  \* GeminiTranscripts._written: pieces of a film that is not whole yet
  unjudged, \* Ingest._unjudged
  sulking,  \* Alerts._sulking
  line,     \* Ingest._busy: the holder, then who waits
  job,      \* the place and the locals of the loop and of each request
  mishaps

money == <<usage, meter, billed, astray>>
memory == <<written, unjudged, sulking>>
road == <<shape, row, money, resting, memory, line, job, mishaps>>

Workers == Hands \cup {Loop}
Units == {"seconds", "tokens"}
Zero == [u \in Units |-> 0]
States == {"absent", "discovered", "filtered_out", "no_transcript", "transcribed", "analysed",
           "notified", "quiet", "gave_up"}
StillOnItsRoad == {"discovered", "no_transcript", "transcribed"}
Read == {"analysed", "notified", "quiet"}

NoRow == [state |-> "absent", origins |-> {}, misses |-> 0, failures |-> 0, seen |-> None,
          later |-> FALSE, aged |-> FALSE]
Idle(at) == [at |-> at, task |-> None, film |-> None, todo |-> {}, answer |-> None,
             flight |-> Zero]

RoadInit ==
  /\ shape = [f \in Films |-> IF f \in LiveAtFirst THEN "live" ELSE "fit"]
  /\ row = [f \in Films |-> NoRow]
  /\ usage = Zero /\ meter = Zero /\ billed = Zero /\ astray = FALSE
  /\ resting = FALSE
  /\ written = [f \in Films |-> 0]
  /\ unjudged = [f \in Films |-> 0]
  /\ sulking = {}
  /\ line = <<>>
  /\ job = [w \in Workers |-> Idle(IF w = Loop THEN "rest" ELSE "unused")]
  /\ mishaps = 0

-----------------------------------------------------------------------------
(* The lock, the places and the day.                                        *)

HoldsNoLock(w) == \E i \in DOMAIN line : line[i] = w             \* a mutant of Holds
Holds(w) == line # <<>> /\ Head(line) = w

At(w, place) == job[w].at = place /\ Holds(w)
Film(w) == job[w].film
MovesTo(w, place) == job' = [job EXCEPT ![w].at = place]
Onward(w, place) == job' = [job EXCEPT ![w].at = place, ![w].todo = @ \ {Film(w)}, ![w].film = None,
                                       ![w].answer = None]
Break(w, place) == job' = [job EXCEPT ![w].at = place, ![w].todo = {}, ![w].film = None,
                                      ![w].answer = None]
Fault == mishaps < MaxFaults /\ mishaps' = mishaps + 1

Plus(x, y) == [u \in Units |-> x[u] + y[u]]
Counted(u) == usage[u] + meter[u]

(* _flush: what the meter says is drained and written down, or lost on the way. *)
Flush == usage' = Plus(usage, meter) /\ meter' = Zero /\ UNCHANGED <<billed, astray>>
Lose == /\ meter' = Zero /\ UNCHANGED usage
        /\ IF meter = Zero THEN UNCHANGED <<billed, astray>> ELSE astray' = TRUE /\ billed' = Zero
Bill(u, n) == /\ meter' = [meter EXCEPT ![u] = @ + n]
              /\ billed' = IF astray THEN billed ELSE [billed EXCEPT ![u] = @ + n]
              /\ UNCHANGED <<usage, astray>>

(* Where a pass over a task leaves the lock, and what its worker does then. *)
Leave(w) == /\ line' = Tail(line)
            /\ job' = [job EXCEPT ![w] = Idle(IF w = Loop THEN "rest" ELSE "gone")]

FirstPlace == [pass |-> "list", named |-> "discovered", again |-> "check"]

(* tick, process_now and read_with wait for the lock; the requests' tasks are queued below. *)
Tick == /\ job[Loop].at = "rest"
        /\ line' = Append(line, Loop)
        /\ job' = [job EXCEPT ![Loop].at = "queued", ![Loop].task = "pass"]
        /\ UNCHANGED <<shape, row, money, resting, memory, mishaps>>

TakeTurn(w) == /\ At(w, "queued")
               /\ job' = [job EXCEPT ![w].at = FirstPlace[job[w].task],
                                     ![w].todo = IF w = Loop THEN Films ELSE {}]
               /\ UNCHANGED <<shape, row, money, resting, memory, line, mishaps>>

(* The end of one step and the beginning of the next, before which the loop    *)
(* flushes; a named film begins with its words.                                *)
EndsStep(w, place) ==
  /\ At(w, place) /\ job[w].todo = {}
  /\ IF w = Loop THEN Flush ELSE UNCHANGED money
  /\ UNCHANGED <<shape, resting, memory, line, mishaps>>

Close(w) == /\ At(w, "closing") \/ (At(w, "telling") /\ job[w].todo = {})
            /\ Flush /\ Leave(w)
            /\ UNCHANGED <<shape, row, resting, memory, mishaps>>

-----------------------------------------------------------------------------
(* Discover.                                                                *)

(* upsert_films for one film: a row it has keeps its state, whatever the film *)
(* was judged to be in the meantime.                                          *)
Stored(r, f, door, as) ==
  IF r.state = "absent" THEN [NoRow EXCEPT !.state = as, !.origins = {door}, !.seen = shape[f]]
  ELSE [r EXCEPT !.origins = @ \cup {door},
                 !.seen = IF r.state = "discovered" THEN shape[f] ELSE @]
Upsert(f, door, as) == [row EXCEPT ![f] = Stored(@, f, door, as)]

DropUnwanted(rows) == [f \in Films |-> IF rows[f].state = "discovered" /\ rows[f].seen = "unfit"
                                       THEN NoRow ELSE rows[f]]

ToJudge(f) == row[f].state = "absent" /\ f \in Filtered
Pass(w, f) == job' = [job EXCEPT ![w].todo = @ \ {f}]

(* One channel's listing; a channel has one film here.  The source may not list *)
(* it, or not answer; a stream waits unjudged, and a film out of bounds is not   *)
(* stored, nor looked at again if it is.                                         *)
ListChannel(w, f) ==
  /\ At(w, "list") /\ f \in job[w].todo
  /\ \/ Pass(w, f) /\ UNCHANGED <<row, money>>
     \/ /\ ~ToJudge(f) /\ shape[f] # "unfit"
        /\ Pass(w, f)
        /\ row' = Upsert(f, "channel", "discovered")
        /\ UNCHANGED money
     \/ /\ ToJudge(f) /\ shape[f] = "fit" /\ Counted("tokens") < DayTokens
        /\ job' = [job EXCEPT ![w].at = "judge", ![w].film = f]
        /\ Flush
        /\ UNCHANGED row
  /\ UNCHANGED <<shape, resting, memory, line, mishaps>>

(* _through_filter when the model has answered, or nobody could be asked: passed, *)
(* turned away, or no verdict, which ends in being turned away as well.           *)
Judge(w) ==
  LET f == Film(w) IN
  /\ At(w, "judge")
  /\ \E verdict \in {"passed", "turned away", "no verdict", "nobody"} :
       LET missed == unjudged[f] + 1 IN
       /\ IF verdict = "nobody" THEN UNCHANGED money ELSE Bill("tokens", JudgeCost)
       /\ unjudged' = [unjudged EXCEPT ![f] = CASE verdict = "nobody" -> @
                                                [] verdict = "no verdict" /\ missed < JudgeMaxFailures -> missed
                                                [] OTHER -> 0]
       /\ row' = CASE verdict = "passed" -> Upsert(f, "channel", "discovered")
                   [] \/ verdict = "turned away"
                      \/ verdict = "no verdict" /\ missed >= JudgeMaxFailures
                        -> Upsert(f, "channel", "filtered_out")
                   [] OTHER -> row
  /\ Onward(w, "list")
  /\ UNCHANGED <<shape, resting, written, sulking, line, mishaps>>

LivePending(rows) == {f \in Films : rows[f].state = "discovered" /\ rows[f].seen = "live"}

ListingsEnd(w) ==
  /\ At(w, "list") /\ job[w].todo = {}
  /\ row' = DropUnwanted(row)
  /\ LET live == LivePending(row') IN
       job' = [job EXCEPT ![w].at = IF live = {} THEN "discovered" ELSE "refresh", ![w].todo = live]
  /\ UNCHANGED <<shape, money, resting, memory, line, mishaps>>

RefreshedNever(f, live) == row[f]                                 \* a mutant of Refreshed
Refreshed(f, live) == IF f \in live /\ row[f].state = "discovered"
                      THEN [row[f] EXCEPT !.seen = shape[f]] ELSE row[f]

(* _refresh_live: the streams are asked about by name. *)
RefreshLive(w) ==
  /\ At(w, "refresh")
  /\ row' = DropUnwanted([f \in Films |-> Refreshed(f, job[w].todo)])
  /\ Break(w, "discovered")
  /\ UNCHANGED <<shape, money, resting, memory, line, mishaps>>

RefreshUnanswered(w) ==
  /\ At(w, "refresh") /\ Fault
  /\ Break(w, "discovered")
  /\ UNCHANGED <<shape, row, money, resting, memory, line>>

-----------------------------------------------------------------------------
(* Transcribe.                                                              *)

(* The films of a worker: everybody's, or the one that was named, which is due *)
(* whatever date its last miss has set.                                        *)
Mine(w) == IF job[w].task = "named" THEN {job[w].film} ELSE Films

DueForTranscription(rows, w) ==
  {f \in Mine(w) : /\ rows[f].state \in {"discovered", "no_transcript"} /\ rows[f].seen # "live"
                   /\ (job[w].task = "named" \/ ~rows[f].later)}

StartTranscribing(w) ==
  /\ EndsStep(w, "discovered")
  /\ row' = DropUnwanted(row)
  /\ job' = [job EXCEPT ![w].at = "choose", ![w].todo = DueForTranscription(row', w)]

(* A named film stays the worker's film for its reading. *)
Done(w, f, place) ==
  job' = [job EXCEPT ![w].at = place, ![w].todo = @ \ {f}, ![w].answer = None,
                     ![w].film = IF job[w].task = "named" THEN @ ELSE None]
Stop(w, place) ==
  job' = [job EXCEPT ![w].at = place, ![w].todo = {}, ![w].answer = None,
                     ![w].film = IF job[w].task = "named" THEN @ ELSE None]

(* _left_today and the price. *)
ChooseFilm(w, f) ==
  /\ At(w, "choose") /\ f \in job[w].todo
  /\ Flush
  /\ IF resting \/ Counted("seconds") >= DaySeconds THEN Stop(w, "choose")
     ELSE IF Counted("seconds") + Length[f] > DaySeconds THEN Done(w, f, "choose")
     ELSE job' = [job EXCEPT ![w].at = "hear", ![w].film = f]
  /\ UNCHANGED <<shape, row, resting, memory, line, mishaps>>

Heard(w, answer) == job' = [job EXCEPT ![w].at = "settle", ![w].answer = answer]

(* fetch: the next piece that is not kept yet, and the words once all are,  *)
(* if anything was said.                                                       *)
HearPiece(w) ==
  LET f == Film(w) IN
  /\ At(w, "hear")
  /\ IF written[f] + 1 < Length[f]
     THEN written' = [written EXCEPT ![f] = @ + 1] /\ UNCHANGED job
     ELSE /\ written' = [written EXCEPT ![f] = 0]
          /\ \E answer \in {"words", "nothing"} : Heard(w, answer)
  /\ Bill("seconds", 1)
  /\ UNCHANGED <<shape, row, resting, unjudged, sulking, line, mishaps>>

(* An answer without words: refused for nothing, or cut off and paid for. *)
HearNothing(w) ==
  /\ At(w, "hear") /\ Heard(w, "nothing")
  /\ UNCHANGED money \/ Bill("seconds", 1)
  /\ UNCHANGED <<shape, row, resting, memory, line, mishaps>>

HearBlocked(w) ==
  /\ At(w, "hear") /\ Fault /\ Heard(w, "blocked")
  /\ UNCHANGED <<shape, row, money, resting, memory, line>>

(* _settle: save_transcript asks the film for no state. *)
Settle(w) ==
  LET f == Film(w)
      givesUp == row[f].misses + 1 > Retries IN
  /\ At(w, "settle") /\ Flush
  /\ resting' = (job[w].answer = "blocked")
  /\ CASE job[w].answer = "words" ->
            row' = [row EXCEPT ![f].state = "transcribed", ![f].later = FALSE]
       [] job[w].answer = "nothing" ->
            row' = [row EXCEPT ![f].state = IF givesUp THEN "gave_up" ELSE "no_transcript",
                               ![f].misses = @ + 1, ![f].later = ~givesUp]
       [] OTHER -> UNCHANGED row
  /\ IF job[w].answer = "blocked" THEN Stop(w, "choose") ELSE Done(w, f, "choose")
  /\ UNCHANGED <<shape, memory, line, mishaps>>

-----------------------------------------------------------------------------
(* Read.                                                                    *)

StartReading(w) ==
  /\ EndsStep(w, "choose")
  /\ job' = [job EXCEPT ![w].at = "pick",
                        ![w].todo = {f \in Mine(w) : /\ row[f].state = "transcribed"
                                                     /\ row[f].failures < MaxFailures}]
  /\ UNCHANGED row

PickReading(w, f) ==
  /\ At(w, "pick") /\ f \in job[w].todo
  /\ Flush
  /\ IF Counted("tokens") >= DayTokens THEN Stop(w, "pick")
     ELSE job' = [job EXCEPT ![w].at = "reading", ![w].film = f]
  /\ UNCHANGED <<shape, row, resting, memory, line, mishaps>>

(* read_with, which asks again what order_reading asked before the wait. *)
TokensAreLeft == Counted("tokens") < DayTokens
ReadAgain(w) ==
  /\ At(w, "check")
  /\ Flush
  /\ MovesTo(w, IF TokensAreLeft THEN "reading" ELSE "closing")
  /\ UNCHANGED <<shape, row, resting, memory, line, mishaps>>

AfterReading(w) == IF job[w].task = "again" THEN Break(w, "closing") ELSE Done(w, Film(w), "pick")

(* _read_with, up to the model's answer: a reading, or one that will not be stored. *)
ReadingComes(w) ==
  /\ At(w, "reading")
  /\ \E answer \in {"reading", "unusable"} :
       job' = [job EXCEPT ![w].at = "save", ![w].answer = answer]
  /\ Bill("tokens", ReadingCost)
  /\ UNCHANGED <<shape, row, resting, memory, line, mishaps>>

ReadingFails(w) ==
  /\ At(w, "reading") /\ Fault
  /\ AfterReading(w)
  /\ UNCHANGED <<shape, row, money, resting, memory, line>>

StateOnceRead(own, state) == IF own /\ state = "transcribed" THEN "analysed" ELSE state

(* save_reading, by the film's own prompt or by another; record_reading_failure *)
(* for a reading that counts.                                                   *)
SaveReading(w) ==
  LET f == Film(w) IN
  /\ At(w, "save")
  /\ IF job[w].answer = "unusable"
     THEN row' = IF job[w].task = "again" THEN row ELSE [row EXCEPT ![f].failures = @ + 1]
     ELSE \E own \in (IF job[w].task = "again" THEN BOOLEAN ELSE {TRUE}) :
            row' = [row EXCEPT ![f].aged = FALSE,
                               ![f].state = StateOnceRead(own, @)]
  /\ AfterReading(w)
  /\ UNCHANGED <<shape, money, resting, memory, line, mishaps>>

-----------------------------------------------------------------------------
(* Tell: Alerts.run over every film that was read, whoever runs it.         *)

StartTelling(w) ==
  /\ EndsStep(w, "pick")
  /\ row' = [f \in Films |-> IF row[f].state = "analysed" /\ row[f].aged
                             THEN [row[f] EXCEPT !.state = "quiet"] ELSE row[f]]
  /\ job' = [job EXCEPT ![w].at = "telling", ![w].film = None,
                        ![w].todo = {f \in Films \ sulking : row'[f].state = "analysed"}]

SetOutcome(f, outcome) ==
  row' = [row EXCEPT ![f].state = IF @ = "analysed" THEN outcome ELSE @]

(* A film that came in by hand alone ends quiet; any other is handed over. *)
TellFilm(w, f) ==
  /\ At(w, "telling") /\ f \in job[w].todo
  /\ IF row[f].origins = {"manual"}
     THEN SetOutcome(f, "quiet") /\ Pass(w, f)
     ELSE job' = [job EXCEPT ![w].at = "publish", ![w].film = f] /\ UNCHANGED row
  /\ UNCHANGED <<shape, money, resting, memory, line, mishaps>>

(* Taken, and marked then: a film whose marker is lost is handed over again,  *)
(* which the alerts package takes for the same event.                         *)
Published(w) ==
  /\ At(w, "publish")
  /\ SetOutcome(Film(w), "notified") /\ Onward(w, "telling")
  /\ UNCHANGED <<shape, money, resting, memory, line, mishaps>>

(* Rejected, or no answer: no marker, and after a refusal ten minutes of peace. *)
NotPublished(w) ==
  /\ At(w, "publish") /\ Fault /\ Onward(w, "telling")
  /\ sulking' = sulking \cup {Film(w)} \/ UNCHANGED sulking
  /\ UNCHANGED <<shape, row, money, resting, written, unjudged, line>>

-----------------------------------------------------------------------------
(* What is asked for by hand, without the lock until its task is started.   *)

Join(h, task, f) == /\ line' = Append(line, h)
                    /\ job' = [job EXCEPT ![h] = [Idle("queued") EXCEPT !.task = task, !.film = f]]

(* analyse_film, up to its first wait on the source. *)
NameFilm(h, f) ==
  /\ job[h].at = "unused"
  /\ CASE row[f].state = "filtered_out" ->
            /\ row' = [row EXCEPT ![f].state = "discovered", ![f].origins = @ \cup {"manual"}]
            /\ Join(h, "named", f)
       [] row[f].state = "absent" ->
            /\ job' = [job EXCEPT ![h].at = "details", ![h].film = f]
            /\ UNCHANGED <<row, line>>
       [] row[f].state \in StillOnItsRoad -> Join(h, "named", f) /\ UNCHANGED row
       [] OTHER -> job' = [job EXCEPT ![h].at = "gone"] /\ UNCHANGED <<row, line>>
  /\ UNCHANGED <<shape, money, resting, memory, mishaps>>

(* The source knows the film: it is stored, and the meter is drained with  *)
(* whatever else is on it.                                                 *)
DetailsCome(h) ==
  LET f == Film(h) IN
  /\ job[h].at = "details"
  /\ \/ /\ shape[f] # "unfit"
        /\ row' = Upsert(f, "manual", "discovered")
        /\ job' = [job EXCEPT ![h].at = "count", ![h].flight = meter]
        /\ Lose
     \/ /\ job' = [job EXCEPT ![h] = Idle("gone")]   \* refused: no answer, or out of bounds
        /\ UNCHANGED <<row, money>>
  /\ UNCHANGED <<shape, resting, memory, line, mishaps>>

(* add_usage, and start_now. *)
CountDetails(h) ==
  /\ job[h].at = "count"
  /\ usage' = Plus(usage, job[h].flight)
  /\ Join(h, "named", Film(h))
  /\ UNCHANGED <<shape, row, meter, billed, astray, resting, memory, mishaps>>

CountFails(h) ==
  /\ job[h].at = "count" /\ Fault
  /\ job' = [job EXCEPT ![h] = Idle("gone")]
  /\ UNCHANGED <<shape, row, money, resting, memory, line>>

(* order_reading and start_reading: what is still on the meter is not seen. *)
OrderReading(h, f) ==
  /\ job[h].at = "unused"
  /\ row[f].state \in Read \cup {"transcribed"} /\ usage["tokens"] < DayTokens
  /\ Join(h, "again", f)
  /\ UNCHANGED <<shape, row, money, resting, memory, mishaps>>

-----------------------------------------------------------------------------
(* What goes wrong, and time.                                               *)

StepAfter == [discovered |-> "choose", choose |-> "pick", pick |-> "telling"]
EndOf == [list |-> "discovered", choose |-> "choose", settle |-> "choose", pick |-> "pick",
          save |-> "pick", telling |-> "telling", publish |-> "telling", check |-> "closing"]

(* A statement fails: the step is over, or the next one before it began, and the *)
(* pass goes on; a task by hand is over.  What was to be flushed with it is lost  *)
(* or stays on the meter.                                                         *)
StatementFails(w) ==
  LET between == job[w].todo = {} /\ job[w].at \in DOMAIN StepAfter
      within == job[w].at \in DOMAIN EndOf /\ (job[w].todo # {} \/ job[w].at \in {"list", "save", "check"}) IN
  /\ Holds(w) /\ Fault
  /\ \/ /\ between
        /\ Break(w, IF w = Loop THEN StepAfter[job[w].at] ELSE "closing")
        /\ IF w = Loop THEN Flush ELSE UNCHANGED money
     \/ /\ within
        /\ Break(w, IF w = Loop THEN EndOf[job[w].at] ELSE "closing")
        /\ Lose \/ UNCHANGED money
  /\ UNCHANGED <<shape, row, resting, memory, line>>

(* The flush at the end of a step fails: so does the pass. *)
FlushFails(w) ==
  /\ \/ w = Loop /\ job[w].at \in {"discovered", "choose", "pick", "telling"} /\ job[w].todo = {}
     \/ job[w].at = "closing"
  /\ Holds(w) /\ Fault
  /\ Lose /\ Leave(w)
  /\ UNCHANGED <<shape, row, resting, memory>>

(* The process dies, or is stopped, and starts again with what the tables hold. *)
Crash ==
  /\ Fault /\ Lose
  /\ line' = <<>>
  /\ job' = [w \in Workers |-> IF w = Loop THEN Idle("rest")
                                ELSE IF job[w].at = "unused" THEN job[w] ELSE Idle("gone")]
  /\ written' = [f \in Films |-> 0] /\ unjudged' = [f \in Films |-> 0] /\ sulking' = {}
  /\ UNCHANGED <<shape, row, resting>>

StreamEnds(f) == /\ shape[f] = "live"
                 /\ \E end \in {"fit", "unfit"} : shape' = [shape EXCEPT ![f] = end]
                 /\ UNCHANGED <<row, money, resting, memory, line, job, mishaps>>

(* next_attempt_at comes. *)
MissIsDue(f) == /\ row[f].later
                /\ row' = [row EXCEPT ![f].later = FALSE]
                /\ UNCHANGED <<shape, money, resting, memory, line, job, mishaps>>

(* The alert window passes over a film that was read. *)
WindowPasses(f) == /\ row[f].state = "analysed" /\ ~row[f].aged
                   /\ row' = [row EXCEPT ![f].aged = TRUE]
                   /\ UNCHANGED <<shape, money, resting, memory, line, job, mishaps>>

RestEnds == /\ resting /\ resting' = FALSE
            /\ UNCHANGED <<shape, row, money, memory, line, job, mishaps>>

SulkEnds(f) == /\ f \in sulking /\ sulking' = sulking \ {f}
               /\ UNCHANGED <<shape, row, money, resting, written, unjudged, line, job, mishaps>>

(* A new day: what a request is still to count goes to yesterday's row. *)
Midnight == /\ usage # Zero \/ billed # Zero \/ astray
            /\ usage' = Zero /\ billed' = Zero /\ astray' = FALSE
            /\ job' = [w \in Workers |-> [job[w] EXCEPT !.flight = Zero]]
            /\ UNCHANGED <<shape, row, meter, resting, memory, line, mishaps>>

-----------------------------------------------------------------------------
Discover(w) == \/ \E f \in Films : ListChannel(w, f)
               \/ Judge(w) \/ ListingsEnd(w) \/ RefreshLive(w)
Transcribe(w) == \/ StartTranscribing(w) \/ \E f \in Films : ChooseFilm(w, f)
                 \/ HearPiece(w) \/ HearNothing(w) \/ Settle(w)
ReadFilms(w) == \/ StartReading(w) \/ \E f \in Films : PickReading(w, f)
                \/ ReadAgain(w) \/ ReadingComes(w) \/ SaveReading(w)
Tell(w) == \/ StartTelling(w) \/ \E f \in Films : TellFilm(w, f)
           \/ Published(w)

Work(w) == \/ TakeTurn(w) \/ Close(w)
           \/ Discover(w) \/ Transcribe(w) \/ ReadFilms(w) \/ Tell(w)
Trouble(w) == \/ RefreshUnanswered(w) \/ HearBlocked(w) \/ ReadingFails(w) \/ NotPublished(w)
              \/ StatementFails(w) \/ FlushFails(w)
Request(h) == \/ \E f \in Films : NameFilm(h, f) \/ OrderReading(h, f)
              \/ DetailsCome(h) \/ CountDetails(h) \/ CountFails(h)
Time(f) == MissIsDue(f) \/ WindowPasses(f) \/ SulkEnds(f) \/ StreamEnds(f)

RoadNext == \/ Tick \/ Crash \/ Midnight \/ RestEnds
            \/ \E w \in Workers : Work(w) \/ Trouble(w)
            \/ \E h \in Hands : Request(h)
            \/ \E f \in Films : Time(f)

(* What is ready runs, and time passes; no answer has to be a good one, no     *)
(* stream to end, no request to come.                                          *)
Fairness == /\ WF_road(Tick) /\ WF_road(Midnight) /\ WF_road(RestEnds)
            /\ \A w \in Workers : WF_road(Work(w))
            /\ \A f \in Films : WF_road(MissIsDue(f)) /\ WF_road(SulkEnds(f))

RoadSpec == RoadInit /\ [][RoadNext]_road /\ Fairness

-----------------------------------------------------------------------------
(* Properties.                                                              *)

Places == {"rest", "queued", "list", "judge", "refresh", "discovered", "choose", "hear", "settle",
           "pick", "reading", "check", "save", "telling", "publish", "closing", "unused",
           "details", "count", "gone"}

(* Every variable keeps its type. *)
RoadTypes ==
  /\ shape \in [Films -> {"live", "fit", "unfit"}]
  /\ row \in [Films -> [state : States, origins : SUBSET {"channel", "manual"}, misses : 0..Retries + 1,
                        failures : 0..MaxFailures, seen : {None, "live", "fit", "unfit"},
                        later : BOOLEAN, aged : BOOLEAN]]
  /\ \A amount \in {usage, meter, billed} : amount \in [Units -> Nat]
  /\ resting \in BOOLEAN /\ astray \in BOOLEAN
  /\ \A f \in Films : written[f] < Length[f] /\ unjudged[f] < JudgeMaxFailures
  /\ sulking \subseteq Films
  /\ line \in Seq(Workers)
  /\ \A w \in Workers : job[w].at \in Places /\ job[w].todo \subseteq Films
  /\ mishaps \in 0..MaxFaults

(* The day is kept, whoever spends it: the loop's pass and the films named by    *)
(* hand never have the transcriber hear more than the day's ceiling, and the      *)
(* tokens pass theirs by less than one answer.  Not so on a day on which a crash  *)
(* or a failed write lost what was on the meter, or a request took it off, which  *)
(* no ceiling sees until it is written down (ingest.py:227, :596, watchlist.py:239). *)
DayIsKept == /\ billed["seconds"] <= DaySeconds
             /\ billed["tokens"] < DayTokens + ReadingCost

(* What is bought is still wanted when it is paid for: a film is heard only while  *)
(* it has no words, however long its turn took or whoever named it meanwhile, and  *)
(* read by the pass only while it has words and no reading (store.py:480, :542).   *)
HeardForItsWords(w) == job[w].at \in {"hear", "settle"}
                         => row[Film(w)].state \in {"discovered", "no_transcript"}
ReadForItsWords(w) == job[w].at \in {"reading", "save"}
                        => row[Film(w)].state \in {"transcribed"} \cup (IF job[w].task = "again" THEN Read ELSE {})
NothingBoughtTwice == \A w \in Workers : HeardForItsWords(w) /\ ReadForItsWords(w)

(* A row only moves along the road: words are not lost again, a reading is not     *)
(* forgotten, a film that was told or left quiet stays so, and only a film that is *)
(* new and out of bounds is dropped (store.py:405, :447, :511, :519, :583, :604).  *)
RoadSteps ==
  ({"absent"} \X {"discovered", "filtered_out"}) \cup ({"filtered_out"} \X {"discovered"})
  \cup ({"discovered", "no_transcript"} \X {"no_transcript", "transcribed", "gave_up"})
  \cup ({"discovered"} \X {"absent"}) \cup ({"transcribed"} \X {"analysed"})
  \cup ({"analysed"} \X {"notified", "quiet"})
RowsMoveOn ==
  [][\A f \in Films : row'[f].state # row[f].state => <<row[f].state, row'[f].state>> \in RoadSteps]_road

(* A film on the road comes to an end of it: it is told or left quiet, given up,  *)
(* dropped, or unreadable for good.  A restart, a refusal, a spent day or a stream *)
(* the channel no longer lists leave none waiting for ever (ingest.py:4, :492).    *)
OnTheRoad(f) == /\ row[f].state \in StillOnItsRoad \cup {"analysed"}
                /\ row[f].state = "discovered" => shape[f] # "live"
AtAnEnd(f) == \/ row[f].state \in {"notified", "quiet", "gave_up", "absent"}
              \/ row[f].state = "transcribed" /\ row[f].failures >= MaxFailures
EveryFilmEnds == \A f \in Films : OnTheRoad(f) ~> AtAnEnd(f)
=============================================================================

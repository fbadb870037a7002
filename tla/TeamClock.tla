----------------------------- MODULE TeamClock -----------------------------
(***************************************************************************)
(* The clock of the teams package (scheduler/clock.py and the rows of      *)
(* store/recurring.py): one task that wakes, lists what is due, claims     *)
(* each row, asks a trigger's question, looks whether the previous run     *)
(* still works, starts a run and writes down what the fire came to, and    *)
(* one more task per started run that moves the streak of failures when it *)
(* ends.  Of a run only its status is kept, which moves as RunLifecycle    *)
(* lets it.                                                                *)
(***************************************************************************)
EXTENDS Naturals, FiniteSets

CONSTANTS Schedule, Trigger,   \* the rows of the two tables
          Kept,                \* how many runs of each row are kept at once, a bound
          Threshold,           \* settings.scheduler_failure_threshold
          MaxFault,            \* crashes and failed statements, a bound
          Nothing

ASSUME ClockAssumption == /\ Schedule \cap Trigger = {}
                          /\ Threshold \in Nat \ {0}
                          /\ MaxFault \in Nat
                          /\ Kept \in [Schedule \cup Trigger -> Nat \ {0}]

Source == Schedule \cup Trigger
Slots(s) == {s} \X (1..Kept[s])
Run == UNION {Slots(s) : s \in Source}

ASSUME NothingAssumption == Nothing \notin Source \cup Run

VARIABLES
  enabled,    \* enabled of each row
  due,        \* next_fire_at, or next_check_at, has come
  failures,   \* consecutive_failures
  lastResult, \* triggers.last_result; NULL reads as FALSE does
  latest,     \* the run of the newest fire row with outcome 'started'
  run,        \* runs.status, whose run it is, and its _track_run
  clock,      \* what tick() is at
  owed,       \* fires claimed and not yet written down
  faults

vars == <<enabled, due, failures, lastResult, latest, run, clock, owed, faults>>
rows == <<enabled, due, failures, lastResult>>

Open == {"pending", "running"}
Ended == {"completed", "failed", "cancelled"}
InProgressRunning == {"running"}                               \* a mutant of InProgress
InProgress == Open

NoRun == [of |-> Nothing, status |-> "none", fired |-> FALSE, tracker |-> "none"]
OpenRuns(s) == {r \in Run : run[r].of = s /\ run[r].status \in Open}

(* A run that has ended and that no task has yet to count is history: of the *)
(* newest one the clock only asks whether it is still at work, and a          *)
(* cancelled one moves no streak.                                             *)
Over(rec) == rec.status = "cancelled" \/ (rec.status \in Ended /\ rec.tracker = "none")
WriteRuns(new, newest, held) ==
  /\ run' = [r \in Run |-> IF Over(new[r]) /\ r # held THEN NoRun ELSE new[r]]
  /\ latest' = [s \in Source |->
                  IF newest[s] # Nothing /\ Over(new[newest[s]]) THEN Nothing ELSE newest[s]]

Asleep == [at |-> "asleep", list |-> {}, table |-> Schedule, row |-> Nothing,
           last |-> FALSE, run |-> Nothing]

Init == /\ enabled = [s \in Source |-> TRUE]
        /\ due = [s \in Source |-> FALSE]
        /\ failures = [s \in Source |-> 0]
        /\ lastResult = [t \in Trigger |-> FALSE]
        /\ latest = [s \in Source |-> Nothing]
        /\ run = [r \in Run |-> NoRun]
        /\ clock = Asleep
        /\ owed = [s \in Source |-> 0]
        /\ faults = 0

-----------------------------------------------------------------------------
(* One wake.                                                                *)

Now(at) == clock' = [clock EXCEPT !.at = at]
NextRow == clock' = [clock EXCEPT !.at = "next", !.row = Nothing, !.run = Nothing, !.last = FALSE]
Owe(s) == owed' = [owed EXCEPT ![s] = @ + 1]
Pay(s) == owed' = [owed EXCEPT ![s] = @ - 1]

Due(table) == {s \in table : enabled[s] /\ due[s]}

(* tick() lists the schedules that are due; _run_forever slept before. *)
Wake == /\ clock.at = "asleep"
        /\ clock' = [clock EXCEPT !.at = "next", !.list = Due(Schedule), !.table = Schedule]
        /\ UNCHANGED <<rows, latest, run, owed, faults>>

(* The schedules are through: the triggers are listed only now. *)
ListTriggers == /\ clock.at = "next" /\ clock.list = {} /\ clock.table = Schedule
                /\ clock' = [clock EXCEPT !.list = Due(Trigger), !.table = Trigger]
                /\ UNCHANGED <<rows, latest, run, owed, faults>>

WakeEnds == /\ clock.at = "next" /\ clock.list = {} /\ clock.table = Trigger
            /\ clock' = Asleep
            /\ UNCHANGED <<rows, latest, run, owed, faults>>

(* claim_due moves the row on before anything is done for it, and gives it  *)
(* to whoever finds it enabled and due; else this turn is over.             *)
Claim(s) ==
  /\ clock.at = "next" /\ s \in clock.list
  /\ IF enabled[s] /\ due[s]
     THEN /\ due' = [due EXCEPT ![s] = FALSE]
          /\ clock' = [clock EXCEPT !.list = @ \ {s}, !.row = s,
                          !.at = IF s \in Trigger THEN "ask" ELSE "look",
                          !.last = s \in Trigger /\ lastResult[s]]
          /\ IF s \in Schedule THEN Owe(s) ELSE UNCHANGED owed
     ELSE /\ clock' = [clock EXCEPT !.list = @ \ {s}]
          /\ UNCHANGED <<due, owed>>
  /\ UNCHANGED <<enabled, failures, lastResult, latest, run, faults>>

(* _evaluate_condition: one tool call, answered or not. *)
Ask == /\ clock.at = "ask"
       /\ \E answer \in {"true", "false", "unavailable"} : Now(answer)
       /\ UNCHANGED <<rows, latest, run, owed, faults>>

(* Nobody could be asked: the reading is NULL, and the fire says so. *)
RecordUnavailable ==
  /\ clock.at = "unavailable"
  /\ lastResult' = [lastResult EXCEPT ![clock.row] = FALSE]
  /\ Now("skip") /\ Owe(clock.row)
  /\ UNCHANGED <<enabled, due, failures, latest, run, faults>>

(* record_trigger_check: only the change to true is a fire; whether the      *)
(* cool-down of the last one is over is a matter of time, which may answer   *)
(* either way.                                                               *)
RecordCheck ==
  /\ clock.at \in {"true", "false"}
  /\ LET t == clock.row
         edge == clock.at = "true" /\ ~clock.last
     IN /\ lastResult' = [lastResult EXCEPT ![t] = clock.at = "true"]
        /\ CASE ~edge -> NextRow /\ UNCHANGED owed
             [] edge -> Owe(t) /\ \E past \in {"look", "skip"} : Now(past)
  /\ UNCHANGED <<enabled, due, failures, latest, run, faults>>

(* latest_run_status: the status of the run of the newest started fire. *)
StillWorks(s) == latest[s] # Nothing /\ run[latest[s]].status \in InProgress

LookAtPrevious == /\ clock.at = "look"
                  /\ Now(IF StillWorks(clock.row) THEN "skip" ELSE "start")
                  /\ UNCHANGED <<rows, latest, run, owed, faults>>

(* The revision is gone, a model is no longer offered, or a ceiling of the  *)
(* day is reached: the fire is kept with the reason.                        *)
Refused == /\ clock.at = "start"
           /\ Now("skip")
           /\ UNCHANGED <<rows, latest, run, owed, faults>>

(* start_run_on_revision creates the run and its task. *)
StartRun == /\ clock.at = "start"
            /\ \E free \in Slots(clock.row) : run[free] = NoRun
            /\ LET r == CHOOSE free \in Slots(clock.row) : run[free] = NoRun
               IN /\ run' = [run EXCEPT ![r] = [NoRun EXCEPT !.of = clock.row, !.status = "pending"]]
                  /\ clock' = [clock EXCEPT !.at = "started", !.run = r]
            /\ UNCHANGED <<rows, latest, owed, faults>>

RecordSkipped == /\ clock.at = "skip"
                 /\ NextRow /\ Pay(clock.row)
                 /\ UNCHANGED <<rows, latest, run, faults>>

(* The fire row is the only record of whose run it is; then its tracker. *)
RecordStarted == /\ clock.at = "started"
                 /\ WriteRuns([run EXCEPT ![clock.run].fired = TRUE, ![clock.run].tracker = "waits"],
                           [latest EXCEPT ![clock.row] = clock.run], Nothing)
                 /\ NextRow /\ Pay(clock.row)
                 /\ UNCHANGED <<rows, faults>>

-----------------------------------------------------------------------------
(* A started run, as RunLifecycle has it, and the task that waits for it.   *)

RunMoves(r) ==
  /\ run[r].status \in Open
  /\ \E status \in Ended \cup {"running"} :
       /\ status # run[r].status
       /\ status = "completed" => run[r].status = "running"
       /\ WriteRuns([run EXCEPT ![r].status = status], latest, clock.run)
  /\ UNCHANGED <<rows, clock, owed, faults>>

(* _track_run: the streak is reset, moved, or left alone. *)
MoveStreak(r) ==
  /\ run[r].tracker = "waits" /\ run[r].status \in Ended
  /\ LET s == run[r].of
         count == CASE run[r].status = "completed" -> 0
                    [] run[r].status = "failed" -> IF failures[s] < Threshold THEN failures[s] + 1 ELSE Threshold
     IN /\ failures' = [failures EXCEPT ![s] = count]
        /\ WriteRuns([run EXCEPT ![r].tracker =
                     IF run[r].status = "failed" /\ count >= Threshold THEN "disables" ELSE "none"],
                  latest, clock.run)
  /\ UNCHANGED <<enabled, due, lastResult, clock, owed, faults>>

(* disable_for_failures: a statement of its own, that asks nothing again. *)
DisableForFailures(r) ==
  /\ run[r].tracker = "disables"
  /\ enabled' = [enabled EXCEPT ![run[r].of] = FALSE]
  /\ WriteRuns([run EXCEPT ![r].tracker = "none"], latest, clock.run)
  /\ UNCHANGED <<due, failures, lastResult, clock, owed, faults>>

-----------------------------------------------------------------------------
(* The operator, time, and what fails.                                      *)

(* set_enabled: switched on again, a row has no failures behind it. *)
SetEnabled(s) ==
  /\ enabled' = [enabled EXCEPT ![s] = ~@]
  /\ failures' = IF enabled[s] THEN failures ELSE [failures EXCEPT ![s] = 0]
  /\ UNCHANGED <<due, lastResult, latest, run, clock, owed, faults>>

TimeComes(s) == /\ ~due[s]
                /\ due' = [due EXCEPT ![s] = TRUE]
                /\ UNCHANGED <<enabled, failures, lastResult, latest, run, clock, owed, faults>>

(* A statement of this row's turn fails: _attempt contains it, and the wake *)
(* goes on with the next row.  What was owed is lost with it.               *)
AtStatement == {"ask", "true", "false", "unavailable", "look", "start", "skip", "started"}
RowFails ==
  /\ faults < MaxFault /\ clock.at \in AtStatement
  /\ faults' = faults + 1
  /\ owed' = [owed EXCEPT ![clock.row] = 0]
  /\ NextRow /\ WriteRuns(run, latest, Nothing)
  /\ UNCHANGED rows

(* The claim itself fails, with or without having moved the row on. *)
ClaimFails(s) ==
  /\ faults < MaxFault /\ clock.at = "next" /\ s \in clock.list
  /\ faults' = faults + 1
  /\ clock' = [clock EXCEPT !.list = @ \ {s}]
  /\ due' \in {due, [due EXCEPT ![s] = @ /\ ~enabled[s]]}
  /\ UNCHANGED <<enabled, failures, lastResult, latest, run, owed>>

(* A listing fails and takes the wake with it; _run_forever logs and sleeps. *)
WakeFails ==
  /\ faults < MaxFault /\ clock.at \in {"asleep", "next"} /\ clock.list = {}
  /\ faults' = faults + 1
  /\ clock' = Asleep
  /\ UNCHANGED <<rows, latest, run, owed>>

(* A tracker's own statement fails: logged, and the streak stays. *)
TrackerFails(r) ==
  /\ faults < MaxFault
  /\ run[r].tracker = "disables" \/ (run[r].tracker = "waits" /\ run[r].status \in Ended)
  /\ faults' = faults + 1
  /\ WriteRuns([run EXCEPT ![r].tracker = "none"], latest, clock.run)
  /\ UNCHANGED <<rows, clock, owed>>

(* The process ends, and the next one fails what it left open before it      *)
(* serves; nothing of this runs in between.                                  *)
Restart ==
  /\ faults < MaxFault
  /\ faults' = faults + 1
  /\ clock' = Asleep
  /\ WriteRuns([r \in Run |-> [run[r] EXCEPT !.tracker = "none",
                              !.status = IF @ \in Open THEN "failed" ELSE @]], latest, Nothing)
  /\ owed' = [s \in Source |-> 0]
  /\ UNCHANGED rows

-----------------------------------------------------------------------------
Turn == \/ Wake \/ ListTriggers \/ WakeEnds \/ \E s \in Source : Claim(s)
        \/ Ask \/ RecordUnavailable \/ RecordCheck \/ LookAtPrevious
        \/ Refused \/ StartRun \/ RecordSkipped \/ RecordStarted

Next == \/ Turn
        \/ \E r \in Run : RunMoves(r) \/ MoveStreak(r) \/ DisableForFailures(r) \/ TrackerFails(r)
        \/ \E s \in Source : SetEnabled(s) \/ TimeComes(s) \/ ClaimFails(s)
        \/ RowFails \/ WakeFails \/ Restart

Spec == Init /\ [][Next]_vars

-----------------------------------------------------------------------------
RunRecord == [of : Source \cup {Nothing}, status : {"none"} \cup Open \cup Ended,
              fired : BOOLEAN, tracker : {"none", "waits", "disables"}]

TypeOK ==
  /\ enabled \in [Source -> BOOLEAN] /\ due \in [Source -> BOOLEAN]
  /\ failures \in [Source -> Nat]
  /\ lastResult \in [Trigger -> BOOLEAN]
  /\ latest \in [Source -> Run \cup {Nothing}]
  /\ run \in [Run -> RunRecord]
  /\ clock.at \in AtStatement \cup {"asleep", "next"}
  /\ clock.list \subseteq Source /\ clock.table \in {Schedule, Trigger}
  /\ clock.row \in Source \cup {Nothing} /\ clock.run \in Run \cup {Nothing} /\ clock.last \in BOOLEAN
  /\ owed \in [Source -> Nat] /\ faults \in 0..MaxFault

(* A source never has two runs at work of which both are on record: a        *)
(* schedule that overlaps itself doubles its team's cost.  A run started in  *)
(* the very turn under way, or one whose fire row a fault kept from being    *)
(* written, is not on record - that one the clock cannot see.                *)
NoOverlap ==
  \A s \in Source :
    /\ Cardinality({r \in OpenRuns(s) : run[r].fired}) <= 1
    /\ (Cardinality(OpenRuns(s)) > 1 => faults > 0)

(* Every fire that was claimed is written down - as started, skipped with    *)
(* its reason, or unavailable - once and by the end of its turn, unless a    *)
(* fault took it: a team that did not run can be told from a clock that did  *)
(* not ask.  A fault clears what is owed, so what it costs is not said here. *)
FireIsAccounted ==
  \A s \in Source : owed[s] = IF /\ clock.row = s
                                 /\ clock.at \in {"look", "start", "skip", "started"} THEN 1 ELSE 0
(* A source whose streak has reached the threshold is off, or the task that  *)
(* counted the last failure is about to switch it off, unless a fault kept    *)
(* it from that: runs that end at the same moment, and the operator who        *)
(* switches the source on between the two statements, lose no switching off.  *)
StreakSwitchesOff ==
  \A s \in Source :
    enabled[s] /\ failures[s] >= Threshold =>
      faults > 0 \/ \E r \in Run : run[r].of = s /\ run[r].tracker = "disables"
=============================================================================

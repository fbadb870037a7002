-------------------------- MODULE IngestSupervisor --------------------------
(***************************************************************************)
(* Who collects what: the Ingest object of workbench/market_data, which    *)
(* keeps one task per tracked pair.  Modelled are the pair tasks and the   *)
(* callback of their end, the revivals of the ones that died, the pass     *)
(* that matches tasks to tracked pairs (sync), asked for by the start, the *)
(* reconcile timer and the handlers of POST and DELETE /pairs, and stop(). *)
(*                                                                         *)
(* One step is what runs between two awaits.  What a task does with the    *)
(* candles it collects is the module PairIngest; here it is the place      *)
(* "collect".  No delay is kept: a sleep ends at any time.                 *)
(***************************************************************************)
EXTENDS Naturals

CONSTANTS
  Pair,          \* the (symbol, resolution) pairs
  Request,       \* the POST and DELETE /pairs served at the same time
  Main, Timer,   \* the lifespan, which starts and stops, and _reconcile
  TasksPerPair,  \* bound: tasks and revivals of one pair alive at once
  ReviveTries,   \* failed reads after which a revival gives up
  MaxFault,      \* bound: reads of tracked_pairs that fail
  NoTask, NoPair, NoActor

Actor == Request \cup {Main, Timer}
Task  == [pair : Pair, id : 1..TasksPerPair]

ASSUME ConstantsAssumption ==
  /\ Main # Timer /\ Main \notin Request /\ Timer \notin Request
  /\ TasksPerPair \in Nat \ {0} /\ ReviveTries \in Nat \ {0} /\ MaxFault \in Nat
  /\ NoTask \notin Task /\ NoPair \notin Pair /\ NoActor \notin Actor

VARIABLES
  tracked,    \* tracked_pairs rows in state 'tracked'
  tasks,      \* self._tasks: the task of each pair, if any
  place,      \* where each task is, or the revival that followed its death
  cancelled,  \* the tasks cancel() was called on that have not ended yet
  tries,      \* the failed reads of each revival
  spc,        \* where each caller of sync() is
  holder,     \* who holds self._syncing
  wanted,     \* the tracked pairs the pass under way has read
  extra,      \* the pairs it has still to stop
  awaited,    \* the task _stop_pair is waiting for
  erasing,    \* the pair a DELETE is about, NoPair otherwise
  again,      \* the DELETEs whose pair was tracked again meanwhile
  faults      \* how many reads have failed

pass == <<holder, wanted, extra, awaited>>
vars == <<tracked, tasks, place, cancelled, tries, spc, pass, erasing, again, faults>>

(* Places of run(), what ended it, and the two of _revive                  *)
Live     == {"check", "collect", "recheck", "sleep"}
Ended    == {"died", "returned"}
Reviving == {"revive", "restart"}

TasksOf(p) == {t \in Task : t.pair = p}

Running == {p \in Pair : tasks[p] # NoTask}

Move(t, to) == place' = [place EXCEPT ![t] = to]
Goto(a, to) == spc' = [spc EXCEPT ![a] = to]

Init ==
  /\ tracked \in SUBSET Pair
  /\ tasks = [p \in Pair |-> NoTask]
  /\ place = [t \in Task |-> "free"] /\ cancelled = {}
  /\ tries = [t \in Task |-> 0]
  /\ spc = [a \in Actor |-> IF a = Main THEN "want"
                            ELSE IF a = Timer THEN "none" ELSE "idle"]
  /\ holder = NoActor /\ wanted = {} /\ extra = {} /\ awaited = NoTask
  /\ erasing = [r \in Request |-> NoPair] /\ again = {}
  /\ faults = 0

(***************************************************************************)
(* A pair's task: PairIngest.run                                           *)
(***************************************************************************)
Runs(t, at) == place[t] = at /\ t \notin cancelled

(* "while await self.still_tracked()", and the same read after the feed    *)
(* ended                                                                   *)
Check(t) ==
  /\ Runs(t, "check")
  /\ Move(t, IF t.pair \in tracked THEN "collect" ELSE "returned")
  /\ UNCHANGED <<tracked, tasks, cancelled, tries, spc, pass, erasing, again, faults>>

(* The feed ended or anything in the guarded part of the loop raised.      *)
FeedEnds(t) ==
  /\ Runs(t, "collect")
  /\ Move(t, "recheck")
  /\ UNCHANGED <<tracked, tasks, cancelled, tries, spc, pass, erasing, again, faults>>

Recheck(t) ==
  /\ Runs(t, "recheck")
  /\ Move(t, IF t.pair \in tracked THEN "sleep" ELSE "returned")
  /\ UNCHANGED <<tracked, tasks, cancelled, tries, spc, pass, erasing, again, faults>>

Retry(t) ==
  /\ Runs(t, "sleep")
  /\ Move(t, "check")
  /\ UNCHANGED <<tracked, tasks, cancelled, tries, spc, pass, erasing, again, faults>>

(* Both reads are outside the guard: a failure of one kills the task.      *)
TrackedReadFails(t) ==
  /\ Runs(t, "check") \/ Runs(t, "recheck")
  /\ faults < MaxFault /\ faults' = faults + 1
  /\ Move(t, "died")
  /\ UNCHANGED <<tracked, tasks, cancelled, tries, spc, pass, erasing, again>>

(* CancelledError reaches the end of run() from any of its awaits.         *)
EndCancelled(t) ==
  /\ t \in cancelled
  /\ Move(t, "free")
  /\ cancelled' = cancelled \ {t}
  /\ UNCHANGED <<tracked, tasks, tries, spc, pass, erasing, again, faults>>

(***************************************************************************)
(* _pair_ended and _revive                                                 *)
(***************************************************************************)

(* Mutant: the callback does not ask whether the task was replaced.        *)
PairEndedUnasked(t) ==
  /\ place[t] \in Ended
  /\ tasks' = [tasks EXCEPT ![t.pair] = NoTask]
  /\ Move(t, IF place[t] = "died" THEN "revive" ELSE "free")
  /\ UNCHANGED <<tracked, cancelled, tries, spc, pass, erasing, again, faults>>

(* The callback runs some time after the task ended; a pass may have       *)
(* replaced or stopped the task by then.                                   *)
PairEnded(t) ==
  LET mine == tasks[t.pair] = t IN
  /\ place[t] \in Ended
  /\ tasks' = IF mine THEN [tasks EXCEPT ![t.pair] = NoTask] ELSE tasks
  /\ Move(t, IF mine /\ place[t] = "died" THEN "revive" ELSE "free")
  /\ UNCHANGED <<tracked, cancelled, tries, spc, pass, erasing, again, faults>>

ReviveReads(t) ==
  /\ place[t] = "revive"
  /\ Move(t, IF t.pair \in tracked THEN "restart" ELSE "free")
  /\ tries' = [tries EXCEPT ![t] = 0]
  /\ UNCHANGED <<tracked, tasks, cancelled, spc, pass, erasing, again, faults>>

(* The delay doubles with every failure until it passes the reconcile      *)
(* interval; the pair is then left to the next pass.                       *)
ReviveReadFails(t) ==
  LET gives_up == tries[t] + 1 >= ReviveTries IN
  /\ place[t] = "revive"
  /\ faults < MaxFault /\ faults' = faults + 1
  /\ Move(t, IF gives_up THEN "free" ELSE "revive")
  /\ tries' = [tries EXCEPT ![t] = IF gives_up THEN 0 ELSE @ + 1]
  /\ UNCHANGED <<tracked, tasks, cancelled, spc, pass, erasing, again>>

(* The connection went back to its pool after the read: a pass, or an      *)
(* untracking, may have come between.  The new task takes the identity the *)
(* revival leaves.                                                         *)
ReviveStarts(t) ==
  LET missing == tasks[t.pair] = NoTask IN
  /\ place[t] = "restart"
  /\ tasks' = IF missing THEN [tasks EXCEPT ![t.pair] = t] ELSE tasks
  /\ Move(t, IF missing THEN "check" ELSE "free")
  /\ UNCHANGED <<tracked, cancelled, tries, spc, pass, erasing, again, faults>>

(***************************************************************************)
(* sync(), under self._syncing                                             *)
(***************************************************************************)
AcquireSync(a) ==
  /\ spc[a] = "want" /\ holder = NoActor
  /\ holder' = a
  /\ Goto(a, "read")
  /\ UNCHANGED <<tracked, tasks, place, cancelled, tries, wanted, extra, awaited,
                 erasing, again, faults>>

ReadTracked(a) ==
  /\ spc[a] = "read"
  /\ wanted' = tracked
  /\ Goto(a, "match")
  /\ UNCHANGED <<tracked, tasks, place, cancelled, tries, holder, extra, awaited,
                 erasing, again, faults>>

(* The end of a caller that got no answer: the timer tries again at its    *)
(* next tick, a handler answers 500, a start fails the whole lifespan.     *)
Abandoned(a) == IF a = Timer THEN "sleep" ELSE IF a = Main THEN "over" ELSE "idle"

ReadTrackedFails(a) ==
  /\ spc[a] = "read"
  /\ faults < MaxFault /\ faults' = faults + 1
  /\ holder' = NoActor
  /\ Goto(a, Abandoned(a))
  /\ erasing' = [r \in Request |-> IF r = a THEN NoPair ELSE erasing[r]]
  /\ again' = again \ {a}
  /\ UNCHANGED <<tracked, tasks, place, cancelled, tries, wanted, extra, awaited>>

Fresh(p) == CHOOSE t \in TasksOf(p) : place[t] = "free"

(* Mutant: the timer makes one pass, not one every five minutes.           *)
FinishTimerOnce(a) ==
  /\ holder' = IF holder = a THEN NoActor ELSE holder
  /\ spc' = [b \in Actor |->
       IF b = a /\ a = Main  THEN IF spc[Timer] = "none" THEN "serving" ELSE "over"
       ELSE IF b = a /\ a = Timer THEN "ended"
       ELSE IF b = a THEN IF erasing[a] = NoPair THEN "idle" ELSE "erase"
       ELSE IF a = Main /\ spc[b] = "none" THEN "sleep" ELSE spc[b]]

(* sync() is over: the start creates the reconcile timer, a DELETE goes on *)
(* to erase.  The same pass over the pairs ends stop().                    *)
Finish(a) ==
  /\ holder' = IF holder = a THEN NoActor ELSE holder
  /\ spc' = [b \in Actor |->
       IF b = a /\ a = Main  THEN IF spc[Timer] = "none" THEN "serving" ELSE "over"
       ELSE IF b = a /\ a = Timer THEN "sleep"
       ELSE IF b = a THEN IF erasing[a] = NoPair THEN "idle" ELSE "erase"
       ELSE IF a = Main /\ spc[b] = "none" THEN "sleep" ELSE spc[b]]

(* Mutant: _stop_pair cancels and does not wait.                           *)
StopPairsUnawaited(a, T, X) ==
  /\ tasks' = [p \in Pair |-> IF p \in X THEN NoTask ELSE T[p]]
  /\ extra' = {} /\ awaited' = NoTask
  /\ cancelled' = cancelled \cup {t \in Task : \E p \in X : t = T[p] /\ place[t] \in Live}
  /\ Finish(a)

(* _stop_pair on each pair of X, as far as the first await: of a task that *)
(* has ended there is nothing to wait for.  T is self._tasks by then.      *)
StopPairs(a, T, X) ==
  LET alive == {p \in X : T[p] # NoTask /\ place'[T[p]] \in Live}
      Pop(S) == /\ tasks' = [p \in Pair |-> IF p \in S THEN NoTask ELSE T[p]]
                /\ extra' = X \ S
  IN
  \/ \E p \in alive, D \in SUBSET (X \ alive) :
       /\ Pop(D \cup {p})
       /\ cancelled' = cancelled \cup {T[p]} /\ awaited' = T[p]
       /\ Goto(a, "await") /\ UNCHANGED holder
  \/ /\ alive = {} /\ Pop(X)
     /\ awaited' = NoTask /\ UNCHANGED cancelled
     /\ Finish(a)

(* Ended tasks are forgotten, missing ones started and the superfluous     *)
(* ones stopped, with no await before the first of those.                  *)
Match(a) ==
  LET kept(p)    == tasks[p] # NoTask /\ place[tasks[p]] \in Live
      missing(p) == p \in wanted /\ ~kept(p)
      matched    == [p \in Pair |-> IF kept(p) THEN tasks[p]
                                    ELSE IF missing(p) THEN Fresh(p) ELSE NoTask]
  IN
  /\ spc[a] = "match"
  /\ \A p \in Pair : missing(p) => \E t \in TasksOf(p) : place[t] = "free"
  /\ place' = [t \in Task |-> IF missing(t.pair) /\ matched[t.pair] = t
                              THEN "check" ELSE place[t]]
  /\ StopPairs(a, matched, {p \in Pair : matched[p] # NoTask} \ wanted)
  /\ wanted' = {}
  /\ UNCHANGED <<tracked, tries, erasing, again, faults>>

(* The task waited for has ended; a revival may have started another of a  *)
(* pair still to be stopped.                                               *)
PairStopped(a) ==
  /\ spc[a] = "await" /\ place[awaited] \notin Live
  /\ UNCHANGED place
  /\ StopPairs(a, tasks, extra)
  /\ UNCHANGED <<tracked, tries, wanted, erasing, again, faults>>

Tick ==
  /\ spc[Timer] = "sleep"
  /\ Goto(Timer, "want")
  /\ UNCHANGED <<tracked, tasks, place, cancelled, tries, pass, erasing, again, faults>>

(***************************************************************************)
(* The handlers                                                            *)
(***************************************************************************)
TrackPair(r, p) ==
  /\ spc[Main] = "serving" /\ spc[r] = "idle"
  /\ tracked' = tracked \cup {p}
  /\ again' = again \cup {q \in Request : erasing[q] = p}
  /\ Goto(r, "want")
  /\ UNCHANGED <<tasks, place, cancelled, tries, pass, erasing, faults>>

CloseForDeletion(r, p) ==
  /\ spc[Main] = "serving" /\ spc[r] = "idle" /\ p \in tracked
  /\ tracked' = tracked \ {p}
  /\ erasing' = [erasing EXCEPT ![r] = p]
  /\ Goto(r, "want")
  /\ UNCHANGED <<tasks, place, cancelled, tries, pass, again, faults>>

DeletePairData(r) ==
  /\ spc[r] = "erase"
  /\ erasing' = [erasing EXCEPT ![r] = NoPair]
  /\ again' = again \ {r}
  /\ Goto(r, "idle")
  /\ UNCHANGED <<tracked, tasks, place, cancelled, tries, pass, faults>>

(***************************************************************************)
(* stop(), once the server has answered its requests                       *)
(***************************************************************************)

(* cancel() ends the timer at any of its awaits but one: inside            *)
(* _stop_pair it is handed to the pair task waited for, which is ending    *)
(* anyway, and what that task raises is swallowed there.                   *)
CancelReconcile ==
  /\ spc[Main] = "serving" /\ \A r \in Request : spc[r] = "idle"
  /\ spc' = [spc EXCEPT ![Main] = "stopping",
                        ![Timer] = IF @ = "await" THEN @ ELSE "ended"]
  /\ holder' = IF holder = Timer /\ spc[Timer] # "await" THEN NoActor ELSE holder
  /\ wanted' = {}
  /\ UNCHANGED <<tracked, tasks, place, cancelled, tries, extra, awaited,
                 erasing, again, faults>>

(* Then the revivals, which are not waited for, and the pairs.             *)
StopRevivalsAndPairs ==
  /\ spc[Main] = "stopping" /\ spc[Timer] = "ended"
  /\ place' = [t \in Task |-> IF place[t] \in Reviving THEN "free" ELSE place[t]]
  /\ tries' = [t \in Task |-> 0]
  /\ StopPairs(Main, tasks, Running)
  /\ UNCHANGED <<tracked, wanted, erasing, again, faults>>

TaskStep(t) ==
  \/ Check(t) \/ Recheck(t) \/ Retry(t) \/ EndCancelled(t)
  \/ PairEnded(t) \/ ReviveReads(t) \/ ReviveStarts(t)

TaskEvent(t) == FeedEnds(t) \/ TrackedReadFails(t) \/ ReviveReadFails(t)

SyncStep(a) ==
  \/ AcquireSync(a) \/ ReadTracked(a) \/ Match(a) \/ PairStopped(a)

Next ==
  \/ \E t \in Task : TaskStep(t) \/ TaskEvent(t)
  \/ \E a \in Actor : SyncStep(a) \/ ReadTrackedFails(a)
  \/ \E r \in Request, p \in Pair : TrackPair(r, p) \/ CloseForDeletion(r, p)
  \/ \E r \in Request : DeletePairData(r)
  \/ Tick \/ CancelReconcile \/ StopRevivalsAndPairs

Spec == Init /\ [][Next]_vars

(* The event loop resumes whatever can go on: tasks, callbacks, revivals   *)
(* and passes.  Nothing makes a feed end, a read fail, a request arrive or *)
(* the process shut down.                                                  *)
Fairness ==
  /\ \A t \in Task : WF_vars(TaskStep(t))
  /\ \A a \in Actor : WF_vars(SyncStep(a))
  /\ \A r \in Request : WF_vars(DeletePairData(r))
  /\ WF_vars(Tick) /\ WF_vars(StopRevivalsAndPairs)

FairSpec == Spec /\ Fairness
(***************************************************************************)
(* Properties                                                              *)
(***************************************************************************)

(* Every variable keeps its type; a revival's failures stay below the      *)
(* number after which it gives up.                                         *)
TypeOK ==
  /\ tracked \subseteq Pair
  /\ tasks \in [Pair -> Task \cup {NoTask}]
  /\ place \in [Task -> Live \cup Ended \cup Reviving \cup {"free"}]
  /\ cancelled \subseteq Task
  /\ tries \in [Task -> 0..(ReviveTries - 1)]
  /\ spc \in [Actor -> {"none", "idle", "want", "read", "match", "await", "sleep",
                       "erase", "ended", "serving", "stopping", "over"}]
  /\ holder \in Actor \cup {NoActor}
  /\ wanted \subseteq Pair /\ extra \subseteq Pair
  /\ awaited \in Task \cup {NoTask}
  /\ erasing \in [Request -> Pair \cup {NoPair}]
  /\ again \subseteq Request
  /\ faults \in 0..MaxFault

(* A task that runs and was not told to end is the one _tasks holds for    *)
(* its pair: whatever passes, deaths, callbacks and revivals do to each    *)
(* other, a pair is never collected twice, and none is collected that no   *)
(* pass can stop.                                                          *)
NoStrayTask ==
  \A t \in Task : place[t] \in Live /\ t \notin cancelled => tasks[t.pair] = t

(* When a DELETE comes to erase a pair's data, no task of the pair is past *)
(* its first check, not even one that was told to end and is finishing a   *)
(* write, unless somebody tracked the pair again meanwhile.  This is what  *)
(* delete_pair_data asks of the sync that precedes it.                     *)
DeletionIsQuiet ==
  \A r \in Request : spc[r] = "erase" /\ r \notin again =>
    \A t \in TasksOf(erasing[r]) : place[t] # "collect"

(* While the process serves, a tracked pair comes to be collected, however *)
(* many reads failed on the way: by its task, by its revival, or by the    *)
(* next reconcile pass.                                                    *)
CollectionResumes ==
  \A p \in Pair :
    spc[Main] = "serving" /\ p \in tracked ~>
      \/ \E t \in TasksOf(p) : place[t] = "collect"
      \/ p \notin tracked \/ spc[Main] # "serving"

(***************************************************************************)
(* Statements of the repository the code does not keep.                    *)
(***************************************************************************)

(* "Stop everything and wait for it": stop() comes to its end.             *)
StopComesToAnEnd == spc[Main] = "stopping" ~> spc[Main] = "over"

=============================================================================

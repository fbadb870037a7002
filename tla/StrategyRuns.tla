---------------------------- MODULE StrategyRuns ----------------------------
(***************************************************************************)
(* Backtests of the strategies package: the runs table, the RunQueue that  *)
(* claims runs and watches a worker process compute each, and who asks for *)
(* them: the operator's handlers and the agent's run_backtest.             *)
(*                                                                         *)
(* More than one Process may serve: a new one is started, and marks what   *)
(* is running as interrupted, while the old one may still compute.         *)
(*                                                                         *)
(* Left out: the request's own checks and costs (they only refuse), the    *)
(* wake-up event (the queue looks again after thirty seconds without it),  *)
(* reads for the screen.  A statement of SQL is one step.                  *)
(***************************************************************************)
EXTENDS Naturals, FiniteSets

CONSTANTS
  Process,      \* the processes that serve the package
  Call,         \* calls of the agent's run_backtest
  MaxRun,       \* bound: runs ever asked for
  Concurrency,  \* settings.run_concurrency
  MaxFault      \* bound: processes that stop, statements that fail or are not answered

Run == 1..MaxRun

ASSUME ConstantsAssumption ==
  /\ IsFiniteSet(Process) /\ IsFiniteSet(Call) /\ MaxRun \in Nat
  /\ Concurrency \in Nat \ {0} /\ MaxFault \in Nat

VARIABLES
  status,    \* runs.status; "none" before the run is asked for, "deleted" after its row is gone
  trades,    \* the runs with rows in run_trades
  trials,    \* strategies.deleted_trials
  byAgent,   \* the runs requested_by 'agent'
  up,        \* the processes whose queue serves
  place,     \* where each process's task for a run is, in RunQueue._run
  worker,    \* what the run's worker process has come to
  held,      \* the tasks that have received their result, outcome in _compute
  unwatched, \* the worker processes, by server and run, that run on with nobody to watch them
  call,      \* where each run_backtest is
  served,    \* the calls each process serves
  mine,      \* the run it asked for, 0 for none
  heard,     \* the calls whose event was set
  unmarked,  \* runs whose claim was lost or whose end could not be written
  faults

table    == <<status, trades, trials, byAgent>>
queue    == <<place, worker, held, unwatched>>
agent    == <<call, served, mine, heard>>
vars     == <<table, up, queue, agent, unmarked, faults>>

Open  == {"queued", "running"}
Ended == {"done", "failed", "cancelled"}
Spots == {"none", "claimed", "preparing", "looking", "starting", "computing", "finishing",
          "ending failed", "ending cancelled", "erring"}

Fault == faults < MaxFault /\ faults' = faults + 1

Runs(s) == {r \in Run : status[r] = s}

(* self._running                                                           *)
Running(p) == {r \in Run : place[p][r] # "none"}

Init ==
  /\ status = [r \in Run |-> "none"] /\ trades = {} /\ trials = 0 /\ byAgent = {}
  /\ up = {}
  /\ place = [p \in Process |-> [r \in Run |-> "none"]]
  /\ worker = [p \in Process |-> [r \in Run |-> "none"]]
  /\ held = [p \in Process |-> {}] /\ unwatched = {}
  /\ call = [c \in Call |-> "idle"] /\ mine = [c \in Call |-> 0] /\ heard = {}
  /\ served = [p \in Process |-> {}]
  /\ unmarked = {}
  /\ faults = 0

(***************************************************************************)
(* The statements of runs.py                                               *)
(***************************************************************************)

(* enqueue: ids are given in the order of queued_at.                       *)
Enqueue(r) ==
  /\ r = Cardinality({s \in Run : status[s] # "none"}) + 1
  /\ status' = [status EXCEPT ![r] = "queued"]

(* fail, also for cancel: only a run that has not ended.                   *)
Fail(r, s) ==
  status' = IF status[r] \in Open THEN [status EXCEPT ![r] = s] ELSE status

(* Mutant: the trades are copied before the row is looked at.              *)
FinishTradesFirst(r) ==
  /\ status' = [status EXCEPT ![r] = IF @ = "running" THEN "done" ELSE @]
  /\ trades' = IF status[r] = "deleted" THEN trades ELSE trades \cup {r}

(* finish: the trades and the end of a run in one transaction that holds   *)
(* the row; a run that is not running any more keeps neither.              *)
Finish(r) ==
  IF status[r] = "running"
  THEN status' = [status EXCEPT ![r] = "done"] /\ trades' = trades \cup {r}
  ELSE UNCHANGED <<status, trades>>

(***************************************************************************)
(* RunQueue._serve                                                         *)
(***************************************************************************)

Oldest(r) == status[r] = "queued" /\ \A s \in Runs("queued") : r <= s

(* The claim is a statement; the task is made when its answer is there.    *)
Claim(p, r) ==
  /\ p \in up /\ Cardinality(Running(p)) < Concurrency /\ Oldest(r)
  /\ \A s \in Run : place[p][s] # "claimed"
  /\ status' = [status EXCEPT ![r] = "running"]
  /\ place' = [place EXCEPT ![p][r] = "claimed"]
  /\ UNCHANGED <<trades, trials, byAgent, up, worker, held, unwatched, agent,
                 unmarked, faults>>

CreateTask(p, r) ==
  /\ place[p][r] = "claimed"
  /\ place' = [place EXCEPT ![p][r] = "preparing"]
  /\ UNCHANGED <<table, up, worker, held, unwatched, agent, unmarked, faults>>

(* The claim took effect, its answer was lost: "it tries again at the next *)
(* wake", but not this run.                                                *)
ClaimLost(p, r) ==
  /\ place[p][r] = "claimed" /\ Fault
  /\ place' = [place EXCEPT ![p][r] = "none"]
  /\ unmarked' = unmarked \cup {r}
  /\ UNCHANGED <<table, up, worker, held, unwatched, agent>>

(***************************************************************************)
(* RunQueue._run, _run_unguarded and _compute                              *)
(***************************************************************************)

Move(p, r, spot) == place' = [place EXCEPT ![p][r] = spot]

(* The finally of _compute: the process is terminated, the pipe closed.    *)
StopWorker(p, r) ==
  /\ worker' = [worker EXCEPT ![p][r] = "none"]
  /\ held' = [held EXCEPT ![p] = @ \ {r}]

(* raise _Ends(..., status=s), which _run_unguarded writes.                *)
Ends(p, r, s) == Move(p, r, IF s = "failed" THEN "ending failed" ELSE "ending cancelled")

(* The task is over: its listener's event is set, _running forgets it.     *)
TaskOver(p, r) ==
  /\ Move(p, r, "none")
  /\ heard' = heard \cup {c \in Call : mine[c] = r /\ call[c] = "waiting" /\ c \in served[p]}
  /\ UNCHANGED <<call, served, mine>>

(* _prepare: read and checked, in time; or not, and the run fails with the *)
(* reason; or it raises something nobody foresaw.                          *)
Prepare(p, r) ==
  /\ place[p][r] = "preparing"
  /\ \/ Move(p, r, "looking")
     \/ Ends(p, r, "failed")
     \/ Move(p, r, "erring")
  /\ UNCHANGED <<table, up, worker, held, unwatched, agent, unmarked, faults>>

(* _still_wanted, before the process is started and every second after.    *)
StillWanted(p, r) ==
  /\ place[p][r] \in {"looking", "computing"}
  /\ IF status[r] \in {"cancelled", "deleted"}
     THEN Ends(p, r, "cancelled") /\ StopWorker(p, r)
     ELSE /\ Move(p, r, IF place[p][r] = "looking" THEN "starting" ELSE "computing")
          /\ UNCHANGED <<worker, held>>
  /\ UNCHANGED <<table, up, unwatched, agent, unmarked, faults>>

StillWantedFails(p, r) ==
  /\ place[p][r] \in {"looking", "computing"} /\ Fault
  /\ Move(p, r, "erring") /\ StopWorker(p, r)
  /\ UNCHANGED <<table, up, unwatched, agent, unmarked>>

(* A thread starts the process, and the task waits for it outside the try  *)
(* whose finally would stop the worker; or the start raises.               *)
StartWorker(p, r) ==
  /\ place[p][r] = "starting"
  /\ Move(p, r, "computing") /\ worker' = [worker EXCEPT ![p][r] = "busy"]
  /\ UNCHANGED <<table, up, held, unwatched, agent, unmarked, faults>>

StartFails(p, r) ==
  /\ place[p][r] = "starting" /\ Fault
  /\ Move(p, r, "erring")
  /\ UNCHANGED <<table, up, worker, held, unwatched, agent, unmarked>>

(* worker.main: the result, then the benchmark; either may raise, and the  *)
(* process may end without a word at any time, which is "failed" as well.  *)
Work(p, r) ==
  /\ worker[p][r] \in {"busy", "result"}
  /\ \E w \in {"failed"} \cup
              (IF worker[p][r] = "busy" THEN {"result"} ELSE {"benchmark"}) :
       worker' = [worker EXCEPT ![p][r] = w]
  /\ UNCHANGED <<table, up, place, held, unwatched, agent, unmarked, faults>>

ReceiveResult(p, r) ==
  /\ place[p][r] = "computing" /\ r \notin held[p]
  /\ worker[p][r] \in {"result", "benchmark"}
  /\ held' = [held EXCEPT ![p] = @ \cup {r}]
  /\ UNCHANGED <<table, up, place, worker, unwatched, agent, unmarked, faults>>

ReceiveBenchmark(p, r) ==
  /\ place[p][r] = "computing" /\ r \in held[p] /\ worker[p][r] = "benchmark"
  /\ Move(p, r, "finishing") /\ StopWorker(p, r)
  /\ UNCHANGED <<table, up, unwatched, agent, unmarked, faults>>

(* A message "failed", or a process that ended without one: whatever was   *)
(* received before.                                                        *)
WorkerFailed(p, r) ==
  /\ place[p][r] = "computing" /\ worker[p][r] = "failed"
  /\ Ends(p, r, "failed") /\ StopWorker(p, r)
  /\ UNCHANGED <<table, up, unwatched, agent, unmarked, faults>>

(* The time limit costs the benchmark, or the run.                         *)
TimeLimit(p, r) ==
  /\ place[p][r] = "computing"
  /\ IF r \in held[p] THEN Move(p, r, "finishing") ELSE Ends(p, r, "failed")
  /\ StopWorker(p, r)
  /\ UNCHANGED <<table, up, unwatched, agent, unmarked, faults>>

WriteResult(p, r) ==
  /\ place[p][r] = "finishing" /\ Finish(r) /\ TaskOver(p, r)
  /\ UNCHANGED <<trials, byAgent, up, worker, held, unwatched, unmarked, faults>>

(* Mutant: what nobody foresaw is logged and nothing else.                 *)
WriteEndOnlyForeseen(p, r) ==
  /\ place[p][r] \in {"ending failed", "ending cancelled", "erring"}
  /\ IF place[p][r] = "erring" THEN UNCHANGED status
     ELSE Fail(r, IF place[p][r] = "ending cancelled" THEN "cancelled" ELSE "failed")
  /\ TaskOver(p, r)
  /\ UNCHANGED <<trades, trials, byAgent, up, worker, held, unwatched, unmarked, faults>>

WriteEnd(p, r) ==
  /\ place[p][r] \in {"ending failed", "ending cancelled", "erring"}
  /\ Fail(r, IF place[p][r] = "ending cancelled" THEN "cancelled" ELSE "failed")
  /\ TaskOver(p, r)
  /\ UNCHANGED <<trades, trials, byAgent, up, worker, held, unwatched, unmarked, faults>>

(* The statement fails: _run tries once more to mark the run failed, and   *)
(* then leaves it to the next start.                                       *)
WriteFails(p, r) ==
  /\ Fault
  /\ \/ /\ place[p][r] \in {"finishing", "ending failed", "ending cancelled"}
        /\ Move(p, r, "erring") /\ UNCHANGED <<agent, unmarked>>
     \/ /\ place[p][r] = "erring" /\ TaskOver(p, r)
        /\ unmarked' = unmarked \cup {r}
  /\ UNCHANGED <<table, up, worker, held, unwatched>>

(***************************************************************************)
(* Processes: start marks what another left running, stop cancels every    *)
(* task where it is, and a crash ends it there.  A task cancelled while    *)
(* its worker is being started leaves that worker to itself, and a process *)
(* that dies may leave any; such a worker ends some time, and the pipe it  *)
(* would answer into has no reader.                                        *)
(***************************************************************************)

RequeuedByRestart ==
  status' = [r \in Run |-> IF status[r] = "running" THEN "queued" ELSE status[r]]
InterruptedByRestart ==
  status' = [r \in Run |-> IF status[r] = "running" THEN "failed" ELSE status[r]]

Start(p) ==
  /\ p \notin up
  /\ up' = up \cup {p} /\ InterruptedByRestart
  /\ unmarked' = {}
  /\ UNCHANGED <<trades, trials, byAgent, queue, agent, faults>>

Stop(p) ==
  /\ p \in up /\ Fault
  /\ up' = up \ {p}
  /\ unmarked' = unmarked \cup {r \in Running(p) : status[r] = "running"}
  /\ place' = [place EXCEPT ![p] = [r \in Run |-> "none"]]
  /\ worker' = [worker EXCEPT ![p] = [r \in Run |-> "none"]]
  /\ held' = [held EXCEPT ![p] = {}]
  /\ \E left \in SUBSET {r \in Run : place[p][r] \in {"starting", "computing"}} :
       unwatched' = unwatched \cup ({p} \X left)
  /\ call' = [c \in Call |-> IF c \in served[p] THEN "over" ELSE call[c]]
  /\ mine' = [c \in Call |-> IF c \in served[p] THEN 0 ELSE mine[c]]
  /\ served' = [served EXCEPT ![p] = {}]
  /\ heard' = heard \ served[p]
  /\ UNCHANGED table

UnwatchedEnds(p, r) ==
  /\ <<p, r>> \in unwatched
  /\ unwatched' = unwatched \ {<<p, r>>}
  /\ UNCHANGED <<table, up, place, worker, held, agent, unmarked, faults>>

(***************************************************************************)
(* The operator: routers/runs.py                                           *)
(***************************************************************************)

OperatorAsks ==
  /\ up # {}
  /\ \E r \in Run : Enqueue(r)
  /\ UNCHANGED <<trades, trials, byAgent, up, queue, agent, unmarked, faults>>

(* cancel reads the status first, but fail asks again.                     *)
Cancel(r) ==
  /\ up # {} /\ status[r] \in Open
  /\ Fail(r, "cancelled")
  /\ UNCHANGED <<trades, trials, byAgent, up, queue, agent, unmarked, faults>>

(* delete_runs: all or none, and only what has ended; a finished run goes  *)
(* on counting as a trial.                                                 *)
Delete(S) ==
  /\ up # {} /\ S # {}
  /\ \A r \in S : status[r] \in Ended
  /\ status' = [r \in Run |-> IF r \in S THEN "deleted" ELSE status[r]]
  /\ trades' = trades \ S
  /\ trials' = trials + Cardinality({r \in S : status[r] = "done"})
  /\ UNCHANGED <<byAgent, up, queue, agent, unmarked, faults>>

(***************************************************************************)
(* The agent: run_backtest                                                 *)
(***************************************************************************)

(* waiting_for_agent: refused while a run of the agent's has not ended.    *)
AgentAsks(c, p) ==
  /\ call[c] = "idle" /\ p \in up
  /\ IF \E r \in byAgent : status[r] \in Open
     THEN call' = [call EXCEPT ![c] = "over"] /\ UNCHANGED served
     ELSE /\ call' = [call EXCEPT ![c] = "asking"]
          /\ served' = [served EXCEPT ![p] = @ \cup {c}]
  /\ UNCHANGED <<table, up, queue, mine, heard, unmarked, faults>>

(* The revision and the broker's costs have been read meanwhile; the run   *)
(* is inserted, listened to, and the queue woken.                          *)
AgentEnqueues(c) ==
  /\ call[c] = "asking"
  /\ \E r \in Run :
       /\ Enqueue(r)
       /\ byAgent' = byAgent \cup {r}
       /\ mine' = [mine EXCEPT ![c] = r]
  /\ call' = [call EXCEPT ![c] = "waiting"]
  /\ UNCHANGED <<trades, trials, up, queue, served, heard, unmarked, faults>>

(* wait_for: the event, or twenty seconds.                                 *)
AgentStopsWaiting(c) ==
  /\ call[c] = "waiting"
  /\ call' = [call EXCEPT ![c] = "reading"]
  /\ UNCHANGED <<table, up, queue, served, mine, heard, unmarked, faults>>

(* get_run, and "assert row is not None".                                  *)
AgentReads(c) ==
  /\ call[c] = "reading"
  /\ call' = [call EXCEPT ![c] = IF status[mine[c]] = "deleted" THEN "broken" ELSE "over"]
  /\ served' = [p \in Process |-> served[p] \ {c}]
  /\ mine' = [mine EXCEPT ![c] = 0] /\ heard' = heard \ {c}
  /\ UNCHANGED <<table, up, queue, unmarked, faults>>

-----------------------------------------------------------------------------

TaskStep(p, r) ==
  \/ CreateTask(p, r) \/ Prepare(p, r) \/ StillWanted(p, r) \/ StartWorker(p, r)
  \/ ReceiveResult(p, r)
  \/ ReceiveBenchmark(p, r) \/ WorkerFailed(p, r) \/ WriteResult(p, r) \/ WriteEnd(p, r)

TaskAdvances(p, r) ==
  (TaskStep(p, r) \/ TimeLimit(p, r)) /\ place'[p][r] # place[p][r]

Next ==
  \/ \E p \in Process : Start(p) \/ Stop(p)
  \/ \E p \in Process, r \in Run :
       \/ Claim(p, r) \/ ClaimLost(p, r) \/ TaskStep(p, r) \/ StillWantedFails(p, r)
       \/ StartFails(p, r) \/ Work(p, r) \/ TimeLimit(p, r) \/ WriteFails(p, r)
       \/ UnwatchedEnds(p, r)
  \/ OperatorAsks
  \/ \E r \in Run : Cancel(r)
  \/ \E S \in SUBSET Run : Delete(S)
  \/ \E c \in Call, p \in Process : AgentAsks(c, p)
  \/ \E c \in Call : AgentEnqueues(c) \/ AgentStopsWaiting(c) \/ AgentReads(c)

Spec == Init /\ [][Next]_vars

(* The event loop and the clock: a queue that serves claims, a task goes   *)
(* on, the time limit is reached, and a process that is down is started    *)
(* again.  Nobody has to ask, cancel or delete, no worker has to answer.   *)
Fairness ==
  \A p \in Process :
    /\ WF_vars(Start(p))
    /\ WF_vars(\E r \in Run : Claim(p, r))
    /\ \A r \in Run : WF_vars(TaskAdvances(p, r))

FairSpec == Spec /\ Fairness

(***************************************************************************)
(* Properties                                                              *)
(***************************************************************************)

TypeOK ==
  /\ status \in [Run -> Open \cup Ended \cup {"none", "deleted"}]
  /\ trades \subseteq Run /\ trials \in 0..MaxRun /\ byAgent \subseteq Run
  /\ up \subseteq Process
  /\ place \in [Process -> [Run -> Spots]]
  /\ worker \in [Process -> [Run -> {"none", "busy", "result", "benchmark", "failed"}]]
  /\ held \in [Process -> SUBSET Run] /\ unwatched \subseteq Process \X Run
  /\ call \in [Call -> {"idle", "asking", "waiting", "reading", "over", "broken"}]
  /\ served \in [Process -> SUBSET Call] /\ mine \in [Call -> Run \cup {0}]
  /\ heard \subseteq Call /\ unmarked \subseteq Run
  /\ faults \in 0..MaxFault

(* A run has trades exactly if it is done: a cancelled one keeps none,     *)
(* however late its worker answered, and a deleted one leaves none.        *)
TradesAreOfDoneRuns == trades = Runs("done")

(* A run is the task of one process at most: the claim is one statement,   *)
(* and no way leads back to the queue.  Nor does a process take more runs  *)
(* than its settings allow, though the claim's answer comes after it.      *)
ClaimedOnce ==
  /\ \A p, q \in Process, r \in Run : place[p][r] # "none" /\ place[q][r] # "none" => p = q
  /\ \A p \in Process : Cardinality(Running(p)) <= Concurrency

(* A run the table shows as running is a task of a process that serves, or *)
(* is one of those the next start marks: nothing else would ever end it.   *)
NoRunIsForgotten ==
  \A r \in Runs("running") : r \in unmarked \/ \E p \in up : place[p][r] # "none"

(* However processes stop, die and start again, no run is computed twice:  *)
(* a worker nobody watches is of a run that no process has, that waits in  *)
(* no queue and that never is done (queue._compute, interrupted_by_restart *)
(* marks and does not requeue).                                            *)
ComputedOnce ==
  \A p \in Process, r \in Run :
    <<p, r>> \in unwatched =>
      /\ status[r] \notin {"none", "queued", "done"}
      /\ \A q \in Process : place[q][r] = "none" /\ (<<q, r>> \in unwatched => q = p)

(* How a run's row may change: only a run that was claimed can fail, one   *)
(* that ended is only ever deleted, and nothing brings a deleted one back. *)
RunMoves ==
  {<<"none", "queued">>, <<"queued", "running">>, <<"queued", "cancelled">>}
  \cup ({"running"} \X Ended) \cup (Ended \X {"deleted"})
RowsMoveOn == [][\A r \in Run : status'[r] # status[r] => <<status[r], status'[r]>> \in RunMoves]_vars

(* A run that was asked for ends, or is left for the next start to mark.   *)
EveryRunEnds ==
  \A r \in Run : status[r] = "queued" ~> status[r] \notin Open \/ r \in unmarked
=============================================================================

------------------------------ MODULE TeamRuns ------------------------------
(***************************************************************************)
(* One run of a team (workbench/teams/runner): the task execute_run, the   *)
(* agents it drives in parallel, the guards they share, the orders they    *)
(* send, the rows all of this leaves, a viewer, an operator who interrupts *)
(* and a process that may die and start again.                             *)
(*                                                                         *)
(* Every await on the database, on the model and on a tool ends one action *)
(* and begins the next.  A reading tool call changes nothing here and is   *)
(* part of the round that makes it; a round makes at most one order.       *)
(***************************************************************************)
EXTENDS Integers, FiniteSets, FiniteSetsExt

CONSTANTS Agents,        \* the agents of the definition
          Before,        \* [Agents -> SUBSET Agents]: those an edge leads from
          RunLimit,      \* limits.run_limit, in model calls
          OrdersPerRun,  \* trading.orders_per_run
          RoundCeiling,  \* loop.ROUND_CEILING
          MaxFault       \* bound on crashes and lost statements of execute_run

ASSUME TeamAssumption ==
    /\ IsFiniteSet(Agents)
    /\ Before \in [Agents -> SUBSET Agents]
    /\ \A a \in Agents : a \notin Before[a]
    /\ RunLimit \in Nat /\ OrdersPerRun \in Nat
    /\ RoundCeiling \in Nat /\ MaxFault \in Nat

VARIABLES status,    \* runs.status
          steps,     \* run_steps.status of each agent
          task,      \* where execute_run stands
          ending,    \* its local `status`
          at,        \* where each agent's step stands
          round,     \* AgentWork.rounds
          answer,    \* what came back for the agent's order
          spent,     \* CostGuard._spent
          placed,    \* TradeGuard._placed
          rows,      \* trades.status of the order of each agent and round
          reached,   \* the orders the account has taken (external)
          disowned,  \* those of them the gateway answered with a refusal
          viewer,    \* the reader of /events: where it stands, whether the end is queued
          excuse,    \* "lost": its closing was cut off before the row of the end;
                     \* "untold": after it, before the end was published
          faults

guards == <<spent, placed>>
memory == <<at, round, answer, spent, placed>>
trades == <<rows, reached, disowned>>
vars == <<status, steps, task, ending, at, round, answer, spent, placed,
          rows, reached, disowned, viewer, excuse, faults>>

Open == {"pending", "running"}
Ended == {"completed", "failed", "cancelled"}
Orders == Agents \X (0 .. RoundCeiling)
AgentAt == {"waiting", "asking", "calling", "deciding", "checked", "recorded",
            "ordering", "answered", "concluding", "breaking", "done", "stopped"}
TaskAt == {"none", "inserted", "created", "marked", "planning", "team",
           "closing", "stepsClosed", "publishing", "over"}
Answers == {"settled", "unsettled", "refused", "refusedLate", "accessFailure", "unavailable"}

Init == /\ status = "none"
        /\ steps = [a \in Agents |-> "pending"]
        /\ task = "none"
        /\ ending = "failed"
        /\ at = [a \in Agents |-> "waiting"]
        /\ round = [a \in Agents |-> 0]
        /\ answer = [a \in Agents |-> "unavailable"]
        /\ spent = 0 /\ placed = 0
        /\ rows = [o \in Orders |-> "none"]
        /\ reached = {} /\ disowned = {}
        /\ viewer = [at |-> "away", queued |-> FALSE]
        /\ excuse = "no"
        /\ faults = 0

-----------------------------------------------------------------------------
(* Starting: the row and its steps in one transaction, then the task.       *)

CreateRun == /\ status = "none"
             /\ status' = "pending"
             /\ task' = "inserted"
             /\ UNCHANGED <<steps, ending, memory, trades, viewer, excuse, faults>>

CreateTask == /\ task = "inserted"
              /\ task' = "created"
              /\ UNCHANGED <<status, steps, ending, memory, trades, viewer, excuse, faults>>

MarkRunRunning == /\ task = "created"
                  /\ status' = IF status = "pending" THEN "running" ELSE status
                  /\ task' = "marked"
                  /\ UNCHANGED <<steps, ending, memory, trades, viewer, excuse, faults>>

EnterTry == /\ task = "marked"
            /\ task' = "planning"
            /\ UNCHANGED <<status, steps, ending, memory, trades, viewer, excuse, faults>>

(* The team's work is over, however: its agents stop where they are and     *)
(* the run goes to be closed with the status s.                             *)
Stop(s) == /\ task' = "closing"
           /\ ending' = s
           /\ at' = [a \in Agents |-> IF at[a] = "done" THEN "done" ELSE "stopped"]

ToolsRefused == /\ task = "planning"
                /\ Stop("failed")
                /\ UNCHANGED <<status, steps, round, answer, guards, trades, viewer, excuse, faults>>

ToolsPlanned == /\ task = "planning"
                /\ task' = "team"
                /\ UNCHANGED <<status, steps, ending, memory, trades, viewer, excuse, faults>>
-----------------------------------------------------------------------------
(* One agent: _StepRunner around the loop of model and tools.               *)

Goes(a, place) == at' = [at EXCEPT ![a] = place]

AgentMoves(a, from, to) == task = "team" /\ at[a] = from /\ Goes(a, to)

StartStep(a) == /\ \A b \in Before[a] : at[b] = "done"
                /\ AgentMoves(a, "waiting", "asking")
                /\ steps' = [steps EXCEPT ![a] = "running"]
                /\ UNCHANGED <<status, task, ending, round, answer, guards, trades, viewer, excuse, faults>>

(* An exception leaves the agent's node and with it the whole team's work.  *)
Raises(a, from) == /\ task = "team" /\ at[a] = from
                   /\ Stop("failed")
                   /\ UNCHANGED <<status, round, answer, guards, trades, viewer, excuse, faults>>

CallModel(a) == /\ spent < RunLimit
                /\ AgentMoves(a, "asking", "calling")
                /\ UNCHANGED <<status, steps, task, ending, round, answer, guards, trades, viewer, excuse, faults>>

CostLimitReached(a) == /\ spent >= RunLimit
                       /\ Raises(a, "asking")
                       /\ UNCHANGED steps

(* The call is billed however it ends: its row first, the guard after it.   *)
ModelAnswers(a) == /\ \/ AgentMoves(a, "calling", "deciding")
                      \/ AgentMoves(a, "calling", "breaking")
                   /\ spent' = spent + 1
                   /\ UNCHANGED <<status, steps, task, ending, round, answer, placed, trades, viewer, excuse, faults>>

Concludes(a) == /\ AgentMoves(a, "deciding", "concluding")
                /\ UNCHANGED <<status, steps, task, ending, round, answer, guards, trades, viewer, excuse, faults>>

(* A round of reading calls, or one order refused for its size: told to the *)
(* model, and no row.                                                       *)
NextRound(a) == round' = [round EXCEPT ![a] = @ + 1]

ReadsOnly(a) == /\ round[a] < RoundCeiling
                /\ AgentMoves(a, "deciding", "asking")
                /\ NextRound(a)
                /\ UNCHANGED <<status, steps, task, ending, answer, guards, trades, viewer, excuse, faults>>

(* TradeGuard.check, asked before the row is written.                       *)
MayPlaceOneMore == placed <= OrdersPerRun
MayPlace == placed < OrdersPerRun

OrderAllowed(a) == /\ round[a] < RoundCeiling
                   /\ MayPlace
                   /\ AgentMoves(a, "deciding", "checked")
                   /\ UNCHANGED <<status, steps, task, ending, round, answer, guards, trades, viewer, excuse, faults>>

OrderLimitReached(a) == /\ round[a] < RoundCeiling
                        /\ ~MayPlace
                        /\ Raises(a, "deciding")
                        /\ UNCHANGED steps

RecordTrade(a) == /\ AgentMoves(a, "checked", "recorded")
                  /\ rows' = [rows EXCEPT ![<<a, round[a]>>] = "sent"]
                  /\ UNCHANGED <<status, steps, task, ending, round, answer, guards, reached, disowned, viewer, excuse, faults>>

(* The order is counted and leaves; whether the account takes it is decided *)
(* out there.                                                               *)
SendOrder(a, taken) == /\ AgentMoves(a, "recorded", "ordering")
                       /\ placed' = placed + 1
                       /\ reached' = IF taken THEN reached \union {<<a, round[a]>>} ELSE reached
                       /\ UNCHANGED <<status, steps, task, ending, round, answer, spent, rows, disowned, viewer, excuse, faults>>

(* What the gateway and trading-mcp may say of the order: that it settled,  *)
(* once the provider confirmed an accepted deal; a refusal, when the        *)
(* provider or the gateway rejected it, or when the gateway refused while   *)
(* it asked for the confirmation of a deal it had sent (a session renewed   *)
(* then and not put back on its account); and, whether it was taken or not, *)
(* that no confirmation came, that its effect is unknown, or nothing.       *)
MayAnswer(o) == {"unsettled", "accessFailure", "unavailable"}
                \union IF o \in reached THEN {"settled", "refusedLate"} ELSE {"refused"}

OrderAnswered(a) == /\ AgentMoves(a, "ordering", "answered")
                    /\ \E x \in MayAnswer(<<a, round[a]>>) :
                         /\ answer' = [answer EXCEPT ![a] = x]
                         /\ disowned' = IF x = "refusedLate" THEN disowned \union {<<a, round[a]>>}
                                                             ELSE disowned
                    /\ UNCHANGED <<status, steps, task, ending, round, guards, rows, reached, viewer, excuse, faults>>

(* A refusal reads the same whenever it was made.                           *)
Refusal == {"refused", "refusedLate"}
Says(x) == IF x \in Refusal THEN "refused" ELSE x
ReadSettlementHopeful(x) == CASE x = "unavailable" -> "unknown"
                              [] x = "accessFailure" -> "refused"
                              [] OTHER -> Says(x)
ReadSettlement(x) == IF x \in {"unavailable", "accessFailure"} THEN "unknown" ELSE Says(x)

SettleTrade(a) == /\ AgentMoves(a, "answered", "asking")
                  /\ rows' = [rows EXCEPT ![<<a, round[a]>>] = ReadSettlement(answer[a])]
                  /\ NextRound(a)
                  /\ UNCHANGED <<status, steps, task, ending, answer, guards, reached, disowned, viewer, excuse, faults>>

FinishStep(a) == /\ AgentMoves(a, "concluding", "done")
                 /\ steps' = [steps EXCEPT ![a] = "completed"]
                 /\ UNCHANGED <<status, task, ending, round, answer, guards, trades, viewer, excuse, faults>>

(* The agent whose model broke closes its own step and takes the run down.  *)
AgentFailed(a) == /\ Raises(a, "breaking")
                  /\ steps' = [steps EXCEPT ![a] = "failed"]

(* The time limit, or a statement of some agent that fails.                 *)
TeamStops == /\ task = "team"
             /\ Stop("failed")
             /\ UNCHANGED <<status, steps, round, answer, guards, trades, viewer, excuse, faults>>

TeamCompletes == /\ task = "team"
                 /\ \A a \in Agents : at[a] = "done"
                 /\ Stop("completed")
                 /\ UNCHANGED <<status, steps, round, answer, guards, trades, viewer, excuse, faults>>

AgentStep(a) == \/ StartStep(a) \/ CallModel(a) \/ CostLimitReached(a) \/ ModelAnswers(a)
                \/ Concludes(a) \/ ReadsOnly(a) \/ OrderAllowed(a) \/ OrderLimitReached(a)
                \/ RecordTrade(a) \/ (\E taken \in BOOLEAN : SendOrder(a, taken))
                \/ OrderAnswered(a) \/ SettleTrade(a) \/ FinishStep(a) \/ AgentFailed(a)
-----------------------------------------------------------------------------
(* _close: the steps, the run, the viewers.                                 *)

FailRunningSteps == /\ task = "closing"
                    /\ steps' = [a \in Agents |-> IF steps[a] = "running" THEN "failed" ELSE steps[a]]
                    /\ task' = "stepsClosed"
                    /\ UNCHANGED <<status, ending, memory, trades, viewer, excuse, faults>>

FinishRun == /\ task = "stepsClosed"
             /\ status' = IF status \in Open THEN ending ELSE status
             /\ task' = IF status \in Open THEN "publishing" ELSE "over"
             /\ UNCHANGED <<steps, ending, memory, trades, viewer, excuse, faults>>

PublishToStreams == /\ task = "publishing"
                    /\ viewer' = [viewer EXCEPT !.queued = viewer.at = "streaming"]
                    /\ task' = "over"
                    /\ UNCHANGED <<status, steps, ending, memory, trades, excuse, faults>>
Publish == /\ task = "publishing"
           /\ viewer' = [viewer EXCEPT !.queued = viewer.at # "away"]
           /\ task' = "over"
           /\ UNCHANGED <<status, steps, ending, memory, trades, excuse, faults>>

(* The operator's interruption reaches the task at the await it stands at.  *)
(* Inside the try it turns to the closing, and one more interruption does   *)
(* not stop that closing, which a shield protects.  Before the try nothing  *)
(* is closed, and nothing shields the _close of a run that ends otherwise.  *)
LossAt(place) == IF place = "publishing" THEN "untold" ELSE "lost"

CutOff(places) == /\ task \in places
                  /\ task' = "over"
                  /\ excuse' = LossAt(task)
                  /\ UNCHANGED <<ending, at>>

CancelUnshielded ==
    /\ \/ /\ task \in {"planning", "team"} /\ Stop("cancelled") /\ UNCHANGED excuse
       \/ ending # "cancelled" /\ CutOff({"created", "marked", "closing", "stepsClosed", "publishing"})
       \/ /\ ending = "cancelled" /\ task \in {"closing", "stepsClosed", "publishing"}
          /\ task' = "over" /\ UNCHANGED <<ending, at, excuse>>
    /\ UNCHANGED <<status, steps, round, answer, guards, trades, viewer, faults>>
Cancel == /\ ending # "cancelled"
          /\ \/ /\ task \in {"planning", "team"} /\ Stop("cancelled") /\ UNCHANGED excuse
             \/ CutOff({"created", "marked", "closing", "stepsClosed", "publishing"})
          /\ UNCHANGED <<status, steps, round, answer, guards, trades, viewer, faults>>

(* A statement outside the try, or of the closing itself, fails, or the     *)
(* connection it was made on fails as it is given back.                     *)
StatementFails == /\ faults < MaxFault
                  /\ faults' = faults + 1
                  /\ CutOff({"inserted", "created", "marked", "closing", "stepsClosed", "publishing"})
                  /\ UNCHANGED <<status, steps, round, answer, guards, trades, viewer>>

(* The process dies and its successor closes what it left open.             *)
Crash == /\ faults < MaxFault
         /\ faults' = faults + 1
         /\ task # "none"
         /\ task' = "none"
         /\ at' = [a \in Agents |-> IF at[a] = "done" THEN "done" ELSE "stopped"]
         /\ viewer' = [at |-> "away", queued |-> FALSE]
         /\ UNCHANGED <<status, steps, ending, round, answer, guards, trades, excuse>>

FailRunningRunsOnly == /\ task = "none" /\ status # "none"
                       /\ status' = IF status = "running" THEN "failed" ELSE status
                       /\ steps' = [a \in Agents |->
                             IF status = "running" /\ steps[a] \in {"pending", "running"}
                             THEN "failed" ELSE steps[a]]
                       /\ task' = "over" /\ excuse' = "no"
                       /\ UNCHANGED <<ending, memory, trades, viewer, faults>>
FailUnfinishedWithoutSteps == /\ task = "none" /\ status # "none"
                              /\ status' = IF status \in Open THEN "failed" ELSE status
                              /\ task' = "over" /\ excuse' = "no"
                              /\ UNCHANGED <<steps, ending, memory, trades, viewer, faults>>
FailUnfinishedRuns == /\ task = "none" /\ status # "none"
                      /\ status' = IF status \in Open THEN "failed" ELSE status
                      /\ steps' = [a \in Agents |->
                            IF status \in Open /\ steps[a] \in {"pending", "running"}
                            THEN "failed" ELSE steps[a]]
                      /\ task' = "over"
                      /\ excuse' = "no"
                      /\ UNCHANGED <<ending, memory, trades, viewer, faults>>
-----------------------------------------------------------------------------
(* The viewer: subscribed, then the snapshot is read, then the connection   *)
(* it was read on is given back, and then the queue is drained.             *)

Subscribe == /\ viewer.at = "away" /\ status # "none" /\ task # "none"
             /\ viewer' = [at |-> "reading", queued |-> FALSE]
             /\ UNCHANGED <<status, steps, task, ending, memory, trades, excuse, faults>>

ReadSnapshot == /\ viewer.at = "reading"
                /\ viewer' = [viewer EXCEPT !.at = IF status \in Open THEN "releasing" ELSE "told"]
                /\ UNCHANGED <<status, steps, task, ending, memory, trades, excuse, faults>>

OpenStream == /\ viewer.at = "releasing"
              /\ viewer' = [viewer EXCEPT !.at = "streaming"]
              /\ UNCHANGED <<status, steps, task, ending, memory, trades, excuse, faults>>

HearTheEnd == /\ viewer.at = "streaming" /\ viewer.queued
              /\ viewer' = [viewer EXCEPT !.at = "told"]
              /\ UNCHANGED <<status, steps, task, ending, memory, trades, excuse, faults>>

TaskStep == \/ CreateTask \/ MarkRunRunning \/ EnterTry \/ ToolsRefused \/ ToolsPlanned
            \/ TeamCompletes \/ FailRunningSteps \/ FinishRun \/ Publish
            \/ (\E a \in Agents : AgentStep(a))

Next == \/ CreateRun \/ TaskStep \/ TeamStops \/ Cancel
        \/ StatementFails \/ Crash \/ FailUnfinishedRuns
        \/ Subscribe \/ ReadSnapshot \/ OpenStream \/ HearTheEnd

(* The event loop goes on with a task that can go on, and a dead process is *)
(* started again.  Models and tools need not answer: the time limit does,   *)
(* and shares their fairness.                                               *)
Spec == Init /\ [][Next]_vars
FairSpec == Spec /\ WF_vars(TaskStep \/ TeamStops) /\ WF_vars(FailUnfinishedRuns)
                 /\ WF_vars(ReadSnapshot \/ OpenStream \/ HearTheEnd)
-----------------------------------------------------------------------------
TypeOK == /\ status \in Open \union Ended \union {"none"}
          /\ steps \in [Agents -> {"pending", "running", "completed", "failed"}]
          /\ task \in TaskAt
          /\ ending \in Ended
          /\ at \in [Agents -> AgentAt]
          /\ round \in [Agents -> 0 .. RoundCeiling]
          /\ answer \in [Agents -> Answers]
          /\ spent \in Nat /\ placed \in Nat
          /\ rows \in [Orders -> {"none", "sent", "settled", "unsettled", "refused", "unknown"}]
          /\ reached \subseteq Orders /\ disowned \subseteq reached
          /\ viewer \in [at : {"away", "reading", "releasing", "streaming", "told"}, queued : BOOLEAN]
          /\ excuse \in {"no", "lost", "untold"}
          /\ faults \in 0 .. MaxFault

(* The widest set of agents none of which waits for another.                *)
Parallel == Max({Cardinality(s) : s \in {t \in SUBSET Agents : \A a, b \in t : a \notin Before[b]}})

(* Whatever happens between the row, the call and the answer (a crash, an   *)
(* interruption, an answer that says nothing), an order the account took    *)
(* has a row; a row that says it settled speaks of one the account took,    *)
(* and a row that says it was refused of one it did not take, unless the    *)
(* gateway itself refused after it was taken.  An unsettled row claims      *)
(* neither (store/trades.py record_trade, engine._read_settlement).         *)
OrderIsOnRecord ==
    \A o \in Orders : /\ o \in reached => rows[o] # "none"
                      /\ rows[o] = "settled" => o \in reached
                      /\ rows[o] = "refused" => o \notin reached \/ o \in disowned

(* The ceilings are asked before an await and counted after it, by agents   *)
(* in parallel: a run may pass each, by one less than the agents that work  *)
(* at once, and by no more (trading.TradeGuard, cost.CostGuard).            *)
CeilingOvershoot ==
    /\ placed <= Max({OrdersPerRun + Parallel - 1, 0})
    /\ spent <= Max({RunLimit + Parallel - 1, 0})

(* A run that reads open has a task that will end it, unless an             *)
(* interruption came before the try or in the closing of a run that ended   *)
(* by itself, or a statement there was lost; an interruption of the team's  *)
(* work is no excuse, however often it is repeated, and after a restart     *)
(* there is none (execute_run, fail_unfinished_runs).                       *)
OpenRunIsWorked ==
    status \in Open /\ task = "over" => excuse = "lost"

(* A viewer told that the run is open hears of its end: it is queued for it *)
(* or still to be published (routers/runs.run_events, RunRegistry.publish). *)
(* What cuts the closing off between the row of the end and its publication *)
(* loses it.                                                                *)
ViewerHearsTheEnd ==
    viewer.at \in {"releasing", "streaming"} /\ status \in Ended =>
        viewer.queued \/ task = "publishing" \/ excuse = "untold"

(* Liveness: a run that was created ends, also one that was interrupted in  *)
(* its work, or its closing was cut off before the row of its end.          *)
EveryRunEnds == status \in Open ~> (status \in Ended \/ excuse = "lost")

(* To its readers a run is what RunLifecycle says: it begins and ends once, *)
(* and no step reads as running in a run that has ended, whichever          *)
(* statement of the closing is the last one a dying process wrote.          *)
Lifecycle == INSTANCE RunLifecycle WITH working <- {a \in Agents : steps[a] = "running"}
ImplementsLifecycle == Lifecycle!Spec
=============================================================================

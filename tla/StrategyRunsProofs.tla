------------------------- MODULE StrategyRunsProofs -------------------------
(***************************************************************************)
(* Proofs about StrategyRuns, for any number of processes, of calls, of    *)
(* runs asked for and of faults: its types; that the trades kept are those *)
(* of the runs that are done; that a run is one process's task at most, is *)
(* held by somebody while its row says so, and moves on only.              *)
(***************************************************************************)
EXTENDS StrategyRuns, FiniteSetTheorems, TLAPS

Status == Open \cup Ended \cup {"none", "deleted"}

(* The runs asked for are the first so many, so that the next one asked    *)
(* for is new, and each trial still counted is a run that was deleted.     *)
Asked == {r \in Run : status[r] # "none"}
AskedInOrder == \E n \in 0..MaxRun : Asked = 1..n

RowsInv == /\ status \in [Run -> Status]
           /\ TradesAreOfDoneRuns /\ AskedInOrder
           /\ trials \in Nat /\ trials <= Cardinality(Runs("deleted"))

(* Everything but the rows.                                                *)
WorkerSays == {"none", "busy", "result", "benchmark", "failed"}
CallAt == {"idle", "asking", "waiting", "reading", "over", "broken"}

TaskTypes == /\ place \in [Process -> [Run -> Spots]]
             /\ worker \in [Process -> [Run -> WorkerSays]]
             /\ held \in [Process -> SUBSET Run] /\ unwatched \subseteq Process \X Run
CallTypes == /\ call \in [Call -> CallAt] /\ served \in [Process -> SUBSET Call]
             /\ mine \in [Call -> Run \cup {0}] /\ heard \subseteq Call
RestTypes == /\ TaskTypes /\ CallTypes
             /\ byAgent \subseteq Run /\ up \subseteq Process /\ unmarked \subseteq Run
             /\ faults \in 0..MaxFault

(***************************************************************************)
(* The rows.                                                               *)
(***************************************************************************)

LEMMA RunsFinite ==
  /\ IsFiniteSet(Run)
  /\ \A S \in SUBSET Run : IsFiniteSet(S) /\ Cardinality(S) \in Nat /\ Cardinality(S) <= MaxRun
<1>1. IsFiniteSet(Run) /\ Cardinality(Run) = MaxRun
  BY FS_Interval, ConstantsAssumption DEF Run
<1>2. ASSUME NEW S \in SUBSET Run
      PROVE  IsFiniteSet(S) /\ Cardinality(S) \in Nat /\ Cardinality(S) <= MaxRun
  BY <1>1, FS_Subset, FS_CardinalityType
<1> QED BY <1>1, <1>2

(* What a step may do to the rows.                                         *)
Still == UNCHANGED <<status, trades, trials>>
Asks == (\E r \in Run : Enqueue(r)) /\ trades' = trades /\ trials' = trials
Turns(r, s) == /\ status[r] \in Open /\ s \in {"running", "failed", "cancelled"}
               /\ status' = [status EXCEPT ![r] = s]
               /\ trades' = trades /\ trials' = trials
Marks == InterruptedByRestart /\ trades' = trades /\ trials' = trials
Completes(r) == /\ status[r] = "running" /\ status' = [status EXCEPT ![r] = "done"]
                /\ trades' = trades \cup {r} /\ trials' = trials
Drops(S) == /\ \A r \in S : status[r] \in Ended
            /\ status' = [r \in Run |-> IF r \in S THEN "deleted" ELSE status[r]]
            /\ trades' = trades \ S
            /\ trials' = trials + Cardinality({r \in S : status[r] = "done"})

(* The run asked for is the one after those asked for before.              *)
LEMMA NextIsNew ==
  ASSUME RowsInv, NEW r \in Run, Enqueue(r)
  PROVE  /\ status[r] = "none" /\ status' = [status EXCEPT ![r] = "queued"]
         /\ Asked = 1..(r - 1) /\ r \in 1..MaxRun
<1>1. PICK n \in 0..MaxRun : Asked = 1..n
  BY DEF RowsInv, AskedInOrder
<1>2. n \in Nat /\ Cardinality(1..n) = n
  BY FS_Interval, ConstantsAssumption
<1>3. Asked = {s \in Run : status[s] # "none"}
  BY DEF Asked
<1>4. r = n + 1 /\ status' = [status EXCEPT ![r] = "queued"]
  BY <1>1, <1>2, <1>3 DEF Enqueue
<1>5. r \notin Asked /\ r - 1 = n
  BY <1>1, <1>2, <1>4
<1> QED BY <1>1, <1>4, <1>5 DEF Asked, Run

LEMMA RowsInit == Init => RowsInv
<1> SUFFICES ASSUME Init PROVE RowsInv
  OBVIOUS
<1>1. \A r \in Run : status[r] = "none"
  BY DEF Init
<1>2. Asked = 1..0 /\ Runs("done") = {} /\ Runs("deleted") = {} /\ 0 \in 0..MaxRun
  BY <1>1, ConstantsAssumption DEF Asked, Runs
<1>3. Cardinality(Runs("deleted")) = 0
  BY <1>2, FS_EmptySet
<1> QED BY <1>2, <1>3 DEF Init, RowsInv, Status, TradesAreOfDoneRuns, AskedInOrder

LEMMA AsksKeeps == RowsInv /\ Asks => RowsInv'
<1> SUFFICES ASSUME RowsInv, Asks PROVE RowsInv'
  OBVIOUS
<1>1. PICK r \in Run : Enqueue(r)
  BY DEF Asks
<1>2. /\ status[r] = "none" /\ status' = [status EXCEPT ![r] = "queued"]
      /\ Asked = 1..(r - 1) /\ r \in 1..MaxRun
  BY <1>1, NextIsNew
<1>3. status' \in [Run -> Status] /\ \A q \in Run : q # r => status'[q] = status[q]
  BY <1>2 DEF RowsInv, Status, Open
<1>4. status'[r] = "queued"
  BY <1>2 DEF RowsInv
<1>5. Asked' = Asked \cup {r}
  BY <1>3, <1>4 DEF Asked
<1>6. Asked' = 1..r /\ r \in 0..MaxRun
  BY <1>2, <1>5, ConstantsAssumption
<1>7. Runs("done")' = Runs("done") /\ Runs("deleted")' = Runs("deleted")
  BY <1>2, <1>3, <1>4 DEF Runs
<1> QED BY <1>3, <1>6, <1>7 DEF RowsInv, TradesAreOfDoneRuns, AskedInOrder, Asks

LEMMA TurnsKeeps == ASSUME RowsInv, NEW r \in Run, NEW s, Turns(r, s) PROVE RowsInv'
<1>1. /\ status' = [status EXCEPT ![r] = s] /\ status[r] \in Open
      /\ s \in {"running", "failed", "cancelled"} /\ trades' = trades /\ trials' = trials
  BY DEF Turns
<1>2. status' \in [Run -> Status] /\ status'[r] = s /\ \A q \in Run : q # r => status'[q] = status[q]
  BY <1>1 DEF RowsInv, Status, Open, Ended
<1>3. Asked' = Asked /\ Runs("done")' = Runs("done") /\ Runs("deleted")' = Runs("deleted")
  BY <1>1, <1>2 DEF Asked, Runs, Open
<1> QED BY <1>1, <1>2, <1>3 DEF RowsInv, TradesAreOfDoneRuns, AskedInOrder

LEMMA MarksKeeps == RowsInv /\ Marks => RowsInv'
<1> SUFFICES ASSUME RowsInv, Marks PROVE RowsInv'
  OBVIOUS
<1>1. status' \in [Run -> Status]
  BY DEF Marks, InterruptedByRestart, RowsInv, Status, Ended
<1>2. Asked' = Asked /\ Runs("done")' = Runs("done") /\ Runs("deleted")' = Runs("deleted")
  BY DEF Marks, InterruptedByRestart, Asked, Runs
<1> QED BY <1>1, <1>2 DEF RowsInv, TradesAreOfDoneRuns, AskedInOrder, Marks

LEMMA CompletesKeeps == ASSUME RowsInv, NEW r \in Run, Completes(r) PROVE RowsInv'
<1>1. /\ status' = [status EXCEPT ![r] = "done"] /\ status[r] = "running"
      /\ trades' = trades \cup {r} /\ trials' = trials
  BY DEF Completes
<1>2. /\ status' \in [Run -> Status] /\ status'[r] = "done"
      /\ \A q \in Run : q # r => status'[q] = status[q]
  BY <1>1 DEF RowsInv, Status, Ended
<1>3. /\ Asked' = Asked /\ Runs("done")' = Runs("done") \cup {r}
      /\ Runs("deleted")' = Runs("deleted")
  BY <1>1, <1>2 DEF Asked, Runs
<1> QED BY <1>1, <1>2, <1>3 DEF RowsInv, TradesAreOfDoneRuns, AskedInOrder

LEMMA DropsKeeps == ASSUME RowsInv, NEW S \in SUBSET Run, Drops(S) PROVE RowsInv'
<1> DEFINE D == {r \in S : status[r] = "done"}
<1>1. /\ \A r \in S : status[r] \in Ended
      /\ status' = [r \in Run |-> IF r \in S THEN "deleted" ELSE status[r]]
      /\ trades' = trades \ S /\ trials' = trials + Cardinality(D)
  BY DEF Drops
<1>2. status' \in [Run -> Status]
  BY <1>1 DEF RowsInv, Status
<1>3. Asked' = Asked
  BY <1>1 DEF Asked, Ended
<1>4. Runs("done")' = Runs("done") \ S /\ Runs("deleted")' = Runs("deleted") \cup S
  BY <1>1 DEF Runs
<1>5. Runs("deleted") \cap S = {}
  BY <1>1 DEF Runs, Ended
<1>6. /\ IsFiniteSet(S) /\ Cardinality(S) \in Nat
      /\ IsFiniteSet(Runs("deleted")) /\ Cardinality(Runs("deleted")) \in Nat
  <2>1. Runs("deleted") \in SUBSET Run
    BY DEF Runs
  <2> QED BY <2>1, RunsFinite
<1>7. Cardinality(Runs("deleted") \cup S) = Cardinality(Runs("deleted")) + Cardinality(S)
  <2>1. Cardinality(Runs("deleted") \cap S) = 0
    BY <1>5, FS_EmptySet
  <2>2. Cardinality(Runs("deleted") \cup S) =
          Cardinality(Runs("deleted")) + Cardinality(S) - Cardinality(Runs("deleted") \cap S)
    BY <1>6, FS_Union
  <2> QED BY <1>6, <2>1, <2>2
<1>8. Cardinality(D) \in Nat /\ Cardinality(D) <= Cardinality(S)
  <2>1. D \in SUBSET S /\ D \in SUBSET Run
    OBVIOUS
  <2> HIDE DEF D
  <2> QED BY <1>6, <2>1, FS_Subset, RunsFinite
<1>9. trials' \in Nat /\ trials' <= Cardinality(Runs("deleted")')
  <2> HIDE DEF D
  <2> QED BY <1>1, <1>4, <1>6, <1>7, <1>8, SMTT(20) DEF RowsInv
<1> QED BY <1>1, <1>2, <1>3, <1>4, <1>9 DEF RowsInv, TradesAreOfDoneRuns, AskedInOrder

(***************************************************************************)
(* The steps.                                                              *)
(***************************************************************************)

LEMMA FinishRows ==
  ASSUME RowsInv, NEW r \in Run, Finish(r), trials' = trials
  PROVE  Still \/ Completes(r)
BY DEF Finish, Still, Completes

LEMMA FailRows ==
  ASSUME RowsInv, NEW r \in Run, NEW s \in {"failed", "cancelled"}, Fail(r, s),
         trades' = trades, trials' = trials
  PROVE  Still \/ Turns(r, s)
BY DEF Fail, Still, Turns

(* Whatever a process, a task, a worker, the operator or the agent does,   *)
(* the rows only move in one of those ways.                                *)
Moves == \/ Still \/ Asks \/ Marks
         \/ \E r \in Run : Completes(r) \/ \E s \in {"running", "failed", "cancelled"} : Turns(r, s)
         \/ \E S \in SUBSET Run : Drops(S)

LEMMA TaskMoves ==
  ASSUME RowsInv, NEW p \in Process, NEW r \in Run,
         \/ Claim(p, r) \/ ClaimLost(p, r) \/ TaskStep(p, r) \/ StillWantedFails(p, r)
         \/ StartFails(p, r) \/ Work(p, r) \/ TimeLimit(p, r) \/ WriteFails(p, r)
         \/ UnwatchedEnds(p, r)
  PROVE  Moves
<1>1. CASE Claim(p, r)
  <2>1. Turns(r, "running")
    BY <1>1 DEF Claim, Oldest, Turns, Runs, Open
  <2> QED BY <2>1 DEF Moves
<1>2. CASE WriteResult(p, r)
  <2>1. Finish(r) /\ trials' = trials
    BY <1>2 DEF WriteResult
  <2> QED BY <2>1, FinishRows DEF Moves
<1>3. CASE WriteEnd(p, r)
  <2>1. PICK s \in {"failed", "cancelled"} : Fail(r, s)
    BY <1>3 DEF WriteEnd
  <2>2. trades' = trades /\ trials' = trials
    BY <1>3 DEF WriteEnd
  <2> QED BY <2>1, <2>2, FailRows DEF Moves
<1>4. CASE \/ ClaimLost(p, r) \/ CreateTask(p, r) \/ Prepare(p, r) \/ StillWanted(p, r)
           \/ StartWorker(p, r) \/ StartFails(p, r) \/ UnwatchedEnds(p, r)
           \/ ReceiveResult(p, r) \/ ReceiveBenchmark(p, r) \/ WorkerFailed(p, r)
           \/ StillWantedFails(p, r) \/ Work(p, r) \/ TimeLimit(p, r) \/ WriteFails(p, r)
  <2>1. UNCHANGED table
    BY <1>4 DEF ClaimLost, CreateTask, Prepare, StillWanted, ReceiveResult, ReceiveBenchmark,
                WorkerFailed, StillWantedFails, Work, TimeLimit, WriteFails, StartWorker,
                StartFails, UnwatchedEnds
  <2> QED BY <2>1 DEF table, Still, Moves
<1> QED BY <1>1, <1>2, <1>3, <1>4 DEF TaskStep

LEMMA OtherMoves ==
  ASSUME RowsInv,
         \/ \E p \in Process : Start(p) \/ Stop(p)
         \/ OperatorAsks \/ \E r \in Run : Cancel(r)
         \/ \E S \in SUBSET Run : Delete(S)
         \/ \E c \in Call, p \in Process : AgentAsks(c, p)
         \/ \E c \in Call : AgentEnqueues(c) \/ AgentStopsWaiting(c) \/ AgentReads(c)
         \/ UNCHANGED vars
  PROVE  Moves
<1>1. CASE \E p \in Process : Start(p)
  <2>1. Marks
    BY <1>1 DEF Start, Marks
  <2> QED BY <2>1 DEF Moves
<1>2. CASE OperatorAsks \/ \E c \in Call : AgentEnqueues(c)
  <2>1. Asks
    BY <1>2 DEF OperatorAsks, AgentEnqueues, Asks
  <2> QED BY <2>1 DEF Moves
<1>3. ASSUME NEW r \in Run, Cancel(r) PROVE Moves
  <2>1. Fail(r, "cancelled") /\ trades' = trades /\ trials' = trials
    BY <1>3 DEF Cancel
  <2> QED BY <2>1, FailRows DEF Moves
<1>4. ASSUME NEW S \in SUBSET Run, Delete(S) PROVE Moves
  <2>1. Drops(S)
    BY <1>4 DEF Delete, Drops
  <2> QED BY <2>1 DEF Moves
<1>5. CASE \/ \E p \in Process : Stop(p)
           \/ \E c \in Call, p \in Process : AgentAsks(c, p)
           \/ \E c \in Call : AgentStopsWaiting(c) \/ AgentReads(c)
           \/ UNCHANGED vars
  <2>1. UNCHANGED table
    BY <1>5 DEF Stop, AgentAsks, AgentStopsWaiting, AgentReads, vars
  <2> QED BY <2>1 DEF table, Still, Moves
<1> QED BY <1>1, <1>2, <1>3, <1>4, <1>5

LEMMA RowsNext == RowsInv /\ [Next]_vars => RowsInv'
<1> SUFFICES ASSUME RowsInv, [Next]_vars PROVE RowsInv'
  OBVIOUS
<1>1. Moves
  BY TaskMoves, OtherMoves DEF Next
<1>2. CASE Still
  <2>1. status' = status /\ trades' = trades /\ trials' = trials
    BY <1>2 DEF Still
  <2> QED BY <2>1 DEF RowsInv, TradesAreOfDoneRuns, AskedInOrder, Asked, Runs
<1> QED BY <1>1, <1>2, AsksKeeps, TurnsKeeps, MarksKeeps, CompletesKeeps, DropsKeeps DEF Moves

LEMMA RowsAlways == Spec => []RowsInv
BY RowsInit, RowsNext, PTL DEF Spec

(***************************************************************************)
(* The types of the rest.                                                  *)
(***************************************************************************)

LEMMA MoveType ==
  ASSUME place \in [Process -> [Run -> Spots]], NEW p \in Process, NEW r \in Run,
         NEW spot \in Spots, Move(p, r, spot)
  PROVE  place' \in [Process -> [Run -> Spots]]
<1>1. place' = [place EXCEPT ![p] = [place[p] EXCEPT ![r] = spot]]
  BY DEF Move
<1>2. [place[p] EXCEPT ![r] = spot] \in [Run -> Spots]
  OBVIOUS
<1> QED BY <1>1, <1>2

LEMMA EndsType ==
  ASSUME place \in [Process -> [Run -> Spots]], NEW p \in Process, NEW r \in Run,
         NEW s, Ends(p, r, s)
  PROVE  place' \in [Process -> [Run -> Spots]]
<1>1. PICK spot \in Spots : Move(p, r, spot)
  BY DEF Ends, Spots
<1> QED BY <1>1, MoveType

LEMMA WorkerType ==
  ASSUME worker \in [Process -> [Run -> WorkerSays]], NEW p \in Process, NEW r \in Run,
         NEW w \in WorkerSays, worker' = [worker EXCEPT ![p][r] = w]
  PROVE  worker' \in [Process -> [Run -> WorkerSays]]
<1>1. worker' = [worker EXCEPT ![p] = [worker[p] EXCEPT ![r] = w]]
  OBVIOUS
<1>2. [worker[p] EXCEPT ![r] = w] \in [Run -> WorkerSays]
  OBVIOUS
<1> QED BY <1>1, <1>2

LEMMA StopWorkerType ==
  ASSUME worker \in [Process -> [Run -> WorkerSays]], held \in [Process -> SUBSET Run],
         NEW p \in Process, NEW r \in Run, StopWorker(p, r)
  PROVE  worker' \in [Process -> [Run -> WorkerSays]] /\ held' \in [Process -> SUBSET Run]
<1>1. worker' \in [Process -> [Run -> WorkerSays]]
  BY WorkerType DEF StopWorker, WorkerSays
<1>2. held' = [held EXCEPT ![p] = held[p] \ {r}]
  BY DEF StopWorker
<1> QED BY <1>1, <1>2

LEMMA TaskOverType ==
  ASSUME TaskTypes, CallTypes, NEW p \in Process, NEW r \in Run, TaskOver(p, r)
  PROVE  place' \in [Process -> [Run -> Spots]] /\ CallTypes'
<1>1. place' \in [Process -> [Run -> Spots]]
  BY MoveType DEF TaskTypes, TaskOver, Spots
<1>2. call' = call /\ served' = served /\ mine' = mine /\ heard' \subseteq Call
  BY DEF TaskOver, CallTypes
<1> QED BY <1>1, <1>2 DEF CallTypes

LEMMA FaultType == faults \in 0..MaxFault /\ Fault => faults' \in 0..MaxFault
BY ConstantsAssumption DEF Fault

LEMMA RestInit == Init => RestTypes
<1>1. 0 \in 0..MaxFault
  BY ConstantsAssumption
<1> QED BY <1>1 DEF Init, RestTypes, TaskTypes, CallTypes, Spots, WorkerSays, CallAt

(* A step of a process's task, its worker or the clock.                    *)
LEMMA TaskRest ==
  ASSUME RestTypes, NEW p \in Process, NEW r \in Run,
         \/ Claim(p, r) \/ ClaimLost(p, r) \/ TaskStep(p, r) \/ StillWantedFails(p, r)
         \/ StartFails(p, r) \/ Work(p, r) \/ TimeLimit(p, r) \/ WriteFails(p, r)
         \/ UnwatchedEnds(p, r)
  PROVE  RestTypes'
<1>0. /\ place \in [Process -> [Run -> Spots]] /\ worker \in [Process -> [Run -> WorkerSays]]
      /\ held \in [Process -> SUBSET Run] /\ unwatched \subseteq Process \X Run
      /\ TaskTypes /\ CallTypes
      /\ byAgent \subseteq Run /\ up \subseteq Process /\ unmarked \subseteq Run
      /\ faults \in 0..MaxFault
  BY DEF RestTypes, TaskTypes
<1>1. byAgent' = byAgent /\ up' = up
  BY DEF Claim, ClaimLost, TaskStep, CreateTask, Prepare, StillWanted, ReceiveResult,
         ReceiveBenchmark, WorkerFailed, WriteResult, WriteEnd, StillWantedFails, Work,
         StartWorker, StartFails, UnwatchedEnds, TimeLimit, WriteFails, table
<1>2. unmarked' = unmarked \/ unmarked' = unmarked \cup {r}
  BY DEF Claim, ClaimLost, TaskStep, CreateTask, Prepare, StillWanted, ReceiveResult,
         ReceiveBenchmark, WorkerFailed, WriteResult, WriteEnd, StillWantedFails, Work,
         StartWorker, StartFails, UnwatchedEnds, TimeLimit, WriteFails
<1>3. faults' = faults \/ Fault
  BY DEF Claim, ClaimLost, TaskStep, CreateTask, Prepare, StillWanted, ReceiveResult,
         ReceiveBenchmark, WorkerFailed, WriteResult, WriteEnd, StillWantedFails, Work,
         StartWorker, StartFails, UnwatchedEnds, TimeLimit, WriteFails
<1>4. unmarked' \subseteq Run /\ faults' \in 0..MaxFault
  BY <1>0, <1>2, <1>3, FaultType
<1>5. UNCHANGED agent \/ TaskOver(p, r)
  BY DEF Claim, ClaimLost, TaskStep, CreateTask, Prepare, StillWanted, ReceiveResult,
         ReceiveBenchmark, WorkerFailed, WriteResult, WriteEnd, StillWantedFails, Work,
         StartWorker, StartFails, UnwatchedEnds, TimeLimit, WriteFails
<1>6. CallTypes'
  <2>1. CASE UNCHANGED agent
    BY <1>0, <2>1 DEF agent, CallTypes
  <2>2. CASE TaskOver(p, r)
    BY <1>0, <2>2, TaskOverType
  <2> QED BY <1>5, <2>1, <2>2
<1>7. place' \in [Process -> [Run -> Spots]]
  <2>1. \/ place' = place \/ TaskOver(p, r) \/ \E s : Ends(p, r, s)
        \/ \E spot \in Spots : Move(p, r, spot)
    <3>1. CASE Claim(p, r) \/ CreateTask(p, r) \/ ClaimLost(p, r)
      BY <3>1 DEF Claim, CreateTask, ClaimLost, Move, Spots
    <3>2. CASE \/ Prepare(p, r) \/ StillWanted(p, r) \/ StillWantedFails(p, r) \/ Work(p, r)
               \/ StartWorker(p, r) \/ StartFails(p, r) \/ UnwatchedEnds(p, r)
      BY <3>2 DEF Prepare, StillWanted, StillWantedFails, Work, StartWorker, StartFails,
                  UnwatchedEnds, Spots
    <3>3. CASE ReceiveResult(p, r) \/ ReceiveBenchmark(p, r) \/ WorkerFailed(p, r) \/ TimeLimit(p, r)
      BY <3>3 DEF ReceiveResult, ReceiveBenchmark, WorkerFailed, TimeLimit, Spots
    <3>4. CASE WriteResult(p, r) \/ WriteEnd(p, r) \/ WriteFails(p, r)
      BY <3>4 DEF WriteResult, WriteEnd, WriteFails, Spots
    <3> QED BY <3>1, <3>2, <3>3, <3>4 DEF TaskStep
  <2> QED BY <1>0, <2>1, TaskOverType, EndsType, MoveType
<1>8. worker' \in [Process -> [Run -> WorkerSays]] /\ held' \in [Process -> SUBSET Run]
  <2>1. CASE StopWorker(p, r)
    BY <1>0, <2>1, StopWorkerType
  <2>2. CASE \/ Claim(p, r) \/ CreateTask(p, r) \/ ClaimLost(p, r) \/ Prepare(p, r)
             \/ WriteResult(p, r) \/ WriteEnd(p, r) \/ WriteFails(p, r)
             \/ StartFails(p, r) \/ UnwatchedEnds(p, r)
    <3>1. worker' = worker /\ held' = held
      BY <2>2 DEF Claim, CreateTask, ClaimLost, Prepare, WriteResult, WriteEnd, WriteFails,
                  StartFails, UnwatchedEnds, queue
    <3> QED BY <1>0, <3>1
  <2>3. CASE StillWanted(p, r) \/ StartWorker(p, r)
    <3>1. \/ StopWorker(p, r)
          \/ held' = held /\ (worker' = worker \/ worker' = [worker EXCEPT ![p][r] = "busy"])
      BY <2>3 DEF StillWanted, StartWorker
    <3>2. "busy" \in WorkerSays
      BY DEF WorkerSays
    <3> QED BY <1>0, <2>1, <3>1, <3>2, WorkerType
  <2>4. CASE Work(p, r)
    <3>1. held' = held /\ \E w \in WorkerSays : worker' = [worker EXCEPT ![p][r] = w]
      BY <2>4 DEF Work, WorkerSays
    <3> QED BY <1>0, <3>1, WorkerType
  <2>5. CASE ReceiveResult(p, r)
    <3>1. worker' = worker /\ held' = [held EXCEPT ![p] = held[p] \cup {r}]
      BY <2>5 DEF ReceiveResult
    <3> QED BY <1>0, <3>1
  <2>6. CASE \/ ReceiveBenchmark(p, r) \/ WorkerFailed(p, r) \/ TimeLimit(p, r)
             \/ StillWantedFails(p, r)
    BY <2>1, <2>6 DEF ReceiveBenchmark, WorkerFailed, TimeLimit, StillWantedFails
  <2> QED BY <2>2, <2>3, <2>4, <2>5, <2>6 DEF TaskStep
<1>9. unwatched' \subseteq unwatched
  BY DEF Claim, ClaimLost, TaskStep, CreateTask, Prepare, StillWanted, ReceiveResult,
         ReceiveBenchmark, WorkerFailed, WriteResult, WriteEnd, StillWantedFails, Work,
         StartWorker, StartFails, UnwatchedEnds, TimeLimit, WriteFails, queue
<1> QED BY <1>0, <1>1, <1>4, <1>6, <1>7, <1>8, <1>9 DEF RestTypes, TaskTypes

LEMMA StopRest ==
  ASSUME RestTypes, NEW p \in Process, Stop(p)
  PROVE  RestTypes'
<1>0. /\ place \in [Process -> [Run -> Spots]] /\ worker \in [Process -> [Run -> WorkerSays]]
      /\ held \in [Process -> SUBSET Run] /\ CallTypes /\ faults \in 0..MaxFault
      /\ unwatched \subseteq Process \X Run
      /\ byAgent \subseteq Run /\ up \subseteq Process /\ unmarked \subseteq Run
  BY DEF RestTypes, TaskTypes
<1>1. /\ Fault /\ up' = up \ {p} /\ byAgent' = byAgent
      /\ unmarked' = unmarked \cup {r \in Running(p) : status[r] = "running"}
      /\ place' = [place EXCEPT ![p] = [r \in Run |-> "none"]]
      /\ worker' = [worker EXCEPT ![p] = [r \in Run |-> "none"]]
      /\ held' = [held EXCEPT ![p] = {}]
      /\ call' = [c \in Call |-> IF c \in served[p] THEN "over" ELSE call[c]]
      /\ mine' = [c \in Call |-> IF c \in served[p] THEN 0 ELSE mine[c]]
      /\ served' = [served EXCEPT ![p] = {}]
      /\ heard' = heard \ served[p]
  BY DEF Stop, table
<1>2. TaskTypes'
  <2>1. unwatched' \subseteq Process \X Run
    <3>1. PICK left \in SUBSET Run : unwatched' = unwatched \cup ({p} \X left)
      BY DEF Stop
    <3> QED BY <1>0, <3>1
  <2> QED BY <1>0, <1>1, <2>1 DEF TaskTypes, Spots, WorkerSays
<1>3. CallTypes'
  BY <1>0, <1>1 DEF CallTypes, CallAt
<1>4. unmarked' \subseteq Run /\ up' \subseteq Process /\ faults' \in 0..MaxFault
  BY <1>0, <1>1, FaultType DEF Running
<1> QED BY <1>0, <1>1, <1>2, <1>3, <1>4 DEF RestTypes

LEMMA CallRest ==
  ASSUME RestTypes, NEW c \in Call,
         \/ \E p \in Process : AgentAsks(c, p)
         \/ AgentEnqueues(c) \/ AgentStopsWaiting(c) \/ AgentReads(c)
  PROVE  RestTypes'
<1>0. /\ call \in [Call -> CallAt] /\ served \in [Process -> SUBSET Call]
      /\ mine \in [Call -> Run \cup {0}] /\ heard \subseteq Call /\ byAgent \subseteq Run
  BY DEF RestTypes, CallTypes
<1>1. UNCHANGED <<up, place, worker, held, unwatched, unmarked, faults>>
  BY DEF AgentAsks, AgentEnqueues, AgentStopsWaiting, AgentReads, queue
<1>2. \E a \in CallAt : call' = [call EXCEPT ![c] = a]
  BY DEF AgentAsks, AgentEnqueues, AgentStopsWaiting, AgentReads, CallAt
<1>3. served' \in [Process -> SUBSET Call]
  <2>1. CASE \E p \in Process : AgentAsks(c, p)
    <3>1. PICK p \in Process : served' = served \/ served' = [served EXCEPT ![p] = served[p] \cup {c}]
      BY <2>1 DEF AgentAsks
    <3> QED BY <1>0, <3>1
  <2>2. CASE AgentEnqueues(c) \/ AgentStopsWaiting(c) \/ AgentReads(c)
    BY <1>0, <2>2 DEF AgentEnqueues, AgentStopsWaiting, AgentReads
  <2> QED BY <2>1, <2>2
<1>4. mine' \in [Call -> Run \cup {0}] /\ heard' \subseteq Call /\ byAgent' \subseteq Run
  <2>1. CASE AgentEnqueues(c)
    <3>1. PICK r \in Run : byAgent' = byAgent \cup {r} /\ mine' = [mine EXCEPT ![c] = r]
      BY <2>1 DEF AgentEnqueues
    <3>2. heard' = heard
      BY <2>1 DEF AgentEnqueues
    <3> QED BY <1>0, <3>1, <3>2
  <2>2. CASE (\E p \in Process : AgentAsks(c, p)) \/ AgentStopsWaiting(c) \/ AgentReads(c)
    BY <1>0, <2>2 DEF AgentAsks, AgentStopsWaiting, AgentReads, table
  <2> QED BY <2>1, <2>2
<1> QED BY <1>0, <1>1, <1>2, <1>3, <1>4 DEF RestTypes, TaskTypes, CallTypes

LEMMA RestNext == RestTypes /\ [Next]_vars => RestTypes'
<1> SUFFICES ASSUME RestTypes, [Next]_vars PROVE RestTypes'
  OBVIOUS
<1>1. CASE \/ OperatorAsks \/ UNCHANGED vars
           \/ \E r \in Run : Cancel(r)
           \/ \E S \in SUBSET Run : Delete(S)
  <2>1. UNCHANGED <<byAgent, up, queue, agent, unmarked, faults>>
    BY <1>1 DEF OperatorAsks, Cancel, Delete, vars, table
  <2> QED BY <2>1 DEF queue, agent, RestTypes, TaskTypes, CallTypes
<1>2. ASSUME NEW p \in Process, Start(p) PROVE RestTypes'
  <2>1. UNCHANGED <<byAgent, queue, agent, faults>> /\ up' = up \cup {p} /\ unmarked' = {}
    BY <1>2 DEF Start
  <2> QED BY <2>1 DEF queue, agent, RestTypes, TaskTypes, CallTypes
<1> QED BY <1>1, <1>2, TaskRest, StopRest, CallRest DEF Next

LEMMA RestAlways == Spec => []RestTypes
BY RestInit, RestNext, PTL DEF Spec

(***************************************************************************)
(* The theorems.                                                           *)
(***************************************************************************)

(* Every variable keeps its type; in particular no more trials are counted *)
(* than runs were ever asked for.                                          *)
THEOREM TypeCorrect == Spec => []TypeOK
<1>1. RowsInv /\ RestTypes => TypeOK
  <2> SUFFICES ASSUME RowsInv, RestTypes PROVE TypeOK
    OBVIOUS
  <2>1. Runs("deleted") \in SUBSET Run /\ trades \subseteq Run
    BY DEF Runs, RowsInv, TradesAreOfDoneRuns
  <2>2. trials \in 0..MaxRun
    <3>1. Cardinality(Runs("deleted")) \in Nat /\ Cardinality(Runs("deleted")) <= MaxRun
      BY <2>1, RunsFinite
    <3> QED BY <3>1, ConstantsAssumption DEF RowsInv
  <2> QED BY <2>1, <2>2
          DEF RowsInv, RestTypes, TaskTypes, CallTypes, TypeOK, Status, WorkerSays, CallAt
<1> QED BY <1>1, RowsAlways, RestAlways, PTL

(* The trades kept are those of the runs that are done, whichever process  *)
(* finished, cancelled, deleted or marked a run, and in whichever order.   *)
THEOREM OnlyDoneRunsTrade == Spec => []TradesAreOfDoneRuns
<1>1. RowsInv => TradesAreOfDoneRuns
  BY DEF RowsInv
<1> QED BY <1>1, RowsAlways, PTL

(***************************************************************************)
(* The tasks.                                                              *)
(***************************************************************************)

(* A run that is somebody's task was claimed from a queue that serves, and *)
(* is not done yet.                                                        *)
TasksAreClaimed ==
  \A p \in Process, r \in Run :
    place[p][r] # "none" => p \in up /\ status[r] \notin {"none", "queued", "done"}

(* What a task's worker has come to is known only while it is watched.     *)
WorkersAreWatched ==
  \A p \in Process, r \in Run :
    worker[p][r] # "none" \/ r \in held[p] => place[p][r] = "computing"

TasksInv == /\ TasksAreClaimed /\ ClaimedOnce /\ NoRunIsForgotten
            /\ WorkersAreWatched /\ ComputedOnce

(* What a step of one task, but the claim, leaves alone and where it goes. *)
Goes(p, r) ==
  /\ place[p][r] # "none"
  /\ \A q \in Process, s \in Run :
       q # p \/ s # r => /\ place'[q][s] = place[q][s] /\ worker'[q][s] = worker[q][s]
                         /\ s \in held'[q] => s \in held[q]
  /\ place'[p][r] = "none" => status'[r] # "running" \/ r \in unmarked'
  /\ worker'[p][r] # "none" \/ r \in held'[p] => place'[p][r] = "computing"
  /\ up' = up /\ unmarked \subseteq unmarked'
  /\ \A s \in Run : s # r => status'[s] = status[s]
  /\ status'[r] = status[r] \/ (status[r] = "running" /\ status'[r] \in Ended)
  /\ status'[r] = "done" => status[r] = "done" \/ place'[p][r] = "none"
  /\ unwatched' = unwatched

LEMMA MovePlace ==
  ASSUME place \in [Process -> [Run -> Spots]], NEW p \in Process, NEW r \in Run,
         NEW spot, Move(p, r, spot)
  PROVE  /\ place'[p][r] = spot
         /\ \A q \in Process, s \in Run : q # p \/ s # r => place'[q][s] = place[q][s]
<1>1. place' = [place EXCEPT ![p] = [place[p] EXCEPT ![r] = spot]]
  BY DEF Move
<1>2. place'[p] = [place[p] EXCEPT ![r] = spot] /\ \A q \in Process : q # p => place'[q] = place[q]
  BY <1>1
<1> QED BY <1>2

LEMMA WorkerPlace ==
  ASSUME worker \in [Process -> [Run -> WorkerSays]], NEW p \in Process, NEW r \in Run,
         NEW w, worker' = [worker EXCEPT ![p][r] = w]
  PROVE  /\ worker'[p][r] = w
         /\ \A q \in Process, s \in Run : q # p \/ s # r => worker'[q][s] = worker[q][s]
<1>1. worker' = [worker EXCEPT ![p] = [worker[p] EXCEPT ![r] = w]]
  OBVIOUS
<1>2. worker'[p] = [worker[p] EXCEPT ![r] = w] /\ \A q \in Process : q # p => worker'[q] = worker[q]
  BY <1>1
<1> QED BY <1>2

LEMMA StopPlace ==
  ASSUME worker \in [Process -> [Run -> WorkerSays]], held \in [Process -> SUBSET Run],
         NEW p \in Process, NEW r \in Run, StopWorker(p, r)
  PROVE  /\ worker'[p][r] = "none" /\ r \notin held'[p]
         /\ \A q \in Process, s \in Run :
              q # p \/ s # r => worker'[q][s] = worker[q][s] /\ (s \in held'[q] => s \in held[q])
<1>1. /\ worker'[p][r] = "none"
      /\ \A q \in Process, s \in Run : q # p \/ s # r => worker'[q][s] = worker[q][s]
  BY WorkerPlace DEF StopWorker
<1>2. held' = [held EXCEPT ![p] = held[p] \ {r}]
  BY DEF StopWorker
<1>3. held'[p] = held[p] \ {r} /\ \A q \in Process : q # p => held'[q] = held[q]
  BY <1>2
<1> QED BY <1>1, <1>3

LEMMA TaskGoes ==
  ASSUME RowsInv, RestTypes, TasksInv, NEW p \in Process, NEW r \in Run,
         \/ ClaimLost(p, r) \/ TaskStep(p, r) \/ StillWantedFails(p, r)
         \/ StartFails(p, r) \/ Work(p, r) \/ TimeLimit(p, r) \/ WriteFails(p, r)
  PROVE  Goes(p, r)
<1>0. /\ place \in [Process -> [Run -> Spots]] /\ worker \in [Process -> [Run -> WorkerSays]]
      /\ held \in [Process -> SUBSET Run] /\ status \in [Run -> Status]
  BY DEF RestTypes, TaskTypes, RowsInv
<1>1. /\ place[p][r] # "none" => status[r] \notin {"none", "queued"}
      /\ worker[p][r] # "none" \/ r \in held[p] => place[p][r] = "computing"
  BY DEF TasksInv, TasksAreClaimed, WorkersAreWatched
<1>u. unwatched' = unwatched
  BY DEF ClaimLost, TaskStep, CreateTask, Prepare, StillWanted, ReceiveResult,
         ReceiveBenchmark, WorkerFailed, WriteResult, WriteEnd, StillWantedFails, Work,
         StartWorker, StartFails, TimeLimit, WriteFails
<1>2. CASE ClaimLost(p, r) \/ CreateTask(p, r) \/ Prepare(p, r) \/ StartFails(p, r)
  <2>1. PICK spot \in Spots : Move(p, r, spot) /\ (spot = "none" => r \in unmarked')
    <3>1. CASE ClaimLost(p, r)
      BY <3>1 DEF ClaimLost, Move, Spots
    <3>2. CASE CreateTask(p, r)
      <4>1. Move(p, r, "preparing")
        BY <3>2 DEF CreateTask, Move
      <4> QED BY <4>1 DEF Spots
    <3>3. CASE Prepare(p, r)
      <4>1. Move(p, r, "looking") \/ Move(p, r, "ending failed") \/ Move(p, r, "erring")
        BY <3>3 DEF Prepare, Ends
      <4> QED BY <4>1 DEF Spots
    <3>4. CASE StartFails(p, r)
      BY <3>4 DEF StartFails, Spots
    <3> QED BY <1>2, <3>1, <3>2, <3>3, <3>4
  <2>2. /\ status' = status /\ worker' = worker /\ held' = held /\ up' = up
        /\ unmarked \subseteq unmarked'
    BY <1>2 DEF ClaimLost, CreateTask, Prepare, StartFails, table
  <2>3. place[p][r] \in {"claimed", "preparing", "starting"}
    BY <1>2 DEF ClaimLost, CreateTask, Prepare, StartFails
  <2>4. worker[p][r] = "none" /\ r \notin held[p]
    BY <1>1, <2>3
  <2>5. /\ place'[p][r] = spot
        /\ \A q \in Process, s \in Run : q # p \/ s # r => place'[q][s] = place[q][s]
    BY <1>0, <2>1, MovePlace
  <2> QED BY <1>u, <2>1, <2>2, <2>3, <2>4, <2>5 DEF Goes
<1>3. CASE StillWanted(p, r) \/ StartWorker(p, r)
  <2>1. /\ status' = status /\ up' = up /\ unmarked' = unmarked
        /\ place[p][r] \in {"looking", "starting", "computing"}
    BY <1>3 DEF StillWanted, StartWorker, table
  <2>2. CASE Ends(p, r, "cancelled") /\ StopWorker(p, r)
    <3>1. "cancelled" # "failed"
      OBVIOUS
    <3>2. Move(p, r, "ending cancelled")
      BY <2>2, <3>1 DEF Ends
    <3>3. /\ place'[p][r] = "ending cancelled"
          /\ \A q \in Process, s \in Run : q # p \/ s # r => place'[q][s] = place[q][s]
      BY <1>0, <3>2, MovePlace
    <3>4. /\ worker'[p][r] = "none" /\ r \notin held'[p]
          /\ \A q \in Process, s \in Run :
               q # p \/ s # r => worker'[q][s] = worker[q][s] /\ (s \in held'[q] => s \in held[q])
      BY <1>0, <2>2, StopPlace
    <3> QED BY <1>u, <2>1, <3>3, <3>4 DEF Goes
  <2>3. CASE Move(p, r, "computing") /\ held' = held
             /\ (worker' = worker \/ worker' = [worker EXCEPT ![p][r] = "busy"])
    <3>1. \A q \in Process, s \in Run : q # p \/ s # r => worker'[q][s] = worker[q][s]
      BY <1>0, <2>3, WorkerPlace
    <3> QED BY <1>0, <1>u, <2>1, <2>3, <3>1, MovePlace DEF Goes
  <2>4. CASE Move(p, r, "starting") /\ held' = held /\ worker' = worker /\ place[p][r] = "looking"
    <3>1. worker[p][r] = "none" /\ r \notin held[p]
      BY <1>1, <2>4
    <3> QED BY <1>0, <1>u, <2>1, <2>4, <3>1, MovePlace DEF Goes
  <2>5. CASE StillWanted(p, r)
    BY <2>2, <2>3, <2>4, <2>5 DEF StillWanted
  <2>6. CASE StartWorker(p, r)
    BY <2>3, <2>6 DEF StartWorker
  <2> QED BY <1>3, <2>5, <2>6
<1>4. CASE \/ StillWantedFails(p, r) \/ ReceiveBenchmark(p, r) \/ WorkerFailed(p, r) \/ TimeLimit(p, r)
  <2>1. PICK spot \in Spots : Move(p, r, spot) /\ spot # "none"
    BY <1>4 DEF StillWantedFails, ReceiveBenchmark, WorkerFailed, TimeLimit, Ends, Spots
  <2>2. /\ StopWorker(p, r) /\ status' = status /\ up' = up /\ unmarked' = unmarked
        /\ place[p][r] \in {"looking", "computing"}
    BY <1>4 DEF StillWantedFails, ReceiveBenchmark, WorkerFailed, TimeLimit, table
  <2> QED BY <1>0, <1>u, <2>1, <2>2, MovePlace, StopPlace DEF Goes
<1>5. CASE Work(p, r)
  <2>1. /\ place' = place /\ held' = held /\ status' = status /\ up' = up /\ unmarked' = unmarked
        /\ worker[p][r] # "none" /\ \E w : worker' = [worker EXCEPT ![p][r] = w]
    BY <1>5 DEF Work, table
  <2>2. \A q \in Process, s \in Run : q # p \/ s # r => worker'[q][s] = worker[q][s]
    BY <1>0, <2>1, WorkerPlace
  <2> QED BY <1>1, <1>u, <2>1, <2>2 DEF Goes
<1>6. CASE ReceiveResult(p, r)
  <2>1. /\ place' = place /\ worker' = worker /\ status' = status /\ up' = up /\ unmarked' = unmarked
        /\ place[p][r] = "computing" /\ held' = [held EXCEPT ![p] = held[p] \cup {r}]
    BY <1>6 DEF ReceiveResult, table
  <2>2. held'[p] = held[p] \cup {r} /\ \A q \in Process : q # p => held'[q] = held[q]
    BY <1>0, <2>1
  <2> QED BY <1>u, <2>1, <2>2 DEF Goes
<1>7. CASE WriteResult(p, r) \/ WriteEnd(p, r)
  <2>1. /\ Move(p, r, "none") /\ worker' = worker /\ held' = held /\ up' = up /\ unmarked' = unmarked
        /\ place[p][r] \notin {"none", "computing"}
    BY <1>7 DEF WriteResult, WriteEnd, TaskOver
  <2>2. worker[p][r] = "none" /\ r \notin held[p] /\ status[r] \notin {"none", "queued"}
    BY <1>1, <2>1
  <2>3. /\ \A s \in Run : s # r => status'[s] = status[s]
        /\ status'[r] # "running"
        /\ status'[r] = status[r] \/ (status[r] = "running" /\ status'[r] \in Ended)
    BY <1>0, <1>7, <2>2 DEF WriteResult, WriteEnd, Finish, Fail, Open, Ended
  <2> QED BY <1>0, <1>u, <2>1, <2>2, <2>3, MovePlace DEF Goes
<1>8. CASE WriteFails(p, r)
  <2>1. /\ status' = status /\ worker' = worker /\ held' = held /\ up' = up
        /\ unmarked \subseteq unmarked' /\ place[p][r] \notin {"none", "computing"}
        /\ \E spot \in Spots : Move(p, r, spot) /\ (spot = "none" => r \in unmarked')
    BY <1>8 DEF WriteFails, TaskOver, table, Spots
  <2>2. worker[p][r] = "none" /\ r \notin held[p]
    BY <1>1, <2>1
  <2> QED BY <1>0, <1>u, <2>1, <2>2, MovePlace DEF Goes
<1> QED BY <1>2, <1>3, <1>4, <1>5, <1>6, <1>7, <1>8 DEF TaskStep

LEMMA GoesKeeps ==
  ASSUME RestTypes, TasksInv, NEW p \in Process, NEW r \in Run, Goes(p, r)
  PROVE  TasksInv'
<1>1. TasksAreClaimed'
  <2> SUFFICES ASSUME NEW q \in Process, NEW s \in Run, place'[q][s] # "none"
               PROVE  q \in up' /\ status'[s] \notin {"none", "queued", "done"}
    BY DEF TasksAreClaimed
  <2>1. CASE s # r
    BY <2>1 DEF TasksInv, TasksAreClaimed, Goes
  <2>2. CASE s = r
    <3>1. q = p
      BY <2>2 DEF TasksInv, ClaimedOnce, Goes
    <3> QED BY <2>2, <3>1 DEF TasksInv, TasksAreClaimed, Goes, Ended
  <2> QED BY <2>1, <2>2
<1>2. NoRunIsForgotten'
  <2> SUFFICES ASSUME NEW s \in Run, status'[s] = "running", s \notin unmarked'
               PROVE  \E q \in up' : place'[q][s] # "none"
    BY DEF NoRunIsForgotten, Runs
  <2>1. status[s] = "running" /\ s \notin unmarked
    BY DEF Goes, Ended
  <2>2. PICK q \in up : place[q][s] # "none"
    BY <2>1 DEF TasksInv, NoRunIsForgotten, Runs
  <2>3. up' = up /\ up \subseteq Process
    BY DEF Goes, RestTypes
  <2>4. CASE q = p /\ s = r
    BY <2>2, <2>3, <2>4 DEF Goes
  <2>5. CASE q # p \/ s # r
    BY <2>2, <2>3, <2>5 DEF Goes
  <2> QED BY <2>4, <2>5
<1>3. WorkersAreWatched'
  <2> SUFFICES ASSUME NEW q \in Process, NEW s \in Run, worker'[q][s] # "none" \/ s \in held'[q]
               PROVE  place'[q][s] = "computing"
    BY DEF WorkersAreWatched
  <2>1. CASE q = p /\ s = r
    BY <2>1 DEF Goes
  <2>2. CASE q # p \/ s # r
    BY <2>2 DEF Goes, TasksInv, WorkersAreWatched
  <2> QED BY <2>1, <2>2
<1>4. \A q \in Process, s \in Run : place'[q][s] # "none" => place[q][s] # "none"
  BY DEF Goes
<1>5. ASSUME NEW q \in Process
      PROVE  Cardinality(Running(q)') <= Concurrency
  <2>1. Running(q)' \in SUBSET Running(q) /\ Running(q) \in SUBSET Run
    BY <1>4 DEF Running
  <2>2. /\ Cardinality(Running(q)') <= Cardinality(Running(q))
        /\ Cardinality(Running(q)') \in Nat /\ Cardinality(Running(q)) \in Nat
    BY <2>1, RunsFinite, FS_Subset
  <2>3. Cardinality(Running(q)) <= Concurrency
    BY DEF TasksInv, ClaimedOnce
  <2> QED BY <2>2, <2>3, ConstantsAssumption
<1>6. ClaimedOnce'
  BY <1>4, <1>5 DEF TasksInv, ClaimedOnce
<1>7. ComputedOnce'
  <2> SUFFICES ASSUME NEW q \in Process, NEW s \in Run, <<q, s>> \in unwatched
               PROVE  /\ status'[s] \notin {"none", "queued", "done"}
                      /\ \A o \in Process : place'[o][s] = "none" /\ (<<o, s>> \in unwatched => o = q)
    BY DEF ComputedOnce, Goes
  <2>1. /\ status[s] \notin {"none", "queued", "done"}
        /\ \A o \in Process : place[o][s] = "none" /\ (<<o, s>> \in unwatched => o = q)
    BY DEF TasksInv, ComputedOnce
  <2>2. s # r
    BY <2>1 DEF Goes
  <2> QED BY <1>4, <2>1, <2>2 DEF Goes
<1> QED BY <1>1, <1>2, <1>3, <1>6, <1>7 DEF TasksInv

LEMMA ClaimKeeps ==
  ASSUME RowsInv, RestTypes, TasksInv, NEW p \in Process, NEW r \in Run, Claim(p, r)
  PROVE  TasksInv'
<1>0. /\ place \in [Process -> [Run -> Spots]] /\ status \in [Run -> Status] /\ up \subseteq Process
  BY DEF RestTypes, TaskTypes, RowsInv
<1>1. /\ p \in up /\ status[r] = "queued" /\ Cardinality(Running(p)) < Concurrency
      /\ status' = [status EXCEPT ![r] = "running"]
      /\ Move(p, r, "claimed")
      /\ up' = up /\ worker' = worker /\ held' = held /\ unmarked' = unmarked
      /\ unwatched' = unwatched
  BY DEF Claim, Oldest, Move
<1>2. /\ place'[p][r] = "claimed"
      /\ \A q \in Process, s \in Run : q # p \/ s # r => place'[q][s] = place[q][s]
  BY <1>0, <1>1, MovePlace
<1>3. \A q \in Process : place[q][r] = "none"
  BY <1>1 DEF TasksInv, TasksAreClaimed
<1>4. status'[r] = "running" /\ \A s \in Run : s # r => status'[s] = status[s]
  BY <1>0, <1>1
<1>5. TasksAreClaimed'
  BY <1>1, <1>2, <1>4 DEF TasksInv, TasksAreClaimed
<1>6. NoRunIsForgotten'
  <2> SUFFICES ASSUME NEW s \in Run, status'[s] = "running", s \notin unmarked'
               PROVE  \E q \in up' : place'[q][s] # "none"
    BY DEF NoRunIsForgotten, Runs
  <2>1. CASE s = r
    BY <1>1, <1>2, <2>1
  <2>2. CASE s # r
    <3>1. status[s] = "running" /\ s \notin unmarked
      BY <1>1, <1>4, <2>2
    <3>2. PICK q \in up : place[q][s] # "none"
      BY <3>1 DEF TasksInv, NoRunIsForgotten, Runs
    <3> QED BY <1>0, <1>1, <1>2, <2>2, <3>2
  <2> QED BY <2>1, <2>2
<1>7. WorkersAreWatched'
  <2> SUFFICES ASSUME NEW q \in Process, NEW s \in Run, worker'[q][s] # "none" \/ s \in held'[q]
               PROVE  place'[q][s] = "computing"
    BY DEF WorkersAreWatched
  <2>1. place[q][s] = "computing"
    BY <1>1 DEF TasksInv, WorkersAreWatched
  <2> QED BY <1>2, <1>3, <2>1
<1>8. \A q, o \in Process, s \in Run : place'[q][s] # "none" /\ place'[o][s] # "none" => q = o
  <2> SUFFICES ASSUME NEW q \in Process, NEW o \in Process, NEW s \in Run,
                      place'[q][s] # "none", place'[o][s] # "none"
               PROVE  q = o
    OBVIOUS
  <2>1. CASE s = r
    BY <1>2, <1>3, <2>1
  <2>2. CASE s # r
    <3>1. place[q][s] # "none" /\ place[o][s] # "none"
      BY <1>2, <2>2
    <3> QED BY <3>1 DEF TasksInv, ClaimedOnce
  <2> QED BY <2>1, <2>2
<1>9. ASSUME NEW q \in Process
      PROVE  Cardinality(Running(q)') <= Concurrency
  <2>1. Running(q) \in SUBSET Run
    BY DEF Running
  <2>2. IsFiniteSet(Running(q)) /\ Cardinality(Running(q)) \in Nat
    BY <2>1, RunsFinite
  <2>3. CASE q = p
    <3>1. Running(q)' = Running(q) \cup {r} /\ r \notin Running(q)
      BY <1>2, <1>3, <2>3 DEF Running
    <3>2. Cardinality(Running(q)') = Cardinality(Running(q)) + 1
      BY <2>2, <3>1, FS_AddElement
    <3> QED BY <1>1, <2>2, <2>3, <3>2, ConstantsAssumption
  <2>4. CASE q # p
    <3>1. Running(q)' = Running(q)
      BY <1>2, <2>4 DEF Running
    <3> QED BY <3>1 DEF TasksInv, ClaimedOnce
  <2> QED BY <2>3, <2>4
<1>10. ClaimedOnce'
  BY <1>8, <1>9 DEF ClaimedOnce
<1>11. ComputedOnce'
  <2>1. \A q \in Process : <<q, r>> \notin unwatched
    BY <1>1 DEF TasksInv, ComputedOnce
  <2> QED BY <1>1, <1>2, <1>4, <2>1 DEF TasksInv, ComputedOnce
<1> QED BY <1>5, <1>6, <1>7, <1>10, <1>11 DEF TasksInv

LEMMA StopKeeps ==
  ASSUME RowsInv, RestTypes, TasksInv, NEW p \in Process, Stop(p)
  PROVE  TasksInv'
<1>0. /\ place \in [Process -> [Run -> Spots]] /\ worker \in [Process -> [Run -> WorkerSays]]
      /\ held \in [Process -> SUBSET Run] /\ up \subseteq Process
  BY DEF RestTypes, TaskTypes
<1>1. /\ up' = up \ {p} /\ status' = status
      /\ unmarked' = unmarked \cup {r \in Running(p) : status[r] = "running"}
      /\ place' = [place EXCEPT ![p] = [r \in Run |-> "none"]]
      /\ worker' = [worker EXCEPT ![p] = [r \in Run |-> "none"]]
      /\ held' = [held EXCEPT ![p] = {}]
  BY DEF Stop, table
<1>2. /\ \A r \in Run : place'[p][r] = "none" /\ worker'[p][r] = "none" /\ r \notin held'[p]
      /\ \A q \in Process : q # p => place'[q] = place[q] /\ worker'[q] = worker[q] /\ held'[q] = held[q]
  BY <1>0, <1>1
<1>3. TasksAreClaimed' /\ WorkersAreWatched'
  BY <1>1, <1>2 DEF TasksInv, TasksAreClaimed, WorkersAreWatched
<1>4. NoRunIsForgotten'
  <2> SUFFICES ASSUME NEW s \in Run, status'[s] = "running", s \notin unmarked'
               PROVE  \E q \in up' : place'[q][s] # "none"
    BY DEF NoRunIsForgotten, Runs
  <2>1. status[s] = "running" /\ s \notin unmarked /\ s \notin Running(p)
    BY <1>1
  <2>2. PICK q \in up : place[q][s] # "none"
    BY <2>1 DEF TasksInv, NoRunIsForgotten, Runs
  <2>3. q # p
    BY <2>1, <2>2 DEF Running
  <2> QED BY <1>0, <1>1, <1>2, <2>2, <2>3
<1>5. ASSUME NEW q \in Process
      PROVE  Cardinality(Running(q)') <= Concurrency
  <2>1. CASE q = p
    <3>1. Running(q)' = {}
      BY <1>2, <2>1 DEF Running
    <3> QED BY <3>1, FS_EmptySet, ConstantsAssumption
  <2>2. CASE q # p
    <3>1. Running(q)' = Running(q)
      BY <1>2, <2>2 DEF Running
    <3> QED BY <3>1 DEF TasksInv, ClaimedOnce
  <2> QED BY <2>1, <2>2
<1>6. \A q \in Process, s \in Run : place'[q][s] # "none" => place[q][s] # "none"
  BY <1>2
<1>7. ClaimedOnce'
  BY <1>5, <1>6 DEF TasksInv, ClaimedOnce
<1>8. ComputedOnce'
  <2>1. PICK left \in SUBSET {r \in Run : place[p][r] \in {"starting", "computing"}} :
          unwatched' = unwatched \cup ({p} \X left)
    BY DEF Stop
  <2> SUFFICES ASSUME NEW q \in Process, NEW s \in Run, <<q, s>> \in unwatched'
               PROVE  /\ status'[s] \notin {"none", "queued", "done"}
                      /\ \A o \in Process : place'[o][s] = "none" /\ (<<o, s>> \in unwatched' => o = q)
    BY DEF ComputedOnce
  <2>2. CASE <<q, s>> \in unwatched
    <3>1. /\ status[s] \notin {"none", "queued", "done"}
          /\ \A o \in Process : place[o][s] = "none" /\ (<<o, s>> \in unwatched => o = q)
      BY <2>2 DEF TasksInv, ComputedOnce
    <3>2. s \notin left
      BY <3>1
    <3> QED BY <1>1, <1>6, <2>1, <3>1, <3>2
  <2>3. CASE q = p /\ s \in left
    <3>1. place[p][s] # "none"
      BY <2>3
    <3>2. \A o \in Process : <<o, s>> \notin unwatched
      BY <3>1 DEF TasksInv, ComputedOnce
    <3>3. \A o \in Process : place'[o][s] = "none"
      BY <1>2, <3>1 DEF TasksInv, ClaimedOnce
    <3>4. status[s] \notin {"none", "queued", "done"}
      BY <3>1 DEF TasksInv, TasksAreClaimed
    <3> QED BY <1>1, <2>1, <2>3, <3>2, <3>3, <3>4
  <2> QED BY <2>1, <2>2, <2>3
<1> QED BY <1>3, <1>4, <1>7, <1>8 DEF TasksInv

(* What the operator, the agent and a start do: the tasks stay where they  *)
(* are, and no row becomes queued or running but one that had no task.     *)
LEMMA OthersKeep ==
  ASSUME RowsInv, RestTypes, TasksInv,
         \/ \E p \in Process : Start(p) \/ \E r \in Run : UnwatchedEnds(p, r)
         \/ OperatorAsks \/ \E r \in Run : Cancel(r)
         \/ \E S \in SUBSET Run : Delete(S)
         \/ \E c \in Call, p \in Process : AgentAsks(c, p)
         \/ \E c \in Call : AgentEnqueues(c) \/ AgentStopsWaiting(c) \/ AgentReads(c)
         \/ UNCHANGED vars
  PROVE  TasksInv'
<1>0. status \in [Run -> Status] /\ up \subseteq Process
  BY DEF RowsInv, RestTypes
<1>1. /\ place' = place /\ worker' = worker /\ held' = held /\ up \subseteq up'
      /\ unwatched' \subseteq unwatched
  BY DEF Start, UnwatchedEnds, OperatorAsks, Cancel, Delete, AgentAsks, AgentEnqueues, AgentStopsWaiting,
         AgentReads, vars, queue
<1>2. /\ \A r \in Run : /\ status[r] \notin {"none", "queued", "done"} =>
                             status'[r] \notin {"none", "queued", "done"}
                        /\ status'[r] = "running" => status[r] = "running"
      /\ unmarked' = unmarked \/ \A r \in Run : status'[r] # "running"
  <2>1. CASE \E p \in Process : Start(p)
    BY <1>0, <2>1 DEF Start, InterruptedByRestart
  <2>2. CASE OperatorAsks \/ \E c \in Call : AgentEnqueues(c)
    <3>1. unmarked' = unmarked /\ \E r \in Run : Enqueue(r)
      BY <2>2 DEF OperatorAsks, AgentEnqueues
    <3>2. PICK r \in Run : status[r] = "none" /\ status' = [status EXCEPT ![r] = "queued"]
      BY <3>1, NextIsNew
    <3> QED BY <1>0, <3>1, <3>2
  <2>3. CASE \E r \in Run : Cancel(r)
    BY <1>0, <2>3 DEF Cancel, Fail, Open
  <2>4. CASE \E S \in SUBSET Run : Delete(S)
    BY <1>0, <2>4 DEF Delete
  <2>5. CASE \/ \E c \in Call, p \in Process : AgentAsks(c, p)
             \/ \E c \in Call : AgentStopsWaiting(c) \/ AgentReads(c)
             \/ \E p \in Process, r \in Run : UnwatchedEnds(p, r)
             \/ UNCHANGED vars
    <3>1. status' = status /\ unmarked' = unmarked
      BY <2>5 DEF AgentAsks, AgentStopsWaiting, AgentReads, UnwatchedEnds, vars, table
    <3> QED BY <3>1
  <2> QED BY <2>1, <2>2, <2>3, <2>4, <2>5
<1>3. TasksAreClaimed'
  BY <1>1, <1>2 DEF TasksInv, TasksAreClaimed
<1>4. NoRunIsForgotten'
  BY <1>1, <1>2 DEF TasksInv, NoRunIsForgotten, Runs
<1>5. ClaimedOnce' /\ WorkersAreWatched'
  BY <1>1 DEF TasksInv, ClaimedOnce, WorkersAreWatched, Running
<1>6. ComputedOnce'
  BY <1>1, <1>2 DEF TasksInv, ComputedOnce
<1> QED BY <1>3, <1>4, <1>5, <1>6 DEF TasksInv

LEMMA TasksInit == Init => TasksInv
<1> SUFFICES ASSUME Init PROVE TasksInv
  OBVIOUS
<1>1. /\ \A r \in Run : status[r] = "none"
      /\ \A p \in Process, r \in Run :
           place[p][r] = "none" /\ worker[p][r] = "none" /\ r \notin held[p]
  BY DEF Init
<1>2. ASSUME NEW p \in Process PROVE Cardinality(Running(p)) <= Concurrency
  <2>1. Running(p) = {}
    BY <1>1 DEF Running
  <2> QED BY <2>1, FS_EmptySet, ConstantsAssumption
<1>3. TasksAreClaimed
  BY <1>1 DEF TasksAreClaimed
<1>4. WorkersAreWatched
  BY <1>1 DEF WorkersAreWatched
<1>5. NoRunIsForgotten
  <2>1. Runs("running") = {}
    BY <1>1 DEF Runs
  <2> QED BY <2>1 DEF NoRunIsForgotten
<1>6. ClaimedOnce
  BY <1>1, <1>2 DEF ClaimedOnce
<1>7. ComputedOnce
  BY DEF Init, ComputedOnce
<1> QED BY <1>3, <1>4, <1>5, <1>6, <1>7 DEF TasksInv

LEMMA TasksNext == RowsInv /\ RestTypes /\ TasksInv /\ [Next]_vars => TasksInv'
<1> SUFFICES ASSUME RowsInv, RestTypes, TasksInv, [Next]_vars PROVE TasksInv'
  OBVIOUS
<1>1. ASSUME NEW p \in Process, NEW r \in Run,
             \/ ClaimLost(p, r) \/ TaskStep(p, r) \/ StillWantedFails(p, r)
             \/ StartFails(p, r) \/ Work(p, r) \/ TimeLimit(p, r) \/ WriteFails(p, r)
      PROVE  TasksInv'
  BY <1>1, TaskGoes, GoesKeeps
<1> QED BY <1>1, ClaimKeeps, StopKeeps, OthersKeep DEF Next

LEMMA TasksAlways == Spec => []TasksInv
BY RowsAlways, RestAlways, TasksInit, TasksNext, PTL DEF Spec

(* Whatever two processes, their queues and the operator do at once, a run *)
(* is the task of one of them at most, and each keeps to its settings.     *)
THEOREM ARunIsClaimedOnce == Spec => []ClaimedOnce
<1>1. TasksInv => ClaimedOnce
  BY DEF TasksInv
<1> QED BY <1>1, TasksAlways, PTL

(* A row never says "running" of a run that nobody works on, but of those  *)
(* whose claim was lost or whose end could not be written, which the next  *)
(* start marks.                                                            *)
THEOREM EveryRunIsHeld == Spec => []NoRunIsForgotten
<1>1. TasksInv => NoRunIsForgotten
  BY DEF TasksInv
<1> QED BY <1>1, TasksAlways, PTL

(* A worker left running by a task cut off while it started it, or by a    *)
(* process that died, computes a run nobody else ever computes, and that   *)
(* never is done.                                                          *)
THEOREM NoRunIsComputedTwice == Spec => []ComputedOnce
<1>1. TasksInv => ComputedOnce
  BY DEF TasksInv
<1> QED BY <1>1, TasksAlways, PTL

(* Rows only move on: through the queue to a claim, from there to one end, *)
(* and from an end to deletion, whoever writes, however late.              *)
THEOREM RowsOnlyMoveOn == Spec => RowsMoveOn
<1>1. RowsInv /\ RestTypes /\ TasksInv /\ [Next]_vars =>
        [\A r \in Run : status'[r] # status[r] => <<status[r], status'[r]>> \in RunMoves]_vars
  <2> SUFFICES ASSUME RowsInv, RestTypes, TasksInv, [Next]_vars, NEW s \in Run, status'[s] # status[s]
               PROVE  <<status[s], status'[s]>> \in RunMoves
    OBVIOUS
  <2>0. status \in [Run -> Status]
    BY DEF RowsInv
  <2>1. CASE \/ \E p \in Process : Stop(p)
             \/ \E c \in Call, p \in Process : AgentAsks(c, p)
             \/ \E c \in Call : AgentStopsWaiting(c) \/ AgentReads(c)
             \/ \E p \in Process, r \in Run : UnwatchedEnds(p, r)
             \/ UNCHANGED vars
    <3>1. status' = status
      BY <2>1 DEF Stop, UnwatchedEnds, AgentAsks, AgentStopsWaiting, AgentReads, vars, table
    <3> QED BY <3>1
  <2>2. CASE OperatorAsks \/ \E c \in Call : AgentEnqueues(c)
    <3>1. PICK r \in Run : Enqueue(r)
      BY <2>2 DEF OperatorAsks, AgentEnqueues
    <3>2. status[r] = "none" /\ status' = [status EXCEPT ![r] = "queued"]
      BY <3>1, NextIsNew
    <3> QED BY <2>0, <3>2 DEF RunMoves
  <2>3. ASSUME NEW p \in Process, NEW r \in Run, Claim(p, r)
        PROVE  <<status[s], status'[s]>> \in RunMoves
    <3>1. status[r] = "queued" /\ status' = [status EXCEPT ![r] = "running"]
      BY <2>3 DEF Claim, Oldest
    <3> QED BY <2>0, <3>1 DEF RunMoves
  <2>4. ASSUME NEW p \in Process, NEW r \in Run,
               \/ ClaimLost(p, r) \/ TaskStep(p, r) \/ StillWantedFails(p, r)
               \/ StartFails(p, r) \/ Work(p, r) \/ TimeLimit(p, r) \/ WriteFails(p, r)
        PROVE  <<status[s], status'[s]>> \in RunMoves
    <3>1. Goes(p, r)
      BY <2>4, TaskGoes
    <3>2. status[s] = "running" /\ status'[s] \in Ended
      BY <3>1 DEF Goes
    <3> QED BY <3>2 DEF RunMoves
  <2>5. CASE \E p \in Process : Start(p)
    <3>1. status[s] = "running" /\ status'[s] = "failed"
      BY <2>0, <2>5 DEF Start, InterruptedByRestart
    <3> QED BY <3>1 DEF RunMoves, Ended
  <2>6. CASE \E r \in Run : Cancel(r)
    <3>1. status[s] \in Open /\ status'[s] = "cancelled"
      BY <2>0, <2>6 DEF Cancel, Fail
    <3> QED BY <3>1 DEF RunMoves, Open, Ended
  <2>7. CASE \E S \in SUBSET Run : Delete(S)
    <3>1. status[s] \in Ended /\ status'[s] = "deleted"
      BY <2>0, <2>7 DEF Delete
    <3> QED BY <3>1 DEF RunMoves
  <2> QED BY <2>1, <2>2, <2>3, <2>4, <2>5, <2>6, <2>7 DEF Next
<1> QED BY <1>1, RowsAlways, RestAlways, TasksAlways, PTL DEF Spec, RowsMoveOn
=============================================================================

------------------------ MODULE CollectionJobsProofs ------------------------
(***************************************************************************)
(* Theorems about CollectionJobs, for every set of pairs, workers and      *)
(* requests and for every bound.                                           *)
(***************************************************************************)
EXTENDS CollectionJobs, TLAPS

(***************************************************************************)
(* Types                                                                   *)
(***************************************************************************)

(* A page is made of candles of its chunk's cell.                          *)
LEMMA PageOfChunk ==
  ASSUME NEW c \in Chunk, NEW n \in 1..(PerSlot + 1)
  PROVE  /\ NewestOf(CellOf(c), n) \subseteq NewestOf(CellOf(c), 1)
         /\ NewestOf(CellOf(c), n) \subseteq Market
         /\ \A m \in NewestOf(CellOf(c), n) : m[1] = c.pair /\ <<m[1], m[2]>> = CellOf(c)
<1>1. \A m \in Market : m[3] \in Nat /\ 1 <= m[3]
  BY ConstantsAssumption DEF Candle
<1> QED BY <1>1, ConstantsAssumption DEF NewestOf, CellOf

(* Every step keeps every variable in its type.                            *)
LEMMA TypeStep == TypeOK /\ [Next]_vars => TypeOK'
<1> SUFFICES ASSUME TypeOK, [Next]_vars PROVE TypeOK'
  OBVIOUS
<1> USE ConstantsAssumption DEF TypeOK, Slot, JobId, Cell, Executing, ChunkStates,
      OpenStates, RetryableStates, SettledStates
<1>a. /\ UNCHANGED archive => ArchiveType'
      /\ UNCHANGED queue => QueueType'
      /\ UNCHANGED workers => WorkersType'
      /\ UNCHANGED requests => RequestsType'
  BY DEF archive, queue, workers, requests, ArchiveType, QueueType, WorkersType,
     RequestsType
<1>1. ASSUME NEW w \in Worker, NEW c \in Chunk, ClaimPendingChunk(w, c) PROVE TypeOK'
  <2>1. QueueType' BY <1>1 DEF ClaimPendingChunk, Goto, QueueType
  <2>2. WorkersType' BY <1>1 DEF ClaimPendingChunk, Goto, WorkersType
  <2> QED BY <1>1, <2>1, <2>2, <1>a DEF ClaimPendingChunk
<1>2. ASSUME NEW w \in Worker, NEW e \in BOOLEAN, NEW n \in 1..(PerSlot + 1),
             GatewayAnswers(w, e, n) PROVE TypeOK'
  <2>1. work[w] \in Chunk
    BY <1>2 DEF GatewayAnswers, WorkersType
  <2>2. answer' = [answer EXCEPT ![work[w]] = NewestOf(CellOf(work[w]), n)]
    BY <1>2 DEF GatewayAnswers
  <2>3. /\ answer' \in [Chunk -> SUBSET Market]
        /\ \A c \in Chunk : answer'[c] \subseteq NewestOf(CellOf(c), 1)
    BY <2>1, <2>2, PageOfChunk DEF WorkersType
  <2>4. WorkersType' BY <1>2, <2>3 DEF GatewayAnswers, Goto, WorkersType
  <2> QED BY <1>2, <2>4, <1>a DEF GatewayAnswers
<1>3. ASSUME NEW w \in Worker, GatewayFails(w) PROVE TypeOK'
  <2>1. WorkersType' BY <1>3 DEF GatewayFails, Goto, WorkersType
  <2> QED BY <1>3, <2>1, <1>a DEF GatewayFails
<1>4. ASSUME NEW w \in Worker, FinishChunkFailed(w) PROVE TypeOK'
  <2>1. QueueType' BY <1>4 DEF FinishChunkFailed, Mark, Release, Goto, QueueType
  <2>2. WorkersType' BY <1>4 DEF FinishChunkFailed, Mark, Release, Goto,
       WorkersType
  <2> QED BY <1>4, <2>1, <2>2, <1>a DEF FinishChunkFailed
<1>5. ASSUME NEW w \in Worker, CheckTracked(w) PROVE TypeOK'
  <2>1. WorkersType' BY <1>5 DEF CheckTracked, Goto, WorkersType
  <2> QED BY <1>5, <2>1, <1>a DEF CheckTracked
<1>6. ASSUME NEW w \in Worker, FinishChunkSkipped(w) PROVE TypeOK'
  <2>1. QueueType' BY <1>6 DEF FinishChunkSkipped, Mark, Release, Goto, QueueType
  <2>2. WorkersType' BY <1>6 DEF FinishChunkSkipped, Mark, Release, Goto,
       WorkersType
  <2> QED BY <1>6, <2>1, <2>2, <1>a DEF FinishChunkSkipped
<1>7. ASSUME NEW w \in Worker, WriteCandles(w) PROVE TypeOK'
  <2>1. ArchiveType' BY <1>7 DEF WriteCandles, Goto, ArchiveType, WorkersType
  <2>2. WorkersType' BY <1>7 DEF WriteCandles, Goto, WorkersType
  <2> QED BY <1>7, <2>1, <2>2, <1>a DEF WriteCandles
<1>8. ASSUME NEW w \in Worker, RecordCoverage(w) PROVE TypeOK'
  <2>a. work[w] \in Chunk
    BY <1>8 DEF RecordCoverage, WorkersType
  <2>b. CellOf(work[w]) \in Pair \X (1..Depth) /\ answer[work[w]] \subseteq Market
    BY <2>a DEF CellOf, Chunk, WorkersType
  <2>1. ArchiveType' BY <1>8, <2>b DEF RecordCoverage, ArchiveType
  <2>2. WorkersType' BY <1>8 DEF RecordCoverage, Goto, WorkersType, RangeBounds
  <2> QED BY <1>8, <2>1, <2>2, <1>a DEF RecordCoverage
<1>9. ASSUME NEW w \in Worker, RefreshRollups(w) PROVE TypeOK'
  <2>1. ArchiveType' BY <1>9 DEF RefreshRollups, Goto, ArchiveType, CellOf, Chunk
  <2>2. WorkersType' BY <1>9 DEF RefreshRollups, Goto, WorkersType
  <2> QED BY <1>9, <2>1, <2>2, <1>a DEF RefreshRollups
<1>10. ASSUME NEW w \in Worker, FinishChunkDone(w) PROVE TypeOK'
  <2>1. QueueType' BY <1>10 DEF FinishChunkDone, Mark, Release, Goto, QueueType
  <2>2. WorkersType' BY <1>10, ZenonT(40) DEF FinishChunkDone, Mark, Release, Goto,
       WorkersType
  <2> QED BY <1>10, <2>1, <2>2, <1>a DEF FinishChunkDone
<1>11. ASSUME NEW w \in Worker, SkipChunksBeyondHistory(w) PROVE TypeOK'
  <2>1. QueueType' BY <1>11 DEF SkipChunksBeyondHistory, BeyondHistory, Release,
       Goto, QueueType
  <2>2. WorkersType' BY <1>11 DEF SkipChunksBeyondHistory, BeyondHistory, Release,
       Goto, WorkersType
  <2> QED BY <1>11, <2>1, <2>2, <1>a DEF SkipChunksBeyondHistory
<1>12. ASSUME NEW w \in Worker, StatementFails(w) PROVE TypeOK'
  <2>1. WorkersType' BY <1>12 DEF StatementFails, Goto, WorkersType
  <2> QED BY <1>12, <2>1, <1>a DEF StatementFails
<1>13. ASSUME NEW w \in Worker, FailOrphan(w) PROVE TypeOK'
  <2>1. QueueType' BY <1>13 DEF FailOrphan, Mark, Release, Goto, QueueType
  <2>2. WorkersType' BY <1>13 DEF FailOrphan, Mark, Release, Goto, WorkersType
  <2> QED BY <1>13, <2>1, <2>2, <1>a DEF FailOrphan
<1>14. ASSUME NEW w \in Worker, FailOrphanFails(w) PROVE TypeOK'
  <2>1. WorkersType' BY <1>14 DEF FailOrphanFails, Release, Goto, WorkersType
  <2> QED BY <1>14, <2>1, <1>a DEF FailOrphanFails
<1>15. ASSUME NEW r \in Request, NEW P \in SUBSET Pair, NEW f \in Slot \cup {0},
             TrackPairs(r, P, f) PROVE TypeOK'
  <2>1. RequestsType' BY <1>15 DEF TrackPairs, RequestsType
  <2> QED BY <1>15, <2>1, <1>a DEF TrackPairs
<1>16. ASSUME NEW r \in Request, NEW p \in Pair, AddPair(r, p) PROVE TypeOK'
  <2>1. ArchiveType' BY <1>16 DEF AddPair, ArchiveType, RequestsType
  <2>2. RequestsType' BY <1>16 DEF AddPair, RequestsType, ArchiveType
  <2> QED BY <1>16, <2>1, <2>2, <1>a DEF AddPair
<1>17. ASSUME NEW r \in Request, NEW p \in Pair, RefusePair(r, p) PROVE TypeOK'
  <2>1. RequestsType' BY <1>17 DEF RefusePair, RequestsType
  <2> QED BY <1>17, <2>1, <1>a DEF RefusePair
<1>18. ASSUME NEW r \in Request, SyncIngest(r) PROVE TypeOK'
  <2>1. AcceptedPairs(r) \subseteq Pair
    BY DEF AcceptedPairs
  <2>2. RequestsType'
    <3>1. CASE AcceptedPairs(r) = {}
      <4>1. Reply(r) BY <1>18, <3>1 DEF SyncIngest
      <4> QED BY <4>1 DEF Reply, RequestsType
    <3>2. CASE AcceptedPairs(r) # {}
      BY <1>18, <3>2, <2>1 DEF SyncIngest, RequestsType
    <3> QED BY <3>1, <3>2
  <2> QED BY <1>18, <2>2, <1>a DEF SyncIngest
<1>19. ASSUME NEW r \in Request, NEW p \in Pair, PlanPair(r, p) PROVE TypeOK'
  <2>1. ArchiveType' BY <1>19 DEF PlanPair, ArchiveType
  <2>2. UncoveredWithin(p, accepted[r][p]) \subseteq Cell
    <3> SUFFICES ASSUME NEW cell \in UncoveredWithin(p, accepted[r][p]) PROVE cell \in Cell
      OBVIOUS
    <3>1. PICK t \in Slot : cell = <<p, t>> BY DEF UncoveredWithin
    <3> QED BY <3>1
  <2>3. RequestsType' BY <1>19, <2>2 DEF PlanPair, RequestsType
  <2> QED BY <1>19, <2>1, <2>3, <1>a DEF PlanPair
<1>20. ASSUME NEW r \in Request, CreateJob(r) PROVE TypeOK'
  <2>1. QueueType' BY <1>20 DEF CreateJob, Reply, QueueType
  <2>2. RequestsType' BY <1>20 DEF CreateJob, Reply, RequestsType
  <2> QED BY <1>20, <2>1, <2>2, <1>a DEF CreateJob
<1>21. ASSUME NEW r \in Request, NEW p \in Pair, CloseForDeletion(r, p) PROVE TypeOK'
  <2>1. ArchiveType' BY <1>21 DEF CloseForDeletion, ArchiveType
  <2>2. QueueType' BY <1>21 DEF CloseForDeletion, QueueType
  <2>3. RequestsType' BY <1>21 DEF CloseForDeletion, RequestsType
  <2> QED BY <1>21, <2>1, <2>2, <2>3, <1>a DEF CloseForDeletion
<1>22. ASSUME NEW r \in Request, NEW p \in Pair, DeletePairData(r, p) PROVE TypeOK'
  <2>1. ArchiveType' BY <1>22 DEF DeletePairData, Reply, ArchiveType
  <2>2. RequestsType' BY <1>22 DEF DeletePairData, Reply, RequestsType
  <2> QED BY <1>22, <2>1, <2>2, <1>a DEF DeletePairData
<1>23. ASSUME NEW r \in Request, NEW j \in JobId, RetryJob(r, j) PROVE TypeOK'
  <2>1. RequestsType' BY <1>23 DEF RetryJob, RequestsType
  <2> QED BY <1>23, <2>1, <1>a DEF RetryJob
<1>24. ASSUME NEW r \in Request, ResetRetryableChunks(r) PROVE TypeOK'
  <2>1. target[r] \in JobId /\ attempt[target[r]] + 1 \in 0..MaxAttempt
    <3>1. target[r] \in jobs /\ attempt[target[r]] < MaxAttempt
      BY <1>24 DEF ResetRetryableChunks
    <3>2. target[r] \in JobId
      BY <3>1 DEF QueueType
    <3>3. attempt[target[r]] \in 0..MaxAttempt
      BY <3>2 DEF QueueType
    <3> QED BY <3>1, <3>2, <3>3
  <2>2. attempt' \in [JobId -> 0..MaxAttempt]
    BY <1>24, <2>1 DEF ResetRetryableChunks, QueueType
  <2>3. state' \in [Chunk -> ChunkStates \cup {"absent"}]
    BY <1>24 DEF ResetRetryableChunks, QueueType
  <2>4. QueueType' BY <1>24, <2>2, <2>3 DEF ResetRetryableChunks, QueueType
  <2>5. RequestsType' BY <1>24 DEF ResetRetryableChunks, RequestsType
  <2> QED BY <1>24, <2>4, <2>5, <1>a DEF ResetRetryableChunks
<1>25. ASSUME NEW r \in Request, RetryFindsNoJob(r) PROVE TypeOK'
  <2>1. RequestsType' BY <1>25 DEF RetryFindsNoJob, Reply, RequestsType
  <2> QED BY <1>25, <2>1, <1>a DEF RetryFindsNoJob
<1>26. ASSUME NEW r \in Request, RereadJob(r) PROVE TypeOK'
  <2>1. RequestsType' BY <1>26 DEF RereadJob, Reply, RequestsType
  <2> QED BY <1>26, <2>1, <1>a DEF RereadJob
<1>27. ASSUME NEW r \in Request, NEW j \in JobId, DeleteJob(r, j) PROVE TypeOK'
  <2>1. QueueType' BY <1>27 DEF DeleteJob, QueueType
  <2>2. WorkersType' BY <1>27 DEF DeleteJob, WorkersType
  <2> QED BY <1>27, <2>1, <2>2, <1>a DEF DeleteJob
<1>28. ASSUME NEW r \in Request, RequestFails(r) PROVE TypeOK'
  <2>1. RequestsType' BY <1>28 DEF RequestFails, Reply, RequestsType
  <2> QED BY <1>28, <2>1, <1>a DEF RequestFails
<1>29. ASSUME Stop PROVE TypeOK'
  <2>1. WorkersType' BY <1>29 DEF Stop, WorkersType
  <2>2. RequestsType' BY <1>29 DEF Stop, RequestsType
  <2>3. /\ UNCHANGED archive /\ UNCHANGED queue
        /\ up' = FALSE /\ faults < MaxFault /\ faults' = faults + 1
    BY <1>29, Zenon DEF Stop
  <2>4. faults' \in 0..MaxFault /\ up' \in BOOLEAN
    <3>1. up' \in BOOLEAN
      BY <2>3, Zenon
    <3>2. faults < MaxFault /\ faults' = faults + 1
      BY <2>3, Zenon
    <3> QED BY <3>1, <3>2
  <2> QED BY <2>1, <2>2, <2>3, <2>4, <1>a
<1>30. ASSUME InterruptOrphanedChunks PROVE TypeOK'
  <2>1. QueueType' BY <1>30 DEF InterruptOrphanedChunks, QueueType
  <2> QED BY <1>30, <2>1, <1>a DEF InterruptOrphanedChunks
<1>31. ASSUME UNCHANGED vars PROVE TypeOK'
  BY <1>31, <1>a DEF vars
<1> QED
  BY <1>1, <1>2, <1>3, <1>4, <1>5, <1>6, <1>7, <1>8, <1>9, <1>10, <1>11,
     <1>12, <1>13, <1>14, <1>15, <1>16, <1>17, <1>18, <1>19, <1>20, <1>21,
     <1>22, <1>23, <1>24, <1>25, <1>26, <1>27, <1>28, <1>29, <1>30, <1>31
     DEF Next, WorkerStep, WorkerFault, RequestStep

(* Type correctness of the archive, its jobs, workers and requests.        *)
THEOREM TypeCorrect == Spec => []TypeOK
<1>1. Init => TypeOK
  BY ConstantsAssumption DEF Init, TypeOK, ArchiveType, QueueType, WorkersType,
     RequestsType,
        Slot, JobId, Executing, ChunkStates
<1> QED
  BY <1>1, TypeStep, PTL DEF Spec

(***************************************************************************)
(* Claims                                                                  *)
(***************************************************************************)

(* A worker holds a chunk exactly while it is not idle.                    *)
LEMMA HeldChunk ==
  ASSUME TypeOK, NEW w \in Worker
  PROVE  IF wpc[w] = "idle" THEN work[w] = NoChunk ELSE work[w] \in Chunk
BY DEF TypeOK, WorkersType

(* A chunk in a worker's hands is running, or has left the open states     *)
(* as done or with its job.                                                *)
LEMMA HeldState ==
  ASSUME TypeOK, HeldInv, NEW w \in Worker, wpc[w] # "idle"
  PROVE  state[work[w]] \in {"running", "done", "absent"}
<1>1. wpc[w] \in Executing \cup {"sweep", "orphan"}
  BY DEF TypeOK, WorkersType
<1> QED BY <1>1 DEF HeldInv, PlaceTellsState

(* What a step of worker w leaves alone: the other workers and the states  *)
(* of their chunks.                                                        *)
OthersStay(w) ==
  \A v \in Worker \ {w} :
    /\ wpc'[v] = wpc[v] /\ work'[v] = work[v]
    /\ wpc[v] # "idle" => state'[work[v]] = state[work[v]]
    /\ work'[w] = work'[v] => work'[w] = NoChunk

(* Nobody holds a pending chunk.                                           *)
LEMMA PendingIsFree ==
  ASSUME TypeOK, HeldInv, NEW c \in Chunk, state[c] = "pending", NEW v \in Worker
  PROVE  work[v] # c
<1>1. CASE wpc[v] = "idle"
  BY <1>1, HeldChunk, ConstantsAssumption
<1>2. CASE wpc[v] # "idle"
  BY <1>2, HeldState
<1> QED BY <1>1, <1>2

(* A step of one worker that leaves the chunks of the others as they are   *)
(* keeps the claims apart.                                                 *)
LEMMA WorkerMoves ==
  ASSUME TypeOK, HeldInv, NEW w \in Worker, OthersStay(w), PlaceTellsState(w)'
  PROVE  ClaimsDiffer' /\ \A v \in Worker : PlaceTellsState(v)'
<1>1. ASSUME NEW v \in Worker PROVE PlaceTellsState(v)'
  BY DEF OthersStay, HeldInv, PlaceTellsState, Executing
<1>2. ASSUME NEW u \in Worker, NEW v \in Worker, work'[u] = work'[v], u # v
      PROVE  work'[u] = NoChunk
  BY <1>2 DEF OthersStay, HeldInv, ClaimsDiffer
<1> QED BY <1>1, <1>2 DEF ClaimsDiffer

(* A write to the queue that no worker takes part in keeps the claims if   *)
(* it leaves their chunks alone, or removes one already worked.            *)
LEMMA QueueMoves ==
  ASSUME TypeOK, HeldInv, UNCHANGED <<wpc, work>>,
         \A v \in Worker : wpc[v] # "idle" =>
           \/ state'[work[v]] = state[work[v]]
           \/ wpc[v] \notin Executing /\ state'[work[v]] = "absent"
  PROVE  ClaimsDiffer' /\ \A v \in Worker : PlaceTellsState(v)'
<1>1. ASSUME NEW v \in Worker PROVE PlaceTellsState(v)'
  BY DEF HeldInv, PlaceTellsState, Executing
<1> QED BY <1>1 DEF HeldInv, ClaimsDiffer

(* Every step keeps the claims: where a worker is tells the state of its   *)
(* chunk, no two workers hold the same one, and every chunk has its job.   *)
LEMMA HeldStep == TypeOK /\ HeldInv /\ [Next]_vars => HeldInv'
<1> SUFFICES ASSUME TypeOK, HeldInv, [Next]_vars PROVE HeldInv'
  OBVIOUS
<1>a. UNCHANGED <<wpc, work, state, jobs, lastJob, up>> => HeldInv'
  BY DEF HeldInv, PlaceTellsState, ClaimsDiffer, ChunksHaveJobs
<1>b. /\ wpc \in [Worker -> Executing \cup {"idle", "sweep", "orphan"}]
      /\ work \in [Worker -> Chunk \cup {NoChunk}]
      /\ state \in [Chunk -> ChunkStates \cup {"absent"}]
      /\ \A w \in Worker : wpc[w] # "idle" => work[w] \in Chunk
      /\ \A c \in Chunk : c.job \in Nat
      /\ lastJob \in Nat /\ NoChunk \notin Chunk
  BY ConstantsAssumption DEF TypeOK, WorkersType, QueueType, Chunk, JobId
<1>c. \A w, v \in Worker : w # v /\ wpc[w] # "idle" => work[v] # work[w]
  BY HeldChunk, <1>b DEF HeldInv, ClaimsDiffer
<1>d. /\ \A w \in Worker : PlaceTellsState(w)
      /\ ClaimsDiffer /\ ChunksHaveJobs
      /\ ~up => \A w \in Worker : wpc[w] = "idle"
  BY DEF HeldInv
<1>1. ASSUME NEW w \in Worker, NEW c \in Chunk, ClaimPendingChunk(w, c) PROVE HeldInv'
  <2>1. PlaceTellsState(w)'
    BY <1>1, <1>b, <1>d DEF ClaimPendingChunk, Goto, Oldest, PlaceTellsState, Executing
  <2>2. OthersStay(w)
    <3>1. state[c] = "pending"
      BY <1>1 DEF ClaimPendingChunk, Oldest
    <3>2. \A v \in Worker : work[v] # c
      BY <3>1, PendingIsFree
    <3> QED BY <1>1, <1>b, <3>2 DEF ClaimPendingChunk, Goto, OthersStay
  <2>3. ClaimsDiffer' /\ \A v \in Worker : PlaceTellsState(v)'
    BY <2>1, <2>2, WorkerMoves
  <2>4. ChunksHaveJobs' /\ (~up' => \A v \in Worker : wpc'[v] = "idle")
    BY <1>1, <1>b, <1>d DEF ClaimPendingChunk, Goto, Oldest, ChunksHaveJobs, Executing
  <2> QED BY <2>3, <2>4 DEF HeldInv
<1>2. ASSUME NEW w \in Worker, NEW e \in BOOLEAN, NEW n \in 1..(PerSlot + 1),
             GatewayAnswers(w, e, n) PROVE HeldInv'
  <2>1. PlaceTellsState(w)'
    BY <1>2, <1>b, <1>d DEF GatewayAnswers, Goto, queue, PlaceTellsState, Executing
  <2>2. OthersStay(w)
    BY <1>2, <1>b, <1>c DEF GatewayAnswers, Goto, queue, OthersStay, Executing
  <2>3. ClaimsDiffer' /\ \A v \in Worker : PlaceTellsState(v)'
    BY <2>1, <2>2, WorkerMoves
  <2>4. ChunksHaveJobs' /\ (~up' => \A v \in Worker : wpc'[v] = "idle")
    BY <1>2, <1>b, <1>d DEF GatewayAnswers, Goto, queue, ChunksHaveJobs, Executing
  <2> QED BY <2>3, <2>4 DEF HeldInv
<1>3. ASSUME NEW w \in Worker, GatewayFails(w) PROVE HeldInv'
  <2>1. PlaceTellsState(w)'
    BY <1>3, <1>b, <1>d DEF GatewayFails, Goto, queue, PlaceTellsState, Executing
  <2>2. OthersStay(w)
    BY <1>3, <1>b, <1>c DEF GatewayFails, Goto, queue, OthersStay, Executing
  <2>3. ClaimsDiffer' /\ \A v \in Worker : PlaceTellsState(v)'
    BY <2>1, <2>2, WorkerMoves
  <2>4. ChunksHaveJobs' /\ (~up' => \A v \in Worker : wpc'[v] = "idle")
    BY <1>3, <1>b, <1>d DEF GatewayFails, Goto, queue, ChunksHaveJobs, Executing
  <2> QED BY <2>3, <2>4 DEF HeldInv
<1>4. ASSUME NEW w \in Worker, FinishChunkFailed(w) PROVE HeldInv'
  <2>1. PlaceTellsState(w)'
    BY <1>4, <1>b, <1>d DEF FinishChunkFailed, Goto, Release, Mark, queue,
       PlaceTellsState, Executing
  <2>2. OthersStay(w)
    BY <1>4, <1>b, <1>c DEF FinishChunkFailed, Goto, Release, Mark, queue, OthersStay,
       Executing
  <2>3. ClaimsDiffer' /\ \A v \in Worker : PlaceTellsState(v)'
    BY <2>1, <2>2, WorkerMoves
  <2>4. ChunksHaveJobs' /\ (~up' => \A v \in Worker : wpc'[v] = "idle")
    BY <1>4, <1>b, <1>d DEF FinishChunkFailed, Goto, Release, Mark, queue, ChunksHaveJobs,
       Executing
  <2> QED BY <2>3, <2>4 DEF HeldInv
<1>5. ASSUME NEW w \in Worker, CheckTracked(w) PROVE HeldInv'
  <2>1. PlaceTellsState(w)'
    BY <1>5, <1>b, <1>d DEF CheckTracked, Goto, queue, PlaceTellsState, Executing
  <2>2. OthersStay(w)
    BY <1>5, <1>b, <1>c DEF CheckTracked, Goto, queue, OthersStay, Executing
  <2>3. ClaimsDiffer' /\ \A v \in Worker : PlaceTellsState(v)'
    BY <2>1, <2>2, WorkerMoves
  <2>4. ChunksHaveJobs' /\ (~up' => \A v \in Worker : wpc'[v] = "idle")
    BY <1>5, <1>b, <1>d DEF CheckTracked, Goto, queue, ChunksHaveJobs, Executing
  <2> QED BY <2>3, <2>4 DEF HeldInv
<1>6. ASSUME NEW w \in Worker, FinishChunkSkipped(w) PROVE HeldInv'
  <2>1. PlaceTellsState(w)'
    BY <1>6, <1>b, <1>d DEF FinishChunkSkipped, Goto, Release, Mark, queue,
       PlaceTellsState, Executing
  <2>2. OthersStay(w)
    BY <1>6, <1>b, <1>c DEF FinishChunkSkipped, Goto, Release, Mark, queue, OthersStay,
       Executing
  <2>3. ClaimsDiffer' /\ \A v \in Worker : PlaceTellsState(v)'
    BY <2>1, <2>2, WorkerMoves
  <2>4. ChunksHaveJobs' /\ (~up' => \A v \in Worker : wpc'[v] = "idle")
    BY <1>6, <1>b, <1>d DEF FinishChunkSkipped, Goto, Release, Mark, queue,
       ChunksHaveJobs, Executing
  <2> QED BY <2>3, <2>4 DEF HeldInv
<1>7. ASSUME NEW w \in Worker, WriteCandles(w) PROVE HeldInv'
  <2>1. PlaceTellsState(w)'
    BY <1>7, <1>b, <1>d DEF WriteCandles, Goto, queue, PlaceTellsState, Executing
  <2>2. OthersStay(w)
    BY <1>7, <1>b, <1>c DEF WriteCandles, Goto, queue, OthersStay, Executing
  <2>3. ClaimsDiffer' /\ \A v \in Worker : PlaceTellsState(v)'
    BY <2>1, <2>2, WorkerMoves
  <2>4. ChunksHaveJobs' /\ (~up' => \A v \in Worker : wpc'[v] = "idle")
    BY <1>7, <1>b, <1>d DEF WriteCandles, Goto, queue, ChunksHaveJobs, Executing
  <2> QED BY <2>3, <2>4 DEF HeldInv
<1>8. ASSUME NEW w \in Worker, RecordCoverage(w) PROVE HeldInv'
  <2>1. PlaceTellsState(w)'
    BY <1>8, <1>b, <1>d DEF RecordCoverage, Goto, queue, PlaceTellsState, Executing
  <2>2. OthersStay(w)
    BY <1>8, <1>b, <1>c DEF RecordCoverage, Goto, queue, OthersStay, Executing
  <2>3. ClaimsDiffer' /\ \A v \in Worker : PlaceTellsState(v)'
    BY <2>1, <2>2, WorkerMoves
  <2>4. ChunksHaveJobs' /\ (~up' => \A v \in Worker : wpc'[v] = "idle")
    BY <1>8, <1>b, <1>d DEF RecordCoverage, Goto, queue, ChunksHaveJobs, Executing
  <2> QED BY <2>3, <2>4 DEF HeldInv
<1>9. ASSUME NEW w \in Worker, RefreshRollups(w) PROVE HeldInv'
  <2>1. PlaceTellsState(w)'
    BY <1>9, <1>b, <1>d DEF RefreshRollups, Goto, queue, PlaceTellsState, Executing
  <2>2. OthersStay(w)
    BY <1>9, <1>b, <1>c DEF RefreshRollups, Goto, queue, OthersStay, Executing
  <2>3. ClaimsDiffer' /\ \A v \in Worker : PlaceTellsState(v)'
    BY <2>1, <2>2, WorkerMoves
  <2>4. ChunksHaveJobs' /\ (~up' => \A v \in Worker : wpc'[v] = "idle")
    BY <1>9, <1>b, <1>d DEF RefreshRollups, Goto, queue, ChunksHaveJobs, Executing
  <2> QED BY <2>3, <2>4 DEF HeldInv
<1>10. ASSUME NEW w \in Worker, FinishChunkDone(w) PROVE HeldInv'
  <2>1. PlaceTellsState(w)'
    BY <1>10, <1>b, <1>d DEF FinishChunkDone, Goto, Release, Mark, PlaceTellsState,
       Executing
  <2>2. OthersStay(w)
    BY <1>10, <1>b, <1>c DEF FinishChunkDone, Goto, Release, Mark, OthersStay, Executing
  <2>3. ClaimsDiffer' /\ \A v \in Worker : PlaceTellsState(v)'
    BY <2>1, <2>2, WorkerMoves
  <2>4. ChunksHaveJobs' /\ (~up' => \A v \in Worker : wpc'[v] = "idle")
    BY <1>10, <1>b, <1>d DEF FinishChunkDone, Goto, Release, Mark, ChunksHaveJobs, Executing
  <2> QED BY <2>3, <2>4 DEF HeldInv
<1>11. ASSUME NEW w \in Worker, SkipChunksBeyondHistory(w) PROVE HeldInv'
  <2>1. PlaceTellsState(w)'
    BY <1>11, <1>b, <1>d DEF SkipChunksBeyondHistory, Goto, Release, BeyondHistory,
       PlaceTellsState, Executing
  <2>2. OthersStay(w)
    BY <1>11, <1>b, <1>c, HeldState DEF SkipChunksBeyondHistory, Goto, Release,
       BeyondHistory, OthersStay, Executing
  <2>3. ClaimsDiffer' /\ \A v \in Worker : PlaceTellsState(v)'
    BY <2>1, <2>2, WorkerMoves
  <2>4. ChunksHaveJobs' /\ (~up' => \A v \in Worker : wpc'[v] = "idle")
    BY <1>11, <1>b, <1>d DEF SkipChunksBeyondHistory, Goto, Release, BeyondHistory,
       ChunksHaveJobs, Executing
  <2> QED BY <2>3, <2>4 DEF HeldInv
<1>12. ASSUME NEW w \in Worker, StatementFails(w) PROVE HeldInv'
  <2>1. PlaceTellsState(w)'
    BY <1>12, <1>b, <1>d DEF StatementFails, Goto, queue, PlaceTellsState, Executing
  <2>2. OthersStay(w)
    BY <1>12, <1>b, <1>c DEF StatementFails, Goto, queue, OthersStay, Executing
  <2>3. ClaimsDiffer' /\ \A v \in Worker : PlaceTellsState(v)'
    BY <2>1, <2>2, WorkerMoves
  <2>4. ChunksHaveJobs' /\ (~up' => \A v \in Worker : wpc'[v] = "idle")
    BY <1>12, <1>b, <1>d DEF StatementFails, Goto, queue, ChunksHaveJobs, Executing
  <2> QED BY <2>3, <2>4 DEF HeldInv
<1>13. ASSUME NEW w \in Worker, FailOrphan(w) PROVE HeldInv'
  <2>1. PlaceTellsState(w)'
    BY <1>13, <1>b, <1>d DEF FailOrphan, Goto, Release, Mark, queue, PlaceTellsState,
       Executing
  <2>2. OthersStay(w)
    BY <1>13, <1>b, <1>c DEF FailOrphan, Goto, Release, Mark, queue, OthersStay, Executing
  <2>3. ClaimsDiffer' /\ \A v \in Worker : PlaceTellsState(v)'
    BY <2>1, <2>2, WorkerMoves
  <2>4. ChunksHaveJobs' /\ (~up' => \A v \in Worker : wpc'[v] = "idle")
    BY <1>13, <1>b, <1>d DEF FailOrphan, Goto, Release, Mark, queue, ChunksHaveJobs,
       Executing
  <2> QED BY <2>3, <2>4 DEF HeldInv
<1>14. ASSUME NEW w \in Worker, FailOrphanFails(w) PROVE HeldInv'
  <2>1. PlaceTellsState(w)'
    BY <1>14, <1>b, <1>d DEF FailOrphanFails, Goto, Release, Mark, queue, PlaceTellsState,
       Executing
  <2>2. OthersStay(w)
    BY <1>14, <1>b, <1>c DEF FailOrphanFails, Goto, Release, Mark, queue, OthersStay,
       Executing
  <2>3. ClaimsDiffer' /\ \A v \in Worker : PlaceTellsState(v)'
    BY <2>1, <2>2, WorkerMoves
  <2>4. ChunksHaveJobs' /\ (~up' => \A v \in Worker : wpc'[v] = "idle")
    BY <1>14, <1>b, <1>d DEF FailOrphanFails, Goto, Release, Mark, queue, ChunksHaveJobs,
       Executing
  <2> QED BY <2>3, <2>4 DEF HeldInv
<1>15. ASSUME NEW r \in Request, NEW P \in SUBSET Pair, NEW f \in Slot \cup {0},
             TrackPairs(r, P, f) PROVE HeldInv'
  BY <1>15, <1>a DEF TrackPairs, queue, workers
<1>16. ASSUME NEW r \in Request, NEW p \in Pair, AddPair(r, p) PROVE HeldInv'
  BY <1>16, <1>a DEF AddPair, queue, workers
<1>17. ASSUME NEW r \in Request, NEW p \in Pair, RefusePair(r, p) PROVE HeldInv'
  BY <1>17, <1>a DEF RefusePair, queue, workers
<1>18. ASSUME NEW r \in Request, SyncIngest(r) PROVE HeldInv'
  BY <1>18, <1>a DEF SyncIngest, queue, workers
<1>19. ASSUME NEW r \in Request, NEW p \in Pair, PlanPair(r, p) PROVE HeldInv'
  BY <1>19, <1>a DEF PlanPair, queue, workers
<1>20. ASSUME NEW r \in Request, CreateJob(r) PROVE HeldInv'
  <2>1. ClaimsDiffer' /\ \A v \in Worker : PlaceTellsState(v)'
    <3> SUFFICES ASSUME NEW v \in Worker, wpc[v] # "idle"
                 PROVE  \/ state'[work[v]] = state[work[v]]
                        \/ wpc[v] \notin Executing /\ state'[work[v]] = "absent"
      BY <1>20, QueueMoves DEF CreateJob, workers
    <3>1. work[v] \in Chunk /\ work[v].job # lastJob + 1
      BY <1>b, <1>d DEF ChunksHaveJobs
    <3> QED BY <1>20, <1>b, <3>1 DEF CreateJob
  <2>2. ChunksHaveJobs'
    <3>1. /\ lastJob' = lastJob + 1 /\ jobs' = jobs \cup {lastJob + 1}
          /\ wpc' = wpc /\ work' = work
          /\ \A c \in Chunk : state'[c] = state[c] \/ c.job = lastJob + 1
      BY <1>20, <1>b DEF CreateJob, workers
    <3>2. \A j \in jobs : j \in Nat
      BY ConstantsAssumption DEF TypeOK, QueueType, JobId
    <3>3. \A c \in Chunk : state'[c] # "absent" => c.job \in jobs'
      BY <1>d, <3>1 DEF ChunksHaveJobs
    <3>4. \A j \in jobs' : j <= lastJob'
      BY <1>b, <1>d, <3>1, <3>2 DEF ChunksHaveJobs
    <3>5. \A w \in Worker : wpc'[w] # "idle" => work'[w].job <= lastJob'
      BY <1>b, <1>d, <3>1 DEF ChunksHaveJobs
    <3> QED BY <3>3, <3>4, <3>5 DEF ChunksHaveJobs
  <2> QED BY <1>20, <1>d, <2>1, <2>2 DEF CreateJob, workers, HeldInv
<1>21. ASSUME NEW r \in Request, NEW p \in Pair, CloseForDeletion(r, p) PROVE HeldInv'
  <2>1. ClaimsDiffer' /\ \A v \in Worker : PlaceTellsState(v)'
    <3> SUFFICES ASSUME NEW v \in Worker, wpc[v] # "idle"
                 PROVE  \/ state'[work[v]] = state[work[v]]
                        \/ wpc[v] \notin Executing /\ state'[work[v]] = "absent"
      BY <1>21, QueueMoves DEF CloseForDeletion, workers
    <3> QED BY <1>21, <1>b, <1>d, HeldState DEF CloseForDeletion, RetryableStates
  <2>2. ChunksHaveJobs'
    BY <1>21, <1>b, <1>d DEF CloseForDeletion, workers, ChunksHaveJobs, RetryableStates
  <2> QED BY <1>21, <1>d, <2>1, <2>2 DEF CloseForDeletion, workers, HeldInv
<1>22. ASSUME NEW r \in Request, NEW p \in Pair, DeletePairData(r, p) PROVE HeldInv'
  BY <1>22, <1>a DEF DeletePairData, queue, workers
<1>23. ASSUME NEW r \in Request, NEW j \in JobId, RetryJob(r, j) PROVE HeldInv'
  BY <1>23, <1>a DEF RetryJob, queue, workers
<1>24. ASSUME NEW r \in Request, ResetRetryableChunks(r) PROVE HeldInv'
  <2>1. ClaimsDiffer' /\ \A v \in Worker : PlaceTellsState(v)'
    <3> SUFFICES ASSUME NEW v \in Worker, wpc[v] # "idle"
                 PROVE  \/ state'[work[v]] = state[work[v]]
                        \/ wpc[v] \notin Executing /\ state'[work[v]] = "absent"
      BY <1>24, QueueMoves DEF ResetRetryableChunks, workers
    <3> QED BY <1>24, <1>b, <1>d, HeldState DEF ResetRetryableChunks, RetryableStates
  <2>2. ChunksHaveJobs'
    BY <1>24, <1>b, <1>d DEF ResetRetryableChunks, workers, ChunksHaveJobs, RetryableStates
  <2> QED BY <1>24, <1>d, <2>1, <2>2 DEF ResetRetryableChunks, workers, HeldInv
<1>25. ASSUME NEW r \in Request, RetryFindsNoJob(r) PROVE HeldInv'
  BY <1>25, <1>a DEF RetryFindsNoJob, queue, workers
<1>26. ASSUME NEW r \in Request, RereadJob(r) PROVE HeldInv'
  BY <1>26, <1>a DEF RereadJob, queue, workers
<1>27. ASSUME NEW r \in Request, NEW j \in JobId, DeleteJob(r, j) PROVE HeldInv'
  <2>1. ClaimsDiffer' /\ \A v \in Worker : PlaceTellsState(v)'
    <3> SUFFICES ASSUME NEW v \in Worker, wpc[v] # "idle"
                 PROVE  \/ state'[work[v]] = state[work[v]]
                        \/ wpc[v] \notin Executing /\ state'[work[v]] = "absent"
      BY <1>27, QueueMoves DEF DeleteJob, workers
    <3>1. /\ work[v] \in Chunk
          /\ state'[work[v]] = IF work[v].job = j THEN "absent" ELSE state[work[v]]
      BY <1>27, <1>b DEF DeleteJob
    <3>2. work[v].job = j /\ wpc[v] \in Executing => FALSE
      <4> SUFFICES ASSUME work[v].job = j, wpc[v] \in Executing PROVE FALSE
        OBVIOUS
      <4>1. state[work[v]] = "running"
        BY <1>d DEF PlaceTellsState
      <4>2. work[v] \in ChunksOf(j)
        BY <3>1, <4>1 DEF ChunksOf
      <4> QED BY <1>27, <4>1, <4>2 DEF DeleteJob, StatesOf, OpenStates
    <3> QED BY <3>1, <3>2
  <2>2. ChunksHaveJobs'
    BY <1>27, <1>b, <1>d DEF DeleteJob, workers, ChunksHaveJobs, RetryableStates
  <2> QED BY <1>27, <1>d, <2>1, <2>2 DEF DeleteJob, workers, HeldInv
<1>28. ASSUME NEW r \in Request, RequestFails(r) PROVE HeldInv'
  BY <1>28, <1>a DEF RequestFails, queue, workers
<1>29. ASSUME Stop PROVE HeldInv'
  <2>1. ClaimsDiffer' /\ \A v \in Worker : PlaceTellsState(v)'
    BY <1>29, <1>b, <1>d DEF Stop, workers, ClaimsDiffer, PlaceTellsState, Executing
  <2>2. ChunksHaveJobs'
    BY <1>29, <1>b, <1>d DEF Stop, queue, workers, ChunksHaveJobs, OpenStates
  <2>3. ~up' => \A v \in Worker : wpc'[v] = "idle"
    BY <1>29, Zenon DEF Stop
  <2> QED BY <2>1, <2>2, <2>3 DEF HeldInv
<1>30. ASSUME InterruptOrphanedChunks PROVE HeldInv'
  <2>1. ClaimsDiffer' /\ \A v \in Worker : PlaceTellsState(v)'
    BY <1>30, <1>b, <1>d DEF InterruptOrphanedChunks, workers, ClaimsDiffer,
       PlaceTellsState, Executing
  <2>2. ChunksHaveJobs'
    BY <1>30, <1>b, <1>d DEF InterruptOrphanedChunks, queue, workers, ChunksHaveJobs,
       OpenStates
  <2>3. ~up' => \A v \in Worker : wpc'[v] = "idle"
    BY <1>30, Zenon DEF InterruptOrphanedChunks
  <2> QED BY <2>1, <2>2, <2>3 DEF HeldInv
<1>31. ASSUME UNCHANGED vars PROVE HeldInv'
  BY <1>31, <1>a DEF vars, queue, workers
<1> QED
  BY <1>1, <1>2, <1>3, <1>4, <1>5, <1>6, <1>7, <1>8, <1>9, <1>10, <1>11,
     <1>12, <1>13, <1>14, <1>15, <1>16, <1>17, <1>18, <1>19, <1>20, <1>21,
     <1>22, <1>23, <1>24, <1>25, <1>26, <1>27, <1>28, <1>29, <1>30, <1>31
     DEF Next, WorkerStep, WorkerFault, RequestStep

(* The claims hold throughout.                                             *)
LEMMA HeldCorrect == Spec => [](TypeOK /\ HeldInv)
<1>1. Init => HeldInv
  BY ConstantsAssumption DEF Init, HeldInv, PlaceTellsState, ClaimsDiffer, ChunksHaveJobs,
     Executing
<1> QED
  BY <1>1, HeldStep, TypeCorrect, PTL DEF Spec

(* A chunk being executed is 'running' and in one worker's hands, whatever *)
(* retries, deletions and sweeps happen around it (jobs/runner.py).        *)
THEOREM ClaimCorrect == Spec => []ClaimIsExclusive
<1>1. TypeOK /\ HeldInv => ClaimIsExclusive
  <2> SUFFICES ASSUME TypeOK, HeldInv, NEW w \in Worker, wpc[w] \in Executing
               PROVE  /\ state[work[w]] = "running"
                      /\ work[w].job \in jobs
                      /\ \A v \in Worker \ {w} : work[v] # work[w]
    BY DEF ClaimIsExclusive
  <2>1. state[work[w]] = "running"
    BY DEF HeldInv, PlaceTellsState
  <2>2. work[w] \in Chunk
    BY HeldChunk DEF Executing
  <2>3. work[w].job \in jobs
    BY <2>1, <2>2 DEF HeldInv, ChunksHaveJobs
  <2>4. \A v \in Worker \ {w} : work[v] # work[w]
    BY <2>2, ConstantsAssumption DEF HeldInv, ClaimsDiffer
  <2> QED BY <2>1, <2>3, <2>4
<1> QED
  BY <1>1, HeldCorrect, PTL

(***************************************************************************)
(* Coverage and the status of a job                                        *)
(***************************************************************************)

(* The candles a chunk was answered with are its own pair's.               *)
LEMMA AnswerOfPair ==
  ASSUME TypeOK, NEW c \in Chunk, NEW m \in answer[c]
  PROVE  m \in Market /\ m[1] = c.pair /\ <<m[1], m[2]>> = CellOf(c)
<1>1. m \in NewestOf(CellOf(c), 1)
  BY DEF TypeOK, WorkersType
<1> QED BY <1>1 DEF NewestOf, CellOf

(* Most steps write no candle, coverage or rollup, settle no chunk as      *)
(* done, bring no worker further through commit_candles and touch no       *)
(* answer that a worker is committing or a chunk was done with.            *)
LEMMA NothingCommitted ==
  ASSUME CommitInv,
         UNCHANGED <<candles, covered, rollups, deleted, answered>>,
         \A c \in Chunk : state'[c] = "done" => state[c] = "done" /\ answer'[c] = answer[c],
         \A w \in Worker :
           wpc'[w] \in {"cover", "rollup", "finish"} =>
             /\ wpc'[w] = wpc[w] /\ work'[w] = work[w]
             /\ answer'[work[w]] = answer[work[w]]
  PROVE  CommitInv'
<1>1. DoneIsCollected' /\ AnsweredIsStored'
  BY DEF CommitInv, DoneIsCollected, AnsweredIsStored, Collected, Stored, RolledUp
<1>2. CommitProgress'
  BY DEF CommitInv, CommitProgress, Stored, RolledUp
<1> QED BY <1>1, <1>2 DEF CommitInv

(* A write that only adds to the archive takes nothing away from a chunk   *)
(* already collected.                                                      *)
LEMMA StillCollected ==
  ASSUME TypeOK, CommitInv, UNCHANGED <<state, deleted, answer>>,
         candles \subseteq candles', covered \subseteq covered',
         \A m \in rollups : m[1] \notin deleted => m \in rollups'
  PROVE  DoneIsCollected'
<1> SUFFICES ASSUME NEW c \in Chunk, state[c] = "done", c.pair \notin deleted
             PROVE  Collected(c)'
  BY DEF DoneIsCollected
<1>1. Collected(c)
  BY DEF CommitInv, DoneIsCollected
<1>2. \A m \in answer[c] : m[1] = c.pair
  BY AnswerOfPair
<1> QED BY <1>1, <1>2 DEF Collected, Stored, RolledUp

(* Every step keeps what commit_candles established so far, for each       *)
(* worker and for each chunk that is done.                                 *)
LEMMA CommitStep == TypeOK /\ HeldInv /\ CommitInv /\ [Next]_vars => CommitInv'
<1> SUFFICES ASSUME TypeOK, HeldInv, CommitInv, [Next]_vars PROVE CommitInv'
  OBVIOUS
<1>a. UNCHANGED <<candles, covered, rollups, deleted, answered, queue, workers>> => CommitInv'
  BY NothingCommitted DEF queue, workers
<1>b. /\ wpc \in [Worker -> Executing \cup {"idle", "sweep", "orphan"}]
      /\ work \in [Worker -> Chunk \cup {NoChunk}]
      /\ state \in [Chunk -> ChunkStates \cup {"absent"}]
      /\ candles \subseteq Market
      /\ answer \in [Chunk -> SUBSET Market]
      /\ \A w \in Worker : wpc[w] # "idle" => work[w] \in Chunk
  BY ConstantsAssumption DEF TypeOK, ArchiveType, WorkersType, QueueType
<1>c. CommitProgress /\ DoneIsCollected /\ AnsweredIsStored
  BY DEF CommitInv
<1>1. ASSUME NEW w \in Worker, NEW c \in Chunk, ClaimPendingChunk(w, c) PROVE CommitInv'
  BY <1>1, <1>b, NothingCommitted DEF ClaimPendingChunk, Goto, Release, Mark, archive, queue
<1>2. ASSUME NEW w \in Worker, NEW e \in BOOLEAN, NEW n \in 1..(PerSlot + 1),
             GatewayAnswers(w, e, n) PROVE CommitInv'
  <2>1. /\ UNCHANGED <<candles, covered, rollups, deleted, answered, state, work>>
        /\ \A a \in Chunk : a # work[w] => answer'[a] = answer[a]
        /\ wpc[w] = "fetch" /\ wpc' = [wpc EXCEPT ![w] = "check"]
    BY <1>2, <1>b DEF GatewayAnswers, Goto, archive, queue
  <2>2. state[work[w]] = "running"
    BY <2>1 DEF HeldInv, PlaceTellsState, Executing
  <2>3. \A v \in Worker : v # w /\ work[v] # NoChunk => work[v] # work[w]
    BY DEF HeldInv, ClaimsDiffer
  <2>4. \A v \in Worker : wpc[v] # "idle" => work[v] \in Chunk /\ work[v] # NoChunk
    BY <1>b, ConstantsAssumption
  <2>5. \A v \in Worker : wpc'[v] \in {"cover", "rollup", "finish"} =>
          wpc'[v] = wpc[v] /\ work'[v] = work[v] /\ answer'[work[v]] = answer[work[v]]
    BY <1>b, <2>1, <2>3, <2>4
  <2>6. \A a \in Chunk : state'[a] = "done" => state[a] = "done" /\ answer'[a] = answer[a]
    BY <2>1, <2>2
  <2> QED BY <2>1, <2>5, <2>6, NothingCommitted
<1>3. ASSUME NEW w \in Worker, GatewayFails(w) PROVE CommitInv'
  BY <1>3, <1>b, NothingCommitted DEF GatewayFails, Goto, Release, Mark, archive, queue
<1>4. ASSUME NEW w \in Worker, FinishChunkFailed(w) PROVE CommitInv'
  BY <1>4, <1>b, NothingCommitted DEF FinishChunkFailed, Goto, Release, Mark, archive, queue
<1>5. ASSUME NEW w \in Worker, CheckTracked(w) PROVE CommitInv'
  BY <1>5, <1>b, NothingCommitted DEF CheckTracked, Goto, Release, Mark, archive, queue
<1>6. ASSUME NEW w \in Worker, FinishChunkSkipped(w) PROVE CommitInv'
  BY <1>6, <1>b, NothingCommitted DEF FinishChunkSkipped, Goto, Release, Mark, archive,
     queue
<1>7. ASSUME NEW w \in Worker, WriteCandles(w) PROVE CommitInv'
  <2>1. /\ UNCHANGED <<covered, rollups, deleted, answered, state, work, answer>>
        /\ candles' = candles \cup answer[work[w]]
        /\ wpc' = [wpc EXCEPT ![w] = "cover"]
        /\ work[w] \in Chunk
    BY <1>7, <1>b DEF WriteCandles, Goto, queue
  <2>2. DoneIsCollected'
    BY <2>1, StillCollected
  <2>3. AnsweredIsStored'
    BY <1>c, <2>1 DEF AnsweredIsStored
  <2>4. CommitProgress'
    BY <1>b, <1>c, <2>1 DEF CommitProgress, Stored, RolledUp
  <2> QED BY <2>2, <2>3, <2>4 DEF CommitInv
<1>8. ASSUME NEW w \in Worker, RecordCoverage(w) PROVE CommitInv'
  <2>1. /\ UNCHANGED <<candles, rollups, deleted, state, work, answer>>
        /\ covered' = covered \cup {CellOf(work[w])}
        /\ answered' = answered \cup answer[work[w]]
        /\ wpc[w] = "cover" /\ wpc' = [wpc EXCEPT ![w] = "rollup"]
        /\ work[w] \in Chunk
    BY <1>8, <1>b DEF RecordCoverage, Goto, queue
  <2>2. DoneIsCollected'
    BY <2>1, StillCollected
  <2>3. work[w].pair \notin deleted => Stored(work[w])
    BY <1>c, <2>1, ConstantsAssumption DEF CommitProgress
  <2>4. \A m \in answer[work[w]] : m[1] = work[w].pair
    BY <2>1, AnswerOfPair
  <2>5. AnsweredIsStored'
    BY <1>c, <2>1, <2>3, <2>4 DEF AnsweredIsStored, Stored
  <2>6. CommitProgress'
    BY <1>b, <1>c, <2>1, <2>3 DEF CommitProgress, Stored, RolledUp
  <2> QED BY <2>2, <2>5, <2>6 DEF CommitInv
<1>9. ASSUME NEW w \in Worker, RefreshRollups(w) PROVE CommitInv'
  <2> DEFINE page == answer[work[w]]
             span == SpanOf(page)
  <2>1. /\ UNCHANGED <<candles, covered, deleted, answered, state, work, answer>>
        /\ rollups' = IF work[w].pair \in Minute
                      THEN (rollups \ span) \cup (candles \cap span)
                      ELSE rollups
        /\ wpc[w] = "rollup" /\ wpc' = [wpc EXCEPT ![w] = "finish"]
        /\ work[w] \in Chunk /\ work[w] # NoChunk
    BY <1>9, <1>b, ConstantsAssumption DEF RefreshRollups, Goto, queue
  <2>2. work[w].pair \notin deleted => page \subseteq candles
    BY <1>c, <2>1 DEF CommitProgress, Stored
  <2>3. page \subseteq span
    <3> SUFFICES ASSUME NEW m \in page PROVE m \in span
      OBVIOUS
    <3>1. m \in Market
      BY <2>1, AnswerOfPair
    <3>2. m[3] \in Nat
      BY <3>1, ConstantsAssumption DEF Candle
    <3> QED BY <3>1, <3>2 DEF SpanOf
  <2>4. \A m \in rollups : m[1] \notin deleted => m \in rollups'
    BY <1>c, <2>1 DEF AnsweredIsStored
  <2>5. work[w].pair \notin deleted => RolledUp(work[w])'
    BY <2>1, <2>2, <2>3 DEF RolledUp
  <2>6. DoneIsCollected'
    BY <2>1, <2>4, StillCollected
  <2>7. AnsweredIsStored'
    BY <1>c, <2>1 DEF AnsweredIsStored
  <2>8. CommitProgress'
    <3> SUFFICES ASSUME NEW v \in Worker, work[v] # NoChunk, work[v].pair \notin deleted
                 PROVE  /\ wpc'[v] \in {"cover", "rollup", "finish"} => Stored(work[v])
                        /\ wpc'[v] \in {"rollup", "finish"} => CellOf(work[v]) \in covered
                        /\ wpc'[v] = "finish" => RolledUp(work[v])'
      BY <2>1 DEF CommitProgress, Stored
    <3>1. CASE v = w
      <4>1. Stored(work[w]) /\ CellOf(work[w]) \in covered
        BY <3>1, <1>c, <2>1 DEF CommitProgress
      <4> QED BY <3>1, <4>1, <2>5
    <3>2. CASE v # w
      <4>1. wpc'[v] = wpc[v] /\ work[v] \in Chunk
        BY <3>2, <1>b, <2>1
      <4>2. \A m \in answer[work[v]] : m[1] = work[v].pair
        BY <4>1, AnswerOfPair
      <4> QED BY <4>1, <4>2, <1>c, <2>1, <2>4 DEF CommitProgress, RolledUp
    <3> QED BY <3>1, <3>2
  <2> QED BY <2>6, <2>7, <2>8 DEF CommitInv
<1>10. ASSUME NEW w \in Worker, FinishChunkDone(w) PROVE CommitInv'
  <2>1. /\ UNCHANGED <<candles, covered, rollups, deleted, answered, answer>>
        /\ wpc[w] = "finish"
        /\ work[w] \in Chunk /\ work[w] # NoChunk
        /\ \A c \in Chunk : state'[c] = "done" => state[c] = "done" \/ c = work[w]
    BY <1>10, <1>b, ConstantsAssumption DEF FinishChunkDone, Mark, archive
  <2>2. \A v \in Worker : wpc'[v] \in {"cover", "rollup", "finish"} =>
                            wpc'[v] = wpc[v] /\ work'[v] = work[v]
    BY <1>10, <1>b DEF FinishChunkDone, Release, Goto
  <2>3. work[w].pair \notin deleted => Collected(work[w])
    BY <1>c, <2>1 DEF CommitProgress, Collected
  <2>4. DoneIsCollected'
    BY <1>c, <2>1, <2>3 DEF DoneIsCollected, Collected, Stored, RolledUp
  <2>5. CommitProgress'
    BY <1>c, <2>1, <2>2 DEF CommitProgress, Stored, RolledUp
  <2>6. AnsweredIsStored'
    BY <1>c, <2>1 DEF AnsweredIsStored
  <2> QED BY <2>4, <2>5, <2>6 DEF CommitInv
<1>11. ASSUME NEW w \in Worker, SkipChunksBeyondHistory(w) PROVE CommitInv'
  BY <1>11, <1>b, NothingCommitted DEF SkipChunksBeyondHistory, Goto, Release, Mark,
     archive, queue, BeyondHistory
<1>12. ASSUME NEW w \in Worker, StatementFails(w) PROVE CommitInv'
  BY <1>12, <1>b, NothingCommitted DEF StatementFails, Goto, Release, Mark, archive, queue
<1>13. ASSUME NEW w \in Worker, FailOrphan(w) PROVE CommitInv'
  BY <1>13, <1>b, NothingCommitted DEF FailOrphan, Goto, Release, Mark, archive, queue
<1>14. ASSUME NEW w \in Worker, FailOrphanFails(w) PROVE CommitInv'
  BY <1>14, <1>b, NothingCommitted DEF FailOrphanFails, Goto, Release, Mark, archive, queue
<1>15. ASSUME NEW r \in Request, NEW P \in SUBSET Pair, NEW f \in Slot \cup {0},
             TrackPairs(r, P, f) PROVE CommitInv'
  BY <1>15, <1>a DEF TrackPairs, archive
<1>16. ASSUME NEW r \in Request, NEW p \in Pair, AddPair(r, p) PROVE CommitInv'
  BY <1>16, <1>a DEF AddPair, archive
<1>17. ASSUME NEW r \in Request, NEW p \in Pair, RefusePair(r, p) PROVE CommitInv'
  BY <1>17, <1>a DEF RefusePair, archive
<1>18. ASSUME NEW r \in Request, SyncIngest(r) PROVE CommitInv'
  BY <1>18, <1>a DEF SyncIngest, archive
<1>19. ASSUME NEW r \in Request, NEW p \in Pair, PlanPair(r, p) PROVE CommitInv'
  BY <1>19, <1>a DEF PlanPair, archive
<1>20. ASSUME NEW r \in Request, CreateJob(r) PROVE CommitInv'
  BY <1>20, <1>b, NothingCommitted DEF CreateJob, archive, workers
<1>21. ASSUME NEW r \in Request, NEW p \in Pair, CloseForDeletion(r, p) PROVE CommitInv'
  BY <1>21, <1>b, NothingCommitted DEF CloseForDeletion, archive, workers
<1>22. ASSUME NEW r \in Request, NEW p \in Pair, DeletePairData(r, p) PROVE CommitInv'
  <2>1. /\ UNCHANGED <<state, wpc, work, answer>>
        /\ deleted' = deleted \cup {p}
        /\ candles' = {m \in candles : m[1] # p}
        /\ answered' = {m \in answered : m[1] # p}
        /\ covered' = {cell \in covered : cell[1] # p}
        /\ rollups' \subseteq rollups
        /\ \A m \in rollups : m[1] # p => m \in rollups'
    BY <1>22 DEF DeletePairData, queue, workers
  <2>2. \A c \in Chunk : c.pair # p /\ Stored(c) => Stored(c)'
    BY <2>1, AnswerOfPair DEF Stored
  <2>3. \A c \in Chunk : c.pair # p /\ RolledUp(c) => RolledUp(c)'
    BY <2>1, AnswerOfPair DEF RolledUp
  <2>4. \A c \in Chunk : c.pair # p /\ CellOf(c) \in covered => CellOf(c) \in covered'
    BY <2>1 DEF CellOf
  <2>5. DoneIsCollected'
    BY <1>c, <2>1, <2>2, <2>3, <2>4 DEF DoneIsCollected, Collected
  <2>6. AnsweredIsStored'
    BY <1>c, <2>1 DEF AnsweredIsStored
  <2>7. CommitProgress'
    <3> SUFFICES ASSUME NEW v \in Worker, work[v] # NoChunk,
                        work[v].pair \notin deleted', wpc[v] \in {"cover", "rollup", "finish"}
                 PROVE  /\ Stored(work[v])'
                        /\ wpc[v] \in {"rollup", "finish"} => CellOf(work[v]) \in covered'
                        /\ wpc[v] = "finish" => RolledUp(work[v])'
      BY <2>1 DEF CommitProgress, Stored, RolledUp
    <3>1. work[v] \in Chunk /\ work[v].pair # p /\ work[v].pair \notin deleted
      BY <1>b, <2>1
    <3>2. Stored(work[v])
      BY <3>1, <1>c DEF CommitProgress
    <3>3. wpc[v] \in {"rollup", "finish"} => CellOf(work[v]) \in covered
      BY <3>1, <1>c DEF CommitProgress
    <3>4. wpc[v] = "finish" => RolledUp(work[v])
      BY <3>1, <1>c DEF CommitProgress
    <3>5. Stored(work[v])'
      BY <3>1, <3>2, <2>1, <2>2 DEF Stored
    <3>6. wpc[v] \in {"rollup", "finish"} => CellOf(work[v]) \in covered'
      BY <3>1, <3>3, <2>4
    <3>7. wpc[v] = "finish" => RolledUp(work[v])'
      BY <3>1, <3>4, <2>1, <2>3 DEF RolledUp
    <3> QED BY <3>5, <3>6, <3>7
  <2> QED BY <2>5, <2>6, <2>7 DEF CommitInv
<1>23. ASSUME NEW r \in Request, NEW j \in JobId, RetryJob(r, j) PROVE CommitInv'
  BY <1>23, <1>a DEF RetryJob, archive
<1>24. ASSUME NEW r \in Request, ResetRetryableChunks(r) PROVE CommitInv'
  BY <1>24, <1>b, NothingCommitted DEF ResetRetryableChunks, archive, workers
<1>25. ASSUME NEW r \in Request, RetryFindsNoJob(r) PROVE CommitInv'
  BY <1>25, <1>a DEF RetryFindsNoJob, archive
<1>26. ASSUME NEW r \in Request, RereadJob(r) PROVE CommitInv'
  BY <1>26, <1>a DEF RereadJob, archive
<1>27. ASSUME NEW r \in Request, NEW j \in JobId, DeleteJob(r, j) PROVE CommitInv'
  <2>1. /\ UNCHANGED <<candles, covered, rollups, deleted, answered, wpc, work>>
        /\ \A c \in Chunk : c.job # j => state'[c] = state[c] /\ answer'[c] = answer[c]
        /\ \A c \in Chunk : c.job = j => state'[c] = "absent"
    BY <1>27, <1>b DEF DeleteJob, archive
  <2>2. \A v \in Worker : wpc[v] \in Executing => work[v].job # j
    <3> SUFFICES ASSUME NEW v \in Worker, wpc[v] \in Executing, work[v].job = j PROVE FALSE
      OBVIOUS
    <3>1. state[work[v]] = "running" /\ work[v] \in Chunk
      BY <1>b DEF HeldInv, PlaceTellsState, Executing
    <3>2. work[v] \in ChunksOf(j)
      BY <3>1 DEF ChunksOf
    <3> QED BY <1>27, <3>1, <3>2 DEF DeleteJob, StatesOf, OpenStates
  <2>3. \A v \in Worker : wpc'[v] \in {"cover", "rollup", "finish"} =>
          wpc'[v] = wpc[v] /\ work'[v] = work[v] /\ answer'[work[v]] = answer[work[v]]
    BY <1>b, <2>1, <2>2 DEF Executing
  <2> QED BY <2>1, <2>3, NothingCommitted
<1>28. ASSUME NEW r \in Request, RequestFails(r) PROVE CommitInv'
  BY <1>28, <1>a DEF RequestFails, archive
<1>29. ASSUME Stop PROVE CommitInv'
  BY <1>29, <1>b, NothingCommitted DEF Stop, archive, workers, queue
<1>30. ASSUME InterruptOrphanedChunks PROVE CommitInv'
  BY <1>30, <1>b, NothingCommitted DEF InterruptOrphanedChunks, archive, workers
<1>31. ASSUME UNCHANGED vars PROVE CommitInv'
  BY <1>31, <1>a DEF vars, archive, queue, workers
<1> QED
  BY <1>1, <1>2, <1>3, <1>4, <1>5, <1>6, <1>7, <1>8, <1>9, <1>10, <1>11,
     <1>12, <1>13, <1>14, <1>15, <1>16, <1>17, <1>18, <1>19, <1>20, <1>21,
     <1>22, <1>23, <1>24, <1>25, <1>26, <1>27, <1>28, <1>29, <1>30, <1>31
     DEF Next, WorkerStep, WorkerFault, RequestStep

(* The invariant behind the coverage and the statuses holds throughout.    *)
LEMMA CommitCorrect == Spec => []CommitInv
<1>1. Init => CommitInv
  BY DEF Init, CommitInv, CommitProgress, DoneIsCollected, AnsweredIsStored
<1> QED
  BY <1>1, CommitStep, HeldCorrect, PTL DEF Spec

(* Of a pair never deleted, what coverage calls fetched and the archive    *)
(* lacks was in no answer recorded there.                                  *)
THEOREM CoverageCorrect == Spec => []CoverageIsBacked
<1>1. CommitInv => CoverageIsBacked
  BY DEF CommitInv, AnsweredIsStored, CoverageIsBacked
<1> QED
  BY <1>1, CommitCorrect, PTL

(* The status derived from a job's chunks tells the truth about the        *)
(* workers and about the archive, as far as the gateway's answers went.    *)
THEOREM StatusCorrect == Spec => []StatusIsHonest
<1>1. TypeOK /\ HeldInv /\ CommitInv => StatusIsHonest
  <2> SUFFICES ASSUME TypeOK, HeldInv, CommitInv, NEW j \in jobs
               PROVE  /\ derive_status(StatesOf(j)) = "succeeded" =>
                           \A c \in ChunksOf(j) :
                             state[c] = "skipped" \/ c.pair \in deleted \/ Collected(c)
                      /\ derive_status(StatesOf(j)) # "running" =>
                           \A w \in Worker : wpc[w] \in Executing => work[w].job # j
    BY DEF StatusIsHonest
  <2>1. ASSUME derive_status(StatesOf(j)) = "succeeded", NEW c \in ChunksOf(j)
        PROVE  state[c] = "skipped" \/ c.pair \in deleted \/ Collected(c)
    <3>1. StatesOf(j) \subseteq SettledStates
      BY <2>1 DEF derive_status
    <3>2. c \in Chunk /\ state[c] \in StatesOf(j)
      BY DEF ChunksOf, StatesOf
    <3> QED BY <3>1, <3>2 DEF SettledStates, CommitInv, DoneIsCollected
  <2>2. ASSUME NEW w \in Worker, wpc[w] \in Executing, work[w].job = j
        PROVE  derive_status(StatesOf(j)) = "running"
    <3>1. work[w] \in Chunk /\ state[work[w]] = "running"
      BY <2>2, HeldChunk DEF HeldInv, PlaceTellsState, Executing
    <3>2. "running" \in StatesOf(j)
      BY <2>2, <3>1 DEF StatesOf, ChunksOf
    <3> QED BY <3>2 DEF derive_status, OpenStates
  <2> QED BY <2>1, <2>2
<1> QED
  BY <1>1, HeldCorrect, CommitCorrect, PTL

(* A settled chunk leaves its state only with its job, or by the failure   *)
(* of the sweep behind it.                                                 *)
THEOREM SettledCorrect == Spec => SettledIsFinal
<1>1. TypeOK /\ HeldInv /\ [Next]_vars => [SettledStays]_vars
  <2> SUFFICES ASSUME TypeOK, HeldInv, Next, NEW c \in Chunk,
                      state[c] \in SettledStates, state'[c] # state[c]
               PROVE  \/ state'[c] = "absent"
                      \/ /\ state'[c] = "failed"
                         /\ \E w \in Worker : wpc[w] = "orphan" /\ work[w] = c
    BY DEF SettledStays
  <2> USE DEF SettledStates
  <2>b. state \in [Chunk -> ChunkStates \cup {"absent"}]
    BY DEF TypeOK, QueueType
  <2>1. ASSUME NEW w \in Worker, WorkerStep(w) \/ WorkerFault(w)
        PROVE  state'[c] = "failed" /\ wpc[w] = "orphan" /\ work[w] = c
    <3>1. ASSUME wpc[w] \in Executing,
                 \E s \in {"done", "failed", "skipped"} : state' = Mark(work[w], s)
          PROVE  FALSE
      BY <2>b, <3>1 DEF Mark, HeldInv, PlaceTellsState
    <3>2. ~ \E d \in Chunk : ClaimPendingChunk(w, d)
      BY <2>b DEF ClaimPendingChunk, Oldest
    <3>3. ~ SkipChunksBeyondHistory(w)
      BY <2>b DEF SkipChunksBeyondHistory, BeyondHistory
    <3>4. ~ FinishChunkFailed(w) /\ ~ FinishChunkSkipped(w) /\ ~ FinishChunkDone(w)
      BY <3>1 DEF FinishChunkFailed, FinishChunkSkipped, FinishChunkDone, Executing
    <3>5. FailOrphan(w)
      BY <2>1, <3>2, <3>3, <3>4 DEF WorkerStep, WorkerFault, GatewayAnswers, GatewayFails,
         CheckTracked,
         WriteCandles, RecordCoverage, RefreshRollups, StatementFails, FailOrphanFails, queue
    <3> QED BY <2>b, <3>5 DEF FailOrphan, Mark
  <2>2. ASSUME NEW r \in Request, RequestStep(r) \/ RequestFails(r)
        PROVE  state'[c] = "absent"
    <3>1. ~ \E p \in Pair : CloseForDeletion(r, p)
      BY <2>b DEF CloseForDeletion
    <3>2. ~ ResetRetryableChunks(r)
      BY <2>b DEF ResetRetryableChunks, RetryableStates
    <3>3. ~ CreateJob(r)
      <4> SUFFICES ASSUME CreateJob(r) PROVE FALSE
        OBVIOUS
      <4>1. c.job = lastJob + 1
        BY <2>b DEF CreateJob
      <4>2. c.job <= lastJob
        BY DEF HeldInv, ChunksHaveJobs
      <4>3. lastJob \in Nat
        BY DEF TypeOK, QueueType
      <4> QED BY <4>1, <4>2, <4>3
    <3>4. PICK j \in JobId : DeleteJob(r, j)
      BY <2>2, <3>1, <3>2, <3>3 DEF RequestStep, RequestFails, TrackPairs, AddPair,
         RefusePair, SyncIngest,
         PlanPair, DeletePairData, RetryJob, RetryFindsNoJob, RereadJob, queue
    <3> QED BY <2>b, <3>4 DEF DeleteJob
  <2>3. ~ Stop /\ ~ InterruptOrphanedChunks
    BY <2>b DEF Stop, InterruptOrphanedChunks, OpenStates, queue
  <2> QED BY <2>1, <2>2, <2>3 DEF Next
<1> QED
  BY <1>1, HeldCorrect, PTL DEF Spec, SettledIsFinal


(***************************************************************************)
(* Coverage, pair by pair, is what CoverageSet promises: nothing of what   *)
(* jobs do but RecordCoverage and a deletion reaches it.                   *)
(***************************************************************************)

(* What a step may do to the covered slots of a pair.                      *)
LEMMA LooksStep ==
  ASSUME TypeOK, NEW p \in Pair, [Next]_vars
  PROVE  Looks(p)!Next \/ CoveredOf(p)' = CoveredOf(p)
<1>1. CASE covered' = covered
  BY <1>1 DEF CoveredOf
<1>2. ASSUME NEW w \in Worker, RecordCoverage(w)
      PROVE  Looks(p)!Next \/ CoveredOf(p)' = CoveredOf(p)
  <2>1. PICK c \in Chunk : covered' = covered \cup {CellOf(c)}
    BY <1>2, HeldChunk DEF RecordCoverage
  <2>2. CASE c.pair # p
    BY <2>1, <2>2 DEF CoveredOf, CellOf
  <2>3. CASE c.pair = p
    <3>1. c.slot \in Looks(p)!Moment /\ c.slot \in Slot /\ c.slot \in Nat
      BY ConstantsAssumption DEF Chunk, Slot, Looks!Moment
    <3>2. c.slot .. c.slot = {c.slot}
      BY <3>1
    <3>3. CoveredOf(p)' = CoveredOf(p) \cup (c.slot .. c.slot)
      BY <2>1, <2>3, <3>1, <3>2 DEF CoveredOf, CellOf
    <3>4. Looks(p)!Look(c.slot, c.slot)
      BY <3>3 DEF Looks!Look
    <3> QED BY <3>1, <3>4 DEF Looks!Next
  <2> QED BY <2>2, <2>3
<1>3. ASSUME NEW r \in Request, NEW d \in Pair, DeletePairData(r, d)
      PROVE  Looks(p)!Next
  <2>1. CoveredOf(p)' \subseteq CoveredOf(p)
    BY <1>3 DEF DeletePairData, CoveredOf
  <2> QED BY <2>1 DEF Looks!Next, Looks!Forget
<1>4. ASSUME NEW w \in Worker, WorkerStep(w) \/ WorkerFault(w), ~RecordCoverage(w)
      PROVE  covered' = covered
  BY <1>4 DEF WorkerStep, WorkerFault, ClaimPendingChunk, GatewayAnswers, GatewayFails,
     FinishChunkFailed, CheckTracked, FinishChunkSkipped, WriteCandles, RefreshRollups,
     FinishChunkDone, SkipChunksBeyondHistory, FailOrphan, StatementFails, FailOrphanFails, archive
<1>5. ASSUME NEW r \in Request, RequestStep(r) \/ RequestFails(r),
             ~ \E d \in Pair : DeletePairData(r, d)
      PROVE  covered' = covered
  BY <1>5 DEF RequestStep, RequestFails, TrackPairs, AddPair, RefusePair, SyncIngest, PlanPair,
     CreateJob, CloseForDeletion, RetryJob, ResetRetryableChunks, RetryFindsNoJob, RereadJob,
     DeleteJob, archive
<1>6. ASSUME Stop \/ InterruptOrphanedChunks \/ UNCHANGED vars
      PROVE  covered' = covered
  BY <1>6 DEF Stop, InterruptOrphanedChunks, vars, archive
<1> QED BY <1>1, <1>2, <1>3, <1>4, <1>5, <1>6 DEF Next

(* Coverage as the planning of a job relies on it: of no pair is it ever   *)
(* more than what was looked at, or less but for a deletion, whatever the  *)
(* workers, the requests and the restarts do.                              *)
THEOREM LooksCorrect == Spec => OnlyLooks
<1>1. TypeOK /\ [Next]_vars => [\A p \in Pair : Looks(p)!Next \/ UNCHANGED CoveredOf(p)]_vars
  BY LooksStep
<1> QED BY <1>1, TypeCorrect, PTL DEF Spec, OnlyLooks

(* The same, as an implementation of CoverageSet, pair by pair.            *)
THEOREM ImplementsCoverageSet ==
  ASSUME NEW p \in Pair
  PROVE  Spec => Looks(p)!Spec
<1>1. Init => Looks(p)!Init
  BY ConstantsAssumption DEF Init, CoveredOf, Looks!Init, Looks!Moment, Slot
<1>2. TypeOK /\ [Next]_vars => [Looks(p)!Next]_(CoveredOf(p))
  BY LooksStep
<1> QED BY <1>1, <1>2, TypeCorrect, PTL DEF Spec, Looks!Spec
=============================================================================

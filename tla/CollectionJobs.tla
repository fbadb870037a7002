--------------------------- MODULE CollectionJobs ---------------------------
(***************************************************************************)
(* The candle archive of workbench/market_data as its collection jobs see  *)
(* it: the tracked pairs, the candles, the coverage and the rollups in     *)
(* PostgreSQL, the jobs and their chunks, the worker tasks of JobRunner    *)
(* that work the chunks, and the HTTP handlers that track a pair, delete   *)
(* its data, retry a job and delete a job.                                 *)
(*                                                                         *)
(* One step is one committed statement or transaction; whatever the code   *)
(* awaits between two of them may happen between two steps.  Time is cut   *)
(* into slots 1..Depth, one slot being the widest window one chunk may ask *)
(* for (MAX_BARS_PER_FILL candles), and a slot holds up to PerSlot closed  *)
(* candles, numbered from the oldest.  The handlers' "now" is the end of   *)
(* the last slot.  A chunk's row id is its job, pair and slot.             *)
(***************************************************************************)
EXTENDS Naturals, FiniteSets

CONSTANTS
  Pair,         \* the (symbol, resolution) pairs an operator may ask for
  Minute,       \* those of the one resolution rollups are built from
  Depth,        \* how many slots of history there are
  PerSlot,      \* how many candles a slot can hold
  Market,       \* the candles <<pair, slot, number>> the provider holds
  Worker,       \* the JobRunner's worker tasks (backfill_concurrency)
  Request,      \* the HTTP requests served at the same time
  DefaultFrom,  \* the slot default_backfill_bars reaches back to
  MaxTracked,   \* max_tracked_pairs
  MaxJob,       \* bound: jobs ever created
  MaxAttempt,   \* bound: attempts of one job
  MaxFault,     \* bound: failed statements, lost requests and crashes
  NoChunk       \* what an idle worker holds

Slot  == 1..Depth
Cell  == Pair \X Slot
Candle == Pair \X Slot \X (1..PerSlot)
JobId == 1..MaxJob
Chunk == [job : JobId, pair : Pair, slot : Slot]

ASSUME ConstantsAssumption ==
  /\ Minute \subseteq Pair
  /\ Depth \in Nat /\ MaxJob \in Nat /\ MaxTracked \in Nat
  /\ MaxAttempt \in Nat \ {0} /\ MaxFault \in Nat
  /\ PerSlot \in Nat /\ Market \subseteq Candle
  /\ DefaultFrom \in Slot
  /\ NoChunk \notin Chunk

VARIABLES
  tracked,      \* tracked_pairs rows in state 'tracked'
  collectFrom,  \* their collect_from; Depth + 1 while the pair has no row
  candles,      \* the candles stored
  covered,      \* the slots some coverage_ranges row spans
  bounds,       \* the history_ends_at those rows were given, each in its own slot
  rollups,      \* the minute candles the derived_candles were built from
  deleted,      \* the pairs with a pair_deletions row
  jobs,         \* the collection_jobs rows
  lastJob,      \* the last job id drawn from the sequence
  attempt,      \* collection_jobs.attempt
  state,        \* collection_job_chunks.state, "absent" where there is no row
  up,           \* the process is serving
  wpc, work,    \* where each worker is, and the chunk it claimed
  answer,       \* the candles each chunk was last answered with
  ended,        \* history_ended of the page the worker was answered with
  edge,         \* the boundaries record_coverage found in the merged range
  rpc, todo,    \* where each request is, and the pairs it still has to visit
  from,         \* the request's collect_from; 0 when the body carries none
  accepted,     \* the collect_from of each pair the request tracked, else 0
  plan,         \* the cells the request planned chunks for
  target,       \* the job a retry is about, 0 otherwise
  faults,       \* how many failures have happened
  answered      \* auxiliary: the candles of the answers recorded as coverage

archive == <<tracked, collectFrom, candles, covered, bounds, rollups, deleted,
             answered>>
queue   == <<jobs, lastJob, attempt, state>>
workers == <<wpc, work, answer, ended, edge>>
requests == <<rpc, todo, from, accepted, plan, target>>
vars == <<archive, queue, workers, requests, up, faults>>

(***************************************************************************)
(* The vocabulary of jobs/models.py.                                       *)
(***************************************************************************)
OpenIsPending   == {"pending"}   \* mutant: a claimed chunk is not open
OpenStates      == {"pending", "running"}
RetryableStates == {"failed", "interrupted"}
SettledStates   == {"done", "skipped"}
ChunkStates     == OpenStates \cup RetryableStates \cup SettledStates

ChunksOf(j) == {c \in Chunk : c.job = j /\ state[c] # "absent"}
StatesOf(j) == {state[c] : c \in ChunksOf(j)}

(* A job's status depends on which states its chunks are in, not on how    *)
(* many are in each.                                                       *)
derive_status(states) ==
  IF      states \cap OpenStates # {}    THEN "running"
  ELSE IF states \subseteq SettledStates THEN "succeeded"
  ELSE IF states \cap SettledStates # {} THEN "partial"
  ELSE IF "failed" \in states            THEN "failed"
  ELSE "interrupted"

(***************************************************************************)
(* Coverage.  record_coverage merges what overlaps or touches, so the rows *)
(* of a pair are the maximal runs of its covered slots, and the            *)
(* history_ends_at of a row is the oldest boundary recorded inside it.     *)
(***************************************************************************)
SameRange(cov, p, s, t) ==
  \A u \in Slot : (s <= u /\ u <= t) \/ (t <= u /\ u <= s) => <<p, u>> \in cov

RangeBounds(cov, bnd, p, s) ==
  {b \in Slot : <<p, b>> \in bnd /\ SameRange(cov, p, s, b)}

(* earliest_reachable reads one row that names a boundary, any of them     *)
EarliestReachable(p) ==
  {b \in Slot : /\ <<p, b>> \in bounds
                /\ \A a \in RangeBounds(covered, bounds, p, b) : b <= a}

UncoveredWithin(p, s) == {<<p, t>> : t \in {u \in Slot : s <= u /\ <<p, u>> \notin covered}}

(***************************************************************************)
(* Helpers of the steps                                                    *)
(***************************************************************************)
CellOf(c) == <<c.pair, c.slot>>

(* The provider's candles of a slot numbered n or more; the minute candles *)
(* between the first and the last of a page.                               *)
NewestOf(cell, n) == {m \in Market : <<m[1], m[2]>> = cell /\ n <= m[3]}
SpanOf(page) ==
  {m \in Market : \E a, b \in page :
     /\ a[1] = m[1] /\ a[2] = m[2] /\ a[3] <= m[3]
     /\ b[1] = m[1] /\ b[2] = m[2] /\ m[3] <= b[3]}

Mark(c, s) == [state EXCEPT ![c] = IF @ = "absent" THEN @ ELSE s]

Goto(w, pc) == wpc' = [wpc EXCEPT ![w] = pc]

Release(w) ==
  /\ Goto(w, "idle")
  /\ work'  = [work EXCEPT ![w] = NoChunk]
  /\ ended' = [ended EXCEPT ![w] = FALSE]
  /\ edge'  = [edge EXCEPT ![w] = {}]

Reply(r) ==
  /\ rpc'      = [rpc EXCEPT ![r] = "idle"]
  /\ todo'     = [todo EXCEPT ![r] = {}]
  /\ from'     = [from EXCEPT ![r] = 0]
  /\ accepted' = [accepted EXCEPT ![r] = [p \in Pair |-> 0]]
  /\ plan'     = [plan EXCEPT ![r] = {}]
  /\ target'   = [target EXCEPT ![r] = 0]

Init ==
  /\ tracked = {} /\ collectFrom = [p \in Pair |-> Depth + 1]
  /\ candles = {} /\ covered = {} /\ bounds = {} /\ rollups = {} /\ deleted = {}
  /\ answered = {} /\ answer = [c \in Chunk |-> {}]
  /\ jobs = {} /\ lastJob = 0
  /\ attempt = [j \in JobId |-> 0]
  /\ state = [c \in Chunk |-> "absent"]
  /\ up = TRUE
  /\ wpc = [w \in Worker |-> "idle"] /\ work = [w \in Worker |-> NoChunk]
  /\ ended = [w \in Worker |-> FALSE] /\ edge = [w \in Worker |-> {}]
  /\ rpc = [r \in Request |-> "idle"] /\ todo = [r \in Request |-> {}]
  /\ from = [r \in Request |-> 0]
  /\ accepted = [r \in Request |-> [p \in Pair |-> 0]]
  /\ plan = [r \in Request |-> {}] /\ target = [r \in Request |-> 0]
  /\ faults = 0

(***************************************************************************)
(* JobRunner: a worker claims a chunk and runs execute_chunk on it.        *)
(***************************************************************************)

(* The oldest pending chunk, "ORDER BY job_id, id": the oldest job first,  *)
(* and within one pair newest slot first, the order plan_chunks made.  The *)
(* order of a job's pairs is the request's and is left open.               *)
Oldest(c) ==
  /\ state[c] = "pending"
  /\ \A d \in Chunk : state[d] = "pending" =>
       \/ c.job < d.job
       \/ c.job = d.job /\ (c.pair = d.pair => d.slot <= c.slot)

ClaimPendingChunk(w, c) ==
  /\ up /\ wpc[w] = "idle" /\ Oldest(c)
  /\ state' = [state EXCEPT ![c] = "running"]
  /\ work' = [work EXCEPT ![w] = c]
  /\ Goto(w, "fetch")
  /\ UNCHANGED <<archive, jobs, lastJob, attempt, answer, ended, edge, requests, up, faults>>

(* The answer holds the provider's candles of the window from some candle  *)
(* on: collect pages from the newest back and stops early at a page that   *)
(* falls in a shut market, or when the candle two pages share was counted  *)
(* twice (HistoryPaging), so older ones may be lacking, or all of them.    *)
(* history_ended is only ever said of an answer with candles.              *)
GatewayAnswers(w, e, n) ==
  LET page == NewestOf(CellOf(work[w]), n) IN
  /\ wpc[w] = "fetch"
  /\ e => page # {}
  /\ answer' = [answer EXCEPT ![work[w]] = page]
  /\ ended' = [ended EXCEPT ![w] = e]
  /\ Goto(w, "check")
  /\ UNCHANGED <<archive, queue, work, edge, requests, up, faults>>

GatewayFails(w) ==
  /\ wpc[w] = "fetch"
  /\ Goto(w, "fail")
  /\ UNCHANGED <<archive, queue, work, answer, ended, edge, requests, up, faults>>

FinishChunkFailed(w) ==
  /\ wpc[w] = "fail"
  /\ state' = Mark(work[w], "failed")
  /\ Release(w)
  /\ UNCHANGED <<archive, jobs, lastJob, attempt, answer, requests, up, faults>>

(* The pair may have been deleted while the request was in flight.         *)
CheckTracked(w) ==
  /\ wpc[w] = "check"
  /\ Goto(w, IF work[w].pair \in tracked THEN "write" ELSE "skip")
  /\ UNCHANGED <<archive, queue, work, answer, ended, edge, requests, up, faults>>

FinishChunkSkipped(w) ==
  /\ wpc[w] = "skip"
  /\ state' = Mark(work[w], "skipped")
  /\ Release(w)
  /\ UNCHANGED <<archive, jobs, lastJob, attempt, answer, requests, up, faults>>

(* Mutant: the filter on forming candles is the wrong way round, so no     *)
(* closed candle of the page is stored.                                    *)
WriteFormingOnly(w) ==
  /\ wpc[w] = "write"
  /\ Goto(w, "cover")
  /\ UNCHANGED <<archive, queue, work, answer, ended, edge, requests, up, faults>>

(* commit_candles: the upsert, the coverage and the rollups, three         *)
(* transactions of their own.  An answer without candles is covered too.   *)
WriteCandles(w) ==
  /\ wpc[w] = "write"
  /\ candles' = candles \cup answer[work[w]]
  /\ Goto(w, "cover")
  /\ UNCHANGED <<tracked, collectFrom, covered, bounds, rollups, deleted, answered, queue,
                 work, answer, ended, edge, requests, up, faults>>

RecordCoverage(w) ==
  LET c == work[w] IN
  /\ wpc[w] = "cover"
  /\ covered' = covered \cup {CellOf(c)}
  /\ answered' = answered \cup answer[c]
  /\ bounds' = IF ended[w] THEN bounds \cup {CellOf(c)} ELSE bounds
  /\ edge' = [edge EXCEPT ![w] = RangeBounds(covered', bounds', c.pair, c.slot)]
  /\ Goto(w, "rollup")
  /\ UNCHANGED <<tracked, collectFrom, candles, rollups, deleted, queue,
                 work, answer, ended, requests, up, faults>>

(* The derived periods between the page's first and last candle are        *)
(* rebuilt from the minute candles stored now, not from the ones this      *)
(* write brought.                                                          *)
RefreshRollups(w) ==
  LET span == SpanOf(answer[work[w]]) IN
  /\ wpc[w] = "rollup"
  /\ rollups' = IF work[w].pair \in Minute
                THEN (rollups \ span) \cup (candles \cap span)
                ELSE rollups
  /\ Goto(w, "finish")
  /\ UNCHANGED <<tracked, collectFrom, candles, covered, bounds, deleted, answered, queue,
                 work, answer, ended, edge, requests, up, faults>>

FinishChunkDone(w) ==
  /\ wpc[w] = "finish"
  /\ state' = Mark(work[w], "done")
  /\ IF edge[w] = {} THEN Release(w)
                     ELSE Goto(w, "sweep") /\ UNCHANGED <<work, ended, edge>>
  /\ UNCHANGED <<archive, jobs, lastJob, attempt, answer, requests, up, faults>>

(* Every pending chunk of the same job and pair that ends at or before the *)
(* oldest boundary of the merged range.                                    *)
BeyondHistory(w, c) ==
  /\ c.job = work[w].job /\ c.pair = work[w].pair
  /\ state[c] = "pending"
  /\ \A b \in edge[w] : c.slot < b

SkipChunksBeyondHistory(w) ==
  /\ wpc[w] = "sweep"
  /\ state' = [c \in Chunk |-> IF BeyondHistory(w, c) THEN "skipped" ELSE state[c]]
  /\ Release(w)
  /\ UNCHANGED <<archive, jobs, lastJob, attempt, answer, requests, up, faults>>

(* Mutant: what execute_chunk raises ends the worker's loop.               *)
StatementKillsWorker(w) ==
  /\ faults < MaxFault /\ faults' = faults + 1
  /\ wpc[w] \in {"fail", "check", "skip", "write", "cover", "rollup", "finish", "sweep"}
  /\ Goto(w, "dead")
  /\ UNCHANGED <<archive, queue, work, answer, ended, edge, requests, up>>

(* A statement of execute_chunk raises, having changed nothing: the worker *)
(* settles the chunk as failed, and that write may fail too.               *)
StatementFails(w) ==
  /\ faults < MaxFault /\ faults' = faults + 1
  /\ wpc[w] \in {"fail", "check", "skip", "write", "cover", "rollup", "finish", "sweep"}
  /\ Goto(w, "orphan")
  /\ UNCHANGED <<archive, queue, work, answer, ended, edge, requests, up>>

FailOrphan(w) ==
  /\ wpc[w] = "orphan"
  /\ state' = Mark(work[w], "failed")
  /\ Release(w)
  /\ UNCHANGED <<archive, jobs, lastJob, attempt, answer, requests, up, faults>>

FailOrphanFails(w) ==
  /\ wpc[w] = "orphan"
  /\ faults < MaxFault /\ faults' = faults + 1
  /\ Release(w)
  /\ UNCHANGED <<archive, queue, answer, requests, up>>

(***************************************************************************)
(* POST /pairs                                                             *)
(***************************************************************************)
TrackPairs(r, P, f) ==
  /\ up /\ rpc[r] = "idle" /\ P # {} /\ lastJob < MaxJob
  /\ rpc' = [rpc EXCEPT ![r] = "add"]
  /\ todo' = [todo EXCEPT ![r] = P]
  /\ from' = [from EXCEPT ![r] = f]
  /\ UNCHANGED <<archive, queue, workers, accepted, plan, target, up, faults>>

(* add_pair on one pair of the body: the gateway may refuse it, the        *)
(* ceiling may be reached, or the pair is tracked and its collect_from     *)
(* pulled earlier, never later.                                            *)
AddPair(r, p) ==
  LET reach == IF from[r] = 0 THEN DefaultFrom ELSE from[r]
      least == IF collectFrom[p] < reach THEN collectFrom[p] ELSE reach
  IN
  /\ rpc[r] = "add" /\ p \in todo[r]
  /\ p \in tracked \/ Cardinality(tracked) < MaxTracked
  /\ tracked' = tracked \cup {p}
  /\ collectFrom' = [collectFrom EXCEPT ![p] = least]
  /\ accepted' = [accepted EXCEPT ![r][p] = least]
  /\ todo' = [todo EXCEPT ![r] = @ \ {p}]
  /\ UNCHANGED <<candles, covered, bounds, rollups, deleted, answered, queue, workers,
                 rpc, from, plan, target, up, faults>>

RefusePair(r, p) ==
  /\ rpc[r] = "add" /\ p \in todo[r]
  /\ todo' = [todo EXCEPT ![r] = @ \ {p}]
  /\ UNCHANGED <<archive, queue, workers, rpc, from, accepted, plan, target, up, faults>>

AcceptedPairs(r) == {p \in Pair : accepted[r][p] # 0}

(* Every pair visited: nothing accepted is an error answer, otherwise the  *)
(* ingest is synchronised and planning begins.                             *)
SyncIngest(r) ==
  /\ rpc[r] = "add" /\ todo[r] = {}
  /\ IF AcceptedPairs(r) = {}
     THEN Reply(r)
     ELSE /\ rpc' = [rpc EXCEPT ![r] = "plan"]
          /\ todo' = [todo EXCEPT ![r] = AcceptedPairs(r)]
          /\ UNCHANGED <<from, accepted, plan, target>>
  /\ UNCHANGED <<archive, queue, workers, up, faults>>

(* A request deeper than the boundary found in some row drops the pair's   *)
(* boundaries; then one chunk per slot the archive has never looked at.    *)
PlanPair(r, p) ==
  /\ rpc[r] = "plan" /\ p \in todo[r]
  /\ \/ /\ from[r] # 0
        /\ \E b \in EarliestReachable(p) : from[r] < b
        /\ bounds' = {cell \in bounds : cell[1] # p}
     \/ /\ \/ from[r] = 0
           \/ EarliestReachable(p) = {}
           \/ \E b \in EarliestReachable(p) : b <= from[r]
        /\ bounds' = bounds
  /\ plan' = [plan EXCEPT ![r] = @ \cup UncoveredWithin(p, accepted[r][p])]
  /\ todo' = [todo EXCEPT ![r] = @ \ {p}]
  /\ UNCHANGED <<tracked, collectFrom, candles, covered, rollups, deleted, answered, queue,
                 workers, rpc, from, accepted, target, up, faults>>

CreateJob(r) ==
  LET j == lastJob + 1 IN
  /\ rpc[r] = "plan" /\ todo[r] = {}
  /\ lastJob < MaxJob
  /\ lastJob' = j
  /\ jobs' = jobs \cup {j}
  /\ attempt' = [attempt EXCEPT ![j] = 1]
  /\ state' = [c \in Chunk |-> IF c.job = j /\ CellOf(c) \in plan[r]
                               THEN "pending" ELSE state[c]]
  /\ Reply(r)
  /\ UNCHANGED <<archive, workers, up, faults>>

(***************************************************************************)
(* DELETE /pairs/{symbol}: two transactions with the ingest's              *)
(* synchronisation between them.  A pair not tracked is refused.           *)
(***************************************************************************)
CloseForDeletion(r, p) ==
  /\ up /\ rpc[r] = "idle" /\ p \in tracked
  /\ tracked' = tracked \ {p}
  /\ state' = [c \in Chunk |-> IF c.pair = p /\ state[c] = "pending"
                               THEN "skipped" ELSE state[c]]
  /\ rpc' = [rpc EXCEPT ![r] = "erase"]
  /\ todo' = [todo EXCEPT ![r] = {p}]
  /\ UNCHANGED <<collectFrom, candles, covered, bounds, rollups, deleted, answered,
                 jobs, lastJob, attempt, workers, from, accepted, plan, target, up, faults>>

DeletePairData(r, p) ==
  /\ rpc[r] = "erase" /\ p \in todo[r]
  /\ candles' = {m \in candles : m[1] # p}
  /\ answered' = {m \in answered : m[1] # p}
  /\ covered' = {cell \in covered : cell[1] # p}
  /\ bounds'  = {cell \in bounds : cell[1] # p}
  /\ rollups' = IF p \in Minute THEN {m \in rollups : m[1] # p} ELSE rollups
  /\ deleted' = deleted \cup {p}
  /\ Reply(r)
  /\ UNCHANGED <<tracked, collectFrom, queue, workers, up, faults>>

(***************************************************************************)
(* POST /jobs/{job_id}/retry and DELETE /jobs/{job_id}                     *)
(***************************************************************************)

(* The first read: an unknown job, or one with nothing to retry, is        *)
(* refused.                                                                *)
RetryJob(r, j) ==
  /\ up /\ rpc[r] = "idle"
  /\ j \in jobs /\ StatesOf(j) \cap RetryableStates # {}
  /\ rpc' = [rpc EXCEPT ![r] = "retry"]
  /\ target' = [target EXCEPT ![r] = j]
  /\ UNCHANGED <<archive, queue, workers, todo, from, accepted, plan, up, faults>>

(* Mutant: a retry resets what is open as well.                            *)
ResetUnsettledChunks(r) ==
  LET j == target[r] IN
  /\ rpc[r] = "retry" /\ j \in jobs
  /\ attempt[j] < MaxAttempt
  /\ attempt' = [attempt EXCEPT ![j] = @ + 1]
  /\ state' = [c \in Chunk |-> IF c.job = j /\ state[c] \in RetryableStates \cup OpenStates
                               THEN "pending" ELSE state[c]]
  /\ rpc' = [rpc EXCEPT ![r] = "reread"]
  /\ UNCHANGED <<archive, jobs, lastJob, workers, todo, from, accepted, plan, target, up, faults>>

(* The transaction: the attempt is bumped, whatever is retryable by now is *)
(* reset.                                                                  *)
ResetRetryableChunks(r) ==
  LET j == target[r] IN
  /\ rpc[r] = "retry" /\ j \in jobs
  /\ attempt[j] < MaxAttempt
  /\ attempt' = [attempt EXCEPT ![j] = @ + 1]
  /\ state' = [c \in Chunk |-> IF c.job = j /\ state[c] \in RetryableStates
                               THEN "pending" ELSE state[c]]
  /\ rpc' = [rpc EXCEPT ![r] = "reread"]
  /\ UNCHANGED <<archive, jobs, lastJob, workers, todo, from, accepted, plan, target, up, faults>>

(* The job is gone by the time of the transaction: fetch_one raises.       *)
RetryFindsNoJob(r) ==
  /\ rpc[r] = "retry" /\ target[r] \notin jobs
  /\ Reply(r)
  /\ UNCHANGED <<archive, queue, workers, up, faults>>

(* The second read, which the answer is made of.                           *)
RereadJob(r) ==
  /\ rpc[r] = "reread"
  /\ Reply(r)
  /\ UNCHANGED <<archive, queue, workers, up, faults>>

(* One transaction over the locked rows; refused while a chunk is open.    *)
DeleteJob(r, j) ==
  /\ up /\ rpc[r] = "idle"
  /\ j \in jobs /\ StatesOf(j) \cap OpenStates = {}
  /\ state' = [c \in Chunk |-> IF c.job = j THEN "absent" ELSE state[c]]
  /\ jobs' = jobs \ {j}
  /\ answer' = [c \in Chunk |-> IF c.job = j THEN {} ELSE answer[c]]
  /\ UNCHANGED <<archive, lastJob, attempt, wpc, work, ended, edge, requests, up, faults>>

(* A statement of a handler raises, the gateway cannot be reached while a  *)
(* pair is being added, or the caller goes away.                           *)
RequestFails(r) ==
  /\ rpc[r] # "idle"
  /\ faults < MaxFault /\ faults' = faults + 1
  /\ Reply(r)
  /\ UNCHANGED <<archive, queue, workers, up>>

(***************************************************************************)
(* The process stops, in the middle of anything, and starts again.         *)
(***************************************************************************)
Stop ==
  /\ up /\ faults < MaxFault /\ faults' = faults + 1
  /\ up' = FALSE
  /\ wpc' = [w \in Worker |-> "idle"] /\ work' = [w \in Worker |-> NoChunk]
  /\ ended' = [w \in Worker |-> FALSE] /\ edge' = [w \in Worker |-> {}]
  /\ rpc' = [r \in Request |-> "idle"] /\ todo' = [r \in Request |-> {}]
  /\ from' = [r \in Request |-> 0]
  /\ accepted' = [r \in Request |-> [p \in Pair |-> 0]]
  /\ plan' = [r \in Request |-> {}] /\ target' = [r \in Request |-> 0]
  /\ UNCHANGED <<archive, queue, answer>>

(* Before anything else touches the job tables.                            *)
InterruptOrphanedChunks ==
  /\ ~up /\ up' = TRUE
  /\ state' = [c \in Chunk |-> IF state[c] \in OpenStates THEN "interrupted" ELSE state[c]]
  /\ UNCHANGED <<archive, jobs, lastJob, attempt, workers, requests, faults>>

-----------------------------------------------------------------------------
WorkerStep(w) ==
  \/ \E c \in Chunk : ClaimPendingChunk(w, c)
  \/ \E e \in BOOLEAN, n \in 1..(PerSlot + 1) : GatewayAnswers(w, e, n)
  \/ GatewayFails(w)
  \/ FinishChunkFailed(w)
  \/ CheckTracked(w)
  \/ FinishChunkSkipped(w)
  \/ WriteCandles(w)
  \/ RecordCoverage(w)
  \/ RefreshRollups(w)
  \/ FinishChunkDone(w)
  \/ SkipChunksBeyondHistory(w)
  \/ FailOrphan(w)

WorkerFault(w) == StatementFails(w) \/ FailOrphanFails(w)

RequestStep(r) ==
  \/ \E P \in SUBSET Pair, f \in Slot \cup {0} : TrackPairs(r, P, f)
  \/ \E p \in Pair : AddPair(r, p)
  \/ \E p \in Pair : RefusePair(r, p)
  \/ SyncIngest(r)
  \/ \E p \in Pair : PlanPair(r, p)
  \/ CreateJob(r)
  \/ \E p \in Pair : CloseForDeletion(r, p)
  \/ \E p \in Pair : DeletePairData(r, p)
  \/ \E j \in JobId : RetryJob(r, j)
  \/ ResetRetryableChunks(r)
  \/ RetryFindsNoJob(r)
  \/ RereadJob(r)
  \/ \E j \in JobId : DeleteJob(r, j)

Next ==
  \/ \E w \in Worker : WorkerStep(w) \/ WorkerFault(w)
  \/ \E r \in Request : RequestStep(r) \/ RequestFails(r)
  \/ Stop
  \/ InterruptOrphanedChunks

Spec == Init /\ [][Next]_vars

(* A worker task keeps taking and running chunks: its loop survives every  *)
(* failure, an idle one polls every five seconds, and the gateway client   *)
(* has a timeout.  Nothing is assumed of the operators' requests.          *)
Fairness ==
  /\ \A w \in Worker : WF_vars(WorkerStep(w))
  /\ WF_vars(InterruptOrphanedChunks)

FairSpec == Spec /\ Fairness

-----------------------------------------------------------------------------
Executing == {"fetch", "fail", "check", "skip", "write", "cover", "rollup", "finish"}

ArchiveType ==
  /\ tracked \subseteq Pair /\ deleted \subseteq Pair
  /\ collectFrom \in [Pair -> 1..(Depth + 1)]
  /\ candles \subseteq Market /\ rollups \subseteq Market /\ answered \subseteq Market
  /\ covered \subseteq Cell /\ bounds \subseteq Cell

QueueType ==
  /\ jobs \subseteq JobId /\ lastJob \in 0..MaxJob
  /\ attempt \in [JobId -> 0..MaxAttempt]
  /\ state \in [Chunk -> ChunkStates \cup {"absent"}]

WorkersType ==
  /\ wpc \in [Worker -> Executing \cup {"idle", "sweep", "orphan"}]
  /\ work \in [Worker -> Chunk \cup {NoChunk}]
  /\ answer \in [Chunk -> SUBSET Market]
  /\ \A c \in Chunk : answer[c] \subseteq NewestOf(CellOf(c), 1)
  /\ ended \in [Worker -> BOOLEAN] /\ edge \in [Worker -> SUBSET Slot]
  /\ \A w \in Worker : work[w] = NoChunk <=> wpc[w] = "idle"

RequestsType ==
  /\ rpc \in [Request -> {"idle", "add", "plan", "erase", "retry", "reread"}]
  /\ todo \in [Request -> SUBSET Pair]
  /\ from \in [Request -> 0..Depth]
  /\ accepted \in [Request -> [Pair -> 0..Depth]]
  /\ plan \in [Request -> SUBSET Cell]
  /\ target \in [Request -> 0..MaxJob]

TypeOK ==
  /\ ArchiveType /\ QueueType /\ WorkersType /\ RequestsType
  /\ up \in BOOLEAN /\ faults \in 0..MaxFault

(* A worker executing a chunk holds it alone and the chunk stays 'running' *)
(* under it: no retry, pair deletion, job deletion or bulk skip takes it   *)
(* away, although every finish_chunk_* writes by id and checks no state.   *)
ClaimIsExclusive ==
  \A w \in Worker :
    wpc[w] \in Executing =>
      /\ state[work[w]] = "running"
      /\ work[w].job \in jobs
      /\ \A v \in Worker \ {w} : work[v] # work[w]

(* Coverage tells planning what is already fetched and is never fetched    *)
(* again, so a candle lacks from a covered slot only when no answer        *)
(* recorded there held it: no crash, failed statement, retry or second     *)
(* worker loses one that the gateway gave.  (An answer may lack candles    *)
(* the provider holds, and is recorded as coverage all the same; that is   *)
(* HistoryPaging's CoveredIsLookedAt.)  Stated of the pairs whose data was *)
(* never deleted.                                                          *)
CoverageIsBacked ==
  \A m \in Market :
    <<m[1], m[2]>> \in covered /\ m[1] \notin deleted /\ m \notin candles => m \notin answered

Stored(c)    == answer[c] \subseteq candles
RolledUp(c)  == c.pair \in Minute => answer[c] \subseteq rollups
Collected(c) == CellOf(c) \in covered /\ Stored(c) /\ RolledUp(c)

(* What the history tab says of a job is true, up to what the gateway told *)
(* it: a job that succeeded has covered every window that was not skipped, *)
(* and stored and rolled up all that the chunk was answered with (unless   *)
(* the pair was deleted since), and a job that is not running has no       *)
(* worker executing a chunk of it.  An empty or short answer is a success  *)
(* like any other: 'succeeded' says nothing of the candles it lacked.      *)
StatusIsHonest ==
  \A j \in jobs :
    LET status == derive_status(StatesOf(j)) IN
    /\ status = "succeeded" =>
         \A c \in ChunksOf(j) :
           state[c] = "skipped" \/ c.pair \in deleted \/ Collected(c)
    /\ status # "running" =>
         \A w \in Worker : wpc[w] \in Executing => work[w].job # j

(* A settled chunk is never worked again: it leaves 'done' or 'skipped'    *)
(* only with its job, or when the worker that finished it fails to sweep   *)
(* behind it and reports the chunk as failed.                              *)
SettledStays ==
  \A c \in Chunk :
    state[c] \in SettledStates /\ state'[c] # state[c] =>
      \/ state'[c] = "absent"
      \/ state'[c] = "failed" /\ \E w \in Worker : wpc[w] = "orphan" /\ work[w] = c

SettledIsFinal == [][SettledStays]_vars

(* What is covered of a pair behaves as CoverageSet says: whatever is      *)
(* claimed, retried, interrupted or planned, a step adds a stretch that    *)
(* was looked at, or a deletion forgets, and nothing else touches it.      *)
CoveredOf(p) == {s \in Slot : <<p, s>> \in covered}
Looks(p) == INSTANCE CoverageSet WITH Horizon <- Depth, covered <- CoveredOf(p)
OnlyLooks == [][\A p \in Pair : Looks(p)!Next \/ UNCHANGED CoveredOf(p)]_vars

(* A chunk is running in the table but in no worker's hands: recording its *)
(* failure failed too.                                                     *)
Stranded(c) == state[c] = "running" /\ \A w \in Worker : work[w] # c

(* Every open chunk is settled in the end, so a job does not look forever  *)
(* running, except for a chunk whose failure could not be recorded, which  *)
(* is left for the next start.                                             *)
ChunksSettle ==
  \A c \in Chunk : state[c] \in OpenStates ~> state[c] \notin OpenStates \/ Stranded(c)

(***************************************************************************)
(* What the invariants above rest on, step by step (the inductive          *)
(* invariants of CollectionJobsProofs).                                    *)
(***************************************************************************)

(* Where a worker is tells the state of the chunk it claimed.  A worker    *)
(* sweeping behind its chunk has settled it, and the job may be gone by    *)
(* then; one about to record a failure may come from either side.          *)
PlaceTellsState(w) ==
  /\ wpc[w] \in Executing => state[work[w]] = "running"
  /\ wpc[w] = "sweep" => state[work[w]] \in {"done", "absent"}
  /\ wpc[w] = "orphan" => state[work[w]] \in {"running", "done", "absent"}

ClaimsDiffer ==
  \A w, v \in Worker : work[w] = work[v] /\ w # v => work[w] = NoChunk

ChunksHaveJobs ==
  /\ \A c \in Chunk : state[c] # "absent" => c.job \in jobs
  /\ \A j \in jobs : j <= lastJob
  /\ \A w \in Worker : wpc[w] # "idle" => work[w].job <= lastJob

HeldInv ==
  /\ \A w \in Worker : PlaceTellsState(w)
  /\ ClaimsDiffer /\ ChunksHaveJobs
  /\ ~up => \A w \in Worker : wpc[w] = "idle"

(* How far commit_candles got for the chunk in hand, unless the pair's     *)
(* data was deleted meanwhile.                                             *)
CommitProgress ==
  \A w \in Worker :
    work[w] # NoChunk /\ work[w].pair \notin deleted =>
      /\ wpc[w] \in {"cover", "rollup", "finish"} => Stored(work[w])
      /\ wpc[w] \in {"rollup", "finish"} => CellOf(work[w]) \in covered
      /\ wpc[w] = "finish" => RolledUp(work[w])

DoneIsCollected ==
  \A c \in Chunk : state[c] = "done" /\ c.pair \notin deleted => Collected(c)

(* What was recorded as answered is stored and covered, and a derived      *)
(* candle is built of stored ones.                                         *)
AnsweredIsStored ==
  /\ \A m \in answered : m[1] \notin deleted => m \in candles
  /\ \A m \in rollups : m[1] \notin deleted => m \in candles

CommitInv == CommitProgress /\ DoneIsCollected /\ AnsweredIsStored

(***************************************************************************)
(* Statements of the repository the code does not keep.                    *)
(***************************************************************************)

(* "Coverage and candles must disappear together": the statement of        *)
(* CoverageIsBacked for every pair, deleted ones included.                 *)
CoverageNeverOutlivesCandles ==
  \A m \in Market : <<m[1], m[2]>> \in covered => m \in candles \/ m \notin answered

(* A chunk of a tracked pair is skipped in bulk only by a boundary that a  *)
(* chunk of the same job found, not by one remembered from an earlier job. *)
SkipFollowsThisJobsBoundary ==
  [][\A c \in Chunk :
       state[c] = "pending" /\ state'[c] = "skipped" /\ c.pair \in tracked' =>
         \E w \in Worker, d \in ChunksOf(c.job) :
           /\ wpc[w] = "sweep" /\ work[w].job = c.job
           /\ d.pair = c.pair /\ d.slot \in edge[w] /\ state[d] = "done"]_vars

=============================================================================

# TradingCenter: a verification project

TLA+ models of the parts of TradingCenter whose correctness depends on order:
who writes what when, what a failure between two writes leaves behind, and what
a task may still believe after an `await`. TLC checks the models on small
instances, TLAPS proves the most important invariants for all of them.

Paths are relative to the repository. `MD` stands for
`modules/workbench/market_data`, `GW` for `modules/capital-gateway/capital_gateway`.

## 1. The system

Four Python processes and two browser front ends. Everything Python is asyncio
in one thread, so the interleavings that matter are the ones at an `await`;
PostgreSQL is used at READ COMMITTED, so the ones between two statements matter
as well.

| process | what it is |
| --- | --- |
| `capital-gateway` | the only door to capital.com: sessions, history, the price stream, orders |
| `trading-mcp` | tools that move the account, through the gateway |
| `workbench` | ten packages in one process: the candle archive (`market_data`), agent, teams, alerts, strategies, and the polymarket, social, YouTube and Telegram packages |
| `claude-agent` | a container around an external agent |
| `terminal`, `pocket` | browser front ends |

### Inventory

| component | state | operations | interacts with | what makes it correct |
| --- | --- | --- | --- | --- |
| Collection jobs and the archive (`MD/jobs`, `store`, `coverage`, `rollups`, `tracking`, `deletion`) | tables: tracked pairs, candles, coverage ranges, rollups, jobs, chunks, deletions | POST and DELETE /pairs, retry and delete a job, claim and execute a chunk, skip, release orphans at start | gateway history, ingest (`sync`, shared tables and fill limiter) | a chunk is worked by one worker; coverage never claims a candle that is not there; its rows never overlap or lose a stretch; a job's status is true; a job ends |
| Ingest supervision (`MD/ingest/supervisor.py`) | one task per pair, revivals, the lock, the reconcile timer | start, sync, callback of a task's end, revive, stop | tracked pairs, handlers of /pairs, pair tasks | a pair is collected once, and again after any failure; quiet when it is erased; stop stops |
| Pair ingest (`MD/ingest/live.py`, `backfill.py`) | newest candle held, the subscription | fill the gap, listen, store a closed candle | gateway history and stream, archive, the contract layer's hub | no holes; coverage is what was looked at |
| Session with capital.com (`GW/client.py`, `pool.py`) | tokens, the login under way, the account | request, login, put the session back, switch the account | capital.com, every caller of the gateway | an order lands on the account it names, once; one login serves all |
| Rate gate (`GW/rategate.py`) | times of the last requests | acquire | every request | never more than the limit in a window |
| Gateway streaming (`GW/stream`) | rooms, subscribers, one provider connection each, the forming candle | subscribe, unsubscribe, reconnect, seal a candle | capital.com, pair ingest, front ends | a subscriber is in a live room; only a sealed candle is settled; a boundary is found |
| History paging (`GW/history.py`) | none (one call) | collect pages backwards | jobs, fills | complete, unique, ordered; the end of history is not confused with a closed market |
| Publication (`MD/hub.py`) | rooms, forming candle | publish, subscribe, unsubscribe | pair ingest, front ends | a snapshot and the changes after it lose and repeat nothing |
| Teams (`teams/runner`, `teams/scheduler`) | runs, steps, trades, schedules, triggers, fires, failure streaks | run agents under ceilings, send orders, interrupt, restart; tick, claim, fire, follow the run | trading tools, agent models, viewers of a run | every order is on record; ceilings hold; a run ends; no two runs of one source; every fire is accounted for |
| Alerts (`alerts`) | rules, events, fires, leases, parts sent, throttle notices | evaluate, publish, claim, deliver, retry, give up; write, switch and delete a rule | market data, data packages, Telegram gateway | told whole; twice only after a fault; a once rule tells once and is not mute; a fire settles |
| Strategies (`strategies`) | runs, worker processes, waiters; the engine's book | claim, compute, cancel, time out, finish, delete; the walk over minutes | archive, agent | a run ends in one state, with trades exactly if it is done; the day's stop holds; no unexplained loss |
| YouTube archive (`youtube_data`) | films and their states, the day's usage, the meter, alerts not yet handed on | the loop's pass, a film named by hand, a reading ordered by hand | transcriber, judge, alerts | the day's ceilings hold; a film comes to an end of its road |
| Polymarket, social, Telegram | archives and bindings | periodic collection, bots | outside services | idempotent inserts |
| Agent, teams tools, trading-mcp, front ends, packages, deployment | conversations, or none | | | |

What is hard: two tables written in separate transactions, with a deletion
between them; a task that dies in the outage its revival then meets; a
cancellation that arrives inside another task's wait; a gap measured before a
wait and asked for after it; a session whose account is state at the provider,
with several callers and a login they share; ceilings asked before an await and
counted after it; a message told in parts over a door that may not answer; a
read-then-write of rows under a lock that not every writer takes; a walk over
prices in which several levels are met in one minute. `PROJECT.json` lists these
hazards line by line with the properties that cover them.

## 2. The plan

Done, in the order of importance:

1. `CollectionJobs`; `CoverageRows`, the same archive's coverage as rows. Both
   implement `CoverageSet`.
2. `IngestSupervisor` and `PairIngest`: the two levels of live collection. The
   supervisor's place "collect" is what `PairIngest` models.
3. `GatewaySession`; `RateGate`.
4. `GatewayStream` and `MarketRooms`: the gateway's hub and the contract layer's.
5. `TeamRuns`, which implements `RunLifecycle`; `TeamClock`, whose runs move as
   `RunLifecycle` lets them.
6. `Alerts`, `StrategyRuns`, `FilmRoad`.
7. `BacktestEngine` and `HistoryPaging`: two computations, as machines.
8. Proofs of every safety property the runs check in them, of what rows may ever do next,
   and of the refinements (section 5).

Left:

1. `ChunkPlan`: `uncovered_within` and `split_into_windows` of `MD/jobs/plan.py` on
   the rows of `CoverageRows`.
2. The default session of the gateway with `switch_account`.
3. `AgentTurns`: the one-turn-at-a-time rule of a conversation and what a broken
   turn leaves in it.

## 3. The modules

Operators marked "Mutant" in a comment are plausible mistakes, which the
properties are tried against; no specification uses them. A module's `MC` module has
the definitions its configuration needs; `MCSideBySide` has six modules in one run.
Proofs are in modules of their own:

| proofs | of |
| --- | --- |
| `CollectionJobsProofs`, `IngestSupervisorProofs`, `TeamRunsProofs`, `AlertsProofs`, `StrategyRunsProofs` | the module of that name |
| `GatewaySessionProofs` | `GatewaySession` and `GatewayStream` |
| `TeamClockProofs` | `TeamClock` and `FilmRoad` |
| `SideBySideProofs` | the six of `MCSideBySide`, about the very definitions its run checks |

### CollectionJobs

State: `tracked`, `collectFrom`, `candles`, `covered`, `bounds`, `rollups`, `deleted`
are the archive's tables; `jobs`, `lastJob`, `attempt`, `state` the queue's; `wpc` is
where each `JobRunner` worker is in `execute_chunk`, `work` the chunk it claimed;
`rpc` where each request is in its handler, with the locals it carries from one
transaction to the next.

| actions | code |
| --- | --- |
| `ClaimPendingChunk` | `claim_pending_chunk` (one statement with SKIP LOCKED) |
| `GatewayAnswers`, `GatewayFails` | the history read, which returns data only |
| `CheckTracked`, `FinishChunkSkipped` | the tracked check before the writes |
| `WriteCandles`, `RecordCoverage`, `RefreshRollups` | the three transactions of `commit_candles` |
| `FinishChunkDone`, `SkipChunksBeyondHistory` | the end of a chunk and the sweep behind it |
| `StatementFails`, `FailOrphan`, `FailOrphanFails` | the worker loop's handler and its own failure |
| `TrackPairs`, `AddPair`, `RefusePair`, `SyncIngest`, `PlanPair`, `CreateJob` | POST /pairs |
| `CloseForDeletion`, `DeletePairData` | DELETE /pairs |
| `RetryJob`, `ResetRetryableChunks`, `RereadJob`, `DeleteJob` | the jobs' handlers |
| `RequestFails`, `Stop`, `InterruptOrphanedChunks` | lost requests, crash or shutdown, start |

A slot holds up to `PerSlot` candles, and what the gateway answers a chunk with is the slot's
candles from some candle on (`NewestOf`): all of them, none, or anything between, as `collect` may
stop at a page in a shut market or count a shared candle twice. `answer` is what each chunk was last
answered with, `answered` the candles of all answers recorded as coverage. The two properties about coverage
and status are relative to it: what the gateway gave is not lost, what it did not give is
`CoveredIsLookedAt`'s matter.

Abstractions: windows are aligned to slots, so
the arithmetic of windows is not here; the coverage of a pair is the set of its
covered slots, whose maximal runs are the rows (`CoverageRows` has the rows), and `OnlyLooks`
says that it changes as `CoverageSet` lets it; the order in which
workers take chunks of different pairs is left open. An ambiguous commit (the server
committed, the client was told it failed) is not modelled, nor are the different
snapshots the statements of one deletion see.

### IngestSupervisor

State: `tracked`; `tasks` is `self._tasks`; `place` is where each task is in `run()`, or
the revival that follows its death (a revival keeps the identity of the task it
replaces); `cancelled` the tasks told to end; `spc` where each caller of `sync()` is - the lifespan,
the timer, each request - with `holder` for the lock and `wanted`, `extra`,
`awaited` for the pass's locals; `erasing` and `again` are what a DELETE is about and
whether its pair was tracked again meanwhile.

Actions are the awaits of `run` (`Check`, `FeedEnds`, `Recheck`, `Retry`,
`TrackedReadFails`, `EndCancelled`), the callback `PairEnded`, `_revive`
(`ReviveReads`, `ReviveReadFails`, `ReviveStarts`), `sync` (`AcquireSync`, `ReadTracked`,
`ReadTrackedFails`, `Match`, `PairStopped`, with `StopPairs` for the loop of
`_stop_pair`), the timer's `Tick`, the handlers, and `stop` in two steps.

Abstractions: sleeps end at any time; a POST tracks one pair; a task identity is
held until its callback has run, and a pass waits for a free one, which only delays.

### PairIngest

Time is counted in the pair's periods. `source` and `covered` are the archive's rows,
`pc` where the task is, `moment`, `bars`, `page` the locals of `fill_gap`; `link`, `feed` and
`inbox` are the socket to the gateway, the state of the gateway's room and what it has sent.
`heard` and `excuse` are history variables: how far the last fill looked, and why a
candle may have been missed.

`MeasureGap`, `Answer`, `AnswerFails`, `CommitPage` are `fill_gap`; `Subscribe`,
`SubscribeFails`, `HearCandle`, `HearFailure`, `ListenEnds` are `_listen`; `Interrupted` is
anything raised, cancelled or killed. `PeriodCloses`, `FeedBreaks`, `FeedConnects` and
`SocketDies` are the surroundings: a candle goes to who listens unless the room has lost
the provider, whose loss is reported as an error only if the session raised.
`CommitPage` is one step, as `CollectionJobs` has what can come between.
`Answer` is the gateway's read: its first page has no edges and holds the newest candles there are; of what does
not fit it (`PageMax`), any of the oldest may be lacking, since a later page is a window of the clock and may fall
into a shut market. A fill that came back so is excused as "paged".
`FallsShort` is a fill that asks for less than there is behind: a gap deeper than one
request, or a first fill smaller than what live candles have already reached.

### GatewaySession

One `CapitalClient` of the pool, made for one account. `tokens` is the session it holds,
`login` where `_login_inflight` is, `at`, `headers` and `answer` where each request is;
`opened`, `alive` and `home` are the provider's sessions, the ones it accepts and the ones
that stand on the account. `renewed`, `placed` and `astray` record which requests waited
for a login that restored the session, how often each was carried out, and which were
carried out on another account.

`SendRequest`, `ProviderReceives`, `Answered`, `ConnectionFails` are `request`; `LoginOpens`, `LoginRefused`,
`LoginUnanswered` are `_login`; `PutBackTaken`, `PutBackLimited`, `PutBackRefused`,
`PutBackUnanswered` are `_restore_account`. When the shared task ends its waiters read the
tokens and send in the same step: the event loop runs them before any network answer
could change the tokens. The gates only delay and are left out, as is `switch_account`,
which is never called on a session of the pool.

### CoverageRows and CoverageSet

`rows` is the table `coverage_ranges` of one pair, a row from, to and, where the provider's
history was found to begin, `ends`. A writer (`record_coverage`) is a transaction of
two statements: `ReadNeighbours` takes the advisory lock of the pair and reads and
locks the rows its stretch touches, `Replace` deletes those and puts back their union
with the earliest boundary; `RollBack` is a failure between them. `Begin` and then
`DeleteAll` or `ClearBoundary` are the two writers without the advisory lock: a statement
sees what was committed when it began, waits for locked rows and passes over rows that
are gone by then, as PostgreSQL does at READ COMMITTED. A deadlock the server breaks is
`RollBack`. Moments are integers.

`CoverageSet` is what planning reads: the set of moments looked at. A `Look` adds a
stretch and forgets nothing, only `Forget` empties. The refinement maps `rows` to the
moments some row covers; `ImplementsLooks` is the abstract specification as a property. It
does not say that nothing comes after a deletion: a record that waited for the deleted
rows is an ordinary look.

### RateGate

`now` is the monotonic clock, `times` the gate's list, `at` where each caller is (away, waiting
for the lock, looking, asleep with the lock held). `Grant` and `Sleep` are the two ends of a
look at the list, after dropping the times as old as the window; `Wake` looks again;
`Cancelled` leaves in the queue or in the sleep. `granted` records every slot ever given.

### GatewayStream

The hub of one instrument at one resolution, with every `Room` it ever made (a number),
the room in `_rooms`, each client's handler and its room. `SubscribeFirst` makes a room and, in
a daily stream, waits for the boundary before it enters the room; `SubscribeJoin` enters
one and is handed the settled candle; `Unsubscribe` and `SendFails` leave; the last one out
stops the room. `BoundaryTick`, `RetryDue`, `BoundaryAnswered`, `BoundaryUnknown` are the
timer and the provider's answer; `Connect`, `Drop`, `Quote`, `Sealed` the connection and
the candle it forms. A candle is its period and who made it (the quote, the timer or the
provider). Prices, delays, the ping and the pacing of reconnections are left out.

### MarketRooms

The contract layer's hub for one pair: rooms made and forgotten, each with a lock that is
a queue, served first come first served as `asyncio.Lock` is. `Publish` takes the room
and its lock, `Store` upserts the candle while the room is held, `SendToAll` sends and releases;
`StoreFails` is any of the three transactions of `commit_candles` failing, before the upsert is committed or after
it, when the candle is archived and never sent; `SendToAll` may reach some of the subscribers only. `Fill` is a gap fill or a
collection job, which archive with no room held and publish nothing. `silent` is what was archived
in one of these ways and not published since. Left out: the deletion of the pair's candles, and giving up while
queued for a lock;
`Subscribe` takes its room before it waits for the lock, `ReadSettled` and `Attach` are the
snapshot and the entry, `Leave` and `Unsubscribe` the way out, after which an empty room is
forgotten. `split` records that a room was forgotten while somebody waited for it.

### TeamRuns and RunLifecycle

One run of a team: `task` is where `execute_run` is, `at` where each agent is in its step,
`spent` and `placed` the shared guards, `rows` and `reached` the trades on record and the
orders the account took (external), `viewer` a reader of /events. An agent decides
(`ReadsOnly`, or an order: `OrderAllowed`, `RecordTrade`, `SendOrder`, `OrderAnswered`, and the row's
settlement), each between two awaits; `TeamStops` is the time limit or an agent's
failure, `Cancel` the operator, `StatementFails` and `Crash` the faults, `FailUnfinishedRuns` what
the next start does with what it finds open. A reading tool call changes nothing and is
part of its round; a round makes one order at most.

`MayAnswer` is what `trading-mcp` and the gateway make of an order (`trading_mcp/tools/_shared.py`,
`GW/adapter.py`): settled; refused; unsettled, which is said of an order that was taken and of one that was not, when
no confirmation came (a PENDING deal); effect unknown; nothing at all; and a refusal of an order that *was* taken
(`disowned`), when the gateway refuses while it asks for the confirmation of what it had sent.

`Cancel` is the interruption at whatever await it meets. In the tools' planning and in the team's work it
turns to the closing, and once more during that closing it is without effect, because that is shielded
(`engine.py:197-202`). Before the try, and in the closing of a run that ends otherwise, nothing protects the task: `CutOff` ends it
there, as does a statement or a connection that fails (`StatementFails`), and `excuse` keeps what that cost: "lost" before the row of
the end, "untold" between that row and its publication.

`RunLifecycle` is a run as its readers see it: created, working, ended once and for good,
with nobody at work in a run that has ended. `TeamRuns` implements it (`ImplementsLifecycle`),
with the agents whose step reads "running" as the ones at work.

### TeamClock

The clock task at each of its awaits: the lists of due schedules and then triggers
(`Wake`, `ListTriggers`), `Claim`, a trigger's question (`Ask`), the look whether the last run
still works, the start of a run and the row of the fire; for each started run a
tracker (`MoveStreak`, `DisableForFailures`) that moves the streak of failures. `RowFails`,
`ClaimFails`, `WakeFails`, `TrackerFails` and `Restart` are the faults. `owed` counts the fires
claimed and not yet written down; a fault clears it, so `FireIsAccounted`, which is proved, says nothing of turns a fault
cut short, and no run checks it. `StreakSwitchesOff` is what the streaks are counted for. The clock is one task of one process; what a source is
about, and how its next time is computed, is left out.

### Alerts

A rule of kind condition sees edges, one of kind event the events published; a fire is
its rule and what set it off. `ClaimDue`, `Check` are the evaluator, `Publish` and `PublishCommits`
the two ends of a publication, `ClaimDeliveries`, `Take` and what follows the deliverer: the
parts sent one by one, each answer of the door (taken, not now with or without a time,
refused, unknown, or no answer), the writes after each, throttling over the cap with one notice, the
switching-off of a once rule. `ReplaceRule`, `SetEnabled`, `DeleteRule` are the operator at any
moment. `OnceTellsOnce` is about value rules: of an event rule that tells once,
two events published side by side both find it silent and both are told (section 6). `SettledIsSettled` says that a fire has one last word. Time is what it makes true: an interval or a wait or a lease ends, an hour passes,
a fire grows old. Left out: what a condition reads, the wording, filters, batch limits,
retention.

### StrategyRuns

The runs table and a `RunQueue` in each process, more than one of which may be up while
the service is replaced: `Start` marks what is running as interrupted, also what another process still
computes. `Claim`, `ClaimLost`, `TaskStep` (the awaits of `RunQueue._run` and `_compute`), `Work` (the worker
process), `StartFails`, `TimeLimit`, `Stop`, `WriteFails` and `StillWantedFails`; `Cancel`, `Delete`, `OperatorAsks` are the
handlers, `AgentAsks`, `AgentEnqueues`, `AgentStopsWaiting`, `AgentReads` the agent's waiting call.
A worker is started in an await outside the try whose finally stops it (`strategies/queue.py:207-213`), so that a task cancelled there,
like a process that dies, may leave it running: `unwatched` is those workers, each of which ends
by itself some time (`UnwatchedEnds`), with nobody at the other end of its pipe.
`ClaimedOnce`, `NoRunIsForgotten` and `RowsMoveOn` say who may have a run in hand
and how its row may change.

### BacktestEngine

The walk of one backtest. `Minute` is `_minute`: what a minute's candle does to a due exit, to
the pending order and to the open position, with gaps, an entry inside the minute, stop,
floor and target met together; `QuietMinute` has no trade; `Expired` and `Decide` are the
decision at the close of a bar, with trailing, the daily stop and the limits; `EndOfRange` closes what
is open. Every formula is a choice, so that a run covers every strategy over the prices of the
instance. A position has one unit, prices are integers, a result in R is in parts of 1 R.

### HistoryPaging

`collect` of one deep read: `cursor`, `held`, `got`, `requests`, `reached_floor` and `history_ended` are its
locals. `Ask` answers a page from `market`, the starts of the periods the provider has a
candle of (external: it refuses a window without one); `PageToFloor`, `PageOnTheWay`,
`NothingOlder`, `StopBeforeFloor`, `Enough` are the branches. A period is two ticks, so that an edge may
lie inside one. What is asked for is what chunks ask (both edges and the number of periods between)
and what fills ask (a number, and how deep at most). Left out: `mark_forming`, and
`still_wanted`, which only ends a read nobody waits for.

### FilmRoad

Each film's row and what the source says of it; `line` is the lock `_busy`, a queue of the loop's pass and
the requests' tasks; `job` where each of them is. The pass lists, judges, refreshes,
transcribes (a film longer than one question in pieces, kept over passes), reads, checks and
tells; a film named by hand asks the source before it has the lock. Money is in two steps, as
in the code: a provider adds to a shared meter, and whoever drains the meter writes the day's
usage. `Midnight`, `RestEnds`, `MissIsDue` and the like are time; `Crash` and `Trouble` the faults.
Topics and their candidates, the source's own units, batch limits, films that keep arriving, an installation without keys and the order of due films are
left out; the agent's `search_youtube` (`youtube_data/tools/watch.py:80-82`), which drains the meter without the lock as a film named by hand
does, is not an actor of its own; a hand-over to alerts and its mark are one step, because the event's key makes a second
hand-over void; a failed write after a judgement is one with the failure of the judgement.
`NothingBoughtTwice` and `RowsMoveOn` say what the lock is for: that a film is still wanted when it is
paid for, and that no words and no reading are lost again.

### MCSideBySide

Six modules whose instances are small, in one run: the first state chooses which of them moves,
and the others stand still. They do not interact here; the states are the sum of the six, and each
property is about one of them. What the instances are about (the market's periods, the rates of a
night, the prices) are constants here, so that the theorems are about all of them.

## 4. The runs

| run | instance | shows |
| --- | --- | --- |
| `jobs_safety` | 1 pair, 2 slots of up to 2 candles, 2 workers, 2 requests, 1 job of 2 attempts, 1 failure; 2.2 million states | `ClaimIsExclusive`, `CoverageIsBacked`, `StatusIsHonest` |
| `jobs_liveness` | the same with 1 request and 2 failures; 151 thousand | `ChunksSettle` |
| `ingest_supervision` | 1 pair, 2 requests, 3 task identities, 2 failed reads; 271 thousand | `NoStrayTask`, `DeletionIsQuiet`, `CollectionResumes` |
| `gateway_session` | 3 requests, 6 logins, 2 failures; 198 thousand | `RenewedOrdersStayHome`, `PlacedOnce`, `EveryRequestEnds` |
| `strategy_runs` | 2 processes with room for 1 run each, 2 runs, 1 agent's call, 1 fault; 252 thousand | `TradesAreOfDoneRuns`, `ComputedOnce`, `EveryRunEnds` |
| `alerts` | a once rule that looks at a value and a rule that waits for an event, 2 edges, 1 event, messages of 2 parts, 1 an hour, 1 edit, 1 fault; 122 thousand | `DeliveredIsWhole`, `ToldTwiceByFaultsOnly`, `OnceTellsOnce`, `OnceIsNotMute`, `EveryFireSettles` |
| `team_runs` | 2 agents at once and 1 that waits for both, 2 rounds, 4 model calls, 1 order, 1 fault; 1.1 million | `OrderIsOnRecord`, `CeilingOvershoot`, `OpenRunIsWorked`, `ViewerHearsTheEnd`, `EveryRunEnds`, `ImplementsLifecycle` |
| `team_clock` | 1 schedule with 2 runs on record at once, 1 trigger, off after 1 failure, 1 fault; 1.1 million | `NoOverlap` |
| `film_road` | 1 film of a filtered channel, first a live stream, in 2 pieces, 1 request by hand, a day of 3 pieces and 2 tokens, 2 faults; 434 thousand | `DayIsKept`, `EveryFilmEnds` |
| `gateway_stream` | 2 clients, 2 rooms, 3 periods, 1 fault, daily and intraday; 367 thousand | `DailySettledMeansSealed`, `ConnectionFollowsAudience`, `BoundaryIsFound` |
| `side_by_side` | the six below; 1.0 million states | |
| rows | moments 0 to 3, 2 writers, 1 deletion or clearing at a time | `RowsApart`, `ImplementsLooks` |
| gate | 3 callers, 2 slots in 3 ticks, 7 ticks | `RateIsKept` |
| pair | 5 periods, period 3 without a candle, requests of 5 bars in pages of 3, overlap 2, 2 failures | `NoHoleUnexcused` |
| engine | 6 minutes in bars of 2, a day of 5, prices 1, 3, 5, capital 4, with and without a stop | `DayStopHolds`, `NoDebtWithoutAJump`, `StopBoundsTheLoss` |
| history | every market of 7 periods, pages of 3, every pair of edges | `EndIsTheEnd`, `ChunkLacksTheShared` |
| rooms | 2 subscribers, 2 rooms alive at once, 2 candles | `OneRoomSeesEverything` |
| `chunk_looked_at` | the same reads | `CoveredIsLookedAt`, violated: section 6 |

The constants of the `.cfg` files are these bounds; the ones named `Max...` cap what has no
bound in the code (faults, edits, jobs, runs, rooms, periods, candles). Most modules state
a type invariant, `TypeOK`: it is proved where the module has proofs, and can be added to the
configuration where it has none. Some properties that are proved are in no configuration:
`SettledIsFinal` and `OnlyLooks` of `CollectionJobs`, `FireIsAccounted` and `StreakSwitchesOff` of `TeamClock`, `SettledIsSettled` of
`Alerts`, `NothingBoughtTwice` and `RowsMoveOn` of `FilmRoad`, and three of `StrategyRuns` that section 5
names. TLC finds no error in them on these instances either.

Why the bounds are enough. Two workers and two requests give every pair of actors
that can meet. Two slots give a chunk and the older one behind it that a sweep skips. In the
supervisor three identities are a task that ended and was forgotten, the one that
replaced it and a revival; a revival gives up after one failed read here and after four in
the code (30 s doubling past 300 s), which only changes how often it may fail before the
timer takes over. In the pair five periods are enough to outgrow one request, cross a period
without trading and come back; the default depth lies beyond the horizon, as 5000 candles
do for a new pair. Six logins are as many as three requests can cause, so that bound never
binds (`EveryRequestEnds` would fail if it did). Two agents at once are the least that pass a
ceiling asked before an await, and the third one waits on an edge. Two processes of the
strategies are the old and the new one of a deployment. Two parts are the least of which one
can be sent and the other not. A film in two pieces and a day of three: a restart
between two pieces, and a second try the day has no room for, happen. Four moments give rows that touch, overlap,
contain and lie apart. Three callers at a gate of two are one too many. A day of five minutes
lets a position cross midnight, and prices two apart jump over the levels between them. Seven periods and pages
of three make reads of three pages with a shut market anywhere. Failures are counted in
all of them; one or two are enough for one to meet the handling of the other.

Deadlock is not checked: each instance can come to its end - the process has stopped, all
jobs allowed are done, the last period has closed, every request is answered, the backtest
is over.

### Fairness

Weak fairness stands for the event loop and the operating system running what is ready,
never for a choice of the outside world. In `CollectionJobs` it is on each worker's
steps; a failing statement may happen or not. In `IngestSupervisor` it is on tasks, callbacks,
revivals, passes and the timer; no feed has to end, no read to fail and no request to
come. In `GatewaySession` it is on the login task and on the answer of a request, as httpx
ends every call within twenty seconds one way or the other. In `StrategyRuns` a queue that
serves claims, a task goes on, the time limit is reached and a process that is down is started
again; no worker has to answer. In `TeamRuns` a task goes on or its time limit comes, and a
dead process is started again; no model and no tool has to answer. In `GatewayStream` timers ring and
requests for a boundary are answered or time out; no quote, no sealed candle and no client has to come.
In `FilmRoad` what is ready runs, the day ends and waiting times end; no answer has to be a good one.
In `Alerts` the clock ticks, and strong fairness is on the ends of waits and the growing old of a fire:
a fire is leased again each time it is tried, so that its wait is not pending without interruption, and
time passes all the same. The door may say "not now" for ever.

## 5. The proofs

| module | theorems | of |
| --- | --- | --- |
| `CollectionJobsProofs` | `TypeCorrect`, `ClaimCorrect`, `CoverageCorrect`, `StatusCorrect`, `SettledCorrect` | `TypeOK`, `ClaimIsExclusive`, `CoverageIsBacked`, `StatusIsHonest`, `SettledIsFinal` |
| | `LooksCorrect`, `ImplementsCoverageSet` | `OnlyLooks`, the specification of `CoverageSet` for each pair |
| `IngestSupervisorProofs` | `TypeCorrect`, `EveryTaskIsHeld`, `ErasesInQuiet`, `NobodyEndsUnawaited` | `TypeOK`, `NoStrayTask`, `DeletionIsQuiet` |
| `GatewaySessionProofs` | `TypeCorrect`, `RenewedCorrect`, `PlacedCorrect` | `TypeOK`, `RenewedOrdersStayHome`, `PlacedOnce` |
| | `StreamTypesHold`, `OnlySealedIsSettled`, `ConnectionsFollow` | `StreamTypes`, `DailySettledMeansSealed`, `ConnectionFollowsAudience` |
| `TeamRunsProofs` | `TypeCorrect`, `OrderCorrect`, `CeilingCorrect`, `WorkedCorrect`, `ViewerCorrect`, `RefinementCorrect` | `TypeOK`, `OrderIsOnRecord`, `CeilingOvershoot`, `OpenRunIsWorked`, `ViewerHearsTheEnd`, `ImplementsLifecycle` |
| `TeamClockProofs` | `TypeCorrect`, `EveryFireIsAccounted`, `NoSourceOverlapsItself`, `AStreakSwitchesOff` | `TypeOK`, `FireIsAccounted`, `NoOverlap`, `StreakSwitchesOff` |
| | `TheDayIsKept`, `RoadTypesHold`, `NothingIsBoughtTwice`, `FilmsMoveOn` | `DayIsKept`, `RoadTypes`, `NothingBoughtTwice`, `RowsMoveOn` of the films |
| `AlertsProofs` | `TypeCorrect`, `NoOnceRuleIsMute`, `NothingDeliveredIsLost`, `OnlyFaultsTellTwice`, `OnceRulesTellOnce`, `TheLastWordIsKept` | `TypeOK`, `OnceIsNotMute`, `DeliveredIsWhole`, `ToldTwiceByFaultsOnly`, `OnceTellsOnce`, `SettledIsSettled` |
| `StrategyRunsProofs` | `TypeCorrect`, `OnlyDoneRunsTrade`, `NoRunIsComputedTwice` | `TypeOK`, `TradesAreOfDoneRuns`, `ComputedOnce` |
| | `ARunIsClaimedOnce`, `EveryRunIsHeld`, `RowsOnlyMoveOn` | `ClaimedOnce`, `NoRunIsForgotten`, `RowsMoveOn` |
| `SideBySideProofs` | `TypeCorrect`, `RowsApartCorrect`, `LooksCorrect` | `TypeOK`, `RowsApart`, `ImplementsLooks` of the coverage rows |
| | `RateCorrect` | `RateIsKept` |
| | `NoHoleIsUnexcused` | `NoHoleUnexcused` |
| | `OneRoomMissesNothing` | `OneRoomSeesEverything` |
| | `StopsBoundTheLoss`, `TheDayStopHolds`, `DebtNeedsAJump` | `StopBoundsTheLoss`, `DayStopHolds`, `NoDebtWithoutAJump` |
| | `TheEndIsTheEnd`, `ChunkLacksNoMore` | `EndIsTheEnd`, `ChunkLacksTheShared` |

### What they assume

Each holds for any values of the constants that meet the assumption of its module, which TLC
evaluates in every run. In `MCSideBySide`, whose constants belong to six modules, the hypothesis
is part of the theorem and names what its own constants are:

- `Sensible`, `GateIsSensible`: a limit and a window of at least one, names for nothing that name
  nothing else.
- `PairIsSensible`: the limits are numbers, and a pair that is tracked collects from the first period or
  before, as a later day is refused (`MD/routers/pairs.py:96`). How a request, the default depth and the
  overlap relate is left open: `NoHoleUnexcused` excuses what a small default would miss.
- `RoomsAreSensible`: no subscriber is called "ingest".
- `EngineIsSensible`: prices, costs, rates and levels are any whole numbers, a bar and a day have minutes.
  `AccountIsSensible`, for the two about the account: the slippage is not negative
  (`strategies/costs.py:16`), there is some capital (`strategies/runs.py:39`), and 1 R has some parts.
- `HistoryIsSensible`: a last period and a page are numbers. That the market is nowhere shut for
  longer than a window is in the two properties, not here.

One more is in `AlertsProofs`: `OneClock`, that the process which runs the clock is the only one, as
the workbench is one process, one image and one App Service (`modules/workbench/README.md:10`).
`NoOnceRuleIsMute` does without. With two clocks TLC refutes `ToldTwiceByFaultsOnly`, `DeliveredIsWhole`
and `SettledIsSettled`: section 6.

### The arguments

None of the safety invariants is inductive. What has to be known besides:

`CollectionJobs`: `ClaimIsExclusive` rests on `HeldInv`: the place of a worker tells the state
of its chunk (running while it executes, settled or gone while it sweeps), no two workers
hold one chunk, every chunk has a job, and none is held while the process is down. Every
statement that changes chunks asks for states other than "running", and that is why a claimed
chunk is left alone by all of them. That coverage implements `CoverageSet` needs the types only: the one
statement that adds to it adds the slot of the chunk in hand, and the one that takes away takes a pair's all. `CoverageIsBacked` and `StatusIsHonest` rest on
`CommitInv`: how far a worker has come in `commit_candles` tells which of its writes stand, and a
chunk that is done has all of what it was answered with, unless the pair's data was deleted since.

`IngestSupervisor` (`SupervisorInv`): one pass at a time is past the lock, the only task that was told
to end and still lives is the one that pass awaits, and a DELETE whose pair nobody tracked again
has, until its pass is over, whoever collects the pair either before it or in its hands.

`PairIngest` (`PairInv`): as long as nothing excuses a hole, what is stored has no gap, what is on its way
continues it, and a request that was sent, like the page that came, reaches down to the first and up
to the second. A listener whose socket died is brought to its next fill with what it missed above
what it has.

`CoverageRows`: that rows stay apart needs to be known of what a writer read: while one is in its
transaction nobody else is (the advisory lock), so what it read is still all that touches its
stretch (`FoundInv`), whatever a deletion takes away is locked against it, and a cleared boundary
changes no edge. The union of a stretch with what touches it then touches nothing else, and covers
what the rows it replaces covered, which is also the refinement.

`GatewaySession`: `OrderInv`: as long as a request has no answer, or a 401, or was refused by a
failed login, the provider has done nothing for it, and a request that waited for a
restored session was sent on one that stands at home. It holds because sessions of the
pool are never moved away from their account, so an account once reached is kept.

`GatewayStream` (`StreamFacts`): a daily bar that is labelled settled is the provider's, untouched, and its
period is over (`SealIsWhole`) - so no quote is folded into it, since the room first needs a boundary, and
finding one takes the label off. Only the hub's room has a connection that runs, everybody in that room
stands in it, and whoever waits for a boundary made the room it waits for (`AskerWaits`), which is
the one way into a room that has stopped.

`RateGate` (`GateInv`): the times in the list are the last slots given, and the slots forgotten are older than the
window. A slot is given with fewer than the limit in the list, so the slot that many
places back is either forgotten or does not exist; the lock, held in the sleep, lets nobody else look.

`MarketRooms` (`RoomsFacts`): until a room is split there is one, everybody is in it or in the queue of its lock, whoever
read a snapshot holds the lock, and every subscriber has all that is stored, but for the candle being sent
and the ones in `silent`.

`HistoryPaging` (`HistoryFacts`): what is held is all there is from the cursor to the newer edge, and each page but the first
counted one candle twice. A window without an older candle, in a market that is not shut for so long, has none below it.

`BacktestEngine` (`EngineFacts`): an open position is guarded (`Guarded`): its stop is no further from its entry than
the risk, and trailing only moves it closer; every way out at a level is at the stop or before it.
The day's stop and the account (`WalkFacts`) are about sums over the trades, where the code keeps a book: the book's money
is the sum of all trades, no trade is closed on a later day than the book's, and the book's R is the sum of that
day's. The fold that sums has no induction here; its equation, a set's sum is that of the set without a
number and that number's, is shown by a least set it would be false of, and one more trade is one more number. A pending order
is of a day that may still open, and there is no position while it waits; whatever closes a trade claims no
more of the day than the book then says. A position that is open is solvent at the last candle's close, so
that only a jump leaves more debt than the slippage.

`TeamRuns`: `OrderInv` ties where an agent is in an order to the row, to the answer it has and to what the account took.
For the ceilings, the agents at work at one moment are an antichain of the graph of edges (`OrderOfWork`: an agent
works only when those before it are done), so that there are at most `Parallel` of them. What was counted and what
was allowed but is not counted yet never pass the ceiling by more than that number less
one: an agent is allowed while the counter is below the ceiling, and then counts once. `RunInv` ties the
task's place to the row's status; the refinement follows from it, each step of the engine being a
step of `RunLifecycle` or leaving status and working steps alone.

`TeamClock` (`TurnInv`): the clock has a row in hand exactly from its claim to the end of its turn, and the run of a source that
works and is on record is the source's latest one, which is the one the clock looks at before it starts another.
`StreakInv`: a streak reaches the threshold in the step that sends its tracker to switch the source off, and a tracker on that
errand has counted a failed run, which the table keeps until it is through.

`Alerts` (`ClockInv`): what the one clock has leased is different, still pending and as it was read (`Held`, `Noted`);
a part the tables do not have as sent was told by no more than the faults so far (`Counted`); of a once rule that nobody
wrote again one fire at most is pending or delivered, and it holds back the next (`OnceInv`). What is settled stays so for
the same reason (`Held`): every write of the deliverer is about a fire it has leased, which is pending.

`StrategyRuns` (`RowsInv`): trades and the status "done" change in one statement, and a trial that is still counted is a
run that was deleted. What the processes believe does not matter to it, which is the point: no statement trusts them.
`TasksInv` is about what they hold: a run that is a task was claimed from a queue that serves, so that no other process can claim it;
every step of a task but that one moves its own run only, and lets go of it with the run's end written or left to the next
start (`Goes`). A worker is left unwatched by a stop only, of a run its process had claimed; the next start marks that
run as failed, no statement queues a run twice, and only the task that claimed it could write it done, hence `ComputedOnce`.

`FilmRoad` (`RoadFacts`): only the holder of the lock is where it may spend, it got there by a flush and a comparison of the
sum, and nobody else adds to the sum before it is through (`HearsWithin`, `AsksWithin`).
`RoadWell` is about the films: the one a worker has in hand, and those it still has to do, are in the state they were chosen for. The
holder of the lock moves one film and takes it from its list; the others rely on no more than that a film has its words,
which no step takes away (`Onwards`); and a request, which moves rows without the lock, only stores a film that has no row or brings
back one that was turned away, so that it spares what the holder relies on (`Spares`). A film that may still be heard
has a try left (`HasTries`), hence the bound on its misses.

Only model-checked: the liveness properties under fairness (`ChunksSettle`, `CollectionResumes`, `EveryRequestEnds`,
`EveryRunEnds` twice, `EveryFireSettles`, `EveryFilmEnds`, `BoundaryIsFound`) and ENABLED, which are beyond this prover.
The models have no RECURSIVE operators.

## 6. What the code does and does not promise

The properties that pass exclude the cases below where they bear on them, and each says so in its comment or its
formula; what a model leaves out is in section 3. Those that a document or a comment
of the repository denies are written down as properties, under "the code does not keep" or next to the
property that excludes them; adding one to the module's configuration shows the behaviour. One
is a run, with its quotations in `PROJECT.json`.

Archive and collection
- `CoveredIsLookedAt` (run `chunk_looked_at`): a chunk whose newest page, 1000 periods at most, falls into
  a shut market is refused by the provider, answered with nothing, and recorded as looked at from edge to
  edge (`GW/history.py:170`, `MD/jobs/runner.py:86`); planning never returns to it.
  `CoverageIsBacked` and `StatusIsHonest` are about the answers, and hold of such a chunk as well: it is done, covered, and lacks what it was not given. A gap
  fill of more than a page may come back short in the same way, and leaves a hole ("paged" in `NoHoleUnexcused`).
- Candles two pages share are counted twice, so that a chunk of 50 000 stops up to 49 candles short of its older
  edge if that is a period's start; `ChunkLacksTheShared` bounds it. A hole in the market wider than a page, or a
  chunk that ends at the market's first candle, is read as the end of history; `OpenOften` is the
  hypothesis of `EndIsTheEnd` for that reason.
- `CoverageNeverOutlivesCandles`: a pair deleted while a worker is between storing a page and recording its
  coverage keeps coverage without candles. On the rows as well: a record that waited for the rows a
  deletion took is merged with what it had read; the clearing of a boundary that meets a merge is lost.
- `SkipFollowsThisJobsBoundary`: the older chunks of a job are skipped by a boundary an
  earlier job recorded, if its range touches.
- `StopComesToAnEnd`: `stop()` cancels the reconcile task while that waits for a pair it is stopping;
  the cancellation is swallowed with the pair's own and `stop()` waits for ever.
- A pair whose default depth is smaller than what the room has already sent gets a first fill of the default
  depth and, above it, live candles; what lies between them is never asked for if the socket dies before they are read
  (`FallsShort`, counted as the excuse "deep"). The code's default of 5000 candles is out of reach of that.
- `StopBeforeFloor` of `HistoryPaging` (`GW/history.py:144`) is never enabled by the reads that chunks and fills ask
  for: the cursor stays above the floor, as the page that reaches the floor ends the read. `HistoryStep` proves it.
- `FillClosesItsGap`: the number of candles to fetch is computed before a wait for the shared limiter;
  after two periods of waiting the oldest are not asked for, and no later fill looks there.
- `ReconnectClosesItsGap`: the gap after a lost provider connection is closed before the connection is back, or
  not at all if the provider closed it cleanly.

Gateway
- `HeldSessionStands`: a PUT /session that times out leaves tokens of a session standing on the provider's
  preferred account; the client goes on using it.
- `NoOrderAstray`: a request that comes between the answer to a login and the PUT that moves the session to its
  account is sent at once and carried out on the preferred account. `RenewedOrdersStayHome` is about the requests
  that waited.
- The hub of the streams: the first subscriber of a daily room waits for its boundary outside the room; if the room is
  emptied meanwhile it is added to a room that has stopped (`GW/stream/hub.py:264`, excepted in
  `ConnectionFollowsAudience`).
- `SettledMeansSealed`: an intraday room never forgets that a candle was sealed, so that a later candle made
  of quotes is handed to a joiner as settled (`GW/stream/forming.py:127`).
- The contract layer's hub: whoever takes a room and waits for its lock while the last subscriber leaves stays in a
  room that is forgotten, and hears nothing published after it (`MD/hub.py:116`; `split` in `OneRoomSeesEverything`).
- "Nothing falls between" (`MD/hub.py`) is so of the candles ingest writes and sends. A gap fill or a job publishes nothing
  (`MD/ingest/backfill.py:147`), and a candle whose coverage or rollups fail after its upsert is archived and not published
  (`MD/store.py:137-149`, `MD/hub.py:102-105`): a subscriber has it from its next snapshot only (`silent` in `OneRoomSeesEverything`).

Teams, alerts, strategies, films
- An interruption before the try of `execute_run`, or in the closing of a run that ends by itself, which nothing shields, leaves the
  run open until the next start, or its viewers without the end (`teams/runner/engine.py:131-137`, `203-205`); so does a statement that fails there, and a
  connection that fails as it is given back after `finish_run` has committed. The docstring of `execute_run` (`engine.py:129-130`) promises "the whole of a run", and
  that `CancelledError` goes out "after the status is written". These are "lost" and "untold" of `OpenRunIsWorked`, `EveryRunEnds` and
  `ViewerHearsTheEnd`. Interruptions of the work itself, and repeated ones, are not excused.
- An order the account took can be written down as refused: the gateway sent it, a 401 on the confirmation renews the session, and the
  account cannot be put back, which is a refusal of status 400 (`GW/client.py:98-121`, `GW/adapter.py:286-300`). `_shared.py:96-100` makes it
  a refusal "that never touched the account" (`trading_mcp/tools/_shared.py:114-115`), as `_read_settlement` then records.
  `OrderIsOnRecord` excepts exactly the orders that got such an answer (`disowned`).
- An event rule that tells once is looked at without a lock (`alerts/publishing.py:49-63`): two events published side by side
  both find it silent, and both are told. `OnceTellsOnce` is about value rules.
- A worker whose task is cancelled while it is being started is stopped by nobody (`strategies/queue.py:210`). It computes to no end; `ComputedOnce`
  is that this is all it does.
- A run passes its ceilings by as many calls or orders as its graph lets agents work at once, less one
  (`CeilingOvershoot`): they are asked before an await and counted after it.
- `SwitchedOffAfterItTold`: a once rule rewritten while its old fire is being told is switched off by it
  (`alerts/delivery.py:79`, `alerts/store.py:458`). A throttled fire leaves a once rule on and mute, which `OnceIsNotMute` excepts.
- "The lease is what keeps two ticks — or two instances — from sending one message twice" (`alerts/store.py:365`) is so of
  ticks and not of instances: a lease is of a minute, from the moment its tick began at, for a whole batch, and may run
  out under the clock that still sends. Another then sends the same parts, and each advances the count of
  the parts sent by one; with two clocks TLC refutes `ToldTwiceByFaultsOnly` and `DeliveredIsWhole`. The
  deployment has one.
- A stop met in the minute of an entry inside that minute leaves at the minute's open if the open lies beyond the
  stop, a price from before the entry (`strategies/engine.py:352`); it counts as a jump in the two properties
  about losses.
- A request that names a film drains the meter without the lock: what the loop has spent is in no ceiling until that
  request has written it, and in none if it fails (`youtube_data/watchlist.py:241`; excepted in `DayIsKept`).
- A film named by hand that the loop's filter turns away while the source is asked stays filtered out, though the caller was
  told that it is processed (`youtube_data/watchlist.py:238`). A film longer than the day's ceiling would wait for
  ever; the instance has none (`RoadAssumption`).

## 7. Not modelled

`PROJECT.json` gives the reason for every component. In short: the planning of windows, the default
session's account switch and the conversations of the agent are planned (section 2). The polymarket and
social archives collect periodically with one writer per row; the Telegram gateway is the
external door of `Alerts`; the tools pass single calls on; the front ends render; the shared packages are
libraries; scripts and deployment hold no state of the program. Across the process: reads, rendering,
indicators, metrics, logging, configuration and the validation of requests, which refuses before
anything changes. In `CollectionJobs` an ambiguous commit (the server committed, the client was told that it
failed) is not modelled; in `Alerts` and `FilmRoad` the answer of a call may be lost.

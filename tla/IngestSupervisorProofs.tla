----------------------- MODULE IngestSupervisorProofs -----------------------
(***************************************************************************)
(* Proofs about IngestSupervisor, for any pairs, any requests and any      *)
(* number of failed reads: its types; that one pass at a time holds the    *)
(* tasks and nothing but what it waits for is being cancelled; that a pair *)
(* is never collected by a task nobody holds; and that a DELETE erases the *)
(* data of a pair nobody collects.                                         *)
(***************************************************************************)
EXTENDS IngestSupervisor, TLAPS

(***************************************************************************)
(* The inductive invariant.                                                *)
(***************************************************************************)
InPass == {"read", "match", "await"}

(* Requests are served between the start and the stop only.                *)
Serving == \A r \in Request : spc[r] # "idle" => spc[Main] = "serving"

(* A pass holds the lock, but for the one that ends stop(): by then the    *)
(* timer is over, and so are the requests.                                 *)
OnePass ==
  \A a \in Actor : spc[a] \in InPass => holder = a \/ (a = Main /\ spc[Timer] = "ended")

(* The one task that was told to end and has not is the one a pass waits   *)
(* for: a pass that is over leaves no task behind that is still ending.    *)
OneCancelled ==
  /\ cancelled \subseteq {awaited}
  /\ \A t \in cancelled : place[t] \in Live
  /\ awaited # NoTask => \E a \in Actor : spc[a] = "await"

(* What a DELETE is about is known from its arrival to its answer, and the *)
(* pair stays untracked unless the DELETE is among the overtaken ones.     *)
Erasing ==
  \A r \in Request :
    /\ spc[r] = "idle" => erasing[r] = NoPair
    /\ erasing[r] = NoPair => r \notin again
    /\ erasing[r] # NoPair /\ r \notin again => erasing[r] \notin tracked

(* So its pass does not want the pair, has still to stop whoever collects  *)
(* it, and is over when nobody does.                                       *)
Stopping ==
  \A r \in Request : r \notin again =>
    /\ spc[r] = "match" => erasing[r] \notin wanted
    /\ spc[r] = "await" =>
         \A t \in TasksOf(erasing[r]) : place[t] = "collect" =>
           t = awaited \/ (erasing[r] \in extra /\ tasks[erasing[r]] = t)

SupervisorInv ==
  /\ TypeOK /\ Serving /\ OnePass /\ OneCancelled
  /\ NoStrayTask /\ Erasing /\ Stopping /\ DeletionIsQuiet

(***************************************************************************)
(* Types.                                                                  *)
(***************************************************************************)
Places == Live \cup Ended \cup Reviving \cup {"free"}

CallerAt == {"none", "idle", "want", "read", "match", "await", "sleep", "erase", "ended",
             "serving", "stopping", "over"}

(* What _stop_pair on each pair of X leaves: it waits for the task of p,    *)
(* having stopped S so far, or nobody of X lived and it is through.        *)
StopsUpTo(a, T, X, p, S) ==
  /\ p \in S /\ T[p] \in Task /\ place'[T[p]] \in Live
  /\ \A q \in S \ {p} : T[q] \in Task => place'[T[q]] \notin Live
  /\ tasks' = [q \in Pair |-> IF q \in S THEN NoTask ELSE T[q]]
  /\ extra' = X \ S /\ cancelled' = cancelled \cup {T[p]} /\ awaited' = T[p]
  /\ spc' = [spc EXCEPT ![a] = "await"] /\ holder' = holder

StopsAll(a, T, X) ==
  /\ \A q \in X : T[q] \in Task => place'[T[q]] \notin Live
  /\ tasks' = [q \in Pair |-> IF q \in X THEN NoTask ELSE T[q]]
  /\ extra' = {} /\ cancelled' = cancelled /\ awaited' = NoTask
  /\ Finish(a)

LEMMA StopPairsEffect ==
  ASSUME NEW a \in Actor, NEW T \in [Pair -> Task \cup {NoTask}], NEW X \in SUBSET Pair,
         place' \in [Task -> Places], StopPairs(a, T, X)
  PROVE  StopsAll(a, T, X) \/ \E p \in X, S \in SUBSET X : StopsUpTo(a, T, X, p, S)
<1> DEFINE alive == {p \in X : T[p] # NoTask /\ place'[T[p]] \in Live}
<1>0. NoTask \notin Task
  BY ConstantsAssumption
<1> DEFINE Waits(p, D) ==
             /\ tasks' = [q \in Pair |-> IF q \in D \cup {p} THEN NoTask ELSE T[q]]
             /\ extra' = X \ (D \cup {p})
             /\ cancelled' = cancelled \cup {T[p]} /\ awaited' = T[p]
             /\ spc' = [spc EXCEPT ![a] = "await"] /\ holder' = holder
           Through ==
             /\ alive = {}
             /\ tasks' = [q \in Pair |-> IF q \in X THEN NoTask ELSE T[q]]
             /\ extra' = X \ X
             /\ awaited' = NoTask /\ cancelled' = cancelled
             /\ Finish(a)
<1>1. Through \/ \E p \in alive, D \in SUBSET (X \ alive) : Waits(p, D)
  BY Zenon DEF StopPairs, Goto
<1>2. CASE Through
  BY <1>0, <1>2 DEF StopsAll
<1>3. ASSUME NEW p \in alive, NEW D \in SUBSET (X \ alive), Waits(p, D)
      PROVE  p \in X /\ D \cup {p} \in SUBSET X /\ StopsUpTo(a, T, X, p, D \cup {p})
  BY <1>0, <1>3 DEF StopsUpTo
<1> HIDE DEF alive, Waits, Through
<1>4. CASE \E p \in alive, D \in SUBSET (X \ alive) : Waits(p, D)
  BY <1>3, <1>4
<1> QED BY <1>1, <1>2, <1>4

(* Where the callers are once a pass is over.                              *)
LEMMA FinishEffect ==
  ASSUME TypeOK, NEW a \in Actor, Finish(a)
  PROVE  /\ spc' \in [Actor -> CallerAt] /\ holder' \in {holder, NoActor}
         /\ holder' = holder \/ holder = a
         /\ spc'[a] \in {"serving", "over", "sleep", "idle", "erase"}
         /\ \A b \in Actor \ {a} : spc'[b] = spc[b] \/ (a = Main /\ spc[b] = "none" /\ spc'[b] = "sleep")
         /\ a = Main => spc'[a] = IF spc[Timer] = "none" THEN "serving" ELSE "over"
         /\ a \in Request => spc'[a] = IF erasing[a] = NoPair THEN "idle" ELSE "erase"
         /\ a = Timer => spc'[a] = "sleep"
  BY ConstantsAssumption DEF Finish, TypeOK, CallerAt, Actor

(* What a pass finds and starts: every living task it held it still holds, *)
(* what it started was free, and it stops all that is not wanted.          *)
LEMMA MatchEffect ==
  ASSUME TypeOK, NEW a \in Actor, Match(a)
  PROVE  /\ spc[a] = "match" /\ wanted' = {}
         /\ UNCHANGED <<tracked, tries, erasing, again, faults>>
         /\ place' \in [Task -> Places]
         /\ \E T \in [Pair -> Task \cup {NoTask}], X \in SUBSET Pair :
              /\ StopPairs(a, T, X)
              /\ \A t \in Task : place'[t] # place[t] =>
                   place[t] = "free" /\ place'[t] = "check" /\ T[t.pair] = t /\ t.pair \notin X
              /\ \A p \in Pair : tasks[p] \in Task /\ place[tasks[p]] \in Live => T[p] = tasks[p]
              /\ \A p \in Pair \ wanted : T[p] # NoTask => p \in X
<1> DEFINE kept(p) == tasks[p] # NoTask /\ place[tasks[p]] \in Live
           missing(p) == p \in wanted /\ ~kept(p)
           T == [p \in Pair |-> IF kept(p) THEN tasks[p]
                                ELSE IF missing(p) THEN Fresh(p) ELSE NoTask]
           X == {p \in Pair : T[p] # NoTask} \ wanted
<1>1. /\ spc[a] = "match" /\ wanted' = {}
      /\ UNCHANGED <<tracked, tries, erasing, again, faults>>
      /\ \A p \in Pair : missing(p) => \E t \in TasksOf(p) : place[t] = "free"
      /\ place' = [t \in Task |-> IF missing(t.pair) /\ T[t.pair] = t THEN "check" ELSE place[t]]
      /\ StopPairs(a, T, X)
  BY Zenon DEF Match
<1>2. \A p \in Pair : missing(p) => Fresh(p) \in Task /\ place[Fresh(p)] = "free"
  BY <1>1 DEF Fresh, TasksOf
<1>3. T \in [Pair -> Task \cup {NoTask}]
  BY <1>2 DEF TypeOK
<1>4. X \in SUBSET Pair /\ \A p \in Pair \ wanted : T[p] # NoTask => p \in X
  OBVIOUS
<1>5. place' \in [Task -> Places]
  BY <1>1 DEF TypeOK, Places, Live
<1>6. \A t \in Task : place'[t] # place[t] =>
        place[t] = "free" /\ place'[t] = "check" /\ T[t.pair] = t /\ t.pair \notin X
  <2> SUFFICES ASSUME NEW t \in Task, place'[t] # place[t]
               PROVE  place[t] = "free" /\ place'[t] = "check" /\ T[t.pair] = t /\ t.pair \notin X
    OBVIOUS
  <2>1. t.pair \in Pair /\ place'[t] = IF missing(t.pair) /\ T[t.pair] = t THEN "check" ELSE place[t]
    BY <1>1 DEF Task
  <2>2. missing(t.pair) /\ T[t.pair] = t /\ place'[t] = "check"
    BY <2>1
  <2>3. T[t.pair] = Fresh(t.pair)
    BY <2>1, <2>2
  <2> QED BY <2>1, <2>2, <2>3, <1>2
<1>7. \A p \in Pair : tasks[p] \in Task /\ place[tasks[p]] \in Live => T[p] = tasks[p]
  BY ConstantsAssumption
<1> HIDE DEF T, X
<1> QED BY <1>1, <1>3, <1>4, <1>5, <1>6, <1>7

LEMMA TypeInit == Init => TypeOK
  BY ConstantsAssumption DEF Init, TypeOK, Actor, Live, Ended, Reviving

(* A step of a task or a revival keeps the types.                          *)
LEMMA TypeTask ==
  ASSUME TypeOK, NEW t \in Task, TaskStep(t) \/ TaskEvent(t)
  PROVE  TypeOK'
<1>0. ReviveTries \in Nat \ {0} /\ MaxFault \in Nat /\ t.pair \in Pair /\ NoTask \notin Task
  BY ConstantsAssumption DEF Task
<1>1. place' \in [Task -> Places]
  BY DEF TypeOK, Places, TaskStep, TaskEvent, Check, Recheck, Retry, EndCancelled, PairEnded,
     ReviveReads, ReviveStarts, FeedEnds, TrackedReadFails, ReviveReadFails, Move, Live, Ended,
     Reviving
<1>2. tasks' \in [Pair -> Task \cup {NoTask}]
  BY <1>0 DEF TypeOK, TaskStep, TaskEvent, Check, Recheck, Retry, EndCancelled, PairEnded,
     ReviveReads, ReviveStarts, FeedEnds, TrackedReadFails, ReviveReadFails
<1>3. tries' \in [Task -> 0 .. (ReviveTries - 1)]
  BY <1>0 DEF TypeOK, TaskStep, TaskEvent, Check, Recheck, Retry, EndCancelled, PairEnded,
     ReviveReads, ReviveStarts, FeedEnds, TrackedReadFails, ReviveReadFails
<1>4. cancelled' \subseteq Task /\ faults' \in 0 .. MaxFault
  BY <1>0 DEF TypeOK, TaskStep, TaskEvent, Check, Recheck, Retry, EndCancelled, PairEnded,
     ReviveReads, ReviveStarts, FeedEnds, TrackedReadFails, ReviveReadFails
<1>5. UNCHANGED <<tracked, spc, pass, erasing, again>>
  BY DEF TaskStep, TaskEvent, Check, Recheck, Retry, EndCancelled, PairEnded,
     ReviveReads, ReviveStarts, FeedEnds, TrackedReadFails, ReviveReadFails
<1> QED BY <1>1, <1>2, <1>3, <1>4, <1>5 DEF TypeOK, Places, pass

(* So does stopping pairs, whoever does it.                                *)
LEMMA TypeStopPairs ==
  ASSUME TypeOK, NEW a \in Actor, NEW T \in [Pair -> Task \cup {NoTask}], NEW X \in SUBSET Pair,
         place' \in [Task -> Places], StopPairs(a, T, X)
  PROVE  /\ tasks' \in [Pair -> Task \cup {NoTask}] /\ extra' \subseteq Pair
         /\ cancelled' \subseteq Task /\ awaited' \in Task \cup {NoTask}
         /\ spc' \in [Actor -> CallerAt] /\ holder' \in Actor \cup {NoActor}
<1>1. CASE StopsAll(a, T, X)
  BY <1>1, FinishEffect DEF TypeOK, StopsAll
<1>2. ASSUME NEW p \in X, NEW S \in SUBSET X, StopsUpTo(a, T, X, p, S)
      PROVE  /\ tasks' \in [Pair -> Task \cup {NoTask}] /\ extra' \subseteq Pair
             /\ cancelled' \subseteq Task /\ awaited' \in Task \cup {NoTask}
             /\ spc' \in [Actor -> CallerAt] /\ holder' \in Actor \cup {NoActor}
  BY <1>2 DEF TypeOK, CallerAt, StopsUpTo
<1> QED BY <1>1, <1>2, StopPairsEffect

LEMMA TypeSync ==
  ASSUME TypeOK, NEW a \in Actor, SyncStep(a) \/ ReadTrackedFails(a)
  PROVE  TypeOK'
<1>0. MaxFault \in Nat
  BY ConstantsAssumption
<1>1. CASE AcquireSync(a) \/ ReadTracked(a)
  BY <1>1 DEF AcquireSync, ReadTracked, TypeOK, Goto
<1>2. CASE ReadTrackedFails(a)
  <2>1. spc' \in [Actor -> CallerAt]
    BY <1>2 DEF ReadTrackedFails, TypeOK, Goto, Abandoned, CallerAt
  <2> QED BY <1>0, <1>2, <2>1 DEF ReadTrackedFails, TypeOK, CallerAt
<1>3. CASE Match(a)
  <2>1. PICK T \in [Pair -> Task \cup {NoTask}], X \in SUBSET Pair : StopPairs(a, T, X)
    BY <1>3, MatchEffect
  <2>2. /\ place' \in [Task -> Places] /\ wanted' = {}
        /\ UNCHANGED <<tracked, tries, erasing, again, faults>>
    BY <1>3, MatchEffect
  <2> QED BY <2>1, <2>2, TypeStopPairs DEF TypeOK, Places, CallerAt
<1>4. CASE PairStopped(a)
  <2>1. place' \in [Task -> Places] /\ tasks \in [Pair -> Task \cup {NoTask}] /\ extra \in SUBSET Pair
    BY <1>4 DEF PairStopped, TypeOK, Places
  <2>2. StopPairs(a, tasks, extra) /\ UNCHANGED <<tracked, tries, wanted, erasing, again, faults>>
    BY <1>4 DEF PairStopped
  <2> QED BY <2>1, <2>2, TypeStopPairs DEF TypeOK, Places, CallerAt
<1> QED BY <1>1, <1>2, <1>3, <1>4 DEF SyncStep

(* And the handlers, the timer and the stop.                               *)
LEMMA TypeRest ==
  ASSUME TypeOK,
         \/ \E r \in Request, p \in Pair : TrackPair(r, p) \/ CloseForDeletion(r, p)
         \/ \E r \in Request : DeletePairData(r)
         \/ Tick \/ CancelReconcile \/ StopRevivalsAndPairs
  PROVE  TypeOK'
<1>0. Request \subseteq Actor /\ Main \in Actor /\ Timer \in Actor /\ Main # Timer
      /\ ReviveTries \in Nat \ {0}
  BY ConstantsAssumption DEF Actor
<1>1. CASE \E r \in Request, p \in Pair : TrackPair(r, p) \/ CloseForDeletion(r, p)
  BY <1>0, <1>1 DEF TrackPair, CloseForDeletion, TypeOK, Goto, pass
<1>2. CASE \E r \in Request : DeletePairData(r)
  BY <1>0, <1>2 DEF DeletePairData, TypeOK, Goto, pass
<1>3. CASE Tick
  BY <1>0, <1>3 DEF Tick, TypeOK, Goto, pass
<1>4. CASE CancelReconcile
  BY <1>0, <1>4 DEF CancelReconcile, TypeOK
<1>5. CASE StopRevivalsAndPairs
  <2>1. place' \in [Task -> Places] /\ tries' \in [Task -> 0 .. (ReviveTries - 1)]
    BY <1>0, <1>5 DEF StopRevivalsAndPairs, TypeOK, Places
  <2>2. /\ StopPairs(Main, tasks, Running) /\ UNCHANGED <<tracked, wanted, erasing, again, faults>>
        /\ tasks \in [Pair -> Task \cup {NoTask}] /\ Running \in SUBSET Pair
    BY <1>5 DEF StopRevivalsAndPairs, TypeOK, Running
  <2> QED BY <1>0, <2>1, <2>2, TypeStopPairs DEF TypeOK, Places, CallerAt
<1> QED BY <1>1, <1>2, <1>3, <1>4, <1>5

LEMMA TypeNext == TypeOK /\ [Next]_vars => TypeOK'
<1> SUFFICES ASSUME TypeOK, [Next]_vars PROVE TypeOK'
  OBVIOUS
<1>1. CASE UNCHANGED vars
  BY <1>1 DEF vars, pass, TypeOK
<1>2. CASE \E t \in Task : TaskStep(t) \/ TaskEvent(t)
  BY <1>2, TypeTask
<1>3. CASE \E a \in Actor : SyncStep(a) \/ ReadTrackedFails(a)
  BY <1>3, TypeSync
<1>4. CASE \/ \E r \in Request, p \in Pair : TrackPair(r, p) \/ CloseForDeletion(r, p)
           \/ \E r \in Request : DeletePairData(r)
           \/ Tick \/ CancelReconcile \/ StopRevivalsAndPairs
  BY <1>4, TypeRest
<1> QED BY <1>1, <1>2, <1>3, <1>4 DEF Next

(* Every variable keeps its type; a revival's failures stay below the      *)
(* number after which it gives up.                                         *)
THEOREM TypeCorrect == Spec => []TypeOK
BY TypeInit, TypeNext, PTL DEF Spec

(***************************************************************************)
(* The invariant.                                                          *)
(***************************************************************************)

(* Nobody is in a pass but the one that is.                                *)
LEMMA OneAtATime ==
  ASSUME TypeOK, Serving, OnePass, NEW a \in Actor, NEW b \in Actor,
         spc[a] \in InPass, spc[b] \in InPass
  PROVE  a = b
BY ConstantsAssumption DEF TypeOK, Serving, OnePass, InPass, Actor

(* A pass that has not begun to stop pairs finds nothing cancelled.        *)
LEMMA NothingCancelled ==
  ASSUME TypeOK, OneCancelled, \A a \in Actor : spc[a] # "await"
  PROVE  cancelled = {} /\ awaited = NoTask
BY ConstantsAssumption DEF TypeOK, OneCancelled

(* Nothing but the awaited task is cancelled, and a pass goes on when that *)
(* one has ended.                                                          *)
LEMMA AwaitedHasEnded ==
  ASSUME OneCancelled, place[awaited] \notin Live
  PROVE  cancelled = {}
BY DEF OneCancelled

(* Whoever stops pairs keeps the invariant, when no cancelled task is left *)
(* and those it is to stop include who collects a pair being erased.       *)
LEMMA StoppingKeeps ==
  ASSUME SupervisorInv, TypeOK', NEW a \in Actor,
         NEW T \in [Pair -> Task \cup {NoTask}], NEW X \in SUBSET Pair, StopPairs(a, T, X),
         UNCHANGED <<tracked, erasing, again>>, wanted' \in {wanted, {}}, cancelled = {},
         \/ spc[a] \in {"match", "await"}
         \/ a = Main /\ spc[Main] = "stopping" /\ spc[Timer] = "ended",
         \A t \in Task : place'[t] \in Live =>
           \/ place'[t] = place[t]
           \/ place'[t] = "check" /\ T[t.pair] = t /\ t.pair \notin X,
         \A p \in Pair : tasks[p] \in Task /\ place[tasks[p]] \in Live => T[p] = tasks[p],
         a \in Request /\ a \notin again =>
           \A t \in TasksOf(erasing[a]) : place[t] = "collect" => erasing[a] \in X
  PROVE  SupervisorInv'
<1> USE DEF SupervisorInv
<1>0. /\ place' \in [Task -> Places] /\ Main \in Actor /\ Timer \in Actor /\ Main # Timer
      /\ Request \subseteq Actor /\ Main \notin Request /\ Timer \notin Request
      /\ NoTask \notin Task /\ NoPair \notin Pair /\ NoActor \notin Actor
  BY ConstantsAssumption DEF TypeOK, Places, Actor
<1>1. StopsAll(a, T, X) \/ \E p \in X, S \in SUBSET X : StopsUpTo(a, T, X, p, S)
  BY <1>0, StopPairsEffect
<1>2. \A b \in Actor \ {a} : spc[b] \notin InPass
  <2>1. CASE spc[a] \in {"match", "await"}
    BY <2>1, OneAtATime DEF InPass
  <2>2. CASE a = Main /\ spc[Main] = "stopping" /\ spc[Timer] = "ended"
    BY <1>0, <2>2 DEF Serving, InPass, Actor
  <2> QED BY <2>1, <2>2
<1>3. /\ spc[a] \notin {"none", "idle", "serving"}
      /\ \A b \in Actor \ {a} : spc'[b] = spc[b] \/ (a = Main /\ b = Timer)
      /\ \A b \in Actor \ {a} : spc'[b] = spc[b] \/ (spc[b] = "none" /\ spc'[b] = "sleep")
  <2>1. spc[a] \notin {"none", "idle", "serving"}
    BY <1>0
  <2>2. CASE StopsAll(a, T, X)
    <3>1. Finish(a)
      BY <2>2 DEF StopsAll
    <3>2. \A b \in Actor \ {a} : spc'[b] = spc[b] \/ (a = Main /\ spc[b] = "none" /\ spc'[b] = "sleep")
      BY <3>1, FinishEffect
    <3>3. a = Main => \A r \in Request : spc[r] = "idle"
      BY <2>1 DEF Serving
    <3> QED BY <1>0, <2>1, <3>2, <3>3 DEF Actor
  <2>3. ASSUME NEW p \in X, NEW S \in SUBSET X, StopsUpTo(a, T, X, p, S)
        PROVE  \A b \in Actor \ {a} : spc'[b] = spc[b]
    BY <2>3 DEF StopsUpTo, TypeOK
  <2> QED BY <1>1, <2>1, <2>2, <2>3
<1>4. Serving'
  BY <1>0, <1>3 DEF Serving
<1>5. \A t \in Task : place'[t] = "collect" => place[t] = "collect"
  BY DEF Live
<1>6. \A t \in Task : place'[t] \in Live => T[t.pair] = t /\ (t.pair \in X => place[t] = place'[t])
  <2> SUFFICES ASSUME NEW t \in Task, place'[t] \in Live
               PROVE  T[t.pair] = t /\ (t.pair \in X => place[t] = place'[t])
    OBVIOUS
  <2>1. t.pair \in Pair
    BY DEF Task
  <2> QED BY <2>1 DEF NoStrayTask
<1>7. CASE StopsAll(a, T, X)
  <2>1. /\ \A q \in X : T[q] \in Task => place'[T[q]] \notin Live
        /\ tasks' = [q \in Pair |-> IF q \in X THEN NoTask ELSE T[q]]
        /\ extra' = {} /\ cancelled' = {} /\ awaited' = NoTask
        /\ Finish(a)
    BY <1>7 DEF StopsAll
  <2>2. /\ spc'[a] \in {"serving", "over", "sleep", "idle", "erase"}
        /\ a \in Request => spc'[a] = IF erasing[a] = NoPair THEN "idle" ELSE "erase"
    BY <2>1, FinishEffect
  <2>3. \A b \in Actor : spc'[b] \notin InPass
    BY <1>2, <1>3, <2>2 DEF InPass
  <2>4. OnePass' /\ OneCancelled' /\ Stopping'
    BY <1>0, <2>1, <2>3 DEF OnePass, OneCancelled, Stopping, InPass
  <2>5. NoStrayTask'
    <3> SUFFICES ASSUME NEW t \in Task, place'[t] \in Live PROVE tasks'[t.pair] = t
      BY DEF NoStrayTask
    <3> QED BY <1>6, <2>1 DEF Task
  <2>6. Erasing'
    BY <1>0, <1>3, <2>2 DEF Erasing
  <2>7. DeletionIsQuiet'
    <3> SUFFICES ASSUME NEW r \in Request, spc'[r] = "erase", r \notin again,
                        NEW t \in TasksOf(erasing[r]), place'[t] = "collect"
                 PROVE  FALSE
      BY Zenon DEF DeletionIsQuiet, TasksOf
    <3>1. t \in Task /\ t.pair = erasing[r] /\ place[t] = "collect"
      BY <1>5 DEF TasksOf
    <3>2. CASE r # a
      BY <1>0, <1>3, <3>1, <3>2 DEF DeletionIsQuiet
    <3>3. CASE r = a
      <4>1. t.pair \in X
        BY <3>1, <3>3
      <4>2. T[t.pair] = t /\ place'[t] \in Live
        BY <1>6, <3>1 DEF Live
      <4> QED BY <2>1, <3>1, <4>1, <4>2
    <3> QED BY <3>2, <3>3
  <2> QED BY <1>4, <2>4, <2>5, <2>6, <2>7
<1>8. ASSUME NEW p \in X, NEW S \in SUBSET X, StopsUpTo(a, T, X, p, S)
      PROVE  SupervisorInv'
  <2>1. /\ p \in S /\ T[p] \in Task /\ place'[T[p]] \in Live
        /\ \A q \in S \ {p} : T[q] \in Task => place'[T[q]] \notin Live
        /\ tasks' = [q \in Pair |-> IF q \in S THEN NoTask ELSE T[q]]
        /\ extra' = X \ S /\ cancelled' = {T[p]} /\ awaited' = T[p]
        /\ spc' = [spc EXCEPT ![a] = "await"] /\ holder' = holder
    BY <1>8 DEF StopsUpTo
  <2>2. spc'[a] = "await" /\ \A b \in Actor \ {a} : spc'[b] = spc[b]
    BY <2>1 DEF TypeOK
  <2>3. OnePass'
    BY <1>0, <1>2, <2>1, <2>2 DEF OnePass, InPass
  <2>4. OneCancelled'
    BY <2>1, <2>2 DEF OneCancelled
  <2>5. \A t \in Task : place'[t] \in Live => t = awaited' \/ (t.pair \notin S /\ tasks'[t.pair] = t)
    <3> SUFFICES ASSUME NEW t \in Task, place'[t] \in Live, t # T[p]
                 PROVE  t.pair \notin S /\ tasks'[t.pair] = t
      BY <2>1
    <3> QED BY <1>6, <2>1 DEF Task
  <2>6. NoStrayTask'
    BY <2>1, <2>5 DEF NoStrayTask
  <2>7. Erasing'
    BY <1>0, <1>3, <2>2 DEF Erasing
  <2>8. Stopping'
    <3> SUFFICES ASSUME NEW r \in Request, r \notin again
                 PROVE  /\ spc'[r] # "match"
                        /\ spc'[r] = "await" =>
                             \A t \in TasksOf(erasing[r]) : place'[t] = "collect" =>
                               t = awaited' \/ (erasing[r] \in extra' /\ tasks'[erasing[r]] = t)
      BY DEF Stopping, TasksOf
    <3>1. spc'[r] # "match" /\ (spc'[r] = "await" => r = a)
      BY <1>0, <1>2, <2>2 DEF InPass
    <3>2. ASSUME r = a, NEW t \in TasksOf(erasing[r]), place'[t] = "collect", t # awaited'
          PROVE  erasing[r] \in extra' /\ tasks'[erasing[r]] = t
      <4>1. t \in Task /\ t.pair = erasing[a] /\ place[t] = "collect" /\ place'[t] \in Live
        BY <1>5, <3>2 DEF TasksOf, Live
      <4>2. t.pair \in X
        BY <3>2, <4>1
      <4> QED BY <2>1, <2>5, <3>2, <4>1, <4>2
    <3> QED BY <3>1, <3>2
  <2>9. DeletionIsQuiet'
    <3> SUFFICES ASSUME NEW r \in Request, spc'[r] = "erase", r \notin again,
                        NEW t \in TasksOf(erasing[r]), place'[t] = "collect"
                 PROVE  FALSE
      BY ZenonT(20) DEF DeletionIsQuiet, TasksOf
    <3>1. t \in Task /\ place[t] = "collect" /\ spc[r] = "erase"
      BY <1>0, <1>5, <2>2 DEF TasksOf
    <3> QED BY <3>1 DEF DeletionIsQuiet
  <2> QED BY <1>4, <2>3, <2>4, <2>6, <2>7, <2>8, <2>9
<1> QED BY <1>1, <1>7, <1>8

(* A step of a task or a revival: a task that comes to run is the one its  *)
(* pair has, and it goes on to collect only where the pair is tracked.     *)
LEMMA TaskKeeps ==
  ASSUME SupervisorInv, TypeOK', NEW t \in Task, TaskStep(t) \/ TaskEvent(t)
  PROVE  SupervisorInv'
<1> USE DEF SupervisorInv
<1>0. (\A u \in Task : u.pair \in Pair) /\ cancelled \subseteq Task /\ NoTask \notin Task /\ NoPair \notin Pair
  BY ConstantsAssumption DEF Task, TypeOK
<1>1. UNCHANGED <<tracked, spc, holder, wanted, extra, awaited, erasing, again>>
  BY DEF TaskStep, TaskEvent, Check, Recheck, Retry, EndCancelled, PairEnded, ReviveReads,
     ReviveStarts, FeedEnds, TrackedReadFails, ReviveReadFails, pass
<1>2. /\ \A u \in Task \ {t} : place'[u] = place[u]
      /\ \A p \in Pair \ {t.pair} : tasks'[p] = tasks[p]
  BY <1>0 DEF TypeOK, TaskStep, TaskEvent, Check, Recheck, Retry, EndCancelled, PairEnded,
     ReviveReads, ReviveStarts, FeedEnds, TrackedReadFails, ReviveReadFails, Move
<1>3. place'[t] = "collect" => t.pair \in tracked
  <2>1. CASE Check(t) \/ Recheck(t) \/ Retry(t) \/ FeedEnds(t) \/ TrackedReadFails(t)
    BY <2>1 DEF TypeOK, Check, Recheck, Retry, FeedEnds, TrackedReadFails, Move
  <2>2. CASE EndCancelled(t) \/ PairEnded(t) \/ ReviveReads(t) \/ ReviveReadFails(t) \/ ReviveStarts(t)
    BY <2>2 DEF TypeOK, EndCancelled, PairEnded, ReviveReads, ReviveReadFails, ReviveStarts, Move
  <2> QED BY <2>1, <2>2 DEF TaskStep, TaskEvent
<1>4. cancelled' = cancelled \ {t}
  BY DEF OneCancelled, Runs, Live, Ended, TaskStep, TaskEvent, Check, Recheck, Retry,
     EndCancelled, PairEnded, ReviveReads, ReviveStarts, FeedEnds, TrackedReadFails,
     ReviveReadFails
<1>5. \A u \in Task \ {t} : tasks[u.pair] = u /\ place[u] \in Live => tasks'[u.pair] = u
  BY <1>0 DEF TypeOK, TaskStep, TaskEvent, Check, Recheck, Retry, EndCancelled, PairEnded,
     ReviveReads, ReviveStarts, FeedEnds, TrackedReadFails, ReviveReadFails
<1>6. place'[t] \in Live => tasks'[t.pair] = t
  <2>1. CASE Check(t) \/ Recheck(t) \/ Retry(t) \/ FeedEnds(t) \/ TrackedReadFails(t)
    <3>1. place[t] \in Live /\ t \notin cancelled
      BY <2>1 DEF Check, Recheck, Retry, FeedEnds, TrackedReadFails, Runs, Live
    <3>2. tasks' = tasks
      BY <2>1 DEF Check, Recheck, Retry, FeedEnds, TrackedReadFails
    <3> QED BY <3>1, <3>2 DEF NoStrayTask
  <2>2. CASE EndCancelled(t) \/ PairEnded(t) \/ ReviveReads(t) \/ ReviveReadFails(t)
    BY <2>2 DEF TypeOK, EndCancelled, PairEnded, ReviveReads, ReviveReadFails, Move, Live
  <2>3. CASE ReviveStarts(t)
    BY <1>0, <2>3 DEF TypeOK, ReviveStarts, Move, Live
  <2> QED BY <2>1, <2>2, <2>3 DEF TaskStep, TaskEvent
<1>7. Serving' /\ OnePass' /\ Erasing'
  BY <1>1 DEF Serving, OnePass, Erasing
<1>8. OneCancelled' /\ NoStrayTask'
  BY <1>0, <1>1, <1>2, <1>4, <1>5, <1>6 DEF OneCancelled, NoStrayTask
<1>9. \A r \in Request : r \notin again =>
        \A u \in TasksOf(erasing[r]) : place'[u] = "collect" => u # t /\ place[u] = "collect"
  <2> SUFFICES ASSUME NEW r \in Request, r \notin again, NEW u \in TasksOf(erasing[r]),
                      place'[u] = "collect"
               PROVE  u # t /\ place[u] = "collect"
    OBVIOUS
  <2>1. u \in Task /\ u.pair = erasing[r] /\ u.pair \in Pair
    BY DEF TasksOf, Task
  <2>2. erasing[r] \notin tracked
    BY <1>0, <2>1 DEF Erasing
  <2> QED BY <1>2, <1>3, <2>1, <2>2
<1>10. DeletionIsQuiet'
  <2> SUFFICES ASSUME NEW r \in Request, spc[r] = "erase", r \notin again,
                      NEW u \in TasksOf(erasing[r]), place'[u] = "collect"
               PROVE  FALSE
    BY <1>1 DEF DeletionIsQuiet, TasksOf
  <2> QED BY <1>9 DEF DeletionIsQuiet
<1>11. Stopping'
  <2> SUFFICES ASSUME NEW r \in Request, r \notin again
               PROVE  /\ spc[r] = "match" => erasing[r] \notin wanted
                      /\ spc[r] = "await" =>
                           \A u \in TasksOf(erasing[r]) : place'[u] = "collect" =>
                             u = awaited \/ (erasing[r] \in extra /\ tasks'[erasing[r]] = u)
    BY <1>1 DEF Stopping, TasksOf
  <2>1. ASSUME spc[r] = "await", NEW u \in TasksOf(erasing[r]), place'[u] = "collect", u # awaited
        PROVE  erasing[r] \in extra /\ tasks'[erasing[r]] = u
    <3>1. u \in Task \ {t} /\ u.pair = erasing[r] /\ place[u] \in Live
      BY <1>9, <2>1 DEF TasksOf, Live
    <3>2. erasing[r] \in extra /\ tasks[erasing[r]] = u
      BY <1>9, <2>1 DEF Stopping
    <3> QED BY <1>5, <3>1, <3>2
  <2> QED BY <2>1 DEF Stopping
<1> QED BY <1>7, <1>8, <1>10, <1>11

(* A pass that takes the lock, reads, or fails to.                         *)
LEMMA ReadingKeeps ==
  ASSUME SupervisorInv, TypeOK', NEW a \in Actor,
         AcquireSync(a) \/ ReadTracked(a) \/ ReadTrackedFails(a)
  PROVE  SupervisorInv'
<1> USE DEF SupervisorInv
<1>0. /\ Main \in Actor /\ Timer \in Actor /\ Main # Timer /\ NoActor \notin Actor
      /\ Request \subseteq Actor /\ Main \notin Request /\ Timer \notin Request
      /\ NoTask \notin Task /\ NoPair \notin Pair
  BY ConstantsAssumption DEF Actor
<1>1. UNCHANGED <<tracked, tasks, place, cancelled, extra, awaited>>
      /\ \A b \in Actor \ {a} : spc'[b] = spc[b]
  BY DEF AcquireSync, ReadTracked, ReadTrackedFails, Goto, TypeOK
<1>2. spc[a] \in {"want", "read"} /\ spc'[a] \notin {"erase", "await", "serving"}
  BY DEF AcquireSync, ReadTracked, ReadTrackedFails, Goto, Abandoned, TypeOK
<1>3. Serving' /\ OneCancelled' /\ NoStrayTask'
  BY <1>0, <1>1, <1>2 DEF Serving, OneCancelled, NoStrayTask
<1>4. CASE AcquireSync(a)
  <2>1. /\ holder = NoActor /\ holder' = a /\ spc'[a] = "read" /\ spc[a] = "want"
        /\ UNCHANGED <<wanted, erasing, again>>
    BY <1>4 DEF AcquireSync, Goto, TypeOK
  <2>2. \A b \in Actor : spc'[b] \in InPass => b = a
    BY <1>0, <1>1, <2>1 DEF OnePass, Serving, InPass, Actor
  <2>3. OnePass' /\ Erasing' /\ DeletionIsQuiet' /\ Stopping'
    BY <1>0, <1>1, <2>1, <2>2 DEF OnePass, Erasing, DeletionIsQuiet, Stopping, InPass, TasksOf
  <2> QED BY <1>3, <2>3
<1>5. CASE ReadTracked(a)
  <2>1. /\ wanted' = tracked /\ spc'[a] = "match" /\ spc[a] = "read"
        /\ UNCHANGED <<holder, erasing, again>>
    BY <1>5 DEF ReadTracked, Goto, TypeOK
  <2>2. \A b \in Actor \ {a} : spc[b] \notin InPass
    BY <2>1, OneAtATime DEF InPass
  <2>3. OnePass' /\ Erasing' /\ DeletionIsQuiet'
    BY <1>0, <1>1, <2>1 DEF OnePass, Erasing, DeletionIsQuiet, InPass, TasksOf
  <2>4. Stopping'
    BY <1>0, <1>1, <2>1, <2>2 DEF Stopping, Erasing, InPass, TasksOf, TypeOK
  <2> QED BY <1>3, <2>3, <2>4
<1>6. CASE ReadTrackedFails(a)
  <2>1. /\ spc[a] = "read" /\ spc'[a] = Abandoned(a) /\ holder' = NoActor /\ wanted' = wanted
        /\ erasing' = [r \in Request |-> IF r = a THEN NoPair ELSE erasing[r]]
        /\ again' = again \ {a}
    BY <1>6 DEF ReadTrackedFails, Goto, TypeOK
  <2>2. \A b \in Actor : spc'[b] \notin InPass
    BY <1>1, <2>1, OneAtATime DEF InPass, Abandoned
  <2>3. OnePass' /\ Stopping'
    BY <1>0, <2>2 DEF OnePass, Stopping, InPass
  <2>4. Erasing'
    BY <1>0, <1>1, <2>1 DEF Erasing, Abandoned
  <2>5. DeletionIsQuiet'
    BY <1>0, <1>1, <1>2, <2>1 DEF DeletionIsQuiet, TasksOf
  <2> QED BY <1>3, <2>3, <2>4, <2>5
<1> QED BY <1>4, <1>5, <1>6

(* A pass that matches, or goes on when the task it waited for has ended.  *)
LEMMA PassKeeps ==
  ASSUME SupervisorInv, TypeOK', NEW a \in Actor, Match(a) \/ PairStopped(a)
  PROVE  SupervisorInv'
<1>0. \A t \in Task : t.pair \in Pair
  BY DEF Task
<1>1. CASE Match(a)
  <2>1. /\ spc[a] = "match" /\ wanted' = {}
        /\ UNCHANGED <<tracked, tries, erasing, again, faults>>
    BY <1>1, MatchEffect DEF SupervisorInv
  <2>2. PICK T \in [Pair -> Task \cup {NoTask}], X \in SUBSET Pair :
              /\ StopPairs(a, T, X)
              /\ \A t \in Task : place'[t] # place[t] =>
                   place[t] = "free" /\ place'[t] = "check" /\ T[t.pair] = t /\ t.pair \notin X
              /\ \A p \in Pair : tasks[p] \in Task /\ place[tasks[p]] \in Live => T[p] = tasks[p]
              /\ \A p \in Pair \ wanted : T[p] # NoTask => p \in X
    BY <1>1, MatchEffect DEF SupervisorInv
  <2>3. cancelled = {}
    <3>1. \A b \in Actor : spc[b] # "await"
      BY <2>1, OneAtATime DEF SupervisorInv, InPass
    <3> QED BY <3>1, NothingCancelled DEF SupervisorInv
  <2>4. ASSUME a \in Request, a \notin again, NEW t \in TasksOf(erasing[a]), place[t] = "collect"
        PROVE  erasing[a] \in X
    <3>1. t \in Task /\ t.pair = erasing[a] /\ place[t] \in Live
      BY <2>4 DEF TasksOf, Live
    <3>2. erasing[a] \in Pair \ wanted
      BY <1>0, <2>1, <2>4, <3>1 DEF SupervisorInv, Stopping
    <3>3. T[erasing[a]] = t
      BY <1>0, <2>2, <2>3, <3>1 DEF SupervisorInv, NoStrayTask
    <3>4. t # NoTask
      BY <3>1, ConstantsAssumption
    <3> QED BY <2>2, <3>2, <3>3, <3>4
  <2>5. \A t \in Task : place'[t] \in Live =>
          \/ place'[t] = place[t]
          \/ place'[t] = "check" /\ T[t.pair] = t /\ t.pair \notin X
    BY <2>2
  <2>6. \A p \in Pair : tasks[p] \in Task /\ place[tasks[p]] \in Live => T[p] = tasks[p]
    BY <2>2
  <2> QED BY <2>1, <2>2, <2>3, <2>4, <2>5, <2>6, StoppingKeeps
<1>2. CASE PairStopped(a)
  <2>1. /\ spc[a] = "await" /\ place[awaited] \notin Live /\ place' = place
        /\ StopPairs(a, tasks, extra)
        /\ UNCHANGED <<tracked, tries, wanted, erasing, again, faults>>
    BY <1>2 DEF PairStopped
  <2>2. cancelled = {}
    BY <2>1, AwaitedHasEnded DEF SupervisorInv
  <2>3. tasks \in [Pair -> Task \cup {NoTask}] /\ extra \in SUBSET Pair
    BY DEF SupervisorInv, TypeOK
  <2>4. a \in Request /\ a \notin again =>
          \A t \in TasksOf(erasing[a]) : place[t] = "collect" => erasing[a] \in extra
    BY <2>1 DEF SupervisorInv, Stopping, Live
  <2> QED BY <2>1, <2>2, <2>3, <2>4, StoppingKeeps
<1> QED BY <1>1, <1>2

(* stop(): the reconcile timer, then the revivals and the pairs.           *)
LEMMA StopKeeps ==
  ASSUME SupervisorInv, TypeOK', CancelReconcile \/ StopRevivalsAndPairs
  PROVE  SupervisorInv'
<1>0. /\ Main \in Actor /\ Timer \in Actor /\ Main # Timer /\ NoActor \notin Actor
      /\ Request \subseteq Actor /\ Main \notin Request /\ Timer \notin Request
      /\ NoTask \notin Task /\ \A t \in Task : t.pair \in Pair
  BY ConstantsAssumption DEF Actor, Task
<1>1. CASE CancelReconcile
  <2>1. /\ spc[Main] = "serving" /\ \A r \in Request : spc[r] = "idle"
        /\ spc' = [spc EXCEPT ![Main] = "stopping",
                              ![Timer] = IF @ = "await" THEN @ ELSE "ended"]
        /\ holder' = IF holder = Timer /\ spc[Timer] # "await" THEN NoActor ELSE holder
        /\ UNCHANGED <<tracked, tasks, place, cancelled, extra, awaited, erasing, again>>
    BY <1>1 DEF CancelReconcile
  <2>2. /\ \A r \in Request : spc'[r] = "idle"
        /\ spc'[Main] = "stopping"
        /\ spc'[Timer] = IF spc[Timer] = "await" THEN "await" ELSE "ended"
    BY <1>0, <2>1 DEF SupervisorInv, TypeOK
  <2>3. OnePass'
    <3>1. \A b \in Actor : spc'[b] \in InPass => b = Timer /\ spc[Timer] = "await"
      BY <2>2 DEF Actor, InPass
    <3>2. spc[Timer] = "await" => holder = Timer
      BY <1>0 DEF SupervisorInv, OnePass, InPass
    <3>3. spc[Timer] = "await" => holder' = Timer
      BY <2>1, <3>2
    <3> QED BY <3>1, <3>3 DEF OnePass
  <2>4. OneCancelled'
    BY <1>0, <2>1, <2>2 DEF SupervisorInv, OneCancelled, Actor
  <2>5. Serving' /\ NoStrayTask' /\ Erasing' /\ Stopping' /\ DeletionIsQuiet'
    BY <1>0, <2>1, <2>2
       DEF SupervisorInv, Serving, NoStrayTask, Erasing, Stopping, DeletionIsQuiet
  <2> QED BY <2>3, <2>4, <2>5 DEF SupervisorInv
<1>2. CASE StopRevivalsAndPairs
  <2>1. /\ spc[Main] = "stopping" /\ spc[Timer] = "ended"
        /\ place' = [t \in Task |-> IF place[t] \in Reviving THEN "free" ELSE place[t]]
        /\ StopPairs(Main, tasks, Running)
        /\ UNCHANGED <<tracked, wanted, erasing, again, faults>>
    BY <1>2 DEF StopRevivalsAndPairs
  <2>2. cancelled = {}
    <3>1. \A b \in Actor : spc[b] # "await"
      BY <1>0, <2>1 DEF SupervisorInv, Serving, Actor
    <3> QED BY <3>1, NothingCancelled DEF SupervisorInv
  <2>3. tasks \in [Pair -> Task \cup {NoTask}] /\ Running \in SUBSET Pair
    BY DEF SupervisorInv, TypeOK, Running
  <2>4. \A t \in Task : place'[t] \in Live => place'[t] = place[t]
    BY <2>1 DEF Live
  <2> QED BY <1>0, <2>1, <2>2, <2>3, <2>4, StoppingKeeps
<1> QED BY <1>1, <1>2

(* The handlers: an untracked pair is tracked again only by a request that *)
(* marks the DELETEs about it as overtaken.                                *)
LEMMA HandlersKeep ==
  ASSUME SupervisorInv, TypeOK',
         \/ \E r \in Request, p \in Pair : TrackPair(r, p) \/ CloseForDeletion(r, p)
         \/ \E r \in Request : DeletePairData(r)
         \/ Tick
  PROVE  SupervisorInv'
<1> USE DEF SupervisorInv
<1>0. /\ Main \in Actor /\ Timer \in Actor /\ Main # Timer /\ NoPair \notin Pair
      /\ Request \subseteq Actor /\ Main \notin Request /\ Timer \notin Request
      /\ NoTask \notin Task /\ \A t \in Task : t.pair \in Pair
  BY ConstantsAssumption DEF Actor, Task
<1>1. UNCHANGED <<tasks, place, cancelled, holder, wanted, extra, awaited>>
  BY DEF TrackPair, CloseForDeletion, DeletePairData, Tick, pass
<1>2. ASSUME NEW r \in Request, NEW p \in Pair, TrackPair(r, p)
      PROVE  SupervisorInv'
  <2>1. /\ spc[Main] = "serving" /\ spc[r] = "idle" /\ tracked' = tracked \cup {p}
        /\ again' = again \cup {q \in Request : erasing[q] = p} /\ erasing' = erasing
        /\ spc'[r] = "want" /\ \A b \in Actor \ {r} : spc'[b] = spc[b]
    BY <1>0, <1>2 DEF TrackPair, Goto, TypeOK
  <2>2. Serving' /\ OnePass' /\ OneCancelled' /\ NoStrayTask'
    BY <1>0, <1>1, <2>1 DEF Serving, OnePass, OneCancelled, NoStrayTask, InPass
  <2>3. Erasing' /\ Stopping' /\ DeletionIsQuiet'
    BY <1>0, <1>1, <2>1 DEF Erasing, Stopping, DeletionIsQuiet, TasksOf
  <2> QED BY <2>2, <2>3
<1>3. ASSUME NEW r \in Request, NEW p \in Pair, CloseForDeletion(r, p)
      PROVE  SupervisorInv'
  <2>1. /\ spc[Main] = "serving" /\ spc[r] = "idle" /\ tracked' = tracked \ {p}
        /\ erasing'[r] = p /\ again' = again
        /\ \A q \in Request \ {r} : erasing'[q] = erasing[q]
        /\ spc'[r] = "want" /\ \A b \in Actor \ {r} : spc'[b] = spc[b]
    BY <1>0, <1>3 DEF CloseForDeletion, Goto, TypeOK
  <2>2. Serving' /\ OnePass' /\ OneCancelled' /\ NoStrayTask'
    BY <1>0, <1>1, <2>1 DEF Serving, OnePass, OneCancelled, NoStrayTask, InPass
  <2>3. Erasing' /\ Stopping' /\ DeletionIsQuiet'
    BY <1>0, <1>1, <2>1 DEF Erasing, Stopping, DeletionIsQuiet, TasksOf
  <2> QED BY <2>2, <2>3
<1>4. ASSUME NEW r \in Request, DeletePairData(r)
      PROVE  SupervisorInv'
  <2>1. /\ spc[r] = "erase" /\ tracked' = tracked
        /\ erasing'[r] = NoPair /\ again' = again \ {r}
        /\ \A q \in Request \ {r} : erasing'[q] = erasing[q]
        /\ spc'[r] = "idle" /\ \A b \in Actor \ {r} : spc'[b] = spc[b]
    BY <1>0, <1>4 DEF DeletePairData, Goto, TypeOK
  <2>2. Serving' /\ OnePass' /\ OneCancelled' /\ NoStrayTask'
    BY <1>0, <1>1, <2>1 DEF Serving, OnePass, OneCancelled, NoStrayTask, InPass
  <2>3. Erasing' /\ Stopping' /\ DeletionIsQuiet'
    BY <1>0, <1>1, <2>1 DEF Erasing, Stopping, DeletionIsQuiet, TasksOf
  <2> QED BY <2>2, <2>3
<1>5. CASE Tick
  <2>1. /\ spc[Timer] = "sleep" /\ spc'[Timer] = "want"
        /\ \A b \in Actor \ {Timer} : spc'[b] = spc[b]
        /\ UNCHANGED <<tracked, erasing, again>>
    BY <1>0, <1>5 DEF Tick, Goto, TypeOK
  <2>2. Serving' /\ OnePass' /\ OneCancelled' /\ NoStrayTask'
    BY <1>0, <1>1, <2>1 DEF Serving, OnePass, OneCancelled, NoStrayTask, InPass
  <2>3. Erasing' /\ Stopping' /\ DeletionIsQuiet'
    BY <1>0, <1>1, <2>1 DEF Erasing, Stopping, DeletionIsQuiet, TasksOf
  <2> QED BY <2>2, <2>3
<1> QED BY <1>2, <1>3, <1>4, <1>5

LEMMA SupervisorInit == Init => SupervisorInv
<1> SUFFICES ASSUME Init PROVE SupervisorInv
  OBVIOUS
<1>1. TypeOK
  BY TypeInit
<1>2. /\ \A r \in Request : spc[r] = "idle"
      /\ \A a \in Actor : spc[a] \in {"want", "none", "idle"}
      /\ \A t \in Task : place[t] = "free"
  BY ConstantsAssumption DEF Init, Actor
<1>3. Serving /\ OnePass /\ OneCancelled /\ NoStrayTask
  BY <1>2 DEF Init, Serving, OnePass, OneCancelled, NoStrayTask, InPass, Live
<1>4. Erasing /\ Stopping /\ DeletionIsQuiet
  BY <1>2 DEF Init, Erasing, Stopping, DeletionIsQuiet
<1> QED BY <1>1, <1>3, <1>4 DEF SupervisorInv

LEMMA SupervisorNext == SupervisorInv /\ [Next]_vars => SupervisorInv'
<1> SUFFICES ASSUME SupervisorInv, [Next]_vars PROVE SupervisorInv'
  OBVIOUS
<1>0. TypeOK'
  BY TypeNext DEF SupervisorInv
<1>1. CASE UNCHANGED vars
  BY <1>1 DEF SupervisorInv, vars, pass, TypeOK, Serving, OnePass, OneCancelled, NoStrayTask,
     Erasing, Stopping, DeletionIsQuiet
<1>2. CASE \E t \in Task : TaskStep(t) \/ TaskEvent(t)
  BY <1>0, <1>2, TaskKeeps
<1>3. CASE \E a \in Actor : SyncStep(a) \/ ReadTrackedFails(a)
  BY <1>0, <1>3, ReadingKeeps, PassKeeps DEF SyncStep
<1>4. CASE \/ \E r \in Request, p \in Pair : TrackPair(r, p) \/ CloseForDeletion(r, p)
           \/ \E r \in Request : DeletePairData(r)
           \/ Tick
  BY <1>0, <1>4, HandlersKeep
<1>5. CASE CancelReconcile \/ StopRevivalsAndPairs
  BY <1>0, <1>5, StopKeeps
<1> QED BY <1>1, <1>2, <1>3, <1>4, <1>5 DEF Next

LEMMA SupervisorAlways == Spec => []SupervisorInv
BY SupervisorInit, SupervisorNext, PTL DEF Spec

(* A task that runs and was not told to end is the one _tasks holds for    *)
(* its pair: no pair is collected twice, or by a task no pass can stop.    *)
THEOREM EveryTaskIsHeld == Spec => []NoStrayTask
<1>1. SupervisorInv => NoStrayTask
  BY DEF SupervisorInv
<1> QED BY <1>1, SupervisorAlways, PTL

(* delete_pair_data finds no task of its pair past the first check, unless *)
(* the pair was tracked again after the DELETE closed it.                  *)
THEOREM ErasesInQuiet == Spec => []DeletionIsQuiet
<1>1. SupervisorInv => DeletionIsQuiet
  BY DEF SupervisorInv
<1> QED BY <1>1, SupervisorAlways, PTL

(* A task told to end is one that still runs and that a pass waits for, so *)
(* whatever a pass stopped has ended when the pass is over.                *)
THEOREM NobodyEndsUnawaited ==
  Spec => [](\A t \in cancelled : place[t] \in Live /\ t = awaited
                                  /\ \E a \in Actor : spc[a] = "await")
<1>1. SupervisorInv => \A t \in cancelled : place[t] \in Live /\ t = awaited
                                            /\ \E a \in Actor : spc[a] = "await"
  BY ConstantsAssumption DEF SupervisorInv, OneCancelled, TypeOK
<1> QED BY <1>1, SupervisorAlways, PTL
=============================================================================

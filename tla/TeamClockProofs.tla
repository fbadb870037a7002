-------------------------- MODULE TeamClockProofs ---------------------------
(***************************************************************************)
(* Proofs about TeamClock, for any schedules and triggers, any number of   *)
(* runs kept of each, any threshold and any number of faults: its types,   *)
(* that a source never overlaps itself on record, that every fire is       *)
(* accounted for, and that a streak of failures switches its source off.   *)
(* The second half is about FilmRoad, whose spec shares nothing with it.   *)
(***************************************************************************)
EXTENDS TeamClock, FilmRoad, FiniteSetTheorems, TLAPS

ClockRecord == [at : AtStatement \cup {"asleep", "next"}, list : SUBSET Source,
                table : {Schedule, Trigger}, row : Source \cup {Nothing},
                last : BOOLEAN, run : Run \cup {Nothing}]

Types ==
  /\ enabled \in [Source -> BOOLEAN] /\ due \in [Source -> BOOLEAN]
  /\ failures \in [Source -> Nat] /\ lastResult \in [Trigger -> BOOLEAN]
  /\ latest \in [Source -> Run \cup {Nothing}]
  /\ run \in [Run -> RunRecord]
  /\ clock \in ClockRecord
  /\ owed \in [Source -> Nat] /\ faults \in 0..MaxFault

(* A run is somebody's, and only one that may still count has a task that  *)
(* waits for it.                                                           *)
Tracked ==
  \A r \in Run : /\ run[r].status # "none" => run[r].of \in Source
                 /\ run[r].tracker # "none" => run[r].status \notin {"none", "cancelled"}

(* The clock has a row in hand exactly between its claim and what the turn *)
(* comes to, and a run from its start to its fire row.                     *)
Asking == {"ask", "true", "false", "unavailable"}

InHand ==
  /\ clock.at \in AtStatement => clock.row \in Source
  /\ clock.at \notin AtStatement => clock.row = Nothing
  /\ clock.at \in Asking => clock.row \in Trigger
  /\ clock.at = "started" => /\ clock.run \in Run /\ run[clock.run].of = clock.row
                             /\ run[clock.run].tracker = "none"
                             /\ run[clock.run].status # "none"
  /\ clock.at # "started" => clock.run = Nothing

(* Of a source, the run at work that is on record is its latest one, there *)
(* is none while another is being started, and the clock lost sight of a   *)
(* run only by a fault.                                                    *)
Working(r)  == run[r].status \in Open
OnRecord(r) == Working(r) /\ run[r].fired

Seen ==
  /\ \A r \in Run : OnRecord(r) => latest[run[r].of] = r
  /\ clock.at \in {"start", "started"} => \A r \in Run : OnRecord(r) => run[r].of # clock.row
  /\ faults = 0 => \A r \in Run :
       Working(r) => run[r].fired \/ (clock.at = "started" /\ r = clock.run)

TurnInv == Types /\ Tracked /\ InHand /\ Seen /\ FireIsAccounted

(***************************************************************************)
(* The initial state.                                                      *)
(***************************************************************************)

LEMMA NoRunType == NoRun \in RunRecord /\ NoRun.status = "none" /\ NoRun.tracker = "none"
BY DEF NoRun, RunRecord, Open, Ended

LEMMA AsleepType ==
  /\ Asleep \in ClockRecord /\ Asleep.at = "asleep" /\ Asleep.row = Nothing /\ Asleep.run = Nothing
BY DEF Asleep, ClockRecord

LEMMA TurnInit == Init => TurnInv
<1> SUFFICES ASSUME Init PROVE TurnInv
  OBVIOUS
<1>1. 0 \in 0..MaxFault
  BY ClockAssumption
<1>2. Types
  BY <1>1, NoRunType, AsleepType DEF Init, Types
<1>3. \A r \in Run : run[r].status = "none" /\ run[r].tracker = "none"
  BY NoRunType DEF Init
<1>4. clock.at = "asleep" /\ clock.row = Nothing /\ clock.run = Nothing /\ \A s \in Source : owed[s] = 0
  BY AsleepType DEF Init
<1>5. Tracked /\ InHand /\ Seen
  BY <1>3, <1>4 DEF Tracked, InHand, Seen, OnRecord, Working, Open, AtStatement, Asking
<1>6. FireIsAccounted
  BY <1>4, NothingAssumption DEF FireIsAccounted
<1> QED BY <1>2, <1>5, <1>6 DEF TurnInv

(***************************************************************************)
(* The runs.                                                               *)
(***************************************************************************)

(* What is over is forgotten, and what is at work never is.                *)
LEMMA SettleFacts ==
  ASSUME NEW new \in [Run -> RunRecord], NEW newest \in [Source -> Run \cup {Nothing}],
         NEW held, WriteRuns(new, newest, held)
  PROVE  /\ run' \in [Run -> RunRecord] /\ latest' \in [Source -> Run \cup {Nothing}]
         /\ \A r \in Run : run'[r] = new[r] \/ run'[r] = NoRun
         /\ held \in Run => run'[held] = new[held]
         /\ \A r \in Run : run'[r].status = "cancelled" => r = held
         /\ \A s \in Source : newest[s] \in Run /\ new[newest[s]].status \in Open =>
              latest'[s] = newest[s]
<1>1. /\ run' = [r \in Run |-> IF Over(new[r]) /\ r # held THEN NoRun ELSE new[r]]
      /\ latest' = [s \in Source |->
                     IF newest[s] # Nothing /\ Over(new[newest[s]]) THEN Nothing ELSE newest[s]]
  BY DEF WriteRuns
<1>2. run' \in [Run -> RunRecord] /\ latest' \in [Source -> Run \cup {Nothing}]
  BY <1>1, NoRunType
<1>3. \A r \in Run : run'[r].status = "cancelled" => r = held
  BY <1>1, NoRunType DEF Over
<1>4. \A rec \in RunRecord : rec.status \in Open => ~Over(rec)
  BY DEF Over, Open, Ended
<1>5. \A s \in Source : newest[s] \in Run /\ new[newest[s]].status \in Open => latest'[s] = newest[s]
  BY <1>1, <1>4
<1> QED BY <1>1, <1>2, <1>3, <1>5

(* The runs move on, by themselves or with the clock losing what it held.  *)
LEMMA RunsMove ==
  ASSUME Types, Tracked, InHand, Seen,
         NEW new \in [Run -> RunRecord], NEW held,
         \A r \in Run : new[r].of = run[r].of /\ new[r].fired = run[r].fired,
         \A r \in Run : new[r].status \in Open => Working(r),
         \A r \in Run : new[r].status = "none" <=> run[r].status = "none",
         \A r \in Run : new[r].tracker # "none" => run[r].tracker # "none",
         WriteRuns(new, latest, held),
         \/ clock' = clock /\ held = clock.run /\ faults' >= faults
         \/ /\ clock'.at \in {"next", "asleep"} /\ clock'.row = Nothing /\ clock'.run = Nothing
            /\ held = Nothing /\ faults' = faults + 1
  PROVE  /\ run' \in [Run -> RunRecord] /\ latest' \in [Source -> Run \cup {Nothing}]
         /\ Tracked' /\ InHand' /\ Seen'
<1>0. /\ latest \in [Source -> Run \cup {Nothing}] /\ Nothing \notin Run /\ Nothing \notin Source
      /\ faults \in Nat
  BY NothingAssumption, ClockAssumption DEF Types
<1>1. /\ run' \in [Run -> RunRecord] /\ latest' \in [Source -> Run \cup {Nothing}]
      /\ \A r \in Run : run'[r] = new[r] \/ run'[r] = NoRun
      /\ held \in Run => run'[held] = new[held]
      /\ \A r \in Run : run'[r].status = "cancelled" => r = held
      /\ \A s \in Source : latest[s] \in Run /\ new[latest[s]].status \in Open =>
           latest'[s] = latest[s]
  BY <1>0, SettleFacts
<1>2. held \in Run => clock' = clock /\ clock.at = "started" /\ held = clock.run
  BY <1>0 DEF InHand
<1>3. Tracked'
  <2> SUFFICES ASSUME NEW r \in Run
               PROVE  /\ run'[r].status # "none" => run'[r].of \in Source
                      /\ run'[r].tracker # "none" => run'[r].status \notin {"none", "cancelled"}
    BY DEF Tracked
  <2>1. CASE run'[r] = NoRun
    BY <2>1, NoRunType
  <2>2. CASE run'[r] = new[r]
    <3>1. run'[r].status # "none" => run'[r].of \in Source
      BY <2>2 DEF Tracked
    <3>2. run'[r].tracker # "none" => run'[r].status # "none"
      BY <2>2 DEF Tracked
    <3>3. run'[r].tracker # "none" => run'[r].status # "cancelled"
      BY <1>1, <1>2, <2>2 DEF InHand
    <3> QED BY <3>1, <3>2, <3>3
  <2> QED BY <1>1, <2>1, <2>2
<1>4. \A r \in Run : Working(r)' => run'[r] = new[r] /\ Working(r)
  BY <1>1, NoRunType DEF Working, Open
<1>5. InHand'
  <2>1. CASE clock' = clock /\ held = clock.run
    <3>1. clock.at = "started" => run'[clock.run] = new[clock.run]
      BY <1>1, <2>1 DEF InHand
    <3>2. clock.at = "started" => /\ run'[clock.run].of = clock.row
                                  /\ run'[clock.run].tracker = "none"
                                  /\ run'[clock.run].status # "none"
      BY <3>1 DEF InHand
    <3> QED BY <2>1, <3>2 DEF InHand
  <2>2. CASE clock'.at \in {"next", "asleep"} /\ clock'.row = Nothing /\ clock'.run = Nothing
    BY <2>2 DEF InHand, AtStatement, Asking
  <2> QED BY <2>1, <2>2
<1>6. Seen'
  <2>1. \A r \in Run : OnRecord(r)' => OnRecord(r) /\ run'[r].of = run[r].of
    BY <1>4 DEF OnRecord
  <2>2. ASSUME NEW r \in Run, OnRecord(r)' PROVE latest'[run'[r].of] = r
    <3>1. OnRecord(r) /\ run'[r].of = run[r].of /\ run[r].of \in Source /\ latest[run[r].of] = r
      BY <2>1, <2>2 DEF Seen, Tracked, OnRecord, Working, Open
    <3>2. new[r].status \in Open
      BY <1>4, <2>2 DEF OnRecord, Working
    <3> QED BY <1>1, <3>1, <3>2
  <2>3. clock'.at \in {"start", "started"} => \A r \in Run : OnRecord(r)' => run'[r].of # clock'.row
    BY <2>1 DEF Seen
  <2>4. ASSUME faults' = 0, NEW r \in Run, Working(r)'
        PROVE  run'[r].fired \/ (clock'.at = "started" /\ r = clock'.run)
    <3>1. faults = 0 /\ clock' = clock
      BY <1>0, <2>4
    <3>2. run[r].fired \/ (clock.at = "started" /\ r = clock.run)
      BY <1>4, <2>4, <3>1 DEF Seen
    <3> QED BY <1>4, <2>4, <3>1, <3>2
  <2> QED BY <2>2, <2>3, <2>4 DEF Seen
<1> QED BY <1>1, <1>3, <1>5, <1>6

(***************************************************************************)
(* The clock, while the runs stay as they are.                             *)
(***************************************************************************)

LEMMA SeenStays ==
  ASSUME Types, Tracked, InHand, Seen, UNCHANGED <<run, latest>>, faults' \in Nat, faults' >= faults,
         clock.at # "started", clock'.at # "started",
         clock'.at = "start" =>
           clock.at = "look" /\ clock'.row = clock.row /\ ~StillWorks(clock.row)
  PROVE  Tracked' /\ Seen'
<1>0. faults \in Nat
  BY ClockAssumption DEF Types
<1>1. Tracked'
  BY DEF Tracked
<1>2. \A r \in Run : (OnRecord(r)' <=> OnRecord(r)) /\ (Working(r)' <=> Working(r))
  BY DEF OnRecord, Working
<1>3. ASSUME clock'.at = "start", NEW r \in Run, OnRecord(r), run[r].of = clock.row PROVE FALSE
  <2>1. clock.at = "look" /\ clock.row \in Source /\ ~StillWorks(clock.row)
    BY <1>3 DEF InHand, AtStatement
  <2>2. latest[clock.row] = r
    BY <1>3 DEF Seen
  <2> QED BY <1>3, <2>1, <2>2, NothingAssumption DEF StillWorks, InProgress, OnRecord, Working
<1>4. clock'.at = "start" => clock'.row = clock.row
  OBVIOUS
<1>5. \A r \in Run : OnRecord(r)' => latest'[run'[r].of] = r
  BY <1>2 DEF Seen
<1>6. clock'.at \in {"start", "started"} => \A r \in Run : OnRecord(r)' => run'[r].of # clock'.row
  BY <1>2, <1>3, <1>4
<1>7. faults' = 0 => \A r \in Run : Working(r)' => run'[r].fired
  BY <1>0, <1>2 DEF Seen
<1> QED BY <1>1, <1>5, <1>6, <1>7 DEF Seen

(* What is due is listed, row after row.                                   *)
LEMMA ListingKeeps ==
  ASSUME TurnInv, Wake \/ ListTriggers \/ WakeEnds
  PROVE  TurnInv'
<1>0. /\ Types /\ Tracked /\ InHand /\ Seen /\ FireIsAccounted /\ faults \in Nat
      /\ clock \in ClockRecord
  BY ClockAssumption DEF TurnInv, Types
<1>1. Due(Schedule) \subseteq Source /\ Due(Trigger) \subseteq Source
  BY DEF Due, Source
<1>2. /\ clock.at \in {"asleep", "next"} /\ clock'.at \in {"asleep", "next"}
      /\ clock' \in ClockRecord /\ clock'.row = Nothing /\ clock'.run = Nothing
      /\ UNCHANGED <<rows, latest, run, owed, faults>>
  BY <1>0, <1>1, AsleepType DEF Wake, ListTriggers, WakeEnds, ClockRecord, InHand, AtStatement
<1>3. Tracked' /\ Seen'
  BY <1>0, <1>2, SeenStays
<1>4. InHand'
  BY <1>2 DEF InHand, AtStatement, Asking
<1>5. Types'
  BY <1>0, <1>2 DEF Types, rows
<1>6. FireIsAccounted'
  BY <1>0, <1>2 DEF FireIsAccounted
<1> QED BY <1>3, <1>4, <1>5, <1>6 DEF TurnInv

(* A row is claimed: a schedule owes its fire from there.                  *)
LEMMA ClaimKeeps ==
  ASSUME TurnInv, NEW s \in Source, Claim(s)
  PROVE  TurnInv'
<1>0. /\ Types /\ Tracked /\ InHand /\ Seen /\ FireIsAccounted /\ faults \in Nat
      /\ clock \in ClockRecord /\ owed \in [Source -> Nat] /\ Nothing \notin Source
      /\ Source = Schedule \cup Trigger /\ Schedule \cap Trigger = {}
  BY ClockAssumption, NothingAssumption DEF TurnInv, Types, Source
<1>1. /\ clock.at = "next" /\ UNCHANGED <<enabled, failures, lastResult, latest, run, faults>>
      /\ clock.run = Nothing /\ clock.row = Nothing
  BY <1>0 DEF Claim, InHand, AtStatement
<1>2. \A q \in Source : owed[q] = 0
  BY <1>0, <1>1 DEF FireIsAccounted
<1>3. CASE enabled[s] /\ due[s]
  <2>1. /\ due' = [due EXCEPT ![s] = FALSE]
        /\ clock' = [clock EXCEPT !.list = @ \ {s}, !.row = s,
                        !.at = IF s \in Trigger THEN "ask" ELSE "look",
                        !.last = s \in Trigger /\ lastResult[s]]
        /\ IF s \in Schedule THEN Owe(s) ELSE UNCHANGED owed
    BY <1>3 DEF Claim
  <2>2. (s \in Trigger /\ lastResult[s]) \in BOOLEAN
    BY <1>0 DEF Types
  <2>3. /\ clock'.at = (IF s \in Trigger THEN "ask" ELSE "look") /\ clock'.row = s
        /\ clock'.run = Nothing /\ clock' \in ClockRecord
    BY <1>0, <1>1, <2>1, <2>2 DEF ClockRecord, AtStatement
  <2>4. owed' \in [Source -> Nat]
        /\ \A q \in Source : owed'[q] = IF q = s /\ s \in Schedule THEN 1 ELSE 0
    BY <1>0, <1>2, <2>1 DEF Owe
  <2>5. Tracked' /\ Seen'
    BY <1>0, <1>1, <2>3, SeenStays
  <2>6. InHand'
    BY <1>0, <2>3 DEF InHand, AtStatement, Asking
  <2>7. Types'
    BY <1>0, <1>1, <2>1, <2>3, <2>4 DEF Types
  <2>8. FireIsAccounted'
    BY <1>0, <2>3, <2>4 DEF FireIsAccounted
  <2> QED BY <2>5, <2>6, <2>7, <2>8 DEF TurnInv
<1>4. CASE ~(enabled[s] /\ due[s])
  <2>1. clock' = [clock EXCEPT !.list = @ \ {s}] /\ UNCHANGED <<due, owed>>
    BY <1>4 DEF Claim
  <2>2. /\ clock' \in ClockRecord /\ clock'.at = "next" /\ clock'.row = Nothing /\ clock'.run = Nothing
    BY <1>0, <1>1, <2>1 DEF ClockRecord
  <2>3. Tracked' /\ Seen'
    BY <1>0, <1>1, <2>2, SeenStays
  <2>4. InHand'
    BY <2>2 DEF InHand, AtStatement, Asking
  <2>5. Types'
    BY <1>0, <1>1, <2>1, <2>2 DEF Types
  <2>6. FireIsAccounted'
    BY <1>0, <1>2, <2>1, <2>2 DEF FireIsAccounted
  <2> QED BY <2>3, <2>4, <2>5, <2>6 DEF TurnInv
<1> QED BY <1>3, <1>4

(* The clock ends a row's turn, or goes on within it.                      *)
LEMMA NextRowType ==
  ASSUME clock \in ClockRecord, NextRow
  PROVE  clock' \in ClockRecord /\ clock'.at = "next" /\ clock'.row = Nothing /\ clock'.run = Nothing
BY DEF NextRow, ClockRecord

LEMMA NowType ==
  ASSUME clock \in ClockRecord, NEW at \in AtStatement, Now(at)
  PROVE  /\ clock' \in ClockRecord /\ clock'.at = at /\ clock'.row = clock.row
         /\ clock'.run = clock.run
BY DEF Now, ClockRecord

(* Asking and looking: a fire is owed from where there is one to write.    *)
LEMMA TurnKeeps ==
  ASSUME TurnInv,
         Ask \/ RecordUnavailable \/ RecordCheck \/ LookAtPrevious \/ Refused \/ RecordSkipped
  PROVE  TurnInv'
<1>0. /\ Types /\ Tracked /\ InHand /\ Seen /\ FireIsAccounted /\ faults \in Nat
      /\ clock \in ClockRecord /\ owed \in [Source -> Nat] /\ Nothing \notin Source
      /\ Source = Schedule \cup Trigger
  BY ClockAssumption, NothingAssumption DEF TurnInv, Types, Source
<1>1. /\ clock.at \in AtStatement \ {"started"} /\ clock.row \in Source /\ clock.run = Nothing
      /\ UNCHANGED <<enabled, due, failures, run, latest, faults>>
      /\ lastResult' \in [Trigger -> BOOLEAN]
  <2>1. clock.at \in AtStatement \ {"started"}
    BY DEF Ask, RecordUnavailable, RecordCheck, LookAtPrevious, Refused, RecordSkipped, AtStatement
  <2>2. UNCHANGED <<enabled, due, failures, run, latest, faults>>
    BY DEF Ask, RecordUnavailable, RecordCheck, LookAtPrevious, Refused, RecordSkipped, rows
  <2>3. lastResult' \in [Trigger -> BOOLEAN]
    <3>1. (clock.at = "true") \in BOOLEAN
      OBVIOUS
    <3> QED BY <1>0, <3>1 DEF Ask, RecordUnavailable, RecordCheck, LookAtPrevious, Refused,
               RecordSkipped, rows, Types
  <2> QED BY <1>0, <2>1, <2>2, <2>3 DEF InHand
<1> DEFINE Owing == {"look", "start", "skip", "started"}
           s == clock.row
<1>2. \A q \in Source : owed[q] = IF q = s /\ clock.at \in Owing THEN 1 ELSE 0
  BY <1>0, <1>1 DEF FireIsAccounted
<1>3. /\ clock' \in ClockRecord
      /\ \/ clock'.at = "next" /\ clock'.row = Nothing /\ clock'.run = Nothing
         \/ clock'.at \in AtStatement /\ clock'.row = s /\ clock'.run = Nothing
      /\ clock'.at # "started"
      /\ clock'.at = "start" => clock.at = "look" /\ ~StillWorks(s)
      /\ clock'.at \in Asking => clock.at \in Asking
      /\ owed' \in [Source -> Nat]
      /\ \A q \in Source : q # s => owed'[q] = owed[q]
      /\ owed'[s] = IF clock'.at \in Owing THEN 1 ELSE 0
  <2>1. CASE Ask
    <3>1. PICK answer \in {"true", "false", "unavailable"} : Now(answer)
      BY <2>1 DEF Ask
    <3>2. answer \in AtStatement /\ clock.at = "ask" /\ owed' = owed
      BY <2>1 DEF Ask, AtStatement
    <3> QED BY <1>0, <1>1, <1>2, <3>1, <3>2, NowType DEF Asking
  <2>2. CASE RecordUnavailable
    <3>1. clock.at = "unavailable" /\ Now("skip") /\ "skip" \in AtStatement /\ Owe(s)
      BY <2>2 DEF RecordUnavailable, AtStatement
    <3>2. owed' = [owed EXCEPT ![s] = @ + 1] /\ owed[s] = 0
      BY <1>1, <1>2, <3>1 DEF Owe
    <3> QED BY <1>0, <1>1, <3>1, <3>2, NowType DEF Asking
  <2>3. CASE RecordCheck
    <3>1. clock.at \in {"true", "false"} /\ owed[s] = 0
      BY <1>1, <1>2, <2>3 DEF RecordCheck
    <3>2. \/ NextRow /\ owed' = owed
          \/ Owe(s) /\ \E past \in {"look", "skip"} : Now(past)
      BY <2>3 DEF RecordCheck
    <3>3. CASE NextRow /\ owed' = owed
      BY <1>0, <1>1, <1>2, <3>1, <3>3, NextRowType DEF Asking
    <3>4. CASE Owe(s) /\ \E past \in {"look", "skip"} : Now(past)
      <4>1. PICK past \in {"look", "skip"} : Now(past)
        BY <3>4
      <4>2. past \in AtStatement /\ owed' = [owed EXCEPT ![s] = @ + 1]
        BY <3>4 DEF AtStatement, Owe
      <4> QED BY <1>0, <1>1, <3>1, <4>1, <4>2, NowType DEF Asking
    <3> QED BY <3>2, <3>3, <3>4
  <2>4. CASE LookAtPrevious
    <3>1. clock.at = "look" /\ owed' = owed /\ "skip" \in AtStatement /\ "start" \in AtStatement
          /\ Now(IF StillWorks(s) THEN "skip" ELSE "start")
      BY <2>4 DEF LookAtPrevious, AtStatement
    <3>2. clock' \in ClockRecord /\ clock'.row = s /\ clock'.run = clock.run
          /\ clock'.at = IF StillWorks(s) THEN "skip" ELSE "start"
      BY <1>0, <3>1, NowType
    <3> QED BY <1>0, <1>1, <1>2, <3>1, <3>2 DEF Asking
  <2>5. CASE Refused
    <3>1. clock.at = "start" /\ owed' = owed /\ "skip" \in AtStatement /\ Now("skip")
      BY <2>5 DEF Refused, AtStatement
    <3> QED BY <1>0, <1>1, <1>2, <3>1, NowType DEF Asking
  <2>6. CASE RecordSkipped
    <3>1. clock.at = "skip" /\ NextRow /\ owed' = [owed EXCEPT ![s] = @ - 1] /\ owed[s] = 1
      BY <1>1, <1>2, <2>6 DEF RecordSkipped, Pay
    <3> QED BY <1>0, <1>1, <3>1, NextRowType DEF Asking
  <2> QED BY <2>1, <2>2, <2>3, <2>4, <2>5, <2>6
<1>4. Tracked' /\ Seen'
  BY <1>0, <1>1, <1>3, SeenStays DEF AtStatement
<1>5. InHand'
  BY <1>0, <1>1, <1>3 DEF InHand, AtStatement, Asking
<1>6. Types'
  BY <1>0, <1>1, <1>3 DEF Types
<1>7. FireIsAccounted'
  BY <1>0, <1>1, <1>2, <1>3 DEF FireIsAccounted
<1> QED BY <1>4, <1>5, <1>6, <1>7 DEF TurnInv

(***************************************************************************)
(* A run begins, and its fire row is written.                              *)
(***************************************************************************)

LEMMA StartKeeps ==
  ASSUME TurnInv, StartRun
  PROVE  TurnInv'
<1>0. /\ Types /\ Tracked /\ InHand /\ Seen /\ FireIsAccounted /\ faults \in Nat
      /\ clock \in ClockRecord /\ run \in [Run -> RunRecord] /\ Nothing \notin Run
  BY ClockAssumption, NothingAssumption DEF TurnInv, Types
<1> DEFINE s == clock.row
           new == [NoRun EXCEPT !.of = s, !.status = "pending"]
           r == CHOOSE free \in Slots(s) : run[free] = NoRun
<1>1. /\ clock.at = "start" /\ s \in Source /\ UNCHANGED <<rows, latest, owed, faults>>
      /\ \E free \in Slots(s) : run[free] = NoRun
      /\ run' = [run EXCEPT ![r] = new]
      /\ clock' = [clock EXCEPT !.at = "started", !.run = r]
  BY <1>0 DEF StartRun, InHand, AtStatement
<1>2. r \in Run /\ run[r] = NoRun
  <2>1. r \in Slots(s) /\ run[r] = NoRun
    BY <1>1
  <2> QED BY <1>1, <2>1 DEF Run
<1>3. /\ new \in RunRecord /\ new.of = s /\ new.status = "pending" /\ new.tracker = "none"
      /\ ~new.fired
  BY <1>1 DEF NoRun, RunRecord, Open, Ended
<1> HIDE DEF new, r
<1>4. /\ clock' \in ClockRecord /\ clock'.at = "started" /\ clock'.row = s /\ clock'.run = r
  BY <1>0, <1>1, <1>2 DEF ClockRecord, AtStatement
<1>5. /\ run' \in [Run -> RunRecord] /\ run'[r] = new
      /\ \A q \in Run : q # r => run'[q] = run[q]
  BY <1>0, <1>1, <1>2, <1>3
<1>6. Types'
  BY <1>0, <1>1, <1>4, <1>5 DEF Types, rows
<1>7. Tracked'
  BY <1>0, <1>1, <1>3, <1>5 DEF Tracked
<1>8. InHand'
  BY <1>1, <1>2, <1>3, <1>4, <1>5 DEF InHand, AtStatement, Asking
<1>9. Seen'
  <2>1. \A q \in Run : OnRecord(q)' => q # r /\ OnRecord(q)
    BY <1>3, <1>5 DEF OnRecord, Working
  <2>2. \A q \in Run : OnRecord(q)' => latest'[run'[q].of] = q
    BY <1>0, <1>1, <1>5, <2>1 DEF Seen
  <2>3. \A q \in Run : OnRecord(q)' => run'[q].of # s
    BY <1>0, <1>1, <1>5, <2>1 DEF Seen
  <2>4. faults' = 0 => \A q \in Run : Working(q)' => run'[q].fired \/ q = r
    BY <1>0, <1>1, <1>5 DEF Seen, Working
  <2> QED BY <1>4, <2>2, <2>3, <2>4 DEF Seen
<1>10. FireIsAccounted'
  BY <1>0, <1>1, <1>4 DEF FireIsAccounted
<1> QED BY <1>6, <1>7, <1>8, <1>9, <1>10 DEF TurnInv

LEMMA RecordStartedKeeps ==
  ASSUME TurnInv, RecordStarted
  PROVE  TurnInv'
<1>0. /\ Types /\ Tracked /\ InHand /\ Seen /\ FireIsAccounted /\ faults \in Nat
      /\ clock \in ClockRecord /\ run \in [Run -> RunRecord]
      /\ latest \in [Source -> Run \cup {Nothing}] /\ owed \in [Source -> Nat]
      /\ Nothing \notin Run /\ Nothing \notin Source
  BY ClockAssumption, NothingAssumption DEF TurnInv, Types
<1> DEFINE s == clock.row
           r == clock.run
           new == [run EXCEPT ![r].fired = TRUE, ![r].tracker = "waits"]
           newest == [latest EXCEPT ![s] = r]
<1>1. /\ clock.at = "started" /\ r \in Run /\ s \in Source /\ run[r].of = s
      /\ WriteRuns(new, newest, Nothing) /\ NextRow /\ Pay(s) /\ UNCHANGED <<rows, faults>>
  BY <1>0 DEF RecordStarted, InHand, AtStatement
<1>2. /\ new \in [Run -> RunRecord] /\ \A q \in Run : q # r => new[q] = run[q]
      /\ new[r].of = s /\ new[r].status = run[r].status /\ new[r].fired
  <2>1. run[r] \in RunRecord
    BY <1>0, <1>1
  <2> DEFINE rec == [run[r] EXCEPT !.fired = TRUE, !.tracker = "waits"]
  <2>2. rec \in RunRecord /\ rec.of = s /\ rec.status = run[r].status /\ rec.fired
    BY <1>1, <2>1 DEF RunRecord
  <2>3. new = [run EXCEPT ![r] = rec]
    BY <1>0, <1>1
  <2> HIDE DEF rec, new
  <2> QED BY <1>0, <1>1, <2>2, <2>3
<1>3. newest \in [Source -> Run \cup {Nothing}] /\ newest[s] = r
      /\ \A q \in Source : q # s => newest[q] = latest[q]
  BY <1>0, <1>1
<1>4. /\ clock' \in ClockRecord /\ clock'.at = "next" /\ clock'.row = Nothing /\ clock'.run = Nothing
  BY <1>0, <1>1, NextRowType
<1> HIDE DEF new, newest
<1>5. /\ run' \in [Run -> RunRecord] /\ latest' \in [Source -> Run \cup {Nothing}]
      /\ \A q \in Run : run'[q] = new[q] \/ run'[q] = NoRun
      /\ \A q \in Run : run'[q].status = "cancelled" => q = Nothing
      /\ \A q \in Source : newest[q] \in Run /\ new[newest[q]].status \in Open =>
           latest'[q] = newest[q]
  BY <1>1, <1>2, <1>3, SettleFacts
<1>6. owed' \in [Source -> Nat] /\ \A q \in Source : owed'[q] = 0
  <2>1. \A q \in Source : owed[q] = IF q = s THEN 1 ELSE 0
    BY <1>0, <1>1 DEF FireIsAccounted
  <2>2. owed' = [owed EXCEPT ![s] = @ - 1]
    BY <1>1 DEF Pay
  <2> QED BY <1>0, <1>1, <2>1, <2>2
<1>7. Types'
  BY <1>0, <1>1, <1>4, <1>5, <1>6 DEF Types, rows
<1>9. Tracked'
  <2> SUFFICES ASSUME NEW q \in Run, run'[q] = new[q]
               PROVE  /\ run'[q].status # "none" => run'[q].of \in Source
                      /\ run'[q].tracker # "none" => run'[q].status \notin {"none", "cancelled"}
    BY <1>5, NoRunType DEF Tracked
  <2>1. run'[q].status # "cancelled"
    BY <1>0, <1>5
  <2>2. CASE q # r
    BY <1>0, <1>2, <2>1, <2>2 DEF Tracked
  <2>3. CASE q = r
    BY <1>0, <1>1, <1>2, <2>1, <2>3 DEF Tracked, InHand
  <2> QED BY <2>2, <2>3
<1>10. InHand'
  BY <1>4 DEF InHand, AtStatement, Asking
<1>11. Seen'
  <2>1. \A q \in Run : Working(q)' => run'[q] = new[q] /\ Working(q)
    BY <1>2, <1>5, NoRunType DEF Working, Open
  <2>2. ASSUME NEW q \in Run, OnRecord(q)' PROVE latest'[run'[q].of] = q
    <3>1. run'[q] = new[q] /\ new[q].status \in Open /\ Working(q)
      BY <2>1, <2>2 DEF OnRecord, Working
    <3>2. CASE q = r
      BY <1>1, <1>2, <1>3, <1>5, <3>1, <3>2
    <3>3. CASE q # r
      <4>1. OnRecord(q) /\ run[q].of # s /\ latest[run[q].of] = q /\ new[q].of = run[q].of
        BY <1>0, <1>1, <1>2, <2>2, <3>1, <3>3 DEF Seen, OnRecord
      <4>2. run[q].of \in Source
        BY <1>0, <3>1 DEF Tracked, Working, Open
      <4> QED BY <1>3, <1>5, <3>1, <4>1, <4>2
    <3> QED BY <3>2, <3>3
  <2>3. faults' = 0 => \A q \in Run : Working(q)' => run'[q].fired
    <3> SUFFICES ASSUME faults = 0, NEW q \in Run, Working(q)' PROVE run'[q].fired
      BY <1>1
    <3>1. run'[q] = new[q] /\ (run[q].fired \/ q = r)
      BY <1>0, <2>1 DEF Seen
    <3> QED BY <1>2, <3>1
  <2> QED BY <1>4, <2>2, <2>3 DEF Seen
<1>12. FireIsAccounted'
  BY <1>0, <1>4, <1>6 DEF FireIsAccounted
<1> QED BY <1>7, <1>9, <1>10, <1>11, <1>12 DEF TurnInv

(***************************************************************************)
(* The started runs, their trackers, the operator, time and faults.        *)
(***************************************************************************)

(* A run with another status or tracker is the run it was.                 *)
LEMMA OneRunMoves ==
  ASSUME run \in [Run -> RunRecord], NEW r \in Run, NEW new,
         \/ \E st \in Open \cup Ended : new = [run EXCEPT ![r].status = st] /\ run[r].status \in Open
         \/ \E tr \in {"none", "disables"} :
              new = [run EXCEPT ![r].tracker = tr] /\ run[r].tracker # "none"
  PROVE  /\ new \in [Run -> RunRecord]
         /\ \A q \in Run : new[q].of = run[q].of /\ new[q].fired = run[q].fired
         /\ \A q \in Run : new[q].status \in Open => Working(q)
         /\ \A q \in Run : new[q].status = "none" <=> run[q].status = "none"
         /\ \A q \in Run : new[q].tracker # "none" => run[q].tracker # "none"
<1>0. run[r] \in RunRecord
  OBVIOUS
<1> DEFINE Fits(rec) == /\ new = [run EXCEPT ![r] = rec]
                        /\ rec.of = run[r].of /\ rec.fired = run[r].fired
                        /\ rec.status \in Open => Working(r)
                        /\ rec.status = "none" <=> run[r].status = "none"
                        /\ rec.tracker # "none" => run[r].tracker # "none"
<1>1. \E rec \in RunRecord : Fits(rec)
  <2>1. ASSUME NEW st \in Open \cup Ended, new = [run EXCEPT ![r].status = st], run[r].status \in Open
        PROVE  \E rec \in RunRecord : Fits(rec)
    <3> DEFINE rec == [run[r] EXCEPT !.status = st]
    <3>1. rec \in RunRecord /\ rec.of = run[r].of /\ rec.fired = run[r].fired /\ rec.status = st
          /\ rec.tracker = run[r].tracker
      BY <1>0, <2>1 DEF RunRecord
    <3>2. new = [run EXCEPT ![r] = rec]
      BY <2>1
    <3>3. st # "none" /\ run[r].status # "none" /\ Working(r)
      BY <2>1 DEF Open, Ended, Working
    <3> HIDE DEF rec
    <3>4. Fits(rec)
      BY <3>1, <3>2, <3>3
    <3> QED BY <3>1, <3>4
  <2>2. ASSUME NEW tr \in {"none", "disables"}, new = [run EXCEPT ![r].tracker = tr],
               run[r].tracker # "none"
        PROVE  \E rec \in RunRecord : Fits(rec)
    <3> DEFINE rec == [run[r] EXCEPT !.tracker = tr]
    <3>1. rec \in RunRecord /\ rec.of = run[r].of /\ rec.fired = run[r].fired
          /\ rec.status = run[r].status
      BY <1>0, <2>2 DEF RunRecord
    <3>2. new = [run EXCEPT ![r] = rec]
      BY <2>2
    <3> HIDE DEF rec
    <3>3. Fits(rec)
      BY <2>2, <3>1, <3>2 DEF Working
    <3> QED BY <3>1, <3>3
  <2> HIDE DEF Fits
  <2> QED BY <2>1, <2>2
<1>2. PICK rec \in RunRecord : Fits(rec)
  BY <1>1
<1>3. new \in [Run -> RunRecord] /\ new[r] = rec /\ \A q \in Run : q # r => new[q] = run[q]
  BY <1>2
<1> QED BY <1>2, <1>3 DEF Working

LEMMA RunsKeep ==
  ASSUME TurnInv, NEW r \in Run,
         RunMoves(r) \/ MoveStreak(r) \/ DisableForFailures(r) \/ TrackerFails(r)
  PROVE  TurnInv'
<1>0. /\ Types /\ Tracked /\ InHand /\ Seen /\ FireIsAccounted
      /\ run \in [Run -> RunRecord] /\ faults \in Nat /\ MaxFault \in Nat
  BY ClockAssumption DEF TurnInv, Types
<1>1. \E new : /\ WriteRuns(new, latest, clock.run)
               /\ \/ \E st \in Open \cup Ended : new = [run EXCEPT ![r].status = st] /\ run[r].status \in Open
                  \/ \E tr \in {"none", "disables"} :
                       new = [run EXCEPT ![r].tracker = tr] /\ run[r].tracker # "none"
  <2>1. CASE RunMoves(r)
    <3>1. PICK st \in Ended \cup {"running"} :
            WriteRuns([run EXCEPT ![r].status = st], latest, clock.run) /\ run[r].status \in Open
      BY <2>1 DEF RunMoves
    <3>2. st \in Open \cup Ended
      BY DEF Open
    <3> QED BY <3>1, <3>2
  <2>2. CASE MoveStreak(r)
    <3>1. PICK tr \in {"none", "disables"} : WriteRuns([run EXCEPT ![r].tracker = tr], latest, clock.run)
      BY <2>2 DEF MoveStreak
    <3>2. run[r].tracker # "none"
      BY <2>2 DEF MoveStreak
    <3> QED BY <3>1, <3>2
  <2>3. CASE DisableForFailures(r) \/ TrackerFails(r)
    <3>1. WriteRuns([run EXCEPT ![r].tracker = "none"], latest, clock.run) /\ run[r].tracker # "none"
      BY <2>3 DEF DisableForFailures, TrackerFails
    <3> QED BY <3>1
  <2> QED BY <2>1, <2>2, <2>3
<1>2. PICK new :
        /\ WriteRuns(new, latest, clock.run)
        /\ \/ \E st \in Open \cup Ended : new = [run EXCEPT ![r].status = st] /\ run[r].status \in Open
           \/ \E tr \in {"none", "disables"} :
                new = [run EXCEPT ![r].tracker = tr] /\ run[r].tracker # "none"
  BY <1>1
<1>3. /\ new \in [Run -> RunRecord]
      /\ \A q \in Run : new[q].of = run[q].of /\ new[q].fired = run[q].fired
      /\ \A q \in Run : new[q].status \in Open => Working(q)
      /\ \A q \in Run : new[q].status = "none" <=> run[q].status = "none"
      /\ \A q \in Run : new[q].tracker # "none" => run[q].tracker # "none"
  BY <1>0, <1>2, OneRunMoves
<1>4. /\ clock' = clock /\ owed' = owed /\ faults' \in 0..MaxFault /\ faults' >= faults
      /\ UNCHANGED <<due, lastResult>> /\ enabled' \in [Source -> BOOLEAN]
  <2>1. clock' = clock /\ owed' = owed /\ UNCHANGED <<due, lastResult>>
    BY DEF RunMoves, MoveStreak, DisableForFailures, TrackerFails, rows
  <2>2. faults' = faults \/ (faults' = faults + 1 /\ faults < MaxFault)
    BY DEF RunMoves, MoveStreak, DisableForFailures, TrackerFails
  <2>3. enabled' = enabled \/ enabled' = [enabled EXCEPT ![run[r].of] = FALSE]
    BY DEF RunMoves, MoveStreak, DisableForFailures, TrackerFails, rows
  <2>4. enabled' \in [Source -> BOOLEAN]
    BY <1>0, <2>3 DEF Types
  <2>5. faults' \in 0..MaxFault /\ faults' >= faults
    BY <1>0, <2>2 DEF Types
  <2> QED BY <2>1, <2>4, <2>5
<1>5. /\ run' \in [Run -> RunRecord] /\ latest' \in [Source -> Run \cup {Nothing}]
      /\ Tracked' /\ InHand' /\ Seen'
  BY <1>0, <1>2, <1>3, <1>4, RunsMove
<1>6. failures' \in [Source -> Nat]
  <2>1. CASE MoveStreak(r)
    <3>1. run[r].of \in Source /\ run[r].status \in {"completed", "failed"}
      BY <1>0, <2>1 DEF MoveStreak, Tracked, Ended
    <3>2. Threshold \in Nat /\ failures[run[r].of] \in Nat
      BY <1>0, <3>1, ClockAssumption DEF Types
    <3>3. \E count \in Nat : failures' = [failures EXCEPT ![run[r].of] = count]
      <4>1. CASE run[r].status = "completed"
        <5>1. failures' = [failures EXCEPT ![run[r].of] = 0]
          BY <2>1, <4>1 DEF MoveStreak
        <5> QED BY <5>1
      <4>2. CASE run[r].status = "failed"
        <5>1. run[r].status # "completed"
          BY <4>2
        <5>2. failures' = [failures EXCEPT ![run[r].of] =
                             IF failures[run[r].of] < Threshold THEN failures[run[r].of] + 1 ELSE Threshold]
          BY <2>1, <4>2, <5>1, Zenon DEF MoveStreak
        <5> DEFINE count == IF failures[run[r].of] < Threshold THEN failures[run[r].of] + 1 ELSE Threshold
        <5>3. count \in Nat
          BY <3>2
        <5> HIDE DEF count
        <5>4. failures' = [failures EXCEPT ![run[r].of] = count]
          BY <5>2, Zenon DEF count
        <5> QED BY <5>3, <5>4
      <4> QED BY <3>1, <4>1, <4>2
    <3> QED BY <1>0, <3>3 DEF Types
  <2>2. CASE ~MoveStreak(r)
    BY <1>0, <2>2 DEF RunMoves, DisableForFailures, TrackerFails, rows, Types
  <2> QED BY <2>1, <2>2
<1>7. Types'
  BY <1>0, <1>4, <1>5, <1>6 DEF Types
<1>8. FireIsAccounted'
  BY <1>0, <1>4 DEF FireIsAccounted
<1> QED BY <1>5, <1>7, <1>8 DEF TurnInv

(* The operator and time write the rows only.                              *)
LEMMA RowsKeep ==
  ASSUME TurnInv, NEW s \in Source, SetEnabled(s) \/ TimeComes(s)
  PROVE  TurnInv'
<1>1. UNCHANGED <<lastResult, latest, run, clock, owed, faults>>
  BY DEF SetEnabled, TimeComes
<1>2. /\ enabled' \in [Source -> BOOLEAN] /\ due' \in [Source -> BOOLEAN]
      /\ failures' \in [Source -> Nat]
  <2>0. /\ enabled \in [Source -> BOOLEAN] /\ due \in [Source -> BOOLEAN]
        /\ failures \in [Source -> Nat]
    BY DEF TurnInv, Types
  <2>1. CASE SetEnabled(s)
    <3>1. (~enabled[s]) \in BOOLEAN
      OBVIOUS
    <3>2. enabled' = [enabled EXCEPT ![s] = ~enabled[s]] /\ due' = due
      BY <2>1 DEF SetEnabled
    <3>3. failures' = failures \/ failures' = [failures EXCEPT ![s] = 0]
      BY <2>1 DEF SetEnabled
    <3>4. enabled' \in [Source -> BOOLEAN]
      BY <2>0, <3>1, <3>2
    <3>5. failures' \in [Source -> Nat]
      BY <2>0, <3>3
    <3> QED BY <2>0, <3>2, <3>4, <3>5
  <2>2. CASE TimeComes(s)
    BY <2>0, <2>2 DEF TimeComes
  <2> QED BY <2>1, <2>2
<1>3. Types'
  BY <1>1, <1>2 DEF TurnInv, Types
<1>4. Tracked' /\ InHand' /\ Seen' /\ FireIsAccounted'
  BY <1>1 DEF TurnInv, Tracked, InHand, Seen, OnRecord, Working, FireIsAccounted
<1> QED BY <1>3, <1>4 DEF TurnInv

(* A claim or a listing fails between two turns.                           *)
LEMMA BetweenFails ==
  ASSUME TurnInv, WakeFails \/ \E s \in Source : ClaimFails(s)
  PROVE  TurnInv'
<1>0. /\ Types /\ Tracked /\ InHand /\ Seen /\ FireIsAccounted /\ faults \in Nat
      /\ clock \in ClockRecord /\ MaxFault \in Nat /\ due \in [Source -> BOOLEAN]
  BY ClockAssumption DEF TurnInv, Types
<1>1. /\ clock.at \in {"asleep", "next"} /\ UNCHANGED <<enabled, failures, lastResult, latest, run, owed>>
      /\ faults' = faults + 1 /\ faults' \in 0..MaxFault
  BY <1>0 DEF WakeFails, ClaimFails, rows
<1>2. /\ clock' \in ClockRecord /\ clock'.at \in {"asleep", "next"}
      /\ clock'.row = Nothing /\ clock'.run = Nothing
  BY <1>0, <1>1, AsleepType DEF WakeFails, ClaimFails, ClockRecord, InHand, AtStatement
<1>3. due' \in [Source -> BOOLEAN]
  <2>1. CASE due' = due
    BY <1>0, <2>1
  <2>2. ASSUME NEW s \in Source, due' = [due EXCEPT ![s] = @ /\ ~enabled[s]]
        PROVE  due' \in [Source -> BOOLEAN]
    <3>1. (due[s] /\ ~enabled[s]) \in BOOLEAN
      OBVIOUS
    <3> QED BY <1>0, <2>2, <3>1
  <2> QED BY <2>1, <2>2 DEF WakeFails, ClaimFails, rows
<1>4. Types'
  BY <1>0, <1>1, <1>2, <1>3 DEF Types
<1>5. Tracked' /\ Seen'
  BY <1>0, <1>1, <1>2, SeenStays
<1>6. InHand'
  BY <1>2 DEF InHand, AtStatement, Asking
<1>7. \A s \in Source : owed[s] = 0 /\ s # Nothing
  BY <1>0, <1>1, NothingAssumption DEF FireIsAccounted
<1>8. FireIsAccounted'
  BY <1>1, <1>2, <1>7 DEF FireIsAccounted
<1> QED BY <1>4, <1>5, <1>6, <1>8 DEF TurnInv

(* A turn fails, or the process ends: the clock loses what it had in hand. *)
LEMMA LossKeeps ==
  ASSUME TurnInv, RowFails \/ Restart
  PROVE  TurnInv'
<1>0. /\ Types /\ Tracked /\ InHand /\ Seen /\ FireIsAccounted /\ faults \in Nat
      /\ clock \in ClockRecord /\ MaxFault \in Nat /\ run \in [Run -> RunRecord]
      /\ owed \in [Source -> Nat] /\ Nothing \notin Source
  BY ClockAssumption, NothingAssumption DEF TurnInv, Types
<1>1. /\ UNCHANGED rows /\ faults' = faults + 1 /\ faults' \in 0..MaxFault
      /\ clock' \in ClockRecord /\ clock'.at \in {"asleep", "next"}
      /\ clock'.row = Nothing /\ clock'.run = Nothing
  <2>1. faults' = faults + 1 /\ faults' \in 0..MaxFault
    <3>1. faults' = faults + 1 /\ faults < MaxFault
      BY Zenon DEF RowFails, Restart
    <3> QED BY <1>0, <3>1
  <2>2. CASE RowFails
    <3>1. NextRow /\ UNCHANGED rows
      BY <2>2 DEF RowFails
    <3> QED BY <1>0, <2>1, <3>1, NextRowType
  <2>3. CASE Restart
    <3>1. clock' = Asleep /\ UNCHANGED rows
      BY <2>3 DEF Restart
    <3> QED BY <2>1, <3>1, AsleepType
  <2> QED BY <2>2, <2>3
<1>2. owed' \in [Source -> Nat] /\ \A s \in Source : owed'[s] = 0
  <2>1. CASE RowFails
    <3>1. clock.row \in Source /\ owed' = [owed EXCEPT ![clock.row] = 0]
      BY <1>0, <2>1 DEF RowFails, InHand
    <3>2. \A s \in Source : s # clock.row => owed[s] = 0
      BY <1>0 DEF FireIsAccounted
    <3> QED BY <1>0, <3>1, <3>2
  <2>2. CASE Restart
    BY <2>2 DEF Restart
  <2> QED BY <2>1, <2>2
<1>3. /\ run' \in [Run -> RunRecord] /\ latest' \in [Source -> Run \cup {Nothing}]
      /\ Tracked' /\ InHand' /\ Seen'
  <2>1. CASE RowFails
    <3>1. WriteRuns(run, latest, Nothing)
      BY <2>1 DEF RowFails
    <3>2. \A r \in Run : run[r].status \in Open => Working(r)
      BY DEF Working
    <3> QED BY <1>0, <1>1, <3>1, <3>2, RunsMove
  <2>2. CASE Restart
    <3> DEFINE rec(r) == [run[r] EXCEPT !.tracker = "none",
                            !.status = IF @ \in Open THEN "failed" ELSE @]
               new == [r \in Run |-> rec(r)]
    <3>1. WriteRuns(new, latest, Nothing)
      BY <2>2 DEF Restart
    <3>2. \A r \in Run : /\ rec(r) \in RunRecord /\ rec(r).of = run[r].of
                         /\ rec(r).fired = run[r].fired /\ rec(r).tracker = "none"
                         /\ rec(r).status = IF run[r].status \in Open THEN "failed" ELSE run[r].status
      <4> TAKE r \in Run
      <4>1. run[r] \in RunRecord
        BY <1>0
      <4> QED BY <4>1 DEF RunRecord, Open, Ended
    <3> HIDE DEF rec
    <3>3. /\ new \in [Run -> RunRecord]
          /\ \A r \in Run : new[r].of = run[r].of /\ new[r].fired = run[r].fired
          /\ \A r \in Run : new[r].status \in Open => Working(r)
          /\ \A r \in Run : new[r].status = "none" <=> run[r].status = "none"
          /\ \A r \in Run : new[r].tracker # "none" => run[r].tracker # "none"
      BY <3>2 DEF Working, Open
    <3> HIDE DEF new
    <3> QED BY <1>0, <1>1, <3>1, <3>3, RunsMove
  <2> QED BY <2>1, <2>2
<1>4. Types'
  BY <1>0, <1>1, <1>2, <1>3 DEF Types, rows
<1>5. FireIsAccounted'
  BY <1>0, <1>1, <1>2 DEF FireIsAccounted
<1> QED BY <1>3, <1>4, <1>5 DEF TurnInv

LEMMA TurnNext == TurnInv /\ [Next]_vars => TurnInv'
<1> SUFFICES ASSUME TurnInv, [Next]_vars PROVE TurnInv'
  OBVIOUS
<1>1. CASE UNCHANGED vars
  <2>1. UNCHANGED <<enabled, due, failures, lastResult, latest, run, clock, owed, faults>>
    BY <1>1 DEF vars
  <2> QED BY <2>1 DEF TurnInv, Types, Tracked, InHand, Seen, OnRecord, Working, FireIsAccounted
<1>2. CASE Turn
  BY <1>2, ListingKeeps, ClaimKeeps, TurnKeeps, StartKeeps, RecordStartedKeeps DEF Turn
<1>3. CASE \E r \in Run : RunMoves(r) \/ MoveStreak(r) \/ DisableForFailures(r) \/ TrackerFails(r)
  BY <1>3, RunsKeep
<1>4. CASE \E s \in Source : SetEnabled(s) \/ TimeComes(s) \/ ClaimFails(s)
  BY <1>4, RowsKeep, BetweenFails
<1>5. CASE RowFails \/ WakeFails \/ Restart
  BY <1>5, LossKeeps, BetweenFails
<1> QED BY <1>1, <1>2, <1>3, <1>4, <1>5 DEF Next

LEMMA TurnAlways == Spec => []TurnInv
BY TurnInit, TurnNext, PTL DEF Spec

(***************************************************************************)
(* The theorems.                                                           *)
(***************************************************************************)

(* Every variable keeps its type; in particular a streak of failures is    *)
(* only ever moved by a run that completed or failed.                      *)
THEOREM TypeCorrect == Spec => []TypeOK
<1>1. TurnInv => TypeOK
  BY DEF TurnInv, Types, TypeOK, ClockRecord
<1> QED BY <1>1, TurnAlways, PTL

(* A fire that was claimed is written down once and by the end of its turn,*)
(* unless a fault took it, whatever was answered, refused or skipped.      *)
THEOREM EveryFireIsAccounted == Spec => []FireIsAccounted
<1>1. TurnInv => FireIsAccounted
  BY DEF TurnInv
<1> QED BY <1>1, TurnAlways, PTL

(* A source never has two runs at work that are both on record, and a      *)
(* second one at all only after a fault, however long its runs take.       *)
THEOREM NoSourceOverlapsItself == Spec => []NoOverlap
<1>1. TurnInv => NoOverlap
  <2> SUFFICES ASSUME TurnInv, NEW s \in Source
               PROVE  /\ Cardinality({r \in OpenRuns(s) : run[r].fired}) <= 1
                      /\ Cardinality(OpenRuns(s)) > 1 => faults > 0
    BY DEF NoOverlap
  <2>0. faults \in Nat /\ Seen /\ InHand
    BY ClockAssumption DEF TurnInv, Types
  <2>1. ASSUME NEW S, \A r, q \in S : r = q PROVE Cardinality(S) <= 1
    <3>1. CASE S = {}
      BY <3>1, FS_EmptySet
    <3>2. ASSUME NEW r \in S PROVE Cardinality(S) <= 1
      <4>1. S = {r}
        BY <2>1, <3>2
      <4>2. Cardinality({r}) = 1
        BY FS_Singleton
      <4> QED BY <4>1, <4>2
    <3> QED BY <3>1, <3>2
  <2>2. \A r, q \in {x \in OpenRuns(s) : run[x].fired} : r = q
    BY <2>0 DEF Seen, OnRecord, Working, OpenRuns
  <2>3. ASSUME faults = 0 PROVE \A r, q \in OpenRuns(s) : r = q
    <3> SUFFICES ASSUME NEW r \in OpenRuns(s), NEW q \in OpenRuns(s) PROVE r = q
      OBVIOUS
    <3>1. \A x \in OpenRuns(s) : /\ x \in Run /\ run[x].of = s /\ Working(x)
                                 /\ run[x].fired \/ (clock.at = "started" /\ x = clock.run)
      BY <2>0, <2>3 DEF OpenRuns, Seen, Working
    <3>2. CASE run[r].fired /\ run[q].fired
      BY <2>2, <3>2
    <3>3. CASE clock.at = "started" /\ (r = clock.run \/ q = clock.run)
      <4>1. clock.row = s
        BY <2>0, <3>1, <3>3 DEF InHand
      <4>2. ~run[r].fired /\ ~run[q].fired
        BY <2>0, <3>1, <3>3, <4>1 DEF Seen, OnRecord
      <4> QED BY <3>1, <4>2
    <3> QED BY <3>1, <3>2, <3>3
  <2>4. Cardinality({r \in OpenRuns(s) : run[r].fired}) <= 1
    BY <2>1, <2>2
  <2>6. Cardinality(OpenRuns(s)) > 1 => faults > 0
    <3> SUFFICES ASSUME faults = 0, Cardinality(OpenRuns(s)) > 1 PROVE FALSE
      BY <2>0
    <3>1. \A r, q \in OpenRuns(s) : r = q
      BY <2>3
    <3>2. CASE OpenRuns(s) = {}
      BY <3>2, FS_EmptySet
    <3>3. ASSUME NEW r \in OpenRuns(s) PROVE FALSE
      <4>1. OpenRuns(s) = {r}
        BY <3>1, <3>3
      <4>2. Cardinality({r}) = 1
        BY FS_Singleton
      <4> QED BY <4>1, <4>2
    <3> QED BY <3>2, <3>3
  <2> QED BY <2>4, <2>6
<1> QED BY <1>1, TurnAlways, PTL

(***************************************************************************)
(* The streak of failures.                                                 *)
(***************************************************************************)

(* Only a task that counted a failed run switches its source off, so that  *)
(* nothing forgets its run before it has.                                  *)
CountedFailures == \A r \in Run : run[r].tracker = "disables" => run[r].status = "failed"

StreakInv == CountedFailures /\ StreakSwitchesOff

(* A source that waits to be switched off goes on waiting as long as the   *)
(* tasks that switch it off do, and its row is not switched on.            *)
LEMMA StreakStays ==
  ASSUME StreakInv, CountedFailures',
         \/ faults' > 0
         \/ /\ faults' = faults
            /\ \A s \in Source : enabled'[s] => enabled[s] /\ failures'[s] = failures[s]
            /\ \A r \in Run : run[r].tracker = "disables" => run'[r] = run[r]
  PROVE  StreakInv'
<1>1. StreakSwitchesOff'
  <2> SUFFICES ASSUME NEW s \in Source, enabled'[s], failures'[s] >= Threshold, ~(faults' > 0)
               PROVE  \E r \in Run : run'[r].of = s /\ run'[r].tracker = "disables"
    BY DEF StreakSwitchesOff
  <2>1. /\ enabled[s] /\ failures[s] >= Threshold /\ ~(faults > 0)
        /\ \A r \in Run : run[r].tracker = "disables" => run'[r] = run[r]
    OBVIOUS
  <2>2. PICK r \in Run : run[r].of = s /\ run[r].tracker = "disables"
    BY <2>1 DEF StreakInv, StreakSwitchesOff
  <2> QED BY <2>1, <2>2
<1> QED BY <1>1 DEF StreakInv

LEMMA SettleStreak ==
  ASSUME NEW new \in [Run -> RunRecord], NEW newest, NEW held, WriteRuns(new, newest, held),
         \A r \in Run : new[r].tracker = "disables" => new[r].status = "failed"
  PROVE  /\ CountedFailures'
         /\ \A r \in Run : new[r].tracker = "disables" => run'[r] = new[r]
<1>1. run' = [r \in Run |-> IF Over(new[r]) /\ r # held THEN NoRun ELSE new[r]]
  BY DEF WriteRuns
<1>2. \A r \in Run : new[r].tracker = "disables" => ~Over(new[r])
  BY DEF Over
<1>3. NoRun.tracker # "disables"
  BY DEF NoRun
<1>4. \A r \in Run : run'[r] = new[r] \/ run'[r] = NoRun
  BY <1>1
<1>5. CountedFailures'
  BY <1>3, <1>4 DEF CountedFailures
<1>6. \A r \in Run : new[r].tracker = "disables" => run'[r] = new[r]
  BY <1>1, <1>2
<1> QED BY <1>5, <1>6

(* The runs move, and no task counts anything.                             *)
LEMMA RunsMoveStreak ==
  ASSUME TurnInv, StreakInv, NEW new \in [Run -> RunRecord], NEW newest, NEW held,
         WriteRuns(new, newest, held),
         \A r \in Run : new[r].tracker = "disables" => new[r] = run[r],
         \/ faults' > 0
         \/ /\ faults' = faults
            /\ \A s \in Source : enabled'[s] => enabled[s] /\ failures'[s] = failures[s]
            /\ \A r \in Run : run[r].tracker = "disables" => new[r] = run[r]
  PROVE  StreakInv'
<1>1. \A r \in Run : new[r].tracker = "disables" => new[r].status = "failed"
  BY DEF StreakInv, CountedFailures
<1>2. /\ CountedFailures'
      /\ \A r \in Run : new[r].tracker = "disables" => run'[r] = new[r]
  BY <1>1, SettleStreak
<1>3. (\A r \in Run : run[r].tracker = "disables" => new[r] = run[r]) =>
        \A r \in Run : run[r].tracker = "disables" => run'[r] = run[r]
  BY <1>2
<1> QED BY <1>2, <1>3, StreakStays

(* One field of one run's record.                                          *)
LEMMA StatusSet ==
  ASSUME run \in [Run -> RunRecord], NEW r \in Run, NEW st \in Open \cup Ended,
         NEW new, new = [run EXCEPT ![r].status = st]
  PROVE  /\ new \in [Run -> RunRecord] /\ new[r].tracker = run[r].tracker
         /\ \A q \in Run : q # r => new[q] = run[q]
<1>1. new = [run EXCEPT ![r] = [run[r] EXCEPT !.status = st]]
  OBVIOUS
<1>2. /\ [run[r] EXCEPT !.status = st] \in RunRecord
      /\ [run[r] EXCEPT !.status = st].tracker = run[r].tracker
  BY DEF RunRecord
<1> QED BY <1>1, <1>2

LEMMA TrackerSet ==
  ASSUME run \in [Run -> RunRecord], NEW r \in Run, NEW tr \in {"none", "waits", "disables"},
         NEW new, new = [run EXCEPT ![r].tracker = tr]
  PROVE  /\ new \in [Run -> RunRecord]
         /\ new[r].tracker = tr /\ new[r].status = run[r].status /\ new[r].of = run[r].of
         /\ \A q \in Run : q # r => new[q] = run[q]
<1>1. new = [run EXCEPT ![r] = [run[r] EXCEPT !.tracker = tr]]
  OBVIOUS
<1>2. /\ [run[r] EXCEPT !.tracker = tr] \in RunRecord
      /\ [run[r] EXCEPT !.tracker = tr].tracker = tr
      /\ [run[r] EXCEPT !.tracker = tr].status = run[r].status
      /\ [run[r] EXCEPT !.tracker = tr].of = run[r].of
  BY DEF RunRecord
<1> QED BY <1>1, <1>2

LEMMA RunMovesStreak ==
  ASSUME TurnInv, StreakInv, NEW r \in Run, RunMoves(r)
  PROVE  StreakInv'
<1>0. run \in [Run -> RunRecord]
  BY DEF TurnInv, Types
<1>1. PICK st \in Ended \cup {"running"} : WriteRuns([run EXCEPT ![r].status = st], latest, clock.run)
  BY DEF RunMoves
<1> DEFINE new == [run EXCEPT ![r].status = st]
<1>2. run[r].tracker # "disables"
  BY DEF RunMoves, StreakInv, CountedFailures, Open
<1>3. /\ new \in [Run -> RunRecord] /\ new[r].tracker = run[r].tracker
      /\ \A q \in Run : q # r => new[q] = run[q]
  <2>1. st \in Open \cup Ended
    BY DEF Open
  <2> QED BY <1>0, <2>1, StatusSet
<1>4. faults' = faults /\ enabled' = enabled /\ failures' = failures
  BY DEF RunMoves, rows
<1>5. WriteRuns(new, latest, clock.run)
  BY <1>1
<1> HIDE DEF new
<1>6. \A q \in Run : new[q].tracker = "disables" => new[q] = run[q]
  BY <1>2, <1>3
<1>7. \A q \in Run : run[q].tracker = "disables" => new[q] = run[q]
  BY <1>2, <1>3
<1> QED BY <1>3, <1>4, <1>5, <1>6, <1>7, RunsMoveStreak

LEMMA MoveStreakStreak ==
  ASSUME TurnInv, StreakInv, NEW r \in Run, MoveStreak(r)
  PROVE  StreakInv'
<1>0. /\ run \in [Run -> RunRecord] /\ failures \in [Source -> Nat] /\ Threshold \in Nat \ {0}
      /\ run[r].status \in {"completed", "failed"} /\ run[r].of \in Source
      /\ run[r].tracker = "waits"
  BY ClockAssumption DEF MoveStreak, TurnInv, Types, Tracked, Ended
<1> DEFINE s == run[r].of
           count == CASE run[r].status = "completed" -> 0
                      [] run[r].status = "failed" ->
                           IF failures[s] < Threshold THEN failures[s] + 1 ELSE Threshold
           tr == IF run[r].status = "failed" /\ count >= Threshold THEN "disables" ELSE "none"
           new == [run EXCEPT ![r].tracker = tr]
<1>1. /\ failures' = [failures EXCEPT ![s] = count] /\ WriteRuns(new, latest, clock.run)
      /\ enabled' = enabled /\ faults' = faults
  BY DEF MoveStreak
<1>2. run[r].status = "completed" => count = 0 /\ count < Threshold /\ tr = "none"
  BY <1>0
<1>3. count >= Threshold => tr = "disables"
  BY <1>0, <1>2
<1>4. tr \in {"none", "waits", "disables"} /\ (tr = "disables" => run[r].status = "failed")
  OBVIOUS
<1>record. new = [run EXCEPT ![r].tracker = tr] /\ s = run[r].of
  OBVIOUS
<1> HIDE DEF count, tr, new, s
<1>5. /\ new \in [Run -> RunRecord]
      /\ new[r].tracker = tr /\ new[r].status = run[r].status /\ new[r].of = s
      /\ \A q \in Run : q # r => new[q] = run[q]
  BY <1>0, <1>4, <1>record, TrackerSet
<1>6. failures'[s] = count /\ \A x \in Source : x # s => failures'[x] = failures[x]
  BY <1>0, <1>1, <1>record
<1>7. \A q \in Run : new[q].tracker = "disables" => new[q].status = "failed"
  BY <1>4, <1>5 DEF StreakInv, CountedFailures
<1>8. /\ CountedFailures'
      /\ \A q \in Run : new[q].tracker = "disables" => run'[q] = new[q]
  BY <1>1, <1>5, <1>7, SettleStreak
<1>9. StreakSwitchesOff'
  <2> SUFFICES ASSUME NEW x \in Source, enabled'[x], failures'[x] >= Threshold, ~(faults' > 0)
               PROVE  \E q \in Run : run'[q].of = x /\ run'[q].tracker = "disables"
    BY DEF StreakSwitchesOff
  <2>1. CASE x = s
    <3>1. new[r].tracker = "disables"
      BY <1>3, <1>5, <1>6, <2>1
    <3> QED BY <1>5, <1>8, <2>1, <3>1
  <2>2. CASE x # s
    <3>1. PICK q \in Run : run[q].of = x /\ run[q].tracker = "disables"
      BY <1>1, <1>6, <2>2 DEF StreakInv, StreakSwitchesOff
    <3>2. new[q] = run[q]
      BY <1>0, <1>5, <3>1
    <3> QED BY <1>8, <3>1, <3>2
  <2> QED BY <2>1, <2>2
<1> QED BY <1>8, <1>9 DEF StreakInv

LEMMA DisablesStreak ==
  ASSUME TurnInv, StreakInv, NEW r \in Run, DisableForFailures(r)
  PROVE  StreakInv'
<1>0. /\ run \in [Run -> RunRecord] /\ enabled \in [Source -> BOOLEAN] /\ run[r].of \in Source
  BY DEF DisableForFailures, TurnInv, Types, Tracked
<1> DEFINE new == [run EXCEPT ![r].tracker = "none"]
<1>1. /\ enabled' = [enabled EXCEPT ![run[r].of] = FALSE] /\ WriteRuns(new, latest, clock.run)
      /\ failures' = failures /\ faults' = faults
  BY DEF DisableForFailures
<1>record. new = [run EXCEPT ![r].tracker = "none"]
  OBVIOUS
<1> HIDE DEF new
<1>2. /\ new \in [Run -> RunRecord] /\ new[r].tracker = "none"
      /\ \A q \in Run : q # r => new[q] = run[q]
  BY <1>0, <1>record, TrackerSet
<1>3. \A q \in Run : new[q].tracker = "disables" => new[q].status = "failed"
  BY <1>2 DEF StreakInv, CountedFailures
<1>4. /\ CountedFailures'
      /\ \A q \in Run : new[q].tracker = "disables" => run'[q] = new[q]
  BY <1>1, <1>2, <1>3, SettleStreak
<1>5. StreakSwitchesOff'
  <2> SUFFICES ASSUME NEW x \in Source, enabled'[x], failures'[x] >= Threshold, ~(faults' > 0)
               PROVE  \E q \in Run : run'[q].of = x /\ run'[q].tracker = "disables"
    BY DEF StreakSwitchesOff
  <2>1. enabled[x] /\ x # run[r].of
    BY <1>0, <1>1
  <2>2. PICK q \in Run : run[q].of = x /\ run[q].tracker = "disables"
    BY <1>1, <2>1 DEF StreakInv, StreakSwitchesOff
  <2>3. new[q] = run[q]
    BY <1>2, <2>1, <2>2
  <2> QED BY <1>4, <2>2, <2>3
<1> QED BY <1>4, <1>5 DEF StreakInv

(* The clock takes a run up: it looks for a free place, and writes down    *)
(* whose it is.                                                            *)
LEMMA StartStreak ==
  ASSUME TurnInv, StreakInv, StartRun
  PROVE  StreakInv'
<1>0. run \in [Run -> RunRecord] /\ clock.row \in Source
  BY DEF TurnInv, Types, InHand, StartRun, AtStatement
<1> DEFINE r == CHOOSE free \in Slots(clock.row) : run[free] = NoRun
           rec == [NoRun EXCEPT !.of = clock.row, !.status = "pending"]
<1>1. /\ r \in Slots(clock.row) /\ run[r] = NoRun
      /\ run' = [run EXCEPT ![r] = rec] /\ UNCHANGED <<rows, latest, owed, faults>>
  BY DEF StartRun
<1>2. r \in Run
  BY <1>0, <1>1 DEF Run
<1>3. rec.tracker = "none" /\ NoRun.tracker = "none"
  BY DEF NoRun
<1> HIDE DEF r, rec
<1>4. run'[r] = rec /\ \A q \in Run : q # r => run'[q] = run[q]
  BY <1>0, <1>1, <1>2
<1>5. CountedFailures'
  BY <1>3, <1>4 DEF StreakInv, CountedFailures
<1>6. /\ enabled' = enabled /\ failures' = failures /\ faults' = faults
  BY <1>1 DEF rows
<1>7. \A q \in Run : run[q].tracker = "disables" => run'[q] = run[q]
  BY <1>1, <1>3, <1>4
<1> QED BY <1>5, <1>6, <1>7, StreakStays

LEMMA RecordStreak ==
  ASSUME TurnInv, StreakInv, RecordStarted
  PROVE  StreakInv'
<1>0. /\ run \in [Run -> RunRecord] /\ clock.run \in Run /\ run[clock.run].tracker = "none"
  BY DEF TurnInv, Types, InHand, RecordStarted
<1> DEFINE r == clock.run
           rec == [run[r] EXCEPT !.fired = TRUE, !.tracker = "waits"]
           new == [run EXCEPT ![r].fired = TRUE, ![r].tracker = "waits"]
<1>1. new = [run EXCEPT ![r] = rec]
  BY <1>0
<1>2. rec \in RunRecord /\ rec.tracker = "waits"
  BY <1>0 DEF RunRecord
<1>3. /\ WriteRuns(new, [latest EXCEPT ![clock.row] = clock.run], Nothing)
      /\ enabled' = enabled /\ failures' = failures /\ faults' = faults
  BY DEF RecordStarted, rows
<1>4. r \in Run /\ run[r].tracker = "none"
  BY <1>0
<1> HIDE DEF new, rec, r
<1>5. new \in [Run -> RunRecord] /\ new[r] = rec /\ \A q \in Run : q # r => new[q] = run[q]
  BY <1>0, <1>1, <1>2, <1>4
<1>6. \A q \in Run : new[q].tracker = "disables" => new[q] = run[q]
  BY <1>2, <1>5
<1>7. \A q \in Run : run[q].tracker = "disables" => new[q] = run[q]
  BY <1>4, <1>5
<1> QED BY <1>3, <1>5, <1>6, <1>7, RunsMoveStreak

(* A fault excuses what it loses.                                          *)
LEMMA FaultsStreak ==
  ASSUME TurnInv, StreakInv, RowFails \/ Restart \/ \E r \in Run : TrackerFails(r)
  PROVE  StreakInv'
<1>0. run \in [Run -> RunRecord] /\ faults \in Nat
  BY ClockAssumption DEF TurnInv, Types
<1>1. faults' = faults + 1
  BY DEF RowFails, Restart, TrackerFails
<1>2. faults' > 0
  BY <1>0, <1>1
<1>3. CASE RowFails
  <2>1. WriteRuns(run, latest, Nothing)
    BY <1>3 DEF RowFails
  <2> QED BY <1>0, <1>2, <2>1, RunsMoveStreak
<1>4. ASSUME NEW r \in Run, TrackerFails(r) PROVE StreakInv'
  <2> DEFINE new == [run EXCEPT ![r].tracker = "none"]
  <2>1. WriteRuns(new, latest, clock.run) /\ new = [run EXCEPT ![r].tracker = "none"]
    BY <1>4 DEF TrackerFails
  <2> HIDE DEF new
  <2>2. /\ new \in [Run -> RunRecord] /\ new[r].tracker = "none"
        /\ \A q \in Run : q # r => new[q] = run[q]
    BY <1>0, <2>1, TrackerSet
  <2>3. \A q \in Run : new[q].tracker = "disables" => new[q] = run[q]
    BY <2>2
  <2> QED BY <1>2, <2>1, <2>2, <2>3, RunsMoveStreak
<1>5. CASE Restart
  <2> DEFINE new == [r \in Run |-> [run[r] EXCEPT !.tracker = "none",
                                      !.status = IF @ \in Open THEN "failed" ELSE @]]
  <2>1. WriteRuns(new, latest, Nothing)
    BY <1>5 DEF Restart
  <2>2. ASSUME NEW rec \in RunRecord, NEW st \in {"none"} \cup Open \cup Ended
        PROVE  /\ [rec EXCEPT !.tracker = "none", !.status = st] \in RunRecord
               /\ [rec EXCEPT !.tracker = "none", !.status = st].tracker = "none"
    BY DEF RunRecord
  <2>3. ASSUME NEW r \in Run
        PROVE  /\ [run[r] EXCEPT !.tracker = "none",
                                 !.status = IF @ \in Open THEN "failed" ELSE @] \in RunRecord
               /\ [run[r] EXCEPT !.tracker = "none",
                                 !.status = IF @ \in Open THEN "failed" ELSE @].tracker = "none"
    <3> DEFINE st == IF run[r].status \in Open THEN "failed" ELSE run[r].status
    <3>1. run[r] \in RunRecord /\ st \in {"none"} \cup Open \cup Ended
      BY <1>0 DEF RunRecord, Ended
    <3>2. [run[r] EXCEPT !.tracker = "none", !.status = IF @ \in Open THEN "failed" ELSE @] =
            [run[r] EXCEPT !.tracker = "none", !.status = st]
      BY <3>1 DEF RunRecord
    <3> HIDE DEF st
    <3> QED BY <2>2, <3>1, <3>2
  <2>4. new \in [Run -> RunRecord] /\ \A r \in Run : new[r].tracker = "none"
    BY <2>3
  <2> HIDE DEF new
  <2> QED BY <1>2, <2>1, <2>4, RunsMoveStreak
<1> QED BY <1>3, <1>4, <1>5

(* What is left moves no run.                                              *)
LEMMA QuietStreak ==
  ASSUME TurnInv, StreakInv,
         \/ Wake \/ ListTriggers \/ WakeEnds \/ (\E s \in Source : Claim(s))
         \/ Ask \/ RecordUnavailable \/ RecordCheck \/ LookAtPrevious \/ Refused \/ RecordSkipped
         \/ WakeFails \/ (\E s \in Source : SetEnabled(s) \/ TimeComes(s) \/ ClaimFails(s))
         \/ UNCHANGED vars
  PROVE  StreakInv'
<1>0. /\ enabled \in [Source -> BOOLEAN] /\ failures \in [Source -> Nat] /\ faults \in Nat
      /\ Threshold \in Nat \ {0}
  BY ClockAssumption DEF TurnInv, Types
<1>1. run' = run
  BY DEF Wake, ListTriggers, WakeEnds, Claim, Ask, RecordUnavailable, RecordCheck, LookAtPrevious,
         Refused, RecordSkipped, WakeFails, SetEnabled, TimeComes, ClaimFails, vars
<1>2. CountedFailures' /\ \A r \in Run : run[r].tracker = "disables" => run'[r] = run[r]
  BY <1>1 DEF StreakInv, CountedFailures
<1>3. CASE \E s \in Source : SetEnabled(s)
  <2>1. PICK s \in Source : SetEnabled(s)
    BY <1>3
  <2>2. /\ enabled' = [enabled EXCEPT ![s] = ~enabled[s]] /\ faults' = faults
        /\ failures' = IF enabled[s] THEN failures ELSE [failures EXCEPT ![s] = 0]
    BY <2>1 DEF SetEnabled
  <2>3. StreakSwitchesOff'
    <3> SUFFICES ASSUME NEW x \in Source, enabled'[x], failures'[x] >= Threshold, ~(faults' > 0)
                 PROVE  \E q \in Run : run'[q].of = x /\ run'[q].tracker = "disables"
      BY DEF StreakSwitchesOff
    <3>1. x # s /\ enabled[x] /\ failures'[x] = failures[x]
      <4>1. CASE enabled[s]
        BY <1>0, <2>2, <4>1
      <4>2. CASE ~enabled[s]
        <5>1. failures'[s] = 0 /\ ~(0 >= Threshold)
          BY <1>0, <2>2, <4>2
        <5> QED BY <1>0, <2>2, <4>2, <5>1
      <4> QED BY <4>1, <4>2
    <3> QED BY <1>1, <2>2, <3>1 DEF StreakInv, StreakSwitchesOff
  <2> QED BY <1>2, <2>3 DEF StreakInv
<1>4. CASE \/ Wake \/ ListTriggers \/ WakeEnds \/ (\E s \in Source : Claim(s))
           \/ Ask \/ RecordUnavailable \/ RecordCheck \/ LookAtPrevious \/ Refused \/ RecordSkipped
           \/ WakeFails \/ (\E s \in Source : TimeComes(s) \/ ClaimFails(s))
           \/ UNCHANGED vars
  <2>1. enabled' = enabled /\ failures' = failures
    BY <1>4 DEF Wake, ListTriggers, WakeEnds, Claim, Ask, RecordUnavailable, RecordCheck,
         LookAtPrevious, Refused, RecordSkipped, WakeFails, TimeComes, ClaimFails, vars, rows
  <2>2. faults' = faults \/ faults' = faults + 1
    BY <1>4 DEF Wake, ListTriggers, WakeEnds, Claim, Ask, RecordUnavailable, RecordCheck,
         LookAtPrevious, Refused, RecordSkipped, WakeFails, TimeComes, ClaimFails, vars
  <2>3. faults' = faults \/ faults' > 0
    BY <1>0, <2>2
  <2> QED BY <1>2, <2>1, <2>3, StreakStays
<1> QED BY <1>3, <1>4

LEMMA StreakInit == Init => StreakInv
<1> SUFFICES ASSUME Init PROVE StreakInv
  OBVIOUS
<1>1. \A r \in Run : run[r].tracker = "none"
  BY DEF Init, NoRun
<1>2. \A s \in Source : ~(failures[s] >= Threshold)
  BY ClockAssumption DEF Init
<1> QED BY <1>1, <1>2 DEF StreakInv, CountedFailures, StreakSwitchesOff

LEMMA StreakNext == TurnInv /\ StreakInv /\ [Next]_vars => StreakInv'
<1> SUFFICES ASSUME TurnInv, StreakInv, [Next]_vars PROVE StreakInv'
  OBVIOUS
<1>1. ASSUME NEW r \in Run, RunMoves(r) \/ MoveStreak(r) \/ DisableForFailures(r) \/ TrackerFails(r)
      PROVE  StreakInv'
  BY <1>1, RunMovesStreak, MoveStreakStreak, DisablesStreak, FaultsStreak
<1> QED BY <1>1, StartStreak, RecordStreak, FaultsStreak, QuietStreak DEF Next, Turn

(* A source that fails as often in a row as the threshold says is switched *)
(* off, whichever of its runs end at the same moment and however often the *)
(* operator switches it, unless a fault took the statement.                *)
THEOREM AStreakSwitchesOff == Spec => []StreakSwitchesOff
<1>1. StreakInv => StreakSwitchesOff
  BY DEF StreakInv
<1> QED BY <1>1, TurnAlways, StreakInit, StreakNext, PTL DEF Spec

(***************************************************************************)
(* The road of a film: the day's ceilings.  Who is about to spend holds    *)
(* the lock, and has flushed the meter and compared the sum before: only   *)
(* what it then hears itself is added to it.                               *)
(***************************************************************************)

(* Where a worker holds the lock.                                          *)
Locked == {"list", "judge", "refresh", "discovered", "choose", "hear", "settle", "pick", "reading",
           "check", "save", "telling", "publish", "closing"}

(* Where the answer it waits for will be paid for.                         *)
Spends == {"hear", "judge", "reading"}

(* What a worker may have been asked, and have been answered.              *)
Tasks == {"pass", "named", "again"}

Answers == {None, "words", "nothing", "blocked", "reading", "unusable"}

(* What the worker remembers, typed as loosely as the proof needs.         *)
Job == [at : Places, task : Tasks \cup {None}, film : Films \cup {None}, todo : SUBSET (Films \cup {None}),
        answer : Answers, flight : [Units -> Nat]]

(* What was charged is under the ceilings, and all of it is written down   *)
(* or on the meter, unless something was drained and is not written down   *)
(* yet.                                                                    *)
MoneyFacts ==
  /\ usage \in [Units -> Nat] /\ meter \in [Units -> Nat] /\ billed \in [Units -> Nat]
  /\ astray \in BOOLEAN
  /\ billed["seconds"] <= DaySeconds /\ billed["tokens"] < DayTokens + ReadingCost
  /\ astray => billed = Zero
  /\ ~astray => \A u \in Units : billed[u] <= usage[u] + meter[u]

(* The pieces that a film which was chosen still lacks are within the day, *)
HearsWithin(w) ==
  job[w].at = "hear" =>
    LET f == job[w].film
        rest == Length[f] - written[f]
    IN  /\ f \in Films
        /\ meter["seconds"] + rest <= DaySeconds
        /\ ~astray => usage["seconds"] + meter["seconds"] + rest <= DaySeconds

(* and whoever asks the model does so on a day with tokens left.           *)
AsksWithin(w) ==
  job[w].at \in {"judge", "reading"} =>
    /\ meter["tokens"] < DayTokens
    /\ ~astray => usage["tokens"] + meter["tokens"] < DayTokens

(* One worker at a time is past the lock.                                  *)
Turns ==
  /\ line \in Seq(Workers) /\ job \in [Workers -> Job]
  /\ \A w \in Workers : job[w].at \in Locked => Holds(w)
  /\ \A w \in Workers : job[w].at = "queued" => job[w].task \in Tasks

(* A film of which pieces are kept is not whole.                           *)
Pieces == written \in [Films -> Nat] /\ \A f \in Films : written[f] < Length[f]

(* What a request has drained is nothing, unless something is astray.      *)
Flights == ~astray => \A w \in Workers : job[w].flight = Zero

(* The inductive invariant.                                                *)
RoadFacts ==
  /\ Turns /\ Pieces /\ MoneyFacts /\ Flights
  /\ \A w \in Workers : HearsWithin(w) /\ AsksWithin(w)

(* One worker moved to a place and nobody else did.                        *)
Moved(w, place) ==
  /\ job' \in [Workers -> Job] /\ job'[w].at = place /\ job'[w].flight = job[w].flight
  /\ \A v \in Workers : v # w => job'[v] = job[v]

(* Money moved, and none was charged: the meter and the sum grew no        *)
(* larger.                                                                 *)
Spared ==
  /\ MoneyFacts' /\ (~astray' => ~astray)
  /\ \A u \in Units : meter'[u] <= meter[u]
  /\ ~astray' => \A u \in Units : usage'[u] + meter'[u] <= usage[u] + meter[u]

(* One worker's record is replaced; then one field of it, each of the      *)
(* four.                                                                   *)
LEMMA WorkerPut ==
  ASSUME NEW J \in [Workers -> Job], NEW w \in Workers, NEW r \in Job
  PROVE  /\ [J EXCEPT ![w] = r] \in [Workers -> Job] /\ [J EXCEPT ![w] = r][w] = r
         /\ \A v \in Workers : v # w => [J EXCEPT ![w] = r][v] = J[v]
OBVIOUS

LEMMA AtPut ==
  ASSUME NEW J \in [Workers -> Job], NEW w \in Workers, NEW spot \in Places
  PROVE  /\ [J EXCEPT ![w].at = spot] \in [Workers -> Job]
         /\ [J EXCEPT ![w].at = spot][w].at = spot
         /\ [J EXCEPT ![w].at = spot][w].film = J[w].film
         /\ [J EXCEPT ![w].at = spot][w].flight = J[w].flight
         /\ \A v \in Workers : v # w => [J EXCEPT ![w].at = spot][v] = J[v]
<1> DEFINE r == [J[w] EXCEPT !.at = spot]
<1>1. r \in Job /\ r.at = spot /\ r.film = J[w].film /\ r.flight = J[w].flight
  BY DEF Job
<1>2. [J EXCEPT ![w].at = spot] = [J EXCEPT ![w] = r]
  OBVIOUS
<1> HIDE DEF r
<1> QED BY <1>1, <1>2, WorkerPut

LEMMA FilmPut ==
  ASSUME NEW J \in [Workers -> Job], NEW w \in Workers, NEW film \in Films \cup {None}
  PROVE  /\ [J EXCEPT ![w].film = film] \in [Workers -> Job]
         /\ [J EXCEPT ![w].film = film][w].at = J[w].at
         /\ [J EXCEPT ![w].film = film][w].film = film
         /\ [J EXCEPT ![w].film = film][w].flight = J[w].flight
         /\ \A v \in Workers : v # w => [J EXCEPT ![w].film = film][v] = J[v]
<1> DEFINE r == [J[w] EXCEPT !.film = film]
<1>1. r \in Job /\ r.at = J[w].at /\ r.film = film /\ r.flight = J[w].flight
  BY DEF Job
<1>2. [J EXCEPT ![w].film = film] = [J EXCEPT ![w] = r]
  OBVIOUS
<1> HIDE DEF r
<1> QED BY <1>1, <1>2, WorkerPut

LEMMA TodoPut ==
  ASSUME NEW J \in [Workers -> Job], NEW w \in Workers, NEW todo \in SUBSET (Films \cup {None})
  PROVE  /\ [J EXCEPT ![w].todo = todo] \in [Workers -> Job]
         /\ [J EXCEPT ![w].todo = todo][w].at = J[w].at
         /\ [J EXCEPT ![w].todo = todo][w].film = J[w].film
         /\ [J EXCEPT ![w].todo = todo][w].flight = J[w].flight
         /\ \A v \in Workers : v # w => [J EXCEPT ![w].todo = todo][v] = J[v]
<1> DEFINE r == [J[w] EXCEPT !.todo = todo]
<1>1. r \in Job /\ r.at = J[w].at /\ r.film = J[w].film /\ r.flight = J[w].flight
  BY DEF Job
<1>2. [J EXCEPT ![w].todo = todo] = [J EXCEPT ![w] = r]
  OBVIOUS
<1> HIDE DEF r
<1> QED BY <1>1, <1>2, WorkerPut

LEMMA AnswerPut ==
  ASSUME NEW J \in [Workers -> Job], NEW w \in Workers, NEW answer \in Answers
  PROVE  /\ [J EXCEPT ![w].answer = answer] \in [Workers -> Job]
         /\ [J EXCEPT ![w].answer = answer][w].at = J[w].at
         /\ [J EXCEPT ![w].answer = answer][w].film = J[w].film
         /\ [J EXCEPT ![w].answer = answer][w].flight = J[w].flight
         /\ \A v \in Workers : v # w => [J EXCEPT ![w].answer = answer][v] = J[v]
<1> DEFINE r == [J[w] EXCEPT !.answer = answer]
<1>1. r \in Job /\ r.at = J[w].at /\ r.film = J[w].film /\ r.flight = J[w].flight
  BY DEF Job
<1>2. [J EXCEPT ![w].answer = answer] = [J EXCEPT ![w] = r]
  OBVIOUS
<1> HIDE DEF r
<1> QED BY <1>1, <1>2, WorkerPut

(* Every way in which the actions move their worker is a move.             *)
LEMMA MoveForms ==
  ASSUME job \in [Workers -> Job], NEW w \in Workers, NEW spot \in Places,
         NEW film \in Films \cup {None}, NEW todo \in SUBSET (Films \cup {None}), NEW answer \in Answers
  PROVE  /\ job' = [job EXCEPT ![w].at = spot] => Moved(w, spot) /\ job'[w].film = job[w].film
         /\ job' = [job EXCEPT ![w].todo = todo] =>
              Moved(w, job[w].at) /\ job'[w].film = job[w].film
         /\ job' = [job EXCEPT ![w].at = spot, ![w].film = film] =>
              Moved(w, spot) /\ job'[w].film = film
         /\ job' = [job EXCEPT ![w].at = spot, ![w].todo = todo] => Moved(w, spot)
         /\ job' = [job EXCEPT ![w].at = spot, ![w].answer = answer] => Moved(w, spot)
         /\ job' = [job EXCEPT ![w].at = spot, ![w].film = film, ![w].todo = todo] => Moved(w, spot)
         /\ job' = [job EXCEPT ![w].at = spot, ![w].todo = todo, ![w].film = film,
                               ![w].answer = answer] => Moved(w, spot)
         /\ job' = [job EXCEPT ![w].at = spot, ![w].todo = todo, ![w].answer = answer,
                               ![w].film = film] => Moved(w, spot)
<1> DEFINE A == [job EXCEPT ![w].at = spot]
           D == [job EXCEPT ![w].todo = todo]
           AF == [A EXCEPT ![w].film = film]
           AD == [A EXCEPT ![w].todo = todo]
           AN == [A EXCEPT ![w].answer = answer]
           AFD == [AF EXCEPT ![w].todo = todo]
           ADF == [AD EXCEPT ![w].film = film]
           ADN == [AD EXCEPT ![w].answer = answer]
           ADFN == [ADF EXCEPT ![w].answer = answer]
           ADNF == [ADN EXCEPT ![w].film = film]
           Good(K) == /\ K \in [Workers -> Job] /\ K[w].at = spot /\ K[w].flight = job[w].flight
                      /\ \A v \in Workers : v # w => K[v] = job[v]
           Same(K, L) == /\ L \in [Workers -> Job] /\ L[w].at = K[w].at /\ L[w].flight = K[w].flight
                         /\ \A v \in Workers : v # w => L[v] = K[v]
<1>1. /\ [job EXCEPT ![w].at = spot, ![w].film = film] = AF
      /\ [job EXCEPT ![w].at = spot, ![w].todo = todo] = AD
      /\ [job EXCEPT ![w].at = spot, ![w].answer = answer] = AN
      /\ [job EXCEPT ![w].at = spot, ![w].film = film, ![w].todo = todo] = AFD
      /\ [job EXCEPT ![w].at = spot, ![w].todo = todo, ![w].film = film, ![w].answer = answer] = ADFN
      /\ [job EXCEPT ![w].at = spot, ![w].todo = todo, ![w].answer = answer, ![w].film = film] = ADNF
  OBVIOUS
<1>2. Good(A) /\ A[w].film = job[w].film
  BY AtPut
<1>3. Same(job, D) /\ D[w].film = job[w].film
  BY TodoPut
<1> HIDE DEF A
<1>4. Same(A, AF) /\ AF[w].film = film /\ Same(A, AD) /\ Same(A, AN)
  <2>1. Same(A, AF) /\ AF[w].film = film
    BY <1>2, FilmPut
  <2>2. Same(A, AD)
    BY <1>2, TodoPut
  <2>3. Same(A, AN)
    BY <1>2, AnswerPut
  <2> QED BY <2>1, <2>2, <2>3
<1>5. Good(AF) /\ Good(AD) /\ Good(AN)
  BY <1>2, <1>4
<1> HIDE DEF AF, AD, AN
<1>6. Same(AF, AFD) /\ Same(AD, ADF) /\ Same(AD, ADN)
  <2>1. Same(AF, AFD)
    BY <1>5, TodoPut
  <2>2. Same(AD, ADF)
    BY <1>5, FilmPut
  <2>3. Same(AD, ADN)
    BY <1>5, AnswerPut
  <2> QED BY <2>1, <2>2, <2>3
<1>7. Good(AFD) /\ Good(ADF) /\ Good(ADN)
  BY <1>5, <1>6
<1> HIDE DEF AFD, ADF, ADN
<1>8. Same(ADF, ADFN) /\ Same(ADN, ADNF)
  BY <1>7, FilmPut, AnswerPut
<1>9. Good(ADFN) /\ Good(ADNF)
  BY <1>7, <1>8
<1> HIDE DEF ADFN, ADNF
<1>10. \A K : Good(K) /\ job' = K => Moved(w, spot)
  BY DEF Moved
<1>11. job' = D => Moved(w, job[w].at) /\ job'[w].film = job[w].film
  BY <1>3 DEF Moved
<1> HIDE DEF Good, Same, D
<1>12. job' = A => Moved(w, spot) /\ job'[w].film = job[w].film
  BY <1>2, <1>10
<1>13. job' = AF => Moved(w, spot) /\ job'[w].film = film
  BY <1>4, <1>5, <1>10
<1>14. /\ job' = AD => Moved(w, spot)
       /\ job' = AN => Moved(w, spot)
       /\ job' = AFD => Moved(w, spot)
       /\ job' = ADFN => Moved(w, spot)
       /\ job' = ADNF => Moved(w, spot)
  BY <1>5, <1>7, <1>9, <1>10
<1> QED BY <1>1, <1>11, <1>12, <1>13, <1>14 DEF A, D

(* At first nothing is charged and nobody is past the lock.                *)
LEMMA RoadInvInit == RoadInit => RoadFacts
<1> SUFFICES ASSUME RoadInit PROVE RoadFacts
  OBVIOUS
<1>1. /\ usage = Zero /\ meter = Zero /\ billed = Zero /\ astray = FALSE
      /\ written = [f \in Films |-> 0] /\ line = <<>>
      /\ job = [w \in Workers |-> Idle(IF w = Loop THEN "rest" ELSE "unused")]
  BY DEF RoadInit
<1>2. Zero \in [Units -> Nat] /\ \A u \in Units : Zero[u] = 0
  BY DEF Zero
<1>3. /\ DaySeconds \in Nat /\ DayTokens \in Nat /\ ReadingCost \in Nat \ {0}
      /\ \A f \in Films : Length[f] \in 1 .. DaySeconds
  BY RoadAssumption
<1>4. MoneyFacts
  <2>1. "seconds" \in Units /\ "tokens" \in Units
    BY DEF Units
  <2>2. Zero["seconds"] = 0 /\ Zero["tokens"] = 0
    BY <1>2, <2>1
  <2>3. \A u \in Units : billed[u] <= usage[u] + meter[u]
    BY <1>1, <1>2
  <2>4. billed["seconds"] <= DaySeconds /\ billed["tokens"] < DayTokens + ReadingCost
    BY <1>1, <1>3, <2>2
  <2> QED BY <1>1, <1>2, <2>3, <2>4 DEF MoneyFacts
<1>5. \A w \in Workers : job[w] \in Job /\ job[w].at \in {"rest", "unused"} /\ job[w].flight = Zero
  BY <1>1, <1>2 DEF Idle, Job, Places, Answers
<1>6. Turns
  <2>1. job \in [Workers -> Job]
    BY <1>1, <1>5
  <2> QED BY <1>1, <1>5, <2>1 DEF Turns, Locked
<1>7. Pieces
  BY <1>1, <1>3 DEF Pieces
<1> QED BY <1>4, <1>5, <1>6, <1>7 DEF RoadFacts, Flights, HearsWithin, AsksWithin
(* The lock has one holder.                                                *)
LEMMA OneHolds ==
  \A v, w \in Workers : Holds(v) /\ Holds(w) => v = w
BY DEF Holds

(* A flush charges nothing: the meter is zero, and the sum what it was.    *)
LEMMA FlushSpares ==
  ASSUME MoneyFacts, Flush
  PROVE  /\ Spared /\ astray' = astray /\ meter' = Zero
         /\ \A u \in Units : usage'[u] = usage[u] + meter[u]
<1>1. /\ usage \in [Units -> Nat] /\ meter \in [Units -> Nat]
      /\ billed' = billed /\ astray' = astray /\ meter' = Zero
      /\ usage' = [u \in Units |-> usage[u] + meter[u]]
  BY DEF MoneyFacts, Flush, Plus
<1>2. Zero \in [Units -> Nat] /\ \A u \in Units : Zero[u] = 0
  BY DEF Zero
<1>3. \A u \in Units : usage'[u] = usage[u] + meter[u] /\ meter'[u] = 0
  BY <1>1, <1>2
<1>4. usage' \in [Units -> Nat]
  BY <1>1
<1>5. \A u \in Units : usage[u] \in Nat /\ meter[u] \in Nat
  BY <1>1
<1>6. ~astray' => \A u \in Units : billed'[u] <= usage'[u] + meter'[u]
  BY <1>1, <1>3, <1>5 DEF MoneyFacts
<1>7. MoneyFacts'
  BY <1>1, <1>2, <1>4, <1>6 DEF MoneyFacts
<1>8. /\ \A u \in Units : meter'[u] <= meter[u]
      /\ \A u \in Units : usage'[u] + meter'[u] <= usage[u] + meter[u]
  BY <1>3, <1>5
<1> QED BY <1>1, <1>3, <1>7, <1>8 DEF Spared

(* Nor does a loss, after which nothing is followed that day.              *)
LEMMA LoseSpares ==
  ASSUME MoneyFacts, Lose
  PROVE  Spared /\ (~astray' => meter = Zero)
<1>1. /\ usage \in [Units -> Nat] /\ meter \in [Units -> Nat]
      /\ meter' = Zero /\ usage' = usage
  BY DEF MoneyFacts, Lose
<1>2. Zero \in [Units -> Nat] /\ \A u \in Units : Zero[u] = 0
  BY DEF Zero
<1>3. \A u \in Units : usage[u] \in Nat /\ meter[u] \in Nat /\ meter'[u] = 0
  BY <1>1, <1>2
<1>4. "seconds" \in Units /\ "tokens" \in Units
  BY DEF Units
<1>5. CASE meter = Zero
  <2>1. billed' = billed /\ astray' = astray /\ meter' = meter
    BY <1>1, <1>5 DEF Lose
  <2>2. MoneyFacts'
    BY <1>1, <2>1 DEF MoneyFacts
  <2> QED BY <1>1, <1>3, <1>5, <2>1, <2>2 DEF Spared
<1>6. CASE meter # Zero
  <2>1. billed' = Zero /\ astray' = TRUE
    BY <1>1, <1>6 DEF Lose
  <2>2. billed'["seconds"] <= DaySeconds /\ billed'["tokens"] < DayTokens + ReadingCost
    BY <1>2, <1>4, <2>1, RoadAssumption
  <2>3. MoneyFacts'
    BY <1>1, <1>2, <2>1, <2>2 DEF MoneyFacts
  <2> QED BY <1>3, <2>1, <2>3 DEF Spared
<1> QED BY <1>5, <1>6

(* Nor does nothing.                                                       *)
LEMMA NothingSpares ==
  ASSUME MoneyFacts, usage' = usage, meter' = meter, billed' = billed, astray' = astray
  PROVE  Spared
<1>1. MoneyFacts'
  BY DEF MoneyFacts
<1>2. \A u \in Units : usage[u] \in Nat /\ meter[u] \in Nat
  BY DEF MoneyFacts
<1> QED BY <1>1, <1>2 DEF Spared

(* A bill that the ceiling has room for keeps what is known of the money.  *)
LEMMA BillCounts ==
  ASSUME MoneyFacts, NEW u \in Units, NEW n \in Nat, Bill(u, n),
         ~astray => IF u = "seconds" THEN billed[u] + n <= DaySeconds
                                     ELSE billed[u] + n < DayTokens + ReadingCost
  PROVE  /\ MoneyFacts' /\ astray' = astray /\ usage' = usage
         /\ meter'[u] = meter[u] + n /\ \A v \in Units : v # u => meter'[v] = meter[v]
<1>1. /\ usage \in [Units -> Nat] /\ meter \in [Units -> Nat] /\ billed \in [Units -> Nat]
      /\ usage' = usage /\ astray' = astray /\ astray \in BOOLEAN
      /\ meter' = [meter EXCEPT ![u] = @ + n]
  BY DEF MoneyFacts, Bill
<1>2. "seconds" \in Units /\ "tokens" \in Units /\ \A v \in Units : v \in {"seconds", "tokens"}
  BY DEF Units
<1>3. meter' \in [Units -> Nat] /\ meter'[u] = meter[u] + n /\ \A v \in Units : v # u => meter'[v] = meter[v]
  BY <1>1
<1>4. CASE astray
  <2>1. billed' = billed
    BY <1>4 DEF Bill
  <2> QED BY <1>1, <1>3, <1>4, <2>1 DEF MoneyFacts
<1>5. CASE ~astray
  <2>1. billed' = [billed EXCEPT ![u] = @ + n]
    BY <1>5 DEF Bill
  <2>2. billed' \in [Units -> Nat] /\ billed'[u] = billed[u] + n /\ \A v \in Units : v # u => billed'[v] = billed[v]
    BY <1>1, <2>1
  <2>3. \A v \in Units : billed[v] <= usage[v] + meter[v]
    BY <1>5 DEF MoneyFacts
  <2>4. \A v \in Units : usage[v] \in Nat /\ meter[v] \in Nat /\ billed[v] \in Nat
    BY <1>1
  <2>5. \A v \in Units : billed'[v] <= usage'[v] + meter'[v]
    BY <1>1, <1>3, <2>2, <2>3, <2>4
  <2>6. billed["seconds"] <= DaySeconds /\ billed["tokens"] < DayTokens + ReadingCost
    BY DEF MoneyFacts
  <2>7. billed'["seconds"] <= DaySeconds /\ billed'["tokens"] < DayTokens + ReadingCost
    BY <1>2, <1>5, <2>2, <2>6
  <2> QED BY <1>1, <1>3, <1>5, <2>2, <2>5, <2>7 DEF MoneyFacts
<1> QED BY <1>1, <1>3, <1>4, <1>5

(* Whoever is about to spend stays within the day when nothing is charged. *)
LEMMA SparedHears ==
  ASSUME MoneyFacts, Pieces, Spared, NEW w \in Workers, HearsWithin(w), job'[w].at = job[w].at,
         job'[w].film = job[w].film, written' = written
  PROVE  HearsWithin(w)'
<1> SUFFICES ASSUME job[w].at = "hear" PROVE HearsWithin(w)'
  BY DEF HearsWithin
<1> DEFINE f == job[w].film
           rest == Length[f] - written[f]
<1>1. /\ f \in Films /\ meter["seconds"] + rest <= DaySeconds
      /\ ~astray => usage["seconds"] + meter["seconds"] + rest <= DaySeconds
  BY DEF HearsWithin
<1>2. rest \in Int /\ DaySeconds \in Nat
  BY <1>1, RoadAssumption DEF Pieces
<1>3. "seconds" \in Units
  BY DEF Units
<1>4. /\ usage["seconds"] \in Nat /\ meter["seconds"] \in Nat
      /\ usage'["seconds"] \in Nat /\ meter'["seconds"] \in Nat
  BY <1>3 DEF MoneyFacts, Spared
<1>5. /\ meter'["seconds"] <= meter["seconds"] /\ (~astray' => ~astray)
      /\ ~astray' => usage'["seconds"] + meter'["seconds"] <= usage["seconds"] + meter["seconds"]
  BY <1>3 DEF Spared
<1>6. (Length[job[w].film] - written[job[w].film])' = rest /\ (job[w].film)' = f
  OBVIOUS
<1> HIDE DEF f, rest
<1>7. meter'["seconds"] + rest <= DaySeconds
  BY <1>1, <1>2, <1>4, <1>5
<1>8. ~astray' => usage'["seconds"] + meter'["seconds"] + rest <= DaySeconds
  BY <1>1, <1>2, <1>4, <1>5
<1> QED BY <1>1, <1>6, <1>7, <1>8 DEF HearsWithin

(* The same for the model.                                                 *)
LEMMA SparedAsks ==
  ASSUME MoneyFacts, Spared, NEW w \in Workers, AsksWithin(w), job'[w].at = job[w].at
  PROVE  AsksWithin(w)'
<1> SUFFICES ASSUME job[w].at \in {"judge", "reading"} PROVE AsksWithin(w)'
  BY DEF AsksWithin
<1>1. meter["tokens"] < DayTokens /\ (~astray => usage["tokens"] + meter["tokens"] < DayTokens)
  BY DEF AsksWithin
<1>2. "tokens" \in Units
  BY DEF Units
<1>3. /\ usage["tokens"] \in Nat /\ meter["tokens"] \in Nat
      /\ usage'["tokens"] \in Nat /\ meter'["tokens"] \in Nat
  BY <1>2 DEF MoneyFacts, Spared
<1>4. /\ meter'["tokens"] <= meter["tokens"] /\ (~astray' => ~astray)
      /\ ~astray' => usage'["tokens"] + meter'["tokens"] <= usage["tokens"] + meter["tokens"]
  BY <1>2 DEF Spared
<1>5. DayTokens \in Nat
  BY RoadAssumption
<1> QED BY <1>1, <1>3, <1>4, <1>5 DEF AsksWithin

(* Nothing new was drained.                                                *)
LEMMA FlightsStay ==
  ASSUME Flights, ~astray' => ~astray, \A v \in Workers : job'[v].flight = job[v].flight
  PROVE  Flights'
BY DEF Flights

(* The holder moves: everybody else is before the lock, with nothing to    *)
(* spend. It may move to a place where it spends, within the day.          *)
LEMMA HolderMoves ==
  ASSUME RoadFacts, NEW w \in Workers, Holds(w), NEW place \in Places \ {"queued"}, Moved(w, place),
         line' = line, MoneyFacts', Pieces', ~astray' => ~astray, HearsWithin(w)', AsksWithin(w)'
  PROVE  RoadFacts'
<1>1. /\ line \in Seq(Workers) /\ \A v \in Workers : job[v].at \in Locked => Holds(v)
      /\ \A v \in Workers : job[v].at = "queued" => job[v].task \in Tasks
      /\ Flights
  BY DEF RoadFacts, Turns
<1>2. /\ job' \in [Workers -> Job] /\ job'[w].at = place /\ job'[w].flight = job[w].flight
      /\ \A v \in Workers : v # w => job'[v] = job[v]
  BY DEF Moved
<1>3. Holds(w)' /\ \A v \in Workers : Holds(v)' <=> Holds(v)
  BY DEF Holds
<1>4. \A v \in Workers : v # w => job'[v].at \notin Locked
  BY <1>1, <1>2, OneHolds
<1>5. Turns'
  <2>1. \A v \in Workers : job'[v].at \in Locked => Holds(v)'
    BY <1>3, <1>4
  <2>2. \A v \in Workers : job'[v].at = "queued" => job'[v].task \in Tasks
    BY <1>1, <1>2
  <2> QED BY <1>1, <1>2, <2>1, <2>2 DEF Turns
<1>6. Flights'
  BY <1>1, <1>2, FlightsStay
<1>7. \A v \in Workers : v # w => HearsWithin(v)' /\ AsksWithin(v)'
  <2>1. \A v \in Workers : v # w => job'[v].at \notin {"hear", "judge", "reading"}
    BY <1>4 DEF Locked
  <2> QED BY <2>1 DEF HearsWithin, AsksWithin
<1> QED BY <1>5, <1>6, <1>7 DEF RoadFacts

(* It moves where it does not spend.                                       *)
LEMMA HolderSpares ==
  ASSUME RoadFacts, NEW w \in Workers, Holds(w), NEW place \in Places \ (Spends \cup {"queued"}),
         Moved(w, place), line' = line, MoneyFacts', Pieces', ~astray' => ~astray
  PROVE  RoadFacts'
<1>1. job'[w].at = place
  BY DEF Moved
<1>2. HearsWithin(w)' /\ AsksWithin(w)'
  BY <1>1 DEF HearsWithin, AsksWithin, Spends
<1> QED BY <1>2, HolderMoves

(* Nobody is past the lock.                                                *)
LEMMA NobodyHolds ==
  ASSUME MoneyFacts', Pieces', Flights', line' \in Seq(Workers), job' \in [Workers -> Job],
         \A v \in Workers : job'[v].at \notin Locked,
         \A v \in Workers : job'[v].at = "queued" => job'[v].task \in Tasks
  PROVE  RoadFacts'
<1>1. Turns'
  BY DEF Turns
<1>2. \A v \in Workers : job'[v].at \notin {"hear", "judge", "reading"}
  BY DEF Locked
<1> QED BY <1>1, <1>2 DEF RoadFacts, HearsWithin, AsksWithin

(* Somebody before the lock moves, and perhaps joins the end of the line.  *)
LEMMA OutsiderMoves ==
  ASSUME RoadFacts, NEW w \in Workers, job[w].at \notin Locked, job' \in [Workers -> Job],
         job'[w].at \notin Locked, job'[w].at = "queued" => job'[w].task \in Tasks,
         \A v \in Workers : v # w => job'[v] = job[v],
         line' \in {line, Append(line, w)}, written' = written, Spared, Flights'
  PROVE  RoadFacts'
<1>1. /\ line \in Seq(Workers) /\ \A v \in Workers : job[v].at \in Locked => Holds(v)
      /\ \A v \in Workers : job[v].at = "queued" => job[v].task \in Tasks
      /\ MoneyFacts /\ Pieces /\ \A v \in Workers : HearsWithin(v) /\ AsksWithin(v)
  BY DEF RoadFacts, Turns
<1>2. line' \in Seq(Workers) /\ \A v \in Workers : Holds(v) => Holds(v)'
  <2>1. CASE line' = line
    BY <1>1, <2>1 DEF Holds
  <2>2. CASE line' = Append(line, w)
    <3>1. line' \in Seq(Workers) /\ Len(line') = Len(line) + 1 /\ Len(line) \in Nat
          /\ \A i \in 1 .. Len(line) : line'[i] = line[i]
      BY <1>1, <2>2
    <3>2. line # <<>> => Len(line) >= 1
      BY <1>1
    <3>3. line # <<>> => line' # <<>> /\ Head(line') = Head(line)
      BY <1>1, <3>1, <3>2
    <3> QED BY <3>1, <3>3 DEF Holds
  <2> QED BY <2>1, <2>2
<1>3. Turns'
  BY <1>1, <1>2 DEF Turns
<1>4. Pieces'
  BY <1>1 DEF Pieces
<1>5. \A v \in Workers : HearsWithin(v)' /\ AsksWithin(v)'
  <2>1. ASSUME NEW v \in Workers, v # w PROVE HearsWithin(v)' /\ AsksWithin(v)'
    BY <1>1, <2>1, SparedHears, SparedAsks
  <2>2. HearsWithin(w)' /\ AsksWithin(w)'
    BY DEF HearsWithin, AsksWithin, Locked
  <2> QED BY <2>1, <2>2
<1>6. MoneyFacts'
  BY DEF Spared
<1> QED BY <1>3, <1>4, <1>5, <1>6 DEF RoadFacts

(* Nobody moves and nothing is charged.                                    *)
LEMMA NoMoveSpares ==
  ASSUME RoadFacts, job' = job, line' = line, written' = written, usage' = usage, meter' = meter,
         billed' = billed, astray' = astray
  PROVE  RoadFacts'
<1>1. Turns' /\ Pieces' /\ MoneyFacts' /\ Flights'
  BY DEF RoadFacts, Turns, Holds, Pieces, MoneyFacts, Flights
<1>2. \A w \in Workers : HearsWithin(w)' /\ AsksWithin(w)'
  BY DEF RoadFacts, HearsWithin, AsksWithin
<1> QED BY <1>1, <1>2 DEF RoadFacts
(* The holder moves on and nothing is charged, by each form of a move.     *)
LEMMA HolderWalks ==
  ASSUME RoadFacts, NEW w \in Workers, Holds(w), NEW place \in Places \ (Spends \cup {"queued"}),
         Moved(w, place), line' = line, written' = written, Spared
  PROVE  RoadFacts'
<1>1. Pieces'
  BY DEF RoadFacts, Pieces
<1>2. MoneyFacts' /\ (~astray' => ~astray)
  BY DEF Spared
<1> QED BY <1>1, <1>2, HolderSpares

(* The holder leaves: then nobody is past the lock.                        *)
LEMMA HolderLeaves ==
  ASSUME RoadFacts, NEW w \in Workers, Holds(w), Leave(w), written' = written, Spared
  PROVE  RoadFacts'
<1> DEFINE end == Idle(IF w = Loop THEN "rest" ELSE "gone")
<1>1. /\ line \in Seq(Workers) /\ \A v \in Workers : job[v].at \in Locked => Holds(v)
      /\ \A v \in Workers : job[v].at = "queued" => job[v].task \in Tasks
      /\ job \in [Workers -> Job] /\ Flights /\ Pieces
  BY DEF RoadFacts, Turns
<1>2. end \in Job /\ end.at \in {"rest", "gone"} /\ end.flight = Zero
  BY DEF Idle, Job, Places, Answers, Zero
<1>3. job' = [job EXCEPT ![w] = end] /\ line' = Tail(line)
  BY DEF Leave
<1>4. line # <<>>
  BY DEF Holds
<1>5. line' \in Seq(Workers)
  BY <1>1, <1>3, <1>4
<1> HIDE DEF end
<1>6. /\ job' \in [Workers -> Job] /\ job'[w] = end
      /\ \A v \in Workers : v # w => job'[v] = job[v]
  BY <1>1, <1>2, <1>3
<1>7. \A v \in Workers : job'[v].at \notin Locked
  BY <1>1, <1>2, <1>6, OneHolds DEF Locked
<1>8. \A v \in Workers : job'[v].at = "queued" => job'[v].task \in Tasks
  BY <1>1, <1>2, <1>6
<1>9. Flights' /\ Pieces' /\ MoneyFacts'
  BY <1>1, <1>2, <1>6 DEF Flights, Pieces, Spared
<1> QED BY <1>5, <1>6, <1>7, <1>8, <1>9, NobodyHolds

(* The beginning and the end of a turn.                                    *)
LEMMA TurnHolds ==
  ASSUME RoadFacts, NEW w \in Workers, TakeTurn(w) \/ Close(w)
  PROVE  RoadFacts'
<1>1. /\ job \in [Workers -> Job] /\ MoneyFacts
      /\ \A v \in Workers : job[v].at = "queued" => job[v].task \in Tasks
  BY DEF RoadFacts, Turns
<1>2. CASE TakeTurn(w)
  <2>1. /\ job[w].at = "queued" /\ Holds(w) /\ line' = line /\ written' = written /\ usage' = usage
        /\ meter' = meter /\ billed' = billed /\ astray' = astray
        /\ job' = [job EXCEPT ![w].at = FirstPlace[job[w].task],
                              ![w].todo = IF w = Loop THEN Films ELSE {}]
    BY <1>2 DEF TakeTurn, At, money, memory
  <2>2. FirstPlace[job[w].task] \in {"list", "discovered", "check"}
    BY <1>1, <2>1 DEF FirstPlace, Tasks
  <2> DEFINE place == FirstPlace[job[w].task]
             todo == IF w = Loop THEN Films ELSE {}
  <2>3. place \in Places \ (Spends \cup {"queued"}) /\ todo \in SUBSET (Films \cup {None})
    BY <2>2 DEF Places, Spends
  <2>4. job' = [job EXCEPT ![w].at = place, ![w].todo = todo]
    BY <2>1
  <2>5. Spared
    BY <1>1, <2>1, NothingSpares
  <2> HIDE DEF place, todo
  <2>6. Moved(w, place)
    <3>1. place \in Places /\ None \in Films \cup {None} /\ None \in Answers
      BY <2>3 DEF Answers
    <3> QED BY <1>1, <2>3, <2>4, <3>1, MoveForms
  <2> QED BY <2>1, <2>3, <2>5, <2>6, HolderWalks
<1>3. CASE Close(w)
  <2>1. Holds(w) /\ Leave(w) /\ Flush /\ written' = written
    BY <1>3 DEF Close, At, memory
  <2>2. Spared
    BY <1>1, <2>1, FlushSpares
  <2> QED BY <2>1, <2>2, HolderLeaves
<1> QED BY <1>2, <1>3
LEMMA SpotWalks ==
  ASSUME RoadFacts, NEW w \in Workers, Holds(w), NEW place \in Places \ (Spends \cup {"queued"}),
         line' = line, written' = written, Spared, job' = [job EXCEPT ![w].at = place]
  PROVE  RoadFacts'
<1>1. job \in [Workers -> Job] /\ job[w] \in Job
  BY DEF RoadFacts, Turns
<1>2. place \in Places /\ None \in Answers /\ None \in Films \cup {None} /\ {} \in SUBSET (Films \cup {None})
  BY DEF Answers
<1>3. Moved(w, place)
  BY <1>1, <1>2, MoveForms
<1> QED BY <1>3, HolderWalks

LEMMA TodoWalks ==
  ASSUME RoadFacts, NEW w \in Workers, Holds(w), NEW place \in Places \ (Spends \cup {"queued"}),
         line' = line, written' = written, Spared, NEW todo \in SUBSET (Films \cup {None}),
         job' = [job EXCEPT ![w].at = place, ![w].todo = todo]
  PROVE  RoadFacts'
<1>1. job \in [Workers -> Job] /\ job[w] \in Job
  BY DEF RoadFacts, Turns
<1>2. place \in Places /\ None \in Answers /\ None \in Films \cup {None} /\ {} \in SUBSET (Films \cup {None})
  BY DEF Answers
<1>3. Moved(w, place)
  BY <1>1, <1>2, MoveForms
<1> QED BY <1>3, HolderWalks

LEMMA FilmWalks ==
  ASSUME RoadFacts, NEW w \in Workers, Holds(w), NEW place \in Places \ (Spends \cup {"queued"}),
         line' = line, written' = written, Spared, NEW film \in Films \cup {None},
         job' = [job EXCEPT ![w].at = place, ![w].film = film]
  PROVE  RoadFacts'
<1>1. job \in [Workers -> Job] /\ job[w] \in Job
  BY DEF RoadFacts, Turns
<1>2. place \in Places /\ None \in Answers /\ None \in Films \cup {None} /\ {} \in SUBSET (Films \cup {None})
  BY DEF Answers
<1>3. Moved(w, place)
  BY <1>1, <1>2, MoveForms
<1> QED BY <1>3, HolderWalks

LEMMA FilmTodoWalks ==
  ASSUME RoadFacts, NEW w \in Workers, Holds(w), NEW place \in Places \ (Spends \cup {"queued"}),
         line' = line, written' = written, Spared, NEW film \in Films \cup {None},
         NEW todo \in SUBSET (Films \cup {None}),
         job' = [job EXCEPT ![w].at = place, ![w].film = film, ![w].todo = todo]
  PROVE  RoadFacts'
<1>1. job \in [Workers -> Job] /\ job[w] \in Job
  BY DEF RoadFacts, Turns
<1>2. place \in Places /\ None \in Answers /\ None \in Films \cup {None} /\ {} \in SUBSET (Films \cup {None})
  BY DEF Answers
<1>3. Moved(w, place)
  BY <1>1, <1>2, MoveForms
<1> QED BY <1>3, HolderWalks

LEMMA BreakWalks ==
  ASSUME RoadFacts, NEW w \in Workers, Holds(w), NEW place \in Places \ (Spends \cup {"queued"}),
         line' = line, written' = written, Spared, Break(w, place)
  PROVE  RoadFacts'
<1>1. job \in [Workers -> Job] /\ job[w] \in Job
  BY DEF RoadFacts, Turns
<1>2. place \in Places /\ None \in Answers /\ None \in Films \cup {None} /\ {} \in SUBSET (Films \cup {None})
  BY DEF Answers
<1>3. job' = [job EXCEPT ![w].at = place, ![w].todo = {}, ![w].film = None, ![w].answer = None]
  BY DEF Break
<1>4. Moved(w, place)
  BY <1>1, <1>2, <1>3, MoveForms
<1> QED BY <1>4, HolderWalks

LEMMA OnwardWalks ==
  ASSUME RoadFacts, NEW w \in Workers, Holds(w), NEW place \in Places \ (Spends \cup {"queued"}),
         line' = line, written' = written, Spared, Onward(w, place)
  PROVE  RoadFacts'
<1>1. job \in [Workers -> Job] /\ job[w] \in Job
  BY DEF RoadFacts, Turns
<1>2. place \in Places /\ None \in Answers /\ None \in Films \cup {None} /\ {} \in SUBSET (Films \cup {None})
  BY DEF Answers
<1>3. job[w].todo \ {job[w].film} \in SUBSET (Films \cup {None})
  BY <1>1 DEF Job
<1>4. job' = [job EXCEPT ![w].at = place, ![w].todo = job[w].todo \ {job[w].film},
                         ![w].film = None, ![w].answer = None]
  BY <1>1 DEF Onward, Film
<1>5. Moved(w, place)
  BY <1>1, <1>2, <1>3, <1>4, MoveForms
<1> QED BY <1>5, HolderWalks

LEMMA DoneWalks ==
  ASSUME RoadFacts, NEW w \in Workers, Holds(w), NEW place \in Places \ (Spends \cup {"queued"}),
         line' = line, written' = written, Spared, NEW f, Done(w, f, place)
  PROVE  RoadFacts'
<1>1. job \in [Workers -> Job] /\ job[w] \in Job
  BY DEF RoadFacts, Turns
<1>2. place \in Places /\ None \in Answers /\ None \in Films \cup {None} /\ {} \in SUBSET (Films \cup {None})
  BY DEF Answers
<1> DEFINE still == IF job[w].task = "named" THEN job[w].film ELSE None
<1>3. still \in Films \cup {None} /\ job[w].todo \ {f} \in SUBSET (Films \cup {None})
  BY <1>1 DEF Job
<1>4. job' = [job EXCEPT ![w].at = place, ![w].todo = job[w].todo \ {f},
                         ![w].answer = None, ![w].film = still]
  BY <1>1 DEF Done
<1> HIDE DEF still
<1>5. Moved(w, place)
  BY <1>1, <1>2, <1>3, <1>4, MoveForms
<1> QED BY <1>5, HolderWalks

LEMMA StopWalks ==
  ASSUME RoadFacts, NEW w \in Workers, Holds(w), NEW place \in Places \ (Spends \cup {"queued"}),
         line' = line, written' = written, Spared, Stop(w, place)
  PROVE  RoadFacts'
<1>1. job \in [Workers -> Job] /\ job[w] \in Job
  BY DEF RoadFacts, Turns
<1>2. place \in Places /\ None \in Answers /\ None \in Films \cup {None} /\ {} \in SUBSET (Films \cup {None})
  BY DEF Answers
<1> DEFINE still == IF job[w].task = "named" THEN job[w].film ELSE None
<1>3. still \in Films \cup {None}
  BY <1>1 DEF Job
<1>4. job' = [job EXCEPT ![w].at = place, ![w].todo = {}, ![w].answer = None, ![w].film = still]
  BY <1>1 DEF Stop
<1> HIDE DEF still
<1>5. Moved(w, place)
  BY <1>1, <1>2, <1>3, <1>4, MoveForms
<1> QED BY <1>5, HolderWalks

(* A film is passed over.                                                  *)
LEMMA PassForm ==
  ASSUME RoadFacts, NEW w \in Workers, Holds(w), NEW f \in Films, Pass(w, f),
         job[w].at \notin Spends \cup {"queued"}, line' = line, written' = written, Spared
  PROVE  RoadFacts'
<1>1. job \in [Workers -> Job] /\ job[w] \in Job
  BY DEF RoadFacts, Turns
<1>2. job[w].at \in Places \ (Spends \cup {"queued"}) /\ job[w].todo \ {f} \in SUBSET (Films \cup {None})
  BY <1>1 DEF Job
<1>3. job' = [job EXCEPT ![w].todo = job[w].todo \ {f}]
  BY DEF Pass
<1>4. None \in Films \cup {None} /\ None \in Answers
  BY DEF Answers
<1>5. Moved(w, job[w].at)
  BY <1>1, <1>2, <1>3, <1>4, MoveForms
<1> QED BY <1>2, <1>5, HolderWalks

(* The model is about to be asked: the meter is flushed and tokens are     *)
(* left.                                                                   *)
LEMMA AskForm ==
  ASSUME RoadFacts, NEW w \in Workers, Holds(w), NEW f \in Films \cup {None}, NEW place \in {"judge", "reading"},
         \/ job' = [job EXCEPT ![w].at = place, ![w].film = f]
         \/ job' = [job EXCEPT ![w].at = place],
         line' = line, written' = written, Flush, Counted("tokens") < DayTokens
  PROVE  RoadFacts'
<1>1. job \in [Workers -> Job] /\ MoneyFacts /\ Pieces
  BY DEF RoadFacts, Turns
<1>2. None \in Films \cup {None} /\ f \in Films \cup {None} /\ None \in Answers /\ {} \in SUBSET (Films \cup {None})
      /\ place \in Places
  BY DEF Answers, Places
<1>3. Moved(w, place)
  <2>1. CASE job' = [job EXCEPT ![w].at = place, ![w].film = f]
    BY <1>1, <1>2, <2>1, MoveForms
  <2>2. CASE job' = [job EXCEPT ![w].at = place]
    BY <1>1, <1>2, <2>2, MoveForms
  <2> QED BY <2>1, <2>2
<1>4. /\ Spared /\ astray' = astray /\ meter' = Zero
      /\ \A u \in Units : usage'[u] = usage[u] + meter[u]
  BY <1>1, FlushSpares
<1>5. "tokens" \in Units
  BY DEF Units
<1>6. meter'["tokens"] = 0 /\ usage["tokens"] \in Nat /\ meter["tokens"] \in Nat
  BY <1>1, <1>4, <1>5 DEF Zero, MoneyFacts
<1>7. job'[w].at = place
  BY <1>3 DEF Moved
<1>8. HearsWithin(w)'
  BY <1>7 DEF HearsWithin
<1>9. usage["tokens"] + meter["tokens"] < DayTokens
  BY DEF Counted
<1>10. AsksWithin(w)'
  <2>1. meter'["tokens"] < DayTokens /\ usage'["tokens"] + meter'["tokens"] < DayTokens
    BY <1>4, <1>5, <1>6, <1>9, RoadAssumption
  <2> QED BY <2>1 DEF AsksWithin
<1>11. MoneyFacts' /\ Pieces' /\ (~astray' => ~astray)
  BY <1>1, <1>4 DEF Spared, Pieces
<1>12. place \in Places \ {"queued"}
  BY <1>2
<1> QED BY <1>3, <1>8, <1>10, <1>11, <1>12, HolderMoves

(* Discover: the filter's verdict is paid for, and costs no more than a    *)
(* reading.                                                                *)
LEMMA DiscoverKeeps ==
  ASSUME RoadFacts, NEW w \in Workers, Discover(w)
  PROVE  RoadFacts'
<1>1. /\ job \in [Workers -> Job] /\ job[w] \in Job /\ MoneyFacts /\ Pieces
      /\ \A v \in Workers : HearsWithin(v) /\ AsksWithin(v)
  BY DEF RoadFacts, Turns
<1>2. ASSUME NEW f \in Films, ListChannel(w, f) PROVE RoadFacts'
  <2>1. /\ job[w].at = "list" /\ Holds(w) /\ line' = line /\ written' = written
    BY <1>2 DEF ListChannel, At, memory
  <2>2. CASE Pass(w, f) /\ UNCHANGED money
    <3>1. Spared
      BY <1>1, <2>2, NothingSpares DEF money
    <3> QED BY <2>1, <2>2, <3>1, PassForm DEF Spends
  <2>3. CASE /\ Flush /\ Counted("tokens") < DayTokens
             /\ job' = [job EXCEPT ![w].at = "judge", ![w].film = f]
    BY <2>1, <2>3, AskForm
  <2> QED BY <1>2, <2>2, <2>3 DEF ListChannel
<1>3. CASE Judge(w)
  <2>1. job[w].at = "judge" /\ Holds(w) /\ line' = line /\ written' = written /\ Onward(w, "list")
    BY <1>3 DEF Judge, At
  <2>2. UNCHANGED money \/ Bill("tokens", JudgeCost)
    BY <1>3 DEF Judge
  <2>3. "list" \in Places \ (Spends \cup {"queued"})
    BY DEF Places, Spends
  <2>4. CASE UNCHANGED money
    <3>1. Spared
      BY <1>1, <2>4, NothingSpares DEF money
    <3> QED BY <2>1, <2>3, <3>1, OnwardWalks
  <2>5. CASE Bill("tokens", JudgeCost)
    <3>1. "tokens" \in Units /\ JudgeCost \in Nat /\ JudgeCost <= ReadingCost
          /\ DayTokens \in Nat /\ ReadingCost \in Nat
      BY RoadAssumption DEF Units
    <3>2. /\ usage["tokens"] \in Nat /\ meter["tokens"] \in Nat /\ billed["tokens"] \in Nat
          /\ ~astray => billed["tokens"] <= usage["tokens"] + meter["tokens"]
      BY <1>1, <3>1 DEF MoneyFacts
    <3>3. ~astray => usage["tokens"] + meter["tokens"] < DayTokens
      BY <1>1, <2>1 DEF AsksWithin
    <3>4. ~astray => billed["tokens"] + JudgeCost < DayTokens + ReadingCost
      BY <3>1, <3>2, <3>3
    <3>5. MoneyFacts' /\ astray' = astray
      BY <1>1, <2>5, <3>1, <3>4, BillCounts
    <3>6. Moved(w, "list")
      <4>1. job' = [job EXCEPT ![w].at = "list", ![w].todo = job[w].todo \ {job[w].film},
                               ![w].film = None, ![w].answer = None]
        BY <1>1, <2>1 DEF Onward, Film
      <4>2. /\ "list" \in Places /\ job[w].todo \ {job[w].film} \in SUBSET (Films \cup {None})
            /\ None \in Films \cup {None} /\ None \in Answers
        BY <1>1 DEF Job, Places, Answers
      <4> QED BY <1>1, <4>1, <4>2, MoveForms
    <3>7. Pieces'
      BY <1>1, <2>1 DEF Pieces
    <3> QED BY <2>1, <2>3, <3>5, <3>6, <3>7, HolderSpares
  <2> QED BY <2>2, <2>4, <2>5
<1>4. CASE ListingsEnd(w)
  <2> DEFINE live == LivePending(row')
             place == IF live = {} THEN "discovered" ELSE "refresh"
  <2>1. /\ Holds(w) /\ line' = line /\ written' = written
        /\ job' = [job EXCEPT ![w].at = place, ![w].todo = live]
    BY <1>4 DEF ListingsEnd, At, memory
  <2>2. live \in SUBSET (Films \cup {None}) /\ place \in Places \ (Spends \cup {"queued"})
    BY DEF LivePending, Places, Spends
  <2>3. Spared
    BY <1>1, <1>4, NothingSpares DEF ListingsEnd, money
  <2> HIDE DEF live, place
  <2> QED BY <2>1, <2>2, <2>3, TodoWalks
<1>5. CASE RefreshLive(w)
  <2>1. Holds(w) /\ line' = line /\ written' = written /\ Break(w, "discovered")
    BY <1>5 DEF RefreshLive, At, memory
  <2>2. Spared
    BY <1>1, <1>5, NothingSpares DEF RefreshLive, money
  <2>3. "discovered" \in Places \ (Spends \cup {"queued"})
    BY DEF Places, Spends
  <2> QED BY <2>1, <2>2, <2>3, BreakWalks
<1> QED BY <1>2, <1>3, <1>4, <1>5 DEF Discover
(* The end of a step charges nothing.                                      *)
LEMMA EndsSpares ==
  ASSUME RoadFacts, NEW w \in Workers, NEW place, EndsStep(w, place)
  PROVE  Spared /\ Holds(w) /\ job[w].at = place /\ line' = line /\ written' = written
<1>1. MoneyFacts
  BY DEF RoadFacts
<1>2. CASE w = Loop
  <2>1. Flush
    BY <1>2 DEF EndsStep
  <2> QED BY <1>1, <2>1, FlushSpares DEF EndsStep, At, memory
<1>3. CASE w # Loop
  <2>1. UNCHANGED money
    BY <1>3 DEF EndsStep
  <2>2. Spared
    BY <1>1, <2>1, NothingSpares DEF money
  <2> QED BY <2>2 DEF EndsStep, At, memory
<1> QED BY <1>2, <1>3

(* The transcriber's answer.                                               *)
LEMMA HeardForm ==
  ASSUME job \in [Workers -> Job], NEW w \in Workers, NEW answer \in Answers, Heard(w, answer)
  PROVE  Moved(w, "settle")
<1>1. job' = [job EXCEPT ![w].at = "settle", ![w].answer = answer]
  BY DEF Heard
<1>2. "settle" \in Places /\ None \in Films \cup {None} /\ {} \in SUBSET (Films \cup {None})
  BY DEF Places
<1> QED BY <1>1, <1>2, MoveForms

(* A piece is paid for: the day has room for it, as the film lacks one.    *)
LEMMA SecondsBill ==
  ASSUME RoadFacts, NEW w \in Workers, job[w].at = "hear", Bill("seconds", 1)
  PROVE  /\ MoneyFacts' /\ astray' = astray /\ usage' = usage
         /\ meter'["seconds"] = meter["seconds"] + 1
<1>1. MoneyFacts /\ Pieces /\ HearsWithin(w)
  BY DEF RoadFacts
<1>2. "seconds" \in Units /\ 1 \in Nat /\ DaySeconds \in Nat
  BY RoadAssumption DEF Units
<1>3. /\ usage["seconds"] \in Nat /\ meter["seconds"] \in Nat /\ billed["seconds"] \in Nat
      /\ ~astray => billed["seconds"] <= usage["seconds"] + meter["seconds"]
  BY <1>1, <1>2 DEF MoneyFacts
<1> DEFINE f == job[w].film
           rest == Length[f] - written[f]
<1>4. f \in Films /\ (~astray => usage["seconds"] + meter["seconds"] + rest <= DaySeconds)
  BY <1>1 DEF HearsWithin
<1>5. rest \in Int /\ rest >= 1
  BY <1>1, <1>4, RoadAssumption DEF Pieces
<1> HIDE DEF f, rest
<1>6. ~astray => billed["seconds"] + 1 <= DaySeconds
  BY <1>2, <1>3, <1>4, <1>5
<1> QED BY <1>1, <1>2, <1>6, BillCounts

(* Transcribe: a film that is chosen fits into the day as a whole, and     *)
(* each piece heard leaves one less to hear.                               *)
LEMMA TranscribeKeeps ==
  ASSUME RoadFacts, NEW w \in Workers, Transcribe(w)
  PROVE  RoadFacts'
<1>1. /\ job \in [Workers -> Job] /\ job[w] \in Job /\ MoneyFacts /\ Pieces
      /\ \A v \in Workers : HearsWithin(v) /\ AsksWithin(v)
  BY DEF RoadFacts, Turns
<1>2. {"choose", "settle"} \subseteq Places \ (Spends \cup {"queued"})
  BY DEF Places, Spends
<1>3. CASE StartTranscribing(w)
  <2>1. EndsStep(w, "discovered")
    BY <1>3 DEF StartTranscribing
  <2> DEFINE chosen == DueForTranscription(row', w)
  <2>2. chosen \in SUBSET (Films \cup {None})
    BY <1>1 DEF DueForTranscription, Mine, Job
  <2>3. job' = [job EXCEPT ![w].at = "choose", ![w].todo = chosen]
    BY <1>3 DEF StartTranscribing
  <2> HIDE DEF chosen
  <2> QED BY <1>2, <2>1, <2>2, <2>3, EndsSpares, TodoWalks
<1>4. ASSUME NEW f \in Films, ChooseFilm(w, f) PROVE RoadFacts'
  <2>1. Holds(w) /\ Flush /\ line' = line /\ written' = written
    BY <1>4 DEF ChooseFilm, At, memory
  <2>2. /\ Spared /\ astray' = astray /\ meter' = Zero
        /\ \A u \in Units : usage'[u] = usage[u] + meter[u]
    BY <1>1, <2>1, FlushSpares
  <2>3. CASE Stop(w, "choose")
    BY <1>2, <2>1, <2>2, <2>3, StopWalks
  <2>4. CASE Done(w, f, "choose")
    BY <1>2, <2>1, <2>2, <2>4, DoneWalks
  <2>5. CASE /\ job' = [job EXCEPT ![w].at = "hear", ![w].film = f]
             /\ ~(Counted("seconds") + Length[f] > DaySeconds)
    <3>1. Moved(w, "hear") /\ job'[w].film = f
      <4>1. "hear" \in Places /\ f \in Films \cup {None} /\ None \in Answers /\ {} \in SUBSET (Films \cup {None})
        BY DEF Places, Answers
      <4> QED BY <1>1, <2>5, <4>1, MoveForms
    <3>2. "seconds" \in Units
      BY DEF Units
    <3>3. meter'["seconds"] = 0 /\ usage["seconds"] \in Nat /\ meter["seconds"] \in Nat
      BY <1>1, <2>2, <3>2 DEF Zero, MoneyFacts
    <3>4. Length[f] \in Nat /\ written[f] \in Nat /\ DaySeconds \in Nat
      BY <1>1, RoadAssumption DEF Pieces
    <3>5. usage["seconds"] + meter["seconds"] + Length[f] <= DaySeconds
      BY <2>5, <3>3, <3>4 DEF Counted
    <3>6. usage'["seconds"] = usage["seconds"] + meter["seconds"]
      BY <2>2, <3>2
    <3>7. /\ meter'["seconds"] + (Length[f] - written[f]) <= DaySeconds
          /\ usage'["seconds"] + meter'["seconds"] + (Length[f] - written[f]) <= DaySeconds
      BY <3>3, <3>4, <3>5, <3>6
    <3>8. HearsWithin(w)'
      BY <2>1, <3>1, <3>7 DEF HearsWithin
    <3>9. AsksWithin(w)'
      BY <3>1 DEF AsksWithin, Moved
    <3>10. MoneyFacts' /\ Pieces' /\ (~astray' => ~astray)
      BY <1>1, <2>1, <2>2 DEF Spared, Pieces
    <3>11. "hear" \in Places \ {"queued"}
      BY DEF Places
    <3> QED BY <2>1, <3>1, <3>8, <3>9, <3>10, <3>11, HolderMoves
  <2> QED BY <1>4, <2>3, <2>4, <2>5 DEF ChooseFilm
<1>5. CASE HearPiece(w)
  <2> DEFINE f == job[w].film
  <2>1. job[w].at = "hear" /\ Holds(w) /\ line' = line /\ Bill("seconds", 1)
    BY <1>5 DEF HearPiece, At
  <2>2. /\ MoneyFacts' /\ astray' = astray /\ usage' = usage
        /\ meter'["seconds"] = meter["seconds"] + 1
    BY <2>1, SecondsBill
  <2>3. /\ f \in Films /\ meter["seconds"] + (Length[f] - written[f]) <= DaySeconds
        /\ ~astray => usage["seconds"] + meter["seconds"] + (Length[f] - written[f]) <= DaySeconds
    BY <1>1, <2>1 DEF HearsWithin
  <2>4. /\ written \in [Films -> Nat] /\ \A g \in Films : written[g] < Length[g]
        /\ \A g \in Films : Length[g] \in Nat /\ Length[g] > 0
    BY <1>1, RoadAssumption DEF Pieces
  <2>5. "seconds" \in Units /\ DaySeconds \in Nat
    BY RoadAssumption DEF Units
  <2>6. usage["seconds"] \in Nat /\ meter["seconds"] \in Nat
    BY <1>1, <2>5 DEF MoneyFacts
  <2>7. CASE written[f] + 1 < Length[f]
    <3>1. written' = [written EXCEPT ![f] = written[f] + 1] /\ job' = job
      BY <1>5, <2>7 DEF HearPiece, Film
    <3> HIDE DEF f
    <3>2. Pieces'
      BY <2>3, <2>4, <2>7, <3>1 DEF Pieces
    <3>3. written'[f] = written[f] + 1
      BY <2>3, <2>4, <3>1
    <3>4. /\ meter'["seconds"] + (Length[f] - written'[f]) <= DaySeconds
          /\ ~astray' => usage'["seconds"] + meter'["seconds"] + (Length[f] - written'[f]) <= DaySeconds
      BY <2>2, <2>3, <2>4, <2>5, <2>6, <3>3
    <3>5. HearsWithin(w)'
      BY <2>3, <3>1, <3>4 DEF HearsWithin, f
    <3>6. Moved(w, "hear") /\ AsksWithin(w)'
      BY <1>1, <2>1, <3>1 DEF Moved, AsksWithin
    <3>7. "hear" \in Places \ {"queued"}
      BY DEF Places
    <3> QED BY <2>1, <2>2, <3>2, <3>5, <3>6, <3>7, HolderMoves
  <2>8. CASE ~(written[f] + 1 < Length[f])
    <3>1. written' = [written EXCEPT ![f] = 0] /\ \E answer \in {"words", "nothing"} : Heard(w, answer)
      BY <1>5, <2>8 DEF HearPiece, Film
    <3> HIDE DEF f
    <3>2. Pieces'
      BY <2>3, <2>4, <3>1 DEF Pieces
    <3>3. Moved(w, "settle")
      BY <1>1, <3>1, HeardForm DEF Answers
    <3> QED BY <1>2, <2>1, <2>2, <3>2, <3>3, HolderSpares
  <2> QED BY <2>7, <2>8
<1>6. CASE HearNothing(w)
  <2>1. job[w].at = "hear" /\ Holds(w) /\ line' = line /\ written' = written /\ Heard(w, "nothing")
    BY <1>6 DEF HearNothing, At, memory
  <2>2. Moved(w, "settle")
    BY <1>1, <2>1, HeardForm DEF Answers
  <2>3. MoneyFacts' /\ astray' = astray
    <3>1. CASE UNCHANGED money
      BY <1>1, <3>1, NothingSpares DEF money, Spared
    <3>2. CASE Bill("seconds", 1)
      BY <2>1, <3>2, SecondsBill
    <3> QED BY <1>6, <3>1, <3>2 DEF HearNothing
  <2>4. Pieces'
    BY <1>1, <2>1 DEF Pieces
  <2> QED BY <1>2, <2>1, <2>2, <2>3, <2>4, HolderSpares
<1>7. CASE Settle(w)
  <2>1. Holds(w) /\ line' = line /\ written' = written /\ Flush
    BY <1>7 DEF Settle, At, memory
  <2>2. Stop(w, "choose") \/ Done(w, job[w].film, "choose")
    BY <1>7 DEF Settle, Film
  <2>3. Spared
    BY <1>1, <2>1, FlushSpares
  <2> QED BY <1>2, <2>1, <2>2, <2>3, StopWalks, DoneWalks
<1> QED BY <1>3, <1>4, <1>5, <1>6, <1>7 DEF Transcribe
(* The reading is over.                                                    *)
LEMMA ReadingIsOver ==
  ASSUME RoadFacts, NEW w \in Workers, Holds(w), AfterReading(w), line' = line, written' = written,
         Spared
  PROVE  RoadFacts'
<1>1. Break(w, "closing") \/ Done(w, job[w].film, "pick")
  BY DEF AfterReading, Film
<1>2. {"closing", "pick"} \subseteq Places \ (Spends \cup {"queued"})
  BY DEF Places, Spends
<1> QED BY <1>1, <1>2, BreakWalks, DoneWalks

(* Read.                                                                   *)
LEMMA ReadingKeeps ==
  ASSUME RoadFacts, NEW w \in Workers, ReadFilms(w)
  PROVE  RoadFacts'
<1>1. /\ job \in [Workers -> Job] /\ job[w] \in Job /\ MoneyFacts /\ Pieces
      /\ \A v \in Workers : HearsWithin(v) /\ AsksWithin(v)
  BY DEF RoadFacts, Turns
<1>2. {"pick", "closing", "save"} \subseteq Places \ (Spends \cup {"queued"})
  BY DEF Places, Spends
<1>3. CASE StartReading(w)
  <2> DEFINE chosen == {f \in Mine(w) : row[f].state = "transcribed" /\ row[f].failures < MaxFailures}
  <2>1. EndsStep(w, "choose") /\ job' = [job EXCEPT ![w].at = "pick", ![w].todo = chosen]
    BY <1>3 DEF StartReading
  <2>2. chosen \in SUBSET (Films \cup {None})
    BY <1>1 DEF Mine, Job
  <2> HIDE DEF chosen
  <2> QED BY <1>2, <2>1, <2>2, EndsSpares, TodoWalks
<1>4. ASSUME NEW f \in Films, PickReading(w, f) PROVE RoadFacts'
  <2>1. Holds(w) /\ Flush /\ line' = line /\ written' = written
    BY <1>4 DEF PickReading, At, memory
  <2>2. CASE Stop(w, "pick")
    BY <1>1, <1>2, <2>1, <2>2, FlushSpares, StopWalks
  <2>3. CASE ~(Counted("tokens") >= DayTokens) /\ job' = [job EXCEPT ![w].at = "reading", ![w].film = f]
    <3>1. "tokens" \in Units /\ DayTokens \in Nat
      BY RoadAssumption DEF Units
    <3>2. Counted("tokens") \in Nat
      BY <1>1, <3>1 DEF Counted, MoneyFacts
    <3>3. Counted("tokens") < DayTokens
      BY <2>3, <3>1, <3>2
    <3> QED BY <2>1, <2>3, <3>3, AskForm
  <2> QED BY <1>4, <2>2, <2>3 DEF PickReading
<1>5. CASE ReadAgain(w)
  <2>1. Holds(w) /\ Flush /\ line' = line /\ written' = written
    BY <1>5 DEF ReadAgain, At, memory
  <2>2. job' = [job EXCEPT ![w].at = IF TokensAreLeft THEN "reading" ELSE "closing"]
    BY <1>5 DEF ReadAgain, MovesTo
  <2>3. CASE TokensAreLeft
    <3>1. Counted("tokens") < DayTokens /\ job' = [job EXCEPT ![w].at = "reading"]
      BY <2>2, <2>3 DEF TokensAreLeft
    <3> QED BY <2>1, <3>1, AskForm
  <2>4. CASE ~TokensAreLeft
    <3>1. job' = [job EXCEPT ![w].at = "closing"]
      BY <2>2, <2>4
    <3> QED BY <1>1, <1>2, <2>1, <3>1, FlushSpares, SpotWalks
  <2> QED BY <2>3, <2>4
<1>6. CASE ReadingComes(w)
  <2>1. job[w].at = "reading" /\ Holds(w) /\ line' = line /\ written' = written
        /\ Bill("tokens", ReadingCost)
    BY <1>6 DEF ReadingComes, At, memory
  <2>2. \E answer \in Answers : job' = [job EXCEPT ![w].at = "save", ![w].answer = answer]
    BY <1>6 DEF ReadingComes, Answers
  <2>3. Moved(w, "save")
    <3>1. "save" \in Places /\ None \in Films \cup {None} /\ {} \in SUBSET (Films \cup {None})
      BY DEF Places
    <3> QED BY <1>1, <2>2, <3>1, MoveForms
  <2>4. "tokens" \in Units /\ DayTokens \in Nat /\ ReadingCost \in Nat
    BY RoadAssumption DEF Units
  <2>5. /\ usage["tokens"] \in Nat /\ meter["tokens"] \in Nat /\ billed["tokens"] \in Nat
        /\ ~astray => billed["tokens"] <= usage["tokens"] + meter["tokens"]
    BY <1>1, <2>4 DEF MoneyFacts
  <2>6. ~astray => usage["tokens"] + meter["tokens"] < DayTokens
    BY <1>1, <2>1 DEF AsksWithin
  <2>7. ~astray => billed["tokens"] + ReadingCost < DayTokens + ReadingCost
    BY <2>4, <2>5, <2>6
  <2>8. MoneyFacts' /\ astray' = astray
    BY <1>1, <2>1, <2>4, <2>7, BillCounts
  <2>9. Pieces'
    BY <1>1, <2>1 DEF Pieces
  <2> QED BY <1>2, <2>1, <2>3, <2>8, <2>9, HolderSpares
<1>7. CASE SaveReading(w)
  <2>1. Holds(w) /\ line' = line /\ written' = written /\ AfterReading(w)
    BY <1>7 DEF SaveReading, At, memory
  <2>2. Spared
    BY <1>1, <1>7, NothingSpares DEF SaveReading, money
  <2> QED BY <2>1, <2>2, ReadingIsOver
<1> QED BY <1>3, <1>4, <1>5, <1>6, <1>7 DEF ReadFilms

(* Tell.                                                                   *)
LEMMA TellKeeps ==
  ASSUME RoadFacts, NEW w \in Workers, Tell(w)
  PROVE  RoadFacts'
<1>1. /\ job \in [Workers -> Job] /\ MoneyFacts
  BY DEF RoadFacts, Turns
<1>2. {"telling", "publish"} \subseteq Places \ (Spends \cup {"queued"})
  BY DEF Places, Spends
<1>3. CASE StartTelling(w)
  <2> DEFINE chosen == {f \in Films \ sulking : row'[f].state = "analysed"}
  <2>1. EndsStep(w, "pick")
        /\ job' = [job EXCEPT ![w].at = "telling", ![w].film = None, ![w].todo = chosen]
    BY <1>3 DEF StartTelling
  <2>2. chosen \in SUBSET (Films \cup {None}) /\ None \in Films \cup {None}
    OBVIOUS
  <2> HIDE DEF chosen
  <2> QED BY <1>2, <2>1, <2>2, EndsSpares, FilmTodoWalks
<1>4. ASSUME NEW f \in Films, TellFilm(w, f) PROVE RoadFacts'
  <2>1. job[w].at = "telling" /\ Holds(w) /\ line' = line /\ written' = written
    BY <1>4 DEF TellFilm, At, memory
  <2>2. Spared
    BY <1>1, <1>4, NothingSpares DEF TellFilm, money
  <2>3. CASE Pass(w, f)
    BY <2>1, <2>2, <2>3, PassForm DEF Spends
  <2>4. CASE job' = [job EXCEPT ![w].at = "publish", ![w].film = f]
    BY <1>2, <2>1, <2>2, <2>4, FilmWalks
  <2> QED BY <1>4, <2>3, <2>4 DEF TellFilm
<1>5. CASE Published(w)
  <2>1. Holds(w) /\ line' = line /\ written' = written /\ Onward(w, "telling")
    BY <1>5 DEF Published, At, memory
  <2>2. Spared
    BY <1>1, <1>5, NothingSpares DEF Published, money
  <2> QED BY <1>2, <2>1, <2>2, OnwardWalks
<1> QED BY <1>3, <1>4, <1>5 DEF Tell

(* What goes wrong in a turn: at most something is lost.                   *)
LEMMA TroubleKeeps ==
  ASSUME RoadFacts, NEW w \in Workers, Trouble(w)
  PROVE  RoadFacts'
<1>1. /\ job \in [Workers -> Job] /\ MoneyFacts /\ Pieces
  BY DEF RoadFacts, Turns
<1>2. {"discovered", "choose", "pick", "telling", "closing", "settle"} \subseteq
        Places \ (Spends \cup {"queued"})
  BY DEF Places, Spends
<1>3. CASE RefreshUnanswered(w)
  <2>1. Holds(w) /\ line' = line /\ written' = written /\ Break(w, "discovered")
    BY <1>3 DEF RefreshUnanswered, At, memory
  <2>2. Spared
    BY <1>1, <1>3, NothingSpares DEF RefreshUnanswered, money
  <2> QED BY <1>2, <2>1, <2>2, BreakWalks
<1>4. CASE HearBlocked(w)
  <2>1. Holds(w) /\ line' = line /\ written' = written /\ Heard(w, "blocked")
    BY <1>4 DEF HearBlocked, At, memory
  <2>2. Spared
    BY <1>1, <1>4, NothingSpares DEF HearBlocked, money
  <2>3. Moved(w, "settle")
    BY <1>1, <2>1, HeardForm DEF Answers
  <2> QED BY <1>2, <2>1, <2>2, <2>3, HolderWalks
<1>5. CASE ReadingFails(w)
  <2>1. Holds(w) /\ line' = line /\ written' = written /\ AfterReading(w)
    BY <1>5 DEF ReadingFails, At, memory
  <2>2. Spared
    BY <1>1, <1>5, NothingSpares DEF ReadingFails, money
  <2> QED BY <2>1, <2>2, ReadingIsOver
<1>6. CASE NotPublished(w)
  <2>1. Holds(w) /\ line' = line /\ written' = written /\ Onward(w, "telling")
    BY <1>6 DEF NotPublished, At
  <2>2. Spared
    BY <1>1, <1>6, NothingSpares DEF NotPublished, money
  <2> QED BY <1>2, <2>1, <2>2, OnwardWalks
<1>7. CASE StatementFails(w)
  <2>1. Holds(w) /\ line' = line /\ written' = written
    BY <1>7 DEF StatementFails, memory
  <2>2. Flush \/ Lose \/ UNCHANGED money
    BY <1>7 DEF StatementFails
  <2>3. Spared
    <3>1. CASE UNCHANGED money
      BY <1>1, <3>1, NothingSpares DEF money
    <3> QED BY <1>1, <2>2, <3>1, FlushSpares, LoseSpares
  <2>4. \/ job[w].at \in DOMAIN StepAfter /\ Break(w, IF w = Loop THEN StepAfter[job[w].at] ELSE "closing")
        \/ job[w].at \in DOMAIN EndOf /\ Break(w, IF w = Loop THEN EndOf[job[w].at] ELSE "closing")
    BY <1>7 DEF StatementFails
  <2>5. \A s \in DOMAIN StepAfter : StepAfter[s] \in {"choose", "pick", "telling"}
    BY DEF StepAfter
  <2>6. \A s \in DOMAIN EndOf : EndOf[s] \in {"discovered", "choose", "pick", "telling", "closing"}
    BY DEF EndOf
  <2>7. \E place \in {"discovered", "choose", "pick", "telling", "closing"} : Break(w, place)
    BY <2>4, <2>5, <2>6
  <2> QED BY <1>2, <2>1, <2>3, <2>7, BreakWalks
<1>8. CASE FlushFails(w)
  <2>1. Holds(w) /\ Leave(w) /\ Lose /\ written' = written
    BY <1>8 DEF FlushFails, memory
  <2> QED BY <1>1, <2>1, LoseSpares, HolderLeaves
<1> QED BY <1>3, <1>4, <1>5, <1>6, <1>7, <1>8 DEF Trouble
(* A request joins the line,                                               *)
LEMMA JoinForm ==
  ASSUME RoadFacts, NEW h \in Workers, job[h].at \notin Locked, NEW task \in Tasks,
         NEW f \in Films \cup {None}, Join(h, task, f), written' = written, Spared
  PROVE  RoadFacts'
<1> DEFINE r == [at |-> "queued", task |-> task, film |-> f, todo |-> {}, answer |-> None, flight |-> Zero]
<1>1. job \in [Workers -> Job] /\ Flights
  BY DEF RoadFacts, Turns
<1>2. r \in Job /\ r.at = "queued" /\ r.task \in Tasks /\ r.flight = Zero
  BY DEF Job, Places, Answers, Zero
<1>3. [Idle("queued") EXCEPT !.task = task, !.film = f] = r
  <2> DEFINE q == [at |-> "queued", task |-> task, film |-> None, todo |-> {}, answer |-> None, flight |-> Zero]
  <2>1. [Idle("queued") EXCEPT !.task = task] = q
    BY DEF Idle
  <2>2. [q EXCEPT !.film = f] = r
    OBVIOUS
  <2> QED BY <2>1, <2>2
<1>4. job' = [job EXCEPT ![h] = r] /\ line' = Append(line, h)
  BY <1>3 DEF Join
<1> HIDE DEF r
<1>5. job' \in [Workers -> Job] /\ job'[h] = r /\ \A v \in Workers : v # h => job'[v] = job[v]
  BY <1>1, <1>2, <1>4
<1>6. Flights'
  BY <1>1, <1>2, <1>5 DEF Flights, Spared
<1>7. job'[h].at \notin Locked
  BY <1>2, <1>5 DEF Locked
<1> QED BY <1>2, <1>4, <1>5, <1>6, <1>7, OutsiderMoves

(* or moves without the lock.                                              *)
LEMMA AsideForm ==
  ASSUME RoadFacts, NEW h \in Workers, job[h].at \notin Locked, NEW r \in Job,
         job' = [job EXCEPT ![h] = r], r.at \in {"details", "count", "gone"},
         ~astray' => r.flight = Zero, line' = line, written' = written, Spared
  PROVE  RoadFacts'
<1>1. job \in [Workers -> Job] /\ Flights
  BY DEF RoadFacts, Turns
<1>2. job' \in [Workers -> Job] /\ job'[h] = r /\ \A v \in Workers : v # h => job'[v] = job[v]
  BY <1>1
<1>3. Flights'
  BY <1>1, <1>2 DEF Flights, Spared
<1>4. job'[h].at \notin Locked /\ job'[h].at # "queued"
  BY <1>2 DEF Locked
<1> QED BY <1>2, <1>3, <1>4, OutsiderMoves

(* The loop joins the line.                                                *)
LEMMA TickKeeps == RoadFacts /\ Tick => RoadFacts'
<1> SUFFICES ASSUME RoadFacts, Tick PROVE RoadFacts'
  OBVIOUS
<1>1. job \in [Workers -> Job] /\ Loop \in Workers /\ MoneyFacts /\ Flights
  BY DEF RoadFacts, Turns, Workers
<1>2. /\ job[Loop].at = "rest" /\ line' = Append(line, Loop) /\ written' = written
      /\ job' = [job EXCEPT ![Loop].at = "queued", ![Loop].task = "pass"]
  BY DEF Tick, memory
<1> DEFINE r == [[job[Loop] EXCEPT !.at = "queued"] EXCEPT !.task = "pass"]
<1>3. r \in Job /\ r.at = "queued" /\ r.task \in Tasks /\ r.flight = job[Loop].flight
  BY <1>1 DEF Job, Places, Tasks
<1>4. job' = [job EXCEPT ![Loop] = r]
  BY <1>1, <1>2
<1> HIDE DEF r
<1>5. job' \in [Workers -> Job] /\ job'[Loop] = r /\ \A v \in Workers : v # Loop => job'[v] = job[v]
  BY <1>1, <1>3, <1>4
<1>6. Spared
  BY <1>1, NothingSpares DEF Tick, money
<1>7. Flights'
  <2>1. \A v \in Workers : job'[v].flight = job[v].flight
    BY <1>3, <1>5
  <2> QED BY <1>1, <1>6, <2>1, FlightsStay DEF Spared
<1>8. job[Loop].at \notin Locked /\ job'[Loop].at \notin Locked
  BY <1>2, <1>3, <1>5 DEF Locked
<1> QED BY <1>1, <1>2, <1>3, <1>5, <1>6, <1>7, <1>8, OutsiderMoves

(* The requests: one that drains the meter has the day astray, until it is *)
(* written down or midnight.                                               *)
LEMMA RequestKeeps ==
  ASSUME RoadFacts, NEW h \in Hands, Request(h)
  PROVE  RoadFacts'
<1>1. /\ job \in [Workers -> Job] /\ h \in Workers /\ job[h] \in Job /\ MoneyFacts /\ Flights
  BY DEF RoadFacts, Turns, Workers
<1>2. \A s \in {"unused", "details", "count"} : s \notin Locked
  BY DEF Locked
<1>3. {"named", "again"} \subseteq Tasks
  BY DEF Tasks
<1>4. UNCHANGED money => Spared
  BY <1>1, NothingSpares DEF money
<1>5. ASSUME NEW f \in Films, NameFilm(h, f) PROVE RoadFacts'
  <2>1. job[h].at = "unused" /\ written' = written /\ Spared
    BY <1>4, <1>5 DEF NameFilm, memory
  <2>2. CASE Join(h, "named", f)
    BY <1>1, <1>2, <1>3, <2>1, <2>2, JoinForm
  <2>3. CASE job' = [job EXCEPT ![h].at = "details", ![h].film = f] /\ line' = line
    <3> DEFINE r == [[job[h] EXCEPT !.at = "details"] EXCEPT !.film = f]
    <3>1. r \in Job /\ r.at = "details" /\ r.flight = job[h].flight
      BY <1>1 DEF Job, Places
    <3>2. job' = [job EXCEPT ![h] = r]
      BY <1>1, <2>3
    <3> HIDE DEF r
    <3>3. ~astray' => r.flight = Zero
      BY <1>1, <2>1, <3>1 DEF Flights, Spared
    <3> QED BY <1>1, <1>2, <2>1, <2>3, <3>1, <3>2, <3>3, AsideForm
  <2>4. CASE job' = [job EXCEPT ![h].at = "gone"] /\ line' = line
    <3> DEFINE r == [job[h] EXCEPT !.at = "gone"]
    <3>1. r \in Job /\ r.at = "gone" /\ r.flight = job[h].flight
      BY <1>1 DEF Job, Places
    <3>2. job' = [job EXCEPT ![h] = r]
      BY <1>1, <2>4
    <3> HIDE DEF r
    <3>3. ~astray' => r.flight = Zero
      BY <1>1, <2>1, <3>1 DEF Flights, Spared
    <3> QED BY <1>1, <1>2, <2>1, <2>4, <3>1, <3>2, <3>3, AsideForm
  <2> QED BY <1>5, <2>2, <2>3, <2>4 DEF NameFilm
<1>6. ASSUME NEW f \in Films, OrderReading(h, f) PROVE RoadFacts'
  <2>1. job[h].at = "unused" /\ written' = written /\ Spared /\ Join(h, "again", f)
    BY <1>4, <1>6 DEF OrderReading, memory
  <2> QED BY <1>1, <1>2, <1>3, <2>1, JoinForm
<1>7. Idle("gone") \in Job /\ Idle("gone").at = "gone" /\ Idle("gone").flight = Zero
  BY DEF Idle, Job, Places, Answers, Zero
<1>8. CASE DetailsCome(h)
  <2>1. job[h].at = "details" /\ line' = line /\ written' = written
    BY <1>8 DEF DetailsCome, memory
  <2>2. CASE Lose /\ job' = [job EXCEPT ![h].at = "count", ![h].flight = meter]
    <3> DEFINE r == [[job[h] EXCEPT !.at = "count"] EXCEPT !.flight = meter]
    <3>1. r \in Job /\ r.at = "count" /\ r.flight = meter
      BY <1>1 DEF Job, Places, MoneyFacts
    <3>2. job' = [job EXCEPT ![h] = r]
      BY <1>1, <2>2
    <3> HIDE DEF r
    <3>3. Spared /\ (~astray' => r.flight = Zero)
      BY <1>1, <2>2, <3>1, LoseSpares
    <3> QED BY <1>1, <1>2, <2>1, <3>1, <3>2, <3>3, AsideForm
  <2>3. CASE job' = [job EXCEPT ![h] = Idle("gone")] /\ UNCHANGED money
    BY <1>1, <1>2, <1>4, <1>7, <2>1, <2>3, AsideForm
  <2> QED BY <1>8, <2>2, <2>3 DEF DetailsCome
<1>9. CASE CountDetails(h)
  <2>1. /\ job[h].at = "count" /\ usage' = Plus(usage, job[h].flight) /\ Join(h, "named", job[h].film)
        /\ meter' = meter /\ billed' = billed /\ astray' = astray /\ written' = written
    BY <1>9 DEF CountDetails, memory, Film
  <2>2. job[h].film \in Films \cup {None} /\ job[h].flight \in [Units -> Nat]
    BY <1>1 DEF Job
  <2>3. usage' = [u \in Units |-> usage[u] + job[h].flight[u]]
    BY <2>1 DEF Plus
  <2>4. usage \in [Units -> Nat] /\ usage' \in [Units -> Nat]
        /\ meter \in [Units -> Nat]
    BY <1>1, <2>2, <2>3 DEF MoneyFacts
  <2>5. ~astray => usage' = usage
    <3>1. SUFFICES ASSUME ~astray PROVE \A u \in Units : usage'[u] = usage[u]
      BY <2>4
    <3>2. job[h].flight = Zero /\ \A u \in Units : Zero[u] = 0
      BY <1>1, <3>1 DEF Flights, Zero
    <3> QED BY <2>3, <2>4, <3>2
  <2>6. MoneyFacts'
    BY <1>1, <2>1, <2>4, <2>5 DEF MoneyFacts
  <2>7. \A u \in Units : usage[u] \in Nat /\ meter[u] \in Nat
    BY <2>4
  <2>8. Spared
    BY <2>1, <2>5, <2>6, <2>7 DEF Spared
  <2> QED BY <1>1, <1>2, <1>3, <2>1, <2>2, <2>8, JoinForm
<1>10. CASE CountFails(h)
  <2>1. job[h].at = "count" /\ line' = line /\ written' = written /\ Spared
        /\ job' = [job EXCEPT ![h] = Idle("gone")]
    BY <1>4, <1>10 DEF CountFails, memory
  <2> QED BY <1>1, <1>2, <1>7, <2>1, AsideForm
<1> QED BY <1>5, <1>6, <1>8, <1>9, <1>10 DEF Request

(* Nobody holds the lock after a crash.                                    *)
LEMMA CrashKeeps == RoadFacts /\ Crash => RoadFacts'
<1> SUFFICES ASSUME RoadFacts, Crash PROVE RoadFacts'
  OBVIOUS
<1>1. job \in [Workers -> Job] /\ MoneyFacts /\ Flights
  BY DEF RoadFacts, Turns
<1>2. /\ Lose /\ line' = <<>> /\ written' = [f \in Films |-> 0]
      /\ job' = [w \in Workers |-> IF w = Loop THEN Idle("rest")
                                    ELSE IF job[w].at = "unused" THEN job[w] ELSE Idle("gone")]
  BY DEF Crash
<1>3. \A s \in {"rest", "gone"} : Idle(s) \in Job /\ Idle(s).at = s /\ Idle(s).flight = Zero
  BY DEF Idle, Job, Places, Answers, Zero
<1>4. Spared
  BY <1>1, <1>2, LoseSpares
<1>5. ASSUME NEW w \in Workers
      PROVE  /\ job'[w] \in Job /\ job'[w].at \in {"rest", "gone", "unused"}
             /\ job'[w].flight \in {Zero, job[w].flight}
  <2>1. CASE w = Loop
    <3>1. job'[w] = Idle("rest")
      BY <1>2, <2>1
    <3> QED BY <1>3, <3>1
  <2>2. CASE w # Loop /\ job[w].at = "unused"
    BY <1>1, <1>2, <2>2
  <2>3. CASE w # Loop /\ job[w].at # "unused"
    BY <1>2, <1>3, <2>3
  <2> QED BY <2>1, <2>2, <2>3
<1>6. job' \in [Workers -> Job]
  BY <1>2, <1>5
<1>7. Flights' /\ MoneyFacts'
  BY <1>1, <1>4, <1>5 DEF Flights, Spared
<1>8. Pieces'
  BY <1>2, RoadAssumption DEF Pieces
<1>9. line' \in Seq(Workers) /\ \A v \in Workers : job'[v].at \notin Locked /\ job'[v].at # "queued"
  BY <1>2, <1>5 DEF Locked
<1> QED BY <1>6, <1>7, <1>8, <1>9, NobodyHolds

(* A new day begins with nothing charged, and what is on the meter leaves  *)
(* room for the pieces that a film chosen before midnight still lacks.     *)
LEMMA MidnightKeeps == RoadFacts /\ Midnight => RoadFacts'
<1> SUFFICES ASSUME RoadFacts, Midnight PROVE RoadFacts'
  OBVIOUS
<1>1. /\ line \in Seq(Workers) /\ job \in [Workers -> Job] /\ MoneyFacts /\ Pieces
      /\ \A w \in Workers : job[w].at \in Locked => Holds(w)
      /\ \A w \in Workers : job[w].at = "queued" => job[w].task \in Tasks
      /\ \A w \in Workers : HearsWithin(w) /\ AsksWithin(w)
  BY DEF RoadFacts, Turns
<1>2. /\ usage' = Zero /\ billed' = Zero /\ astray' = FALSE /\ meter' = meter /\ line' = line
      /\ written' = written /\ job' = [w \in Workers |-> [job[w] EXCEPT !.flight = Zero]]
  BY DEF Midnight, memory
<1>3. Zero \in [Units -> Nat] /\ \A u \in Units : Zero[u] = 0
  BY DEF Zero
<1>4. "seconds" \in Units /\ "tokens" \in Units
  BY DEF Units
<1>5. ASSUME NEW w \in Workers
      PROVE  /\ job'[w] \in Job /\ job'[w].at = job[w].at /\ job'[w].task = job[w].task
             /\ job'[w].film = job[w].film /\ job'[w].flight = Zero
  BY <1>1, <1>2, <1>3 DEF Job
<1>6. job' \in [Workers -> Job]
  BY <1>2, <1>5
<1>7. Turns'
  BY <1>1, <1>2, <1>5, <1>6 DEF Turns, Holds
<1>8. MoneyFacts'
  <2>1. billed'["seconds"] <= DaySeconds /\ billed'["tokens"] < DayTokens + ReadingCost
    BY <1>2, <1>3, <1>4, RoadAssumption
  <2>2. meter \in [Units -> Nat] /\ \A u \in Units : billed'[u] <= usage'[u] + meter'[u]
    BY <1>1, <1>2, <1>3 DEF MoneyFacts
  <2> QED BY <1>2, <1>3, <2>1, <2>2 DEF MoneyFacts
<1>9. Pieces' /\ Flights'
  BY <1>1, <1>2, <1>5 DEF Pieces, Flights
<1>10. usage'["seconds"] = 0 /\ usage'["tokens"] = 0 /\ meter["seconds"] \in Nat /\ meter["tokens"] \in Nat
  BY <1>1, <1>2, <1>3, <1>4 DEF MoneyFacts
<1>11. ASSUME NEW w \in Workers PROVE HearsWithin(w)' /\ AsksWithin(w)'
  <2>1. HearsWithin(w)'
    <3>1. SUFFICES ASSUME job[w].at = "hear" PROVE HearsWithin(w)'
      BY <1>5 DEF HearsWithin
    <3>2. job[w].film \in Films /\ meter["seconds"] + (Length[job[w].film] - written[job[w].film]) <= DaySeconds
      BY <1>1, <3>1 DEF HearsWithin
    <3>3. Length[job[w].film] \in Nat /\ written[job[w].film] \in Nat /\ DaySeconds \in Nat
      BY <1>1, <3>2, RoadAssumption DEF Pieces
    <3>4. usage'["seconds"] + meter'["seconds"] + (Length[job[w].film] - written[job[w].film]) <= DaySeconds
      BY <1>2, <1>10, <3>2, <3>3
    <3> QED BY <1>2, <1>5, <3>2, <3>4 DEF HearsWithin
  <2>2. AsksWithin(w)'
    BY <1>1, <1>2, <1>5, <1>10, RoadAssumption DEF AsksWithin
  <2> QED BY <2>1, <2>2
<1> QED BY <1>7, <1>8, <1>9, <1>11 DEF RoadFacts

(* Each step keeps the facts.                                              *)
LEMMA RoadFactsStep == RoadFacts /\ [RoadNext]_road => RoadFacts'
<1> SUFFICES ASSUME RoadFacts, [RoadNext]_road PROVE RoadFacts'
  OBVIOUS
<1>1. CASE UNCHANGED road
  BY <1>1, NoMoveSpares DEF road, money, memory
<1>2. CASE Tick
  BY <1>2, TickKeeps
<1>3. CASE Crash
  BY <1>3, CrashKeeps
<1>4. CASE Midnight
  BY <1>4, MidnightKeeps
<1>5. CASE RestEnds
  BY <1>5, NoMoveSpares DEF RestEnds, money, memory
<1>6. ASSUME NEW w \in Workers, Work(w) PROVE RoadFacts'
  BY <1>6, TurnHolds, DiscoverKeeps, TranscribeKeeps, ReadingKeeps, TellKeeps DEF Work
<1>7. ASSUME NEW w \in Workers, Trouble(w) PROVE RoadFacts'
  BY <1>7, TroubleKeeps
<1>8. ASSUME NEW h \in Hands, Request(h) PROVE RoadFacts'
  BY <1>8, RequestKeeps
<1>9. ASSUME NEW f \in Films, Time(f) PROVE RoadFacts'
  <2>1. CASE MissIsDue(f)
    BY <2>1, NoMoveSpares DEF MissIsDue, money, memory
  <2>2. CASE WindowPasses(f)
    BY <2>2, NoMoveSpares DEF WindowPasses, money, memory
  <2>3. CASE SulkEnds(f)
    BY <2>3, NoMoveSpares DEF SulkEnds, money
  <2>4. CASE StreamEnds(f)
    BY <2>4, NoMoveSpares DEF StreamEnds, money, memory
  <2> QED BY <1>9, <2>1, <2>2, <2>3, <2>4 DEF Time
<1> QED BY <1>1, <1>2, <1>3, <1>4, <1>5, <1>6, <1>7, <1>8, <1>9 DEF RoadNext

(* The day is kept, for any films, requests, lengths, ceilings and prices, *)
(* and any number of faults: as long as nothing drained is unwritten, the  *)
(* transcriber hears no more than the day's ceiling and the tokens pass    *)
(* theirs by less than one answer (ingest.py:227, :596, watchlist.py:239). *)
THEOREM TheDayIsKept == RoadSpec => []DayIsKept
<1>1. RoadFacts => DayIsKept
  BY DEF RoadFacts, MoneyFacts, DayIsKept
<1> QED BY <1>1, RoadInvInit, RoadFactsStep, PTL DEF RoadSpec

(***************************************************************************)
(* The road of a film: what is bought is wanted.  A worker's film, and the *)
(* films it still has to do, are in the state they were chosen for: only   *)
(* the holder of the lock moves a film that has a row, and nobody takes a  *)
(* film's words or its reading away again.                                 *)
(***************************************************************************)

(* One worker's record is now at a place, with a film and films to do.     *)
Set(w, spot, task, film, todo) ==
  /\ job' \in [Workers -> Job] /\ job'[w].at = spot /\ job'[w].task = task
  /\ job'[w].film = film /\ job'[w].todo = todo
  /\ \A v \in Workers : v # w => job'[v] = job[v]

(* A record in place of a worker's, which differs from it in what is said. *)
SetTo(J, K, w, spot, task, film, todo) ==
  /\ K \in [Workers -> Job] /\ K[w].at = spot /\ K[w].task = task
  /\ K[w].film = film /\ K[w].todo = todo
  /\ \A v \in Workers : v # w => K[v] = J[v]

LEMMA FieldsPut ==
  ASSUME NEW J \in [Workers -> Job], NEW w \in Workers, NEW spot \in Places,
         NEW task \in Tasks \cup {None}, NEW film \in Films \cup {None},
         NEW todo \in SUBSET (Films \cup {None}), NEW answer \in Answers,
         NEW flight \in [Units -> Nat]
  PROVE  /\ SetTo(J, [J EXCEPT ![w].at = spot], w, spot, J[w].task, J[w].film, J[w].todo)
         /\ SetTo(J, [J EXCEPT ![w].task = task], w, J[w].at, task, J[w].film, J[w].todo)
         /\ SetTo(J, [J EXCEPT ![w].film = film], w, J[w].at, J[w].task, film, J[w].todo)
         /\ SetTo(J, [J EXCEPT ![w].todo = todo], w, J[w].at, J[w].task, J[w].film, todo)
         /\ SetTo(J, [J EXCEPT ![w].answer = answer], w, J[w].at, J[w].task, J[w].film, J[w].todo)
         /\ SetTo(J, [J EXCEPT ![w].flight = flight], w, J[w].at, J[w].task, J[w].film, J[w].todo)
<1>0. J[w] \in Job
  OBVIOUS
<1>1. ASSUME NEW r \in Job
      PROVE  SetTo(J, [J EXCEPT ![w] = r], w, r.at, r.task, r.film, r.todo)
  BY <1>1, WorkerPut DEF SetTo
<1>2. SetTo(J, [J EXCEPT ![w].at = spot], w, spot, J[w].task, J[w].film, J[w].todo)
  <2> DEFINE r == [J[w] EXCEPT !.at = spot]
  <2>1. r \in Job /\ r.at = spot /\ r.task = J[w].task /\ r.film = J[w].film /\ r.todo = J[w].todo
    BY <1>0 DEF Job
  <2>2. [J EXCEPT ![w].at = spot] = [J EXCEPT ![w] = r]
    OBVIOUS
  <2> HIDE DEF r
  <2>3. SetTo(J, [J EXCEPT ![w] = r], w, r.at, r.task, r.film, r.todo)
    BY <1>1, <2>1
  <2> QED BY <2>1, <2>2, <2>3
<1>3. SetTo(J, [J EXCEPT ![w].task = task], w, J[w].at, task, J[w].film, J[w].todo)
  <2> DEFINE r == [J[w] EXCEPT !.task = task]
  <2>1. r \in Job /\ r.at = J[w].at /\ r.task = task /\ r.film = J[w].film /\ r.todo = J[w].todo
    BY <1>0 DEF Job
  <2>2. [J EXCEPT ![w].task = task] = [J EXCEPT ![w] = r]
    OBVIOUS
  <2> HIDE DEF r
  <2>3. SetTo(J, [J EXCEPT ![w] = r], w, r.at, r.task, r.film, r.todo)
    BY <1>1, <2>1
  <2> QED BY <2>1, <2>2, <2>3
<1>4. SetTo(J, [J EXCEPT ![w].film = film], w, J[w].at, J[w].task, film, J[w].todo)
  <2> DEFINE r == [J[w] EXCEPT !.film = film]
  <2>1. r \in Job /\ r.at = J[w].at /\ r.task = J[w].task /\ r.film = film /\ r.todo = J[w].todo
    BY <1>0 DEF Job
  <2>2. [J EXCEPT ![w].film = film] = [J EXCEPT ![w] = r]
    OBVIOUS
  <2> HIDE DEF r
  <2>3. SetTo(J, [J EXCEPT ![w] = r], w, r.at, r.task, r.film, r.todo)
    BY <1>1, <2>1
  <2> QED BY <2>1, <2>2, <2>3
<1>5. SetTo(J, [J EXCEPT ![w].todo = todo], w, J[w].at, J[w].task, J[w].film, todo)
  <2> DEFINE r == [J[w] EXCEPT !.todo = todo]
  <2>1. r \in Job /\ r.at = J[w].at /\ r.task = J[w].task /\ r.film = J[w].film /\ r.todo = todo
    BY <1>0 DEF Job
  <2>2. [J EXCEPT ![w].todo = todo] = [J EXCEPT ![w] = r]
    OBVIOUS
  <2> HIDE DEF r
  <2>3. SetTo(J, [J EXCEPT ![w] = r], w, r.at, r.task, r.film, r.todo)
    BY <1>1, <2>1
  <2> QED BY <2>1, <2>2, <2>3
<1>6. SetTo(J, [J EXCEPT ![w].answer = answer], w, J[w].at, J[w].task, J[w].film, J[w].todo)
  <2> DEFINE r == [J[w] EXCEPT !.answer = answer]
  <2>1. r \in Job /\ r.at = J[w].at /\ r.task = J[w].task /\ r.film = J[w].film /\ r.todo = J[w].todo
    BY <1>0 DEF Job
  <2>2. [J EXCEPT ![w].answer = answer] = [J EXCEPT ![w] = r]
    OBVIOUS
  <2> HIDE DEF r
  <2>3. SetTo(J, [J EXCEPT ![w] = r], w, r.at, r.task, r.film, r.todo)
    BY <1>1, <2>1
  <2> QED BY <2>1, <2>2, <2>3
<1>7. SetTo(J, [J EXCEPT ![w].flight = flight], w, J[w].at, J[w].task, J[w].film, J[w].todo)
  <2> DEFINE r == [J[w] EXCEPT !.flight = flight]
  <2>1. r \in Job /\ r.at = J[w].at /\ r.task = J[w].task /\ r.film = J[w].film /\ r.todo = J[w].todo
    BY <1>0 DEF Job
  <2>2. [J EXCEPT ![w].flight = flight] = [J EXCEPT ![w] = r]
    OBVIOUS
  <2> HIDE DEF r
  <2>3. SetTo(J, [J EXCEPT ![w] = r], w, r.at, r.task, r.film, r.todo)
    BY <1>1, <2>1
  <2> QED BY <2>1, <2>2, <2>3
<1> QED BY <1>2, <1>3, <1>4, <1>5, <1>6, <1>7

LEMMA SetTwice ==
  ASSUME NEW J, NEW K, NEW L, NEW w, NEW spot, NEW task, NEW film, NEW todo,
         SetTo(J, K, w, spot, task, film, todo), NEW a, NEW b, NEW c, NEW d,
         SetTo(K, L, w, a, b, c, d)
  PROVE  SetTo(J, L, w, a, b, c, d)
BY DEF SetTo

(* Every way in which the actions move a worker.                           *)
LEMMA SetForms ==
  ASSUME job \in [Workers -> Job], NEW w \in Workers, NEW spot \in Places,
         NEW task \in Tasks \cup {None}, NEW film \in Films \cup {None},
         NEW todo \in SUBSET (Films \cup {None}), NEW answer \in Answers,
         NEW flight \in [Units -> Nat]
  PROVE  /\ job' = [job EXCEPT ![w].at = spot] =>
              Set(w, spot, job[w].task, job[w].film, job[w].todo)
         /\ job' = [job EXCEPT ![w].todo = todo] =>
              Set(w, job[w].at, job[w].task, job[w].film, todo)
         /\ job' = [job EXCEPT ![w].at = spot, ![w].film = film] =>
              Set(w, spot, job[w].task, film, job[w].todo)
         /\ job' = [job EXCEPT ![w].at = spot, ![w].todo = todo] =>
              Set(w, spot, job[w].task, job[w].film, todo)
         /\ job' = [job EXCEPT ![w].at = spot, ![w].answer = answer] =>
              Set(w, spot, job[w].task, job[w].film, job[w].todo)
         /\ job' = [job EXCEPT ![w].at = spot, ![w].flight = flight] =>
              Set(w, spot, job[w].task, job[w].film, job[w].todo)
         /\ job' = [job EXCEPT ![w].at = spot, ![w].task = task] =>
              Set(w, spot, task, job[w].film, job[w].todo)
         /\ job' = [job EXCEPT ![w].at = spot, ![w].film = film, ![w].todo = todo] =>
              Set(w, spot, job[w].task, film, todo)
         /\ job' = [job EXCEPT ![w].at = spot, ![w].todo = todo, ![w].film = film,
                               ![w].answer = answer] =>
              Set(w, spot, job[w].task, film, todo)
         /\ job' = [job EXCEPT ![w].at = spot, ![w].todo = todo, ![w].answer = answer,
                               ![w].film = film] =>
              Set(w, spot, job[w].task, film, todo)
<1> DEFINE A == [job EXCEPT ![w].at = spot]
           D == [job EXCEPT ![w].todo = todo]
           AF == [A EXCEPT ![w].film = film]
           AD == [A EXCEPT ![w].todo = todo]
           AN == [A EXCEPT ![w].answer = answer]
           AL == [A EXCEPT ![w].flight = flight]
           AT == [A EXCEPT ![w].task = task]
           AFD == [AF EXCEPT ![w].todo = todo]
           ADF == [AD EXCEPT ![w].film = film]
           ADN == [AD EXCEPT ![w].answer = answer]
           ADFN == [ADF EXCEPT ![w].answer = answer]
           ADNF == [ADN EXCEPT ![w].film = film]
           T == job[w].task
           F == job[w].film
           E == job[w].todo
<1>1. /\ [job EXCEPT ![w].at = spot, ![w].film = film] = AF
      /\ [job EXCEPT ![w].at = spot, ![w].todo = todo] = AD
      /\ [job EXCEPT ![w].at = spot, ![w].answer = answer] = AN
      /\ [job EXCEPT ![w].at = spot, ![w].flight = flight] = AL
      /\ [job EXCEPT ![w].at = spot, ![w].task = task] = AT
      /\ [job EXCEPT ![w].at = spot, ![w].film = film, ![w].todo = todo] = AFD
      /\ [job EXCEPT ![w].at = spot, ![w].todo = todo, ![w].film = film, ![w].answer = answer] = ADFN
      /\ [job EXCEPT ![w].at = spot, ![w].todo = todo, ![w].answer = answer, ![w].film = film] = ADNF
  OBVIOUS
<1>2. SetTo(job, A, w, spot, T, F, E)
  BY FieldsPut
<1>3. SetTo(job, D, w, job[w].at, T, F, todo)
  BY FieldsPut
<1> HIDE DEF A, D
<1>a. A \in [Workers -> Job] /\ A[w].at = spot /\ A[w].task = T /\ A[w].film = F /\ A[w].todo = E
  BY <1>2 DEF SetTo
<1>4. /\ SetTo(A, AF, w, spot, T, film, E) /\ SetTo(A, AD, w, spot, T, F, todo)
      /\ SetTo(A, AN, w, spot, T, F, E) /\ SetTo(A, AL, w, spot, T, F, E)
      /\ SetTo(A, AT, w, spot, task, F, E)
  BY <1>a, FieldsPut, ZenonT(40)
<1> HIDE DEF AF, AD, AN, AL, AT
<1>5. /\ SetTo(job, AF, w, spot, T, film, E) /\ SetTo(job, AD, w, spot, T, F, todo)
      /\ SetTo(job, AN, w, spot, T, F, E) /\ SetTo(job, AL, w, spot, T, F, E)
      /\ SetTo(job, AT, w, spot, task, F, E)
  BY <1>2, <1>4, SetTwice
<1>b. /\ AF \in [Workers -> Job] /\ AF[w].at = spot /\ AF[w].task = T /\ AF[w].film = film
      /\ AD \in [Workers -> Job] /\ AD[w].at = spot /\ AD[w].task = T /\ AD[w].film = F
      /\ AD[w].todo = todo
  BY <1>5 DEF SetTo
<1>6. /\ SetTo(AF, AFD, w, spot, T, film, todo) /\ SetTo(AD, ADF, w, spot, T, film, todo)
      /\ SetTo(AD, ADN, w, spot, T, F, todo)
  <2>1. SetTo(AF, AFD, w, AF[w].at, AF[w].task, AF[w].film, todo)
    BY <1>b, FieldsPut
  <2>2. SetTo(AD, ADF, w, AD[w].at, AD[w].task, film, AD[w].todo)
    BY <1>b, FieldsPut
  <2>3. SetTo(AD, ADN, w, AD[w].at, AD[w].task, AD[w].film, AD[w].todo)
    BY <1>b, FieldsPut
  <2> QED BY <1>b, <2>1, <2>2, <2>3
<1> HIDE DEF AFD, ADF, ADN
<1>7. /\ SetTo(job, AFD, w, spot, T, film, todo) /\ SetTo(job, ADF, w, spot, T, film, todo)
      /\ SetTo(job, ADN, w, spot, T, F, todo)
  BY <1>5, <1>6, SetTwice
<1>c. /\ ADF \in [Workers -> Job] /\ ADF[w].at = spot /\ ADF[w].task = T /\ ADF[w].film = film
      /\ ADF[w].todo = todo
      /\ ADN \in [Workers -> Job] /\ ADN[w].at = spot /\ ADN[w].task = T /\ ADN[w].todo = todo
  BY <1>7 DEF SetTo
<1>8. SetTo(ADF, ADFN, w, spot, T, film, todo) /\ SetTo(ADN, ADNF, w, spot, T, film, todo)
  <2>1. SetTo(ADF, ADFN, w, ADF[w].at, ADF[w].task, ADF[w].film, ADF[w].todo)
    BY <1>c, FieldsPut
  <2>2. SetTo(ADN, ADNF, w, ADN[w].at, ADN[w].task, film, ADN[w].todo)
    BY <1>c, FieldsPut
  <2> QED BY <1>c, <2>1, <2>2
<1> HIDE DEF ADFN, ADNF
<1>9. SetTo(job, ADFN, w, spot, T, film, todo) /\ SetTo(job, ADNF, w, spot, T, film, todo)
  BY <1>7, <1>8, SetTwice
<1> HIDE DEF T, F, E
<1>10. \A K, s, t, f, d : SetTo(job, K, w, s, t, f, d) /\ job' = K => Set(w, s, t, f, d)
  BY DEF SetTo, Set
<1>11. /\ job' = A => Set(w, spot, T, F, E)
       /\ job' = D => Set(w, job[w].at, T, F, todo)
       /\ job' = AF => Set(w, spot, T, film, E)
       /\ job' = AD => Set(w, spot, T, F, todo)
       /\ job' = AN => Set(w, spot, T, F, E)
       /\ job' = AL => Set(w, spot, T, F, E)
       /\ job' = AT => Set(w, spot, task, F, E)
       /\ job' = AFD => Set(w, spot, T, film, todo)
       /\ job' = ADFN => Set(w, spot, T, film, todo)
       /\ job' = ADNF => Set(w, spot, T, film, todo)
  BY <1>2, <1>3, <1>5, <1>7, <1>9, <1>10
<1> QED BY <1>1, <1>11 DEF A, D, T, F, E

(* The same, form by form.                                                 *)
LEMMA SomeFields ==
  /\ "rest" \in Places /\ None \in Tasks \cup {None} /\ None \in Films \cup {None}
  /\ {} \in SUBSET (Films \cup {None}) /\ None \in Answers /\ Zero \in [Units -> Nat]
BY DEF Places, Answers, Zero

LEMMA SetAt ==
  ASSUME job \in [Workers -> Job], NEW w \in Workers,
         NEW spot \in Places,
         job' = [job EXCEPT ![w].at = spot]
  PROVE  Set(w, spot, job[w].task, job[w].film, job[w].todo)
BY SomeFields, SetForms

LEMMA SetTodo ==
  ASSUME job \in [Workers -> Job], NEW w \in Workers,
         NEW todo \in SUBSET (Films \cup {None}),
         job' = [job EXCEPT ![w].todo = todo]
  PROVE  Set(w, job[w].at, job[w].task, job[w].film, todo)
BY SomeFields, SetForms

LEMMA SetAtFilm ==
  ASSUME job \in [Workers -> Job], NEW w \in Workers,
         NEW spot \in Places, NEW film \in Films \cup {None},
         job' = [job EXCEPT ![w].at = spot, ![w].film = film]
  PROVE  Set(w, spot, job[w].task, film, job[w].todo)
BY SomeFields, SetForms

LEMMA SetAtTodo ==
  ASSUME job \in [Workers -> Job], NEW w \in Workers,
         NEW spot \in Places, NEW todo \in SUBSET (Films \cup {None}),
         job' = [job EXCEPT ![w].at = spot, ![w].todo = todo]
  PROVE  Set(w, spot, job[w].task, job[w].film, todo)
BY SomeFields, SetForms

LEMMA SetAtAnswer ==
  ASSUME job \in [Workers -> Job], NEW w \in Workers,
         NEW spot \in Places, NEW answer \in Answers,
         job' = [job EXCEPT ![w].at = spot, ![w].answer = answer]
  PROVE  Set(w, spot, job[w].task, job[w].film, job[w].todo)
BY SomeFields, SetForms

LEMMA SetAtFlight ==
  ASSUME job \in [Workers -> Job], NEW w \in Workers,
         NEW spot \in Places, NEW flight \in [Units -> Nat],
         job' = [job EXCEPT ![w].at = spot, ![w].flight = flight]
  PROVE  Set(w, spot, job[w].task, job[w].film, job[w].todo)
BY SomeFields, SetForms

LEMMA SetAtTask ==
  ASSUME job \in [Workers -> Job], NEW w \in Workers,
         NEW spot \in Places, NEW task \in Tasks \cup {None},
         job' = [job EXCEPT ![w].at = spot, ![w].task = task]
  PROVE  Set(w, spot, task, job[w].film, job[w].todo)
BY SomeFields, SetForms

LEMMA SetAtFilmTodo ==
  ASSUME job \in [Workers -> Job], NEW w \in Workers,
         NEW spot \in Places, NEW film \in Films \cup {None}, NEW todo \in SUBSET (Films \cup {None}),
         job' = [job EXCEPT ![w].at = spot, ![w].film = film, ![w].todo = todo]
  PROVE  Set(w, spot, job[w].task, film, todo)
BY SomeFields, SetForms

LEMMA SetOnward ==
  ASSUME job \in [Workers -> Job], NEW w \in Workers,
         NEW spot \in Places, NEW film \in Films \cup {None}, NEW todo \in SUBSET (Films \cup {None}), NEW answer \in Answers,
         job' = [job EXCEPT ![w].at = spot, ![w].todo = todo, ![w].film = film,
                           ![w].answer = answer]
  PROVE  Set(w, spot, job[w].task, film, todo)
BY SomeFields, SetForms

LEMMA SetDone ==
  ASSUME job \in [Workers -> Job], NEW w \in Workers,
         NEW spot \in Places, NEW film \in Films \cup {None}, NEW todo \in SUBSET (Films \cup {None}), NEW answer \in Answers,
         job' = [job EXCEPT ![w].at = spot, ![w].todo = todo, ![w].answer = answer,
                           ![w].film = film]
  PROVE  Set(w, spot, job[w].task, film, todo)
BY SomeFields, SetForms

(* A film without words, one with words and no reading, one with words.    *)
ToHear(R, f) == R[f].state \in {"discovered", "no_transcript"}
ToRead(R, f) == R[f].state = "transcribed" /\ R[f].failures < MaxFailures
Worded(R, f) == R[f].state \in Read \cup {"transcribed"}

(* What a worker relies on, wherever it is.                                *)
WantsOf(spot, task, film, todo, R) ==
  /\ todo \subseteq Films
  /\ spot \in {"choose", "hear", "settle"} => \A f \in todo : ToHear(R, f)
  /\ spot \in {"pick", "reading", "save"} => \A f \in todo : ToRead(R, f)
  /\ spot \in {"hear", "settle"} => film \in Films /\ ToHear(R, film)
  /\ spot \in {"reading", "save"} =>
       film \in Films /\ (IF task = "again" THEN Worded(R, film) ELSE ToRead(R, film))
  /\ spot = "check" => task = "again" /\ todo = {}
  /\ spot \in {"list", "judge", "refresh"} => task # "named"
  /\ spot \in {"queued", "check"} /\ task = "again" => film \in Films /\ Worded(R, film)
  /\ spot \in {"queued", "discovered", "choose", "pick"} /\ task = "named" => film \in Films
  /\ spot \in {"judge", "publish", "details", "count"} => film \in Films

Wants(j, R) == WantsOf(j.at, j.task, j.film, j.todo, R)

(* The table, in which a film that may still be heard has a try left.      *)
VideoRow == [state : States, origins : SUBSET {"channel", "manual"}, misses : 0..Retries + 1,
             failures : 0..MaxFailures, seen : {None, "live", "fit", "unfit"},
             later : BOOLEAN, aged : BOOLEAN]

HasTries(r) ==
  r.state \in {"absent", "filtered_out", "discovered", "no_transcript"} => r.misses <= Retries

Table(R) == R \in [Films -> VideoRow] /\ \A f \in Films : HasTries(R[f])

(* From one table to the next, by anyone, and by one without the lock.     *)
Onwards(R, S) ==
  /\ Table(S)
  /\ \A f \in Films : S[f].state # R[f].state => <<R[f].state, S[f].state>> \in RoadSteps

Spares(R, S) ==
  \A f \in Films : (ToHear(R, f) => ToHear(S, f)) /\ (ToRead(R, f) => ToRead(S, f))

RoadWell == /\ Table(row) /\ job[Loop].task \notin {"named", "again"}
            /\ \A w \in Workers : Wants(job[w], row)

(* A step that keeps it, and moves every row along the road or not at all. *)
RoadMoves == RoadWell' /\ Onwards(row, row')

(* A film's words are not lost.                                            *)
LEMMA WordsStay ==
  ASSUME NEW R, NEW S, Onwards(R, S), NEW f \in Films, Worded(R, f)
  PROVE  Worded(S, f)
<1>1. S[f].state # R[f].state => <<R[f].state, S[f].state>> \in RoadSteps
  BY DEF Onwards
<1>2. R[f].state \in {"analysed", "notified", "quiet", "transcribed"}
  BY DEF Worded, Read
<1>3. <<R[f].state, S[f].state>> \in RoadSteps => S[f].state \in {"analysed", "notified", "quiet"}
  BY <1>2 DEF RoadSteps
<1> QED BY <1>1, <1>2, <1>3 DEF Worded, Read

(* One film's row is replaced.                                             *)
LEMMA RowPut ==
  ASSUME Table(row), NEW f \in Films, NEW r \in VideoRow, HasTries(r),
         r.state # row[f].state => <<row[f].state, r.state>> \in RoadSteps,
         row' = [row EXCEPT ![f] = r]
  PROVE  /\ Onwards(row, row') /\ row'[f] = r
         /\ \A g \in Films : g # f => row'[g] = row[g]
<1>1. /\ row' \in [Films -> VideoRow] /\ row'[f] = r
      /\ \A g \in Films : g # f => row'[g] = row[g]
  BY DEF Table
<1> QED BY <1>1 DEF Onwards, Table

(* Or none.                                                                *)
LEMMA RowSame ==
  ASSUME Table(row), row' = row
  PROVE  Onwards(row, row') /\ Spares(row, row')
BY DEF Onwards, Spares, Table, ToHear, ToRead

(* Who does not hold the lock relies on words only.                        *)
LEMMA OthersRely ==
  ASSUME NEW v \in Workers, job[v].at \notin Locked, Wants(job[v], row), Onwards(row, row')
  PROVE  Wants(job[v], row')
<1>1. job[v].at \notin {"choose", "hear", "settle", "pick", "reading", "save", "check"}
  BY DEF Locked
<1>2. job[v].film \in Films /\ Worded(row, job[v].film) => Worded(row', job[v].film)
  BY WordsStay
<1> QED BY <1>1, <1>2 DEF Wants, WantsOf

(* The holder relies on what only a holder changes.                        *)
LEMMA AllRely ==
  ASSUME NEW v \in Workers, Wants(job[v], row), Onwards(row, row'), Spares(row, row')
  PROVE  Wants(job[v], row')
<1>1. \A f \in Films : Worded(row, f) => Worded(row', f)
  BY WordsStay
<1> QED BY <1>1 DEF Wants, WantsOf, Spares

(* A step of the holder, whatever it does to the table.                    *)
LEMMA HolderWell ==
  ASSUME RoadFacts, RoadWell, NEW w \in Workers, Holds(w),
         \A v \in Workers : v # w => job'[v] = job[v],
         Onwards(row, row'), Wants(job'[w], row'), job'[w].task \in {job[w].task, None}
  PROVE  RoadMoves
<1>1. ASSUME NEW v \in Workers, v # w PROVE Wants(job[v], row')
  <2>1. job[v].at \notin Locked
    BY <1>1, OneHolds DEF RoadFacts, Turns
  <2> QED BY <2>1, OthersRely DEF RoadWell
<1>2. job'[Loop].task \notin {"named", "again"}
  BY RoadAssumption DEF RoadWell, Workers
<1> QED BY <1>1, <1>2 DEF RoadWell, RoadMoves, Onwards

(* A step of anyone else.                                                  *)
LEMMA OutsiderWell ==
  ASSUME RoadWell, NEW w \in Workers,
         \A v \in Workers : v # w => job'[v] = job[v],
         Onwards(row, row'), Spares(row, row'), Wants(job'[w], row'),
         w = Loop => job'[w].task \notin {"named", "again"}
  PROVE  RoadMoves
<1>1. \A v \in Workers : v # w => Wants(job[v], row')
  BY AllRely DEF RoadWell
<1> QED BY <1>1 DEF RoadWell, RoadMoves, Onwards, Workers

(* A step of nobody.                                                       *)
LEMMA NobodyWell ==
  ASSUME RoadWell, job' = job, Onwards(row, row'), Spares(row, row')
  PROVE  RoadMoves
<1>1. \A v \in Workers : Wants(job[v], row')
  BY AllRely DEF RoadWell
<1> QED BY <1>1 DEF RoadWell, RoadMoves, Onwards

-----------------------------------------------------------------------------
(* The statements, on one row.                                             *)

(* One field of a row is replaced: a truth value has none of its own.      *)
LEMMA RowFields ==
  ASSUME NEW r \in VideoRow
  PROVE  /\ \A s \in States : /\ [r EXCEPT !.state = s] \in VideoRow
                              /\ [r EXCEPT !.state = s].state = s
                              /\ [r EXCEPT !.state = s].misses = r.misses
                              /\ [r EXCEPT !.state = s].failures = r.failures
                              /\ [r EXCEPT !.state = s].origins = r.origins
         /\ \A o \in SUBSET {"channel", "manual"} :
              /\ [r EXCEPT !.origins = o] \in VideoRow
              /\ [r EXCEPT !.origins = o].state = r.state
              /\ [r EXCEPT !.origins = o].misses = r.misses
              /\ [r EXCEPT !.origins = o].failures = r.failures
         /\ \A n \in 0..Retries + 1 :
              /\ [r EXCEPT !.misses = n] \in VideoRow
              /\ [r EXCEPT !.misses = n].state = r.state
              /\ [r EXCEPT !.misses = n].misses = n
              /\ [r EXCEPT !.misses = n].failures = r.failures
         /\ \A n \in 0..MaxFailures :
              /\ [r EXCEPT !.failures = n] \in VideoRow
              /\ [r EXCEPT !.failures = n].state = r.state
              /\ [r EXCEPT !.failures = n].misses = r.misses
         /\ \A x \in {None, "live", "fit", "unfit"} :
              /\ [r EXCEPT !.seen = x] \in VideoRow
              /\ [r EXCEPT !.seen = x].state = r.state
              /\ [r EXCEPT !.seen = x].misses = r.misses
              /\ [r EXCEPT !.seen = x].failures = r.failures
         /\ \A b \in BOOLEAN :
              /\ [r EXCEPT !.later = b] \in VideoRow
              /\ [r EXCEPT !.later = b].state = r.state
              /\ [r EXCEPT !.later = b].misses = r.misses
              /\ [r EXCEPT !.later = b].failures = r.failures
         /\ \A b \in BOOLEAN :
              /\ [r EXCEPT !.aged = b] \in VideoRow
              /\ [r EXCEPT !.aged = b].state = r.state
              /\ [r EXCEPT !.aged = b].misses = r.misses
              /\ [r EXCEPT !.aged = b].failures = r.failures
BY DEF VideoRow

LEMMA NoRowFields == NoRow \in VideoRow /\ NoRow.misses = 0 /\ NoRow.state = "absent" /\ HasTries(NoRow)
<1>1. NoRow \in VideoRow
  BY RoadAssumption DEF NoRow, VideoRow, States
<1>2. NoRow.misses = 0 /\ NoRow.state = "absent"
  BY DEF NoRow
<1> QED BY <1>1, <1>2, RoadAssumption DEF HasTries

LEMMA UpsertRow ==
  ASSUME Table(row), NEW f \in Films, NEW door \in {"channel", "manual"},
         NEW as \in {"discovered", "filtered_out"}, shape[f] \in {"live", "fit", "unfit"},
         row' = Upsert(f, door, as)
  PROVE  Onwards(row, row') /\ Spares(row, row')
<1> DEFINE look == IF row[f].state = "discovered" THEN shape[f] ELSE row[f].seen
           n1 == [NoRow EXCEPT !.state = as]
           n2 == [n1 EXCEPT !.origins = {door}]
           new == [n2 EXCEPT !.seen = shape[f]]
           m1 == [row[f] EXCEPT !.origins = row[f].origins \cup {door}]
           more == [m1 EXCEPT !.seen = look]
           r == IF row[f].state = "absent" THEN new ELSE more
<1>0. row[f] \in VideoRow /\ HasTries(row[f]) /\ Retries \in Nat /\ as \in States
  BY RoadAssumption DEF Table, States
<1>1. /\ [NoRow EXCEPT !.state = as, !.origins = {door}, !.seen = shape[f]] = new
      /\ [row[f] EXCEPT !.origins = row[f].origins \cup {door}, !.seen = look] = more
  OBVIOUS
<1>2. new \in VideoRow /\ new.state = as /\ new.misses = 0
  <2>1. n1 \in VideoRow /\ n1.state = as /\ n1.misses = 0
    BY <1>0, RowFields, NoRowFields
  <2> HIDE DEF n1
  <2>2. {door} \in SUBSET {"channel", "manual"}
    OBVIOUS
  <2>3. n2 \in VideoRow /\ n2.state = n1.state /\ n2.misses = n1.misses
    BY <2>1, <2>2, RowFields
  <2> HIDE DEF n2
  <2>4. shape[f] \in {None, "live", "fit", "unfit"}
    OBVIOUS
  <2>5. new \in VideoRow /\ new.state = n2.state /\ new.misses = n2.misses
    BY <2>3, <2>4, RowFields
  <2> HIDE DEF new
  <2> QED BY <2>1, <2>3, <2>5
<1>3. /\ more \in VideoRow /\ more.state = row[f].state /\ more.misses = row[f].misses
      /\ more.failures = row[f].failures
  <2>1. row[f].origins \cup {door} \in SUBSET {"channel", "manual"}
    BY <1>0 DEF VideoRow
  <2>2. /\ m1 \in VideoRow /\ m1.state = row[f].state /\ m1.misses = row[f].misses
        /\ m1.failures = row[f].failures
    BY <1>0, <2>1, RowFields
  <2>3. look \in {None, "live", "fit", "unfit"}
    BY <1>0 DEF VideoRow
  <2> HIDE DEF m1, look
  <2> QED BY <2>2, <2>3, RowFields
<1>4. row' = [row EXCEPT ![f] = r]
  <2>1. row' = [row EXCEPT ![f] = Stored(row[f], f, door, as)]
    BY DEF Upsert
  <2>2. Stored(row[f], f, door, as) = r
    <3>1. CASE row[f].state = "absent"
      BY <1>1, <3>1 DEF Stored
    <3>2. CASE row[f].state # "absent"
      <4>1. Stored(row[f], f, door, as)
              = [row[f] EXCEPT !.origins = row[f].origins \cup {door}, !.seen = look]
        BY <3>2 DEF Stored
      <4> QED BY <1>1, <3>2, <4>1
    <3> QED BY <3>1, <3>2
  <2> QED BY <2>1, <2>2
<1> HIDE DEF n1, n2, m1, look, new, more
<1>5. r \in VideoRow /\ HasTries(r)
  BY <1>0, <1>2, <1>3 DEF HasTries
<1>6. r.state # row[f].state => <<row[f].state, r.state>> \in RoadSteps
  BY <1>2, <1>3 DEF RoadSteps
<1> HIDE DEF r
<1>7. Onwards(row, row') /\ row'[f] = r /\ \A g \in Films : g # f => row'[g] = row[g]
  BY <1>4, <1>5, <1>6, RowPut
<1>8. row[f].state = "absent" \/ (r.state = row[f].state /\ r.failures = row[f].failures)
  BY <1>3 DEF r
<1> QED BY <1>7, <1>8 DEF Spares, ToHear, ToRead

(* Two fields of one row, or three, one after the other.                   *)
LEMMA RowTwice ==
  ASSUME row \in [Films -> VideoRow], NEW f \in Films
  PROVE  /\ \A s, l : [row EXCEPT ![f].state = s, ![f].later = l]
                        = [row EXCEPT ![f] = [[row[f] EXCEPT !.state = s] EXCEPT !.later = l]]
         /\ \A s, o : [row EXCEPT ![f].state = s, ![f].origins = o]
                        = [row EXCEPT ![f] = [[row[f] EXCEPT !.state = s] EXCEPT !.origins = o]]
         /\ \A g, s : [row EXCEPT ![f].aged = g, ![f].state = s]
                        = [row EXCEPT ![f] = [[row[f] EXCEPT !.aged = g] EXCEPT !.state = s]]
         /\ \A s, n, l : [row EXCEPT ![f].state = s, ![f].misses = n, ![f].later = l]
                           = [row EXCEPT ![f] = [[[row[f] EXCEPT !.state = s] EXCEPT !.misses = n]
                                                   EXCEPT !.later = l]]
OBVIOUS

LEMMA RowOnce ==
  ASSUME row \in [Films -> VideoRow], NEW f \in Films
  PROVE  /\ \A n : [row EXCEPT ![f].failures = n] = [row EXCEPT ![f] = [row[f] EXCEPT !.failures = n]]
         /\ \A s : [row EXCEPT ![f].state = s] = [row EXCEPT ![f] = [row[f] EXCEPT !.state = s]]
         /\ \A b : [row EXCEPT ![f].later = b] = [row EXCEPT ![f] = [row[f] EXCEPT !.later = b]]
         /\ \A b : [row EXCEPT ![f].aged = b] = [row EXCEPT ![f] = [row[f] EXCEPT !.aged = b]]
OBVIOUS

(* Films that are new and out of bounds are dropped.                       *)
LEMMA DropRows ==
  ASSUME NEW R, Table(R), \A f \in Films : R[f].state = row[f].state
  PROVE  /\ Onwards(row, DropUnwanted(R))
         /\ \A f \in Films : DropUnwanted(R)[f] \in {NoRow, R[f]}
<1>1. DropUnwanted(R) = [f \in Films |-> IF R[f].state = "discovered" /\ R[f].seen = "unfit"
                                         THEN NoRow ELSE R[f]]
  BY DEF DropUnwanted
<1>2. \A f \in Films : R[f] \in VideoRow /\ HasTries(R[f])
  BY DEF Table
<1>3. Table(DropUnwanted(R))
  BY <1>1, <1>2, NoRowFields DEF Table
<1>4. ASSUME NEW f \in Films, DropUnwanted(R)[f].state # row[f].state
      PROVE  <<row[f].state, DropUnwanted(R)[f].state>> \in RoadSteps
  <2>1. row[f].state = "discovered" /\ DropUnwanted(R)[f].state = "absent"
    BY <1>1, <1>4, NoRowFields
  <2> QED BY <2>1 DEF RoadSteps
<1> QED BY <1>1, <1>3, <1>4 DEF Onwards

(* _settle.                                                                *)
LEMMA SettleRow ==
  ASSUME Table(row), NEW f \in Films, ToHear(row, f)
  PROVE  /\ row' = [row EXCEPT ![f].state = "transcribed", ![f].later = FALSE] =>
              Onwards(row, row') /\ \A g \in Films : g # f => row'[g] = row[g]
         /\ row' = [row EXCEPT ![f].state = IF row[f].misses + 1 > Retries THEN "gave_up" ELSE "no_transcript",
                               ![f].misses = @ + 1, ![f].later = ~(row[f].misses + 1 > Retries)] =>
              Onwards(row, row') /\ \A g \in Films : g # f => row'[g] = row[g]
<1>1. row \in [Films -> VideoRow] /\ row[f] \in VideoRow /\ HasTries(row[f])
  BY DEF Table
<1>2. row[f].misses \in Nat /\ row[f].misses <= Retries /\ Retries \in Nat
  BY <1>1, RoadAssumption DEF ToHear, HasTries, VideoRow
<1>3. ASSUME row' = [row EXCEPT ![f].state = "transcribed", ![f].later = FALSE]
      PROVE  Onwards(row, row') /\ \A g \in Films : g # f => row'[g] = row[g]
  <2> DEFINE r1 == [row[f] EXCEPT !.state = "transcribed"]
             r2 == [r1 EXCEPT !.later = FALSE]
  <2>1. row' = [row EXCEPT ![f] = r2]
    BY <1>1, <1>3, RowTwice
  <2>2. "transcribed" \in States /\ FALSE \in BOOLEAN
    BY DEF States
  <2>3. r1 \in VideoRow /\ r1.state = "transcribed"
    BY <1>1, <2>2, RowFields
  <2> HIDE DEF r1
  <2>4. r2 \in VideoRow /\ r2.state = "transcribed"
    BY <2>2, <2>3, RowFields
  <2> HIDE DEF r2
  <2>5. HasTries(r2) /\ <<row[f].state, r2.state>> \in RoadSteps
    BY <2>4 DEF HasTries, RoadSteps, ToHear
  <2> QED BY <2>1, <2>4, <2>5, RowPut
<1>4. ASSUME row' = [row EXCEPT ![f].state = IF row[f].misses + 1 > Retries THEN "gave_up" ELSE "no_transcript",
                                ![f].misses = @ + 1, ![f].later = ~(row[f].misses + 1 > Retries)]
      PROVE  Onwards(row, row') /\ \A g \in Films : g # f => row'[g] = row[g]
  <2> DEFINE s == IF row[f].misses + 1 > Retries THEN "gave_up" ELSE "no_transcript"
             n == row[f].misses + 1
             l == ~(row[f].misses + 1 > Retries)
             r1 == [row[f] EXCEPT !.state = s]
             r2 == [r1 EXCEPT !.misses = n]
             r3 == [r2 EXCEPT !.later = l]
  <2>1. row' = [row EXCEPT ![f].state = s, ![f].misses = n, ![f].later = l]
    BY <1>1, <1>4
  <2>2. /\ s \in States /\ n \in 0..Retries + 1 /\ l \in BOOLEAN
        /\ s \in {"gave_up", "no_transcript"} /\ (s = "no_transcript" => n <= Retries)
    BY <1>2 DEF States
  <2> HIDE DEF s, n, l
  <2>3. row' = [row EXCEPT ![f] = r3]
    BY <1>1, <2>1, RowTwice
  <2>4. r1 \in VideoRow /\ r1.state = s
    BY <1>1, <2>2, RowFields
  <2> HIDE DEF r1
  <2>5. r2 \in VideoRow /\ r2.state = s /\ r2.misses = n
    BY <2>2, <2>4, RowFields
  <2> HIDE DEF r2
  <2>6. r3 \in VideoRow /\ r3.state = s /\ r3.misses = n
    BY <2>2, <2>5, RowFields
  <2> HIDE DEF r3
  <2>7. HasTries(r3) /\ (r3.state # row[f].state => <<row[f].state, r3.state>> \in RoadSteps)
    BY <2>2, <2>6 DEF HasTries, RoadSteps, ToHear
  <2> QED BY <2>3, <2>6, <2>7, RowPut
<1> QED BY <1>3, <1>4

(* save_reading and record_reading_failure.                                *)
LEMMA SaveRow ==
  ASSUME Table(row), NEW f \in Films
  PROVE  /\ ToRead(row, f) /\ row' = [row EXCEPT ![f].failures = @ + 1] =>
              Onwards(row, row') /\ \A g \in Films : g # f => row'[g] = row[g]
         /\ \A own \in BOOLEAN :
              Worded(row, f) /\ row' = [row EXCEPT ![f].aged = FALSE, ![f].state = StateOnceRead(own, @)] =>
                Onwards(row, row') /\ \A g \in Films : g # f => row'[g] = row[g]
<1>1. row \in [Films -> VideoRow] /\ row[f] \in VideoRow /\ HasTries(row[f])
  BY DEF Table
<1>2. ASSUME ToRead(row, f), row' = [row EXCEPT ![f].failures = @ + 1]
      PROVE  Onwards(row, row') /\ \A g \in Films : g # f => row'[g] = row[g]
  <2> DEFINE n == row[f].failures + 1
             r1 == [row[f] EXCEPT !.failures = n]
  <2>1. n \in 0..MaxFailures
    BY <1>1, <1>2, RoadAssumption DEF ToRead, VideoRow
  <2>2. row' = [row EXCEPT ![f].failures = n]
    BY <1>1, <1>2
  <2> HIDE DEF n
  <2>3. row' = [row EXCEPT ![f] = r1]
    BY <1>1, <2>2, RowOnce
  <2>4. r1 \in VideoRow /\ r1.state = row[f].state /\ r1.misses = row[f].misses
    BY <1>1, <2>1, RowFields
  <2> HIDE DEF r1
  <2>5. HasTries(r1)
    BY <1>1, <2>4 DEF HasTries
  <2> QED BY <2>3, <2>4, <2>5, RowPut
<1>3. ASSUME NEW own \in BOOLEAN, Worded(row, f),
             row' = [row EXCEPT ![f].aged = FALSE, ![f].state = StateOnceRead(own, @)]
      PROVE  Onwards(row, row') /\ \A g \in Films : g # f => row'[g] = row[g]
  <2> DEFINE s == StateOnceRead(own, row[f].state)
             r1 == [row[f] EXCEPT !.aged = FALSE]
             r2 == [r1 EXCEPT !.state = s]
  <2>1. /\ s \in States /\ s \in Read \cup {"transcribed"}
        /\ s # row[f].state => s = "analysed" /\ row[f].state = "transcribed"
    BY <1>3 DEF StateOnceRead, Worded, Read, States
  <2>2. row' = [row EXCEPT ![f].aged = FALSE, ![f].state = s]
    BY <1>1, <1>3
  <2> HIDE DEF s
  <2>3. row' = [row EXCEPT ![f] = r2]
    BY <1>1, <2>2, RowTwice
  <2>4. r1 \in VideoRow
    BY <1>1, RowFields
  <2> HIDE DEF r1
  <2>5. r2 \in VideoRow /\ r2.state = s
    BY <2>1, <2>4, RowFields
  <2> HIDE DEF r2
  <2>6. HasTries(r2) /\ (r2.state # row[f].state => <<row[f].state, r2.state>> \in RoadSteps)
    BY <2>1, <2>5 DEF HasTries, RoadSteps, Read
  <2> QED BY <2>3, <2>5, <2>6, RowPut
<1> QED BY <1>2, <1>3

(* What is told, or left quiet.                                            *)
LEMMA OutcomeRow ==
  ASSUME Table(row), NEW f \in Films, NEW outcome \in {"notified", "quiet"}, SetOutcome(f, outcome)
  PROVE  Onwards(row, row')
<1> DEFINE s == IF row[f].state = "analysed" THEN outcome ELSE row[f].state
           r1 == [row[f] EXCEPT !.state = s]
<1>1. row \in [Films -> VideoRow] /\ row[f] \in VideoRow /\ HasTries(row[f])
  BY DEF Table
<1>2. s \in States /\ (s # row[f].state => row[f].state = "analysed" /\ s = outcome)
  BY <1>1 DEF VideoRow, States
<1>3. row' = [row EXCEPT ![f].state = s]
  BY <1>1 DEF SetOutcome
<1> HIDE DEF s
<1>4. row' = [row EXCEPT ![f] = r1]
  BY <1>1, <1>3, RowOnce
<1>5. r1 \in VideoRow /\ r1.state = s /\ r1.misses = row[f].misses
  BY <1>1, <1>2, RowFields
<1> HIDE DEF r1
<1>6. HasTries(r1) /\ (r1.state # row[f].state => <<row[f].state, r1.state>> \in RoadSteps)
  BY <1>1, <1>2, <1>5 DEF HasTries, RoadSteps
<1> QED BY <1>4, <1>5, <1>6, RowPut

(* The films that came too late are left quiet.                            *)
LEMMA QuietRows ==
  ASSUME Table(row),
         row' = [f \in Films |-> IF row[f].state = "analysed" /\ row[f].aged
                                 THEN [row[f] EXCEPT !.state = "quiet"] ELSE row[f]]
  PROVE  Onwards(row, row')
<1>1. \A f \in Films : row[f] \in VideoRow /\ HasTries(row[f])
  BY DEF Table
<1>2. "quiet" \in States
  BY DEF States
<1>3. ASSUME NEW f \in Films
      PROVE  /\ row'[f] \in VideoRow /\ HasTries(row'[f])
             /\ row'[f].state # row[f].state => <<row[f].state, row'[f].state>> \in RoadSteps
  <2> DEFINE q == [row[f] EXCEPT !.state = "quiet"]
  <2>1. q \in VideoRow /\ q.state = "quiet"
    BY <1>1, <1>2, RowFields
  <2>2. row'[f] = IF row[f].state = "analysed" /\ row[f].aged THEN q ELSE row[f]
    OBVIOUS
  <2> HIDE DEF q
  <2> QED BY <1>1, <2>1, <2>2 DEF HasTries, RoadSteps
<1> QED BY <1>3 DEF Onwards, Table

(* A film that was turned away is named.                                   *)
LEMMA NamedRow ==
  ASSUME Table(row), NEW f \in Films, row[f].state = "filtered_out",
         row' = [row EXCEPT ![f].state = "discovered", ![f].origins = @ \cup {"manual"}]
  PROVE  Onwards(row, row') /\ Spares(row, row')
<1> DEFINE o == row[f].origins \cup {"manual"}
           r1 == [row[f] EXCEPT !.state = "discovered"]
           r2 == [r1 EXCEPT !.origins = o]
<1>1. row \in [Films -> VideoRow] /\ row[f] \in VideoRow /\ HasTries(row[f])
  BY DEF Table
<1>2. o \in SUBSET {"channel", "manual"} /\ "discovered" \in States
  BY <1>1 DEF VideoRow, States
<1>3. row' = [row EXCEPT ![f].state = "discovered", ![f].origins = o]
  BY <1>1
<1> HIDE DEF o
<1>4. row' = [row EXCEPT ![f] = r2]
  BY <1>1, <1>3, RowTwice
<1>5. r1 \in VideoRow /\ r1.state = "discovered" /\ r1.misses = row[f].misses
  BY <1>1, <1>2, RowFields, ZenonT(40)
<1> HIDE DEF r1
<1>6. r2 \in VideoRow /\ r2.state = "discovered" /\ r2.misses = row[f].misses
  BY <1>2, <1>5, RowFields
<1> HIDE DEF r2
<1>7. HasTries(r2) /\ <<row[f].state, r2.state>> \in RoadSteps
  BY <1>1, <1>6 DEF HasTries, RoadSteps
<1>8. Onwards(row, row') /\ \A g \in Films : g # f => row'[g] = row[g]
  BY <1>4, <1>6, <1>7, RowPut
<1> QED BY <1>8 DEF Spares, ToHear, ToRead

(* Time passes over a row.                                                 *)
LEMMA TimedRow ==
  ASSUME Table(row), NEW f \in Films, MissIsDue(f) \/ WindowPasses(f)
  PROVE  Onwards(row, row') /\ Spares(row, row')
<1>1. row \in [Films -> VideoRow] /\ row[f] \in VideoRow /\ HasTries(row[f])
  BY DEF Table
<1>2. row' = [row EXCEPT ![f].later = FALSE] \/ row' = [row EXCEPT ![f].aged = TRUE]
  BY DEF MissIsDue, WindowPasses
<1>3. \/ row' = [row EXCEPT ![f] = [row[f] EXCEPT !.later = FALSE]]
      \/ row' = [row EXCEPT ![f] = [row[f] EXCEPT !.aged = TRUE]]
  BY <1>1, <1>2, RowOnce
<1>4. PICK r \in VideoRow : /\ row' = [row EXCEPT ![f] = r] /\ r.state = row[f].state
                            /\ r.misses = row[f].misses /\ r.failures = row[f].failures
  BY <1>1, <1>3, RowFields
<1>5. HasTries(r)
  BY <1>1, <1>4 DEF HasTries
<1>6. /\ Onwards(row, row') /\ row'[f] = r /\ \A g \in Films : g # f => row'[g] = row[g]
  BY <1>4, <1>5, RowPut
<1> QED BY <1>4, <1>6 DEF Spares, ToHear, ToRead

(* The rest of the types.                                                  *)
Sides ==
  /\ shape \in [Films -> {"live", "fit", "unfit"}] /\ resting \in BOOLEAN
  /\ unjudged \in [Films -> Nat] /\ \A f \in Films : unjudged[f] < JudgeMaxFailures
  /\ sulking \subseteq Films /\ mishaps \in 0..MaxFaults

(* The holder's step, by where it goes.                                    *)
LEMMA HolderSets ==
  ASSUME RoadFacts, RoadWell, NEW w \in Workers, Holds(w), NEW spot, NEW film, NEW todo,
         Set(w, spot, job[w].task, film, todo), Onwards(row, row'),
         WantsOf(spot, job[w].task, film, todo, row')
  PROVE  RoadMoves
<1>1. Wants(job'[w], row') /\ job'[w].task = job[w].task /\ \A v \in Workers : v # w => job'[v] = job[v]
  BY DEF Wants, Set
<1> QED BY <1>1, HolderWell

LEMMA OutsiderSets ==
  ASSUME RoadWell, NEW w \in Workers, NEW spot, NEW task, NEW film, NEW todo,
         Set(w, spot, task, film, todo), Onwards(row, row'), Spares(row, row'),
         WantsOf(spot, task, film, todo, row'), w = Loop => task \notin {"named", "again"}
  PROVE  RoadMoves
<1>1. Wants(job'[w], row') /\ job'[w].task = task /\ \A v \in Workers : v # w => job'[v] = job[v]
  BY DEF Wants, Set
<1> QED BY <1>1, OutsiderWell

(* What is known of a worker before it moves.                              *)
LEMMA WorkerFacts ==
  ASSUME RoadFacts, RoadWell, NEW w \in Workers
  PROVE  /\ job \in [Workers -> Job] /\ job[w] \in Job
         /\ job[w].task \in Tasks \cup {None} /\ job[w].film \in Films \cup {None}
         /\ job[w].at \in Places /\ job[w].todo \in SUBSET Films
         /\ WantsOf(job[w].at, job[w].task, job[w].film, job[w].todo, row)
         /\ Table(row) /\ None \in Answers /\ None \in Films \cup {None}
         /\ {} \in SUBSET (Films \cup {None})
<1>1. job \in [Workers -> Job] /\ job[w] \in Job
  BY DEF RoadFacts, Turns
<1>2. Wants(job[w], row) /\ Table(row)
  BY DEF RoadWell
<1>3. job[w].todo \in SUBSET Films
  BY <1>2 DEF Wants, WantsOf
<1> QED BY <1>1, <1>2, <1>3 DEF Wants, Job, Answers

(* The forms in which a holder leaves, breaks off, or goes on.             *)
LEMMA IdleWants ==
  ASSUME NEW spot \in {"rest", "gone", "unused"}, NEW R
  PROVE  Idle(spot) \in Job /\ Wants(Idle(spot), R)
<1>1. Idle(spot) \in Job
  <2>1. Zero \in [Units -> Nat]
    BY DEF Zero
  <2> QED BY <2>1 DEF Idle, Job, Places, Answers
<1>2. Idle(spot).at = spot /\ Idle(spot).todo = {}
  BY DEF Idle
<1> QED BY <1>1, <1>2 DEF Wants, WantsOf

LEMMA LeaveWell ==
  ASSUME RoadFacts, RoadWell, NEW w \in Workers, Holds(w), Leave(w), row' = row
  PROVE  RoadMoves
<1> DEFINE spot == IF w = Loop THEN "rest" ELSE "gone"
<1>1. job' = [job EXCEPT ![w] = Idle(spot)]
  BY DEF Leave
<1>2. Idle(spot) \in Job /\ Wants(Idle(spot), row') /\ Idle(spot).task = None
  BY IdleWants DEF Idle
<1> HIDE DEF spot
<1>3. /\ job'[w] = Idle(spot) /\ \A v \in Workers : v # w => job'[v] = job[v]
  BY <1>1, <1>2, WorkerFacts, WorkerPut
<1>4. Onwards(row, row')
  BY WorkerFacts, RowSame
<1> QED BY <1>2, <1>3, <1>4, HolderWell

LEMMA BreakWell ==
  ASSUME RoadFacts, RoadWell, NEW w \in Workers, Holds(w),
         NEW place \in {"discovered", "choose", "pick", "telling", "closing"}, Break(w, place),
         Onwards(row, row'), job[w].task = "named" => place \in {"telling", "closing"}
  PROVE  RoadMoves
<1>1. job' = [job EXCEPT ![w].at = place, ![w].todo = {}, ![w].film = None, ![w].answer = None]
  BY DEF Break
<1>2. place \in Places
  BY DEF Places
<1>3. Set(w, place, job[w].task, None, {})
  BY <1>1, <1>2, WorkerFacts, SetOnward
<1>4. WantsOf(place, job[w].task, None, {}, row')
  <2>1. /\ place \notin {"hear", "settle", "reading", "save", "check", "list", "judge", "refresh", "queued",
                         "publish", "details", "count"}
        /\ job[w].task = "named" => place \notin {"discovered", "choose", "pick"}
    OBVIOUS
  <2>2. {} \subseteq Films
    OBVIOUS
  <2> QED BY <2>1, <2>2 DEF WantsOf
<1> QED BY <1>3, <1>4, HolderSets

LEMMA OnwardWell ==
  ASSUME RoadFacts, RoadWell, NEW w \in Workers, Holds(w), NEW place \in {"list", "telling"},
         Onward(w, place), Onwards(row, row'), job[w].task = "named" => place = "telling"
  PROVE  RoadMoves
<1> DEFINE left == job[w].todo \ {Film(w)}
<1>1. job' = [job EXCEPT ![w].at = place, ![w].todo = left, ![w].film = None, ![w].answer = None]
  BY DEF Onward
<1>2. place \in Places /\ left \in SUBSET (Films \cup {None}) /\ left \subseteq Films
  BY WorkerFacts DEF Places
<1> HIDE DEF left
<1>3. Set(w, place, job[w].task, None, left)
  BY <1>1, <1>2, WorkerFacts, SetOnward
<1>4. WantsOf(place, job[w].task, None, left, row')
  <2>1. /\ place \notin {"choose", "hear", "settle", "pick", "reading", "save", "check", "judge", "refresh",
                         "queued", "discovered", "publish", "details", "count"}
        /\ place = "list" => job[w].task # "named"
    OBVIOUS
  <2> QED BY <1>2, <2>1 DEF WantsOf
<1> QED BY <1>3, <1>4, HolderSets

(* Done and Stop, in the steps of hearing and of reading.                  *)
LEMMA DoneWell ==
  ASSUME RoadFacts, RoadWell, NEW w \in Workers, Holds(w), NEW f \in Films,
         NEW place \in {"choose", "pick"},
         Done(w, f, place) \/ Stop(w, place),
         job[w].task = "named" => job[w].film \in Films,
         Onwards(row, row'), \A g \in Films : g # f => row'[g] = row[g],
         place = "choose" => \A g \in job[w].todo : ToHear(row, g),
         place = "pick" => \A g \in job[w].todo : ToRead(row, g)
  PROVE  RoadMoves
<1> DEFINE film == IF job[w].task = "named" THEN job[w].film ELSE None
<1>1. film \in Films \cup {None} /\ (job[w].task = "named" => film \in Films) /\ place \in Places
  BY DEF Places
<1>2. PICK todo \in {job[w].todo \ {f}, {}} :
        job' = [job EXCEPT ![w].at = place, ![w].todo = todo, ![w].answer = None, ![w].film = film]
  <2>1. CASE Done(w, f, place)
    <3>1. job' = [job EXCEPT ![w].at = place, ![w].todo = job[w].todo \ {f}, ![w].answer = None,
                             ![w].film = film]
      BY <2>1 DEF Done
    <3> QED BY <3>1
  <2>2. CASE Stop(w, place)
    <3>1. job' = [job EXCEPT ![w].at = place, ![w].todo = {}, ![w].answer = None, ![w].film = film]
      BY <2>2 DEF Stop
    <3> QED BY <3>1
  <2> QED BY <2>1, <2>2
<1> HIDE DEF film
<1>3. todo \in SUBSET (Films \cup {None}) /\ todo \subseteq job[w].todo \ {f} /\ todo \subseteq Films
  BY WorkerFacts
<1>4. Set(w, place, job[w].task, film, todo)
  BY <1>1, <1>2, <1>3, WorkerFacts, SetDone
<1>5. \A g \in todo : /\ ToHear(row, g) => ToHear(row', g)
                      /\ ToRead(row, g) => ToRead(row', g)
  BY <1>3 DEF ToHear, ToRead
<1>6. WantsOf(place, job[w].task, film, todo, row')
  <2>1. /\ place \notin {"hear", "settle", "reading", "save", "check", "list", "judge", "refresh", "queued",
                         "discovered", "publish", "details", "count"}
    OBVIOUS
  <2>2. place = "choose" => \A g \in todo : ToHear(row', g)
    BY <1>3, <1>5
  <2>3. place = "pick" => \A g \in todo : ToRead(row', g)
    BY <1>3, <1>5
  <2> QED BY <1>1, <1>3, <2>1, <2>2, <2>3 DEF WantsOf
<1> QED BY <1>4, <1>6, HolderSets

(* The holder takes its turn, or ends it.                                  *)
LEMMA TurnWell ==
  ASSUME RoadFacts, RoadWell, NEW w \in Workers, TakeTurn(w) \/ Close(w) \/ FlushFails(w)
  PROVE  RoadMoves
<1>1. CASE TakeTurn(w)
  <2> DEFINE spot == FirstPlace[job[w].task]
             todo == IF w = Loop THEN Films ELSE {}
  <2>1. Holds(w) /\ job[w].at = "queued" /\ row' = row
        /\ job' = [job EXCEPT ![w].at = spot, ![w].todo = todo]
    BY <1>1 DEF TakeTurn, At
  <2>2. job[w].task \in Tasks
    BY <2>1 DEF RoadFacts, Turns
  <2>3. /\ spot \in {"list", "discovered", "check"} /\ spot \in Places
        /\ spot = "check" => job[w].task = "again" /\ todo = {}
        /\ spot = "list" => job[w].task = "pass"
    BY <2>2 DEF FirstPlace, Tasks, Places, RoadWell
  <2>4. todo \in SUBSET (Films \cup {None}) /\ todo \subseteq Films
    OBVIOUS
  <2> HIDE DEF spot, todo
  <2>5. Set(w, spot, job[w].task, job[w].film, todo)
    BY <2>1, <2>3, <2>4, WorkerFacts, SetAtTodo
  <2>6. WantsOf(spot, job[w].task, job[w].film, todo, row)
    BY <2>1, <2>3, <2>4, WorkerFacts DEF WantsOf
  <2> QED BY <2>1, <2>5, <2>6, WorkerFacts, RowSame, HolderSets
<1>2. CASE Close(w) \/ FlushFails(w)
  <2>1. Holds(w) /\ Leave(w) /\ row' = row
    BY <1>2 DEF Close, FlushFails, At
  <2> QED BY <2>1, LeaveWell
<1> QED BY <1>1, <1>2

(* A film is passed over.                                                  *)
LEMMA PassWell ==
  ASSUME RoadFacts, RoadWell, NEW w \in Workers, Holds(w), NEW f \in Films, Pass(w, f),
         job[w].at \in {"list", "telling"}, Onwards(row, row')
  PROVE  RoadMoves
<1> DEFINE left == job[w].todo \ {f}
<1>1. job' = [job EXCEPT ![w].todo = left]
  BY DEF Pass
<1>2. left \in SUBSET (Films \cup {None}) /\ left \subseteq Films
  BY WorkerFacts
<1> HIDE DEF left
<1>3. Set(w, job[w].at, job[w].task, job[w].film, left)
  BY <1>1, <1>2, WorkerFacts, SetTodo
<1>4. WantsOf(job[w].at, job[w].task, job[w].film, left, row')
  BY <1>2, WorkerFacts DEF WantsOf
<1> QED BY <1>3, <1>4, HolderSets

(* The streams are asked about by name: no film changes its state by it.   *)
LEMMA RefreshedRows ==
  ASSUME Table(row), Sides, NEW live
  PROVE  LET R == [f \in Films |-> Refreshed(f, live)]
         IN  Table(R) /\ \A f \in Films : R[f].state = row[f].state
<1>1. ASSUME NEW f \in Films
      PROVE  Refreshed(f, live) \in VideoRow /\ HasTries(Refreshed(f, live))
             /\ Refreshed(f, live).state = row[f].state
  <2>1. row[f] \in VideoRow /\ HasTries(row[f]) /\ shape[f] \in {None, "live", "fit", "unfit"}
    BY DEF Table, Sides
  <2> DEFINE r == [row[f] EXCEPT !.seen = shape[f]]
  <2>2. r \in VideoRow /\ r.state = row[f].state /\ r.misses = row[f].misses
    BY <2>1, RowFields
  <2>3. Refreshed(f, live) \in {r, row[f]}
    BY DEF Refreshed
  <2> HIDE DEF r
  <2> QED BY <2>1, <2>2, <2>3 DEF HasTries
<1> DEFINE S == [f \in Films |-> Refreshed(f, live)]
<1>2. S \in [Films -> VideoRow] /\ \A f \in Films : S[f] = Refreshed(f, live)
  BY <1>1
<1> HIDE DEF S
<1>3. Table(S) /\ \A f \in Films : S[f].state = row[f].state
  BY <1>1, <1>2 DEF Table
<1> QED BY <1>3 DEF S

LEMMA DiscoverWell ==
  ASSUME RoadFacts, RoadWell, Sides, NEW w \in Workers, Discover(w) \/ RefreshUnanswered(w)
  PROVE  RoadMoves
<1>0. /\ WantsOf(job[w].at, job[w].task, job[w].film, job[w].todo, row) /\ Table(row)
      /\ job[w].todo \subseteq Films
      /\ \A f \in Films : shape[f] \in {"live", "fit", "unfit"}
  BY WorkerFacts DEF Sides
<1>1. ASSUME NEW f \in Films, ListChannel(w, f) PROVE RoadMoves
  <2>1. Holds(w) /\ job[w].at = "list" /\ f \in job[w].todo
    BY <1>1 DEF ListChannel, At
  <2>2. \/ Pass(w, f) /\ row' = row
        \/ Pass(w, f) /\ row' = Upsert(f, "channel", "discovered")
        \/ job' = [job EXCEPT ![w].at = "judge", ![w].film = f] /\ row' = row
    BY <1>1 DEF ListChannel
  <2>3. Onwards(row, row')
    BY <1>0, <2>2, RowSame, UpsertRow
  <2>4. CASE Pass(w, f)
    BY <2>1, <2>3, <2>4, PassWell
  <2>5. CASE job' = [job EXCEPT ![w].at = "judge", ![w].film = f]
    <3>1. Set(w, "judge", job[w].task, f, job[w].todo)
      <4>1. "judge" \in Places /\ f \in Films \cup {None}
        BY DEF Places
      <4> QED BY <2>5, <4>1, WorkerFacts, SetAtFilm
    <3>2. WantsOf("judge", job[w].task, f, job[w].todo, row')
      BY <1>0, <2>1 DEF WantsOf
    <3> QED BY <2>1, <2>3, <3>1, <3>2, HolderSets
  <2> QED BY <2>2, <2>4, <2>5
<1>2. CASE Judge(w)
  <2>1. Holds(w) /\ job[w].at = "judge" /\ Onward(w, "list")
    BY <1>2 DEF Judge, At
  <2>2. job[w].film \in Films /\ job[w].task # "named"
    BY <1>0, <2>1 DEF WantsOf
  <2>3. \/ row' = row \/ row' = Upsert(job[w].film, "channel", "discovered")
        \/ row' = Upsert(job[w].film, "channel", "filtered_out")
    BY <1>2 DEF Judge, Film
  <2>4. Onwards(row, row')
    BY <1>0, <2>2, <2>3, RowSame, UpsertRow
  <2> QED BY <2>1, <2>2, <2>4, OnwardWell
<1>3. CASE ListingsEnd(w)
  <2> DEFINE live == LivePending(row')
             spot == IF live = {} THEN "discovered" ELSE "refresh"
  <2>1. Holds(w) /\ job[w].at = "list" /\ row' = DropUnwanted(row)
        /\ job' = [job EXCEPT ![w].at = spot, ![w].todo = live]
    BY <1>3 DEF ListingsEnd, At
  <2>2. live \in SUBSET (Films \cup {None}) /\ live \subseteq Films
    BY DEF LivePending
  <2>3. spot \in {"discovered", "refresh"} /\ spot \in Places /\ job[w].task # "named"
    BY <1>0, <2>1 DEF Places, WantsOf
  <2> HIDE DEF live, spot
  <2>4. Set(w, spot, job[w].task, job[w].film, live)
    BY <2>1, <2>2, <2>3, WorkerFacts, SetAtTodo
  <2>5. Onwards(row, row')
    BY <1>0, <2>1, DropRows
  <2>6. WantsOf(spot, job[w].task, job[w].film, live, row')
    BY <2>2, <2>3 DEF WantsOf
  <2> QED BY <2>1, <2>4, <2>5, <2>6, HolderSets
<1>4. CASE RefreshLive(w)
  <2> DEFINE R == [f \in Films |-> Refreshed(f, job[w].todo)]
  <2>1. Holds(w) /\ job[w].at = "refresh" /\ row' = DropUnwanted(R) /\ Break(w, "discovered")
    BY <1>4 DEF RefreshLive, At
  <2>2. Table(R) /\ \A f \in Films : R[f].state = row[f].state
    BY <1>0, RefreshedRows
  <2> HIDE DEF R
  <2>3. Onwards(row, row')
    BY <2>1, <2>2, DropRows
  <2>4. job[w].task # "named"
    BY <1>0, <2>1 DEF WantsOf
  <2> QED BY <2>1, <2>3, <2>4, BreakWell
<1>5. CASE RefreshUnanswered(w)
  <2>1. Holds(w) /\ job[w].at = "refresh" /\ row' = row /\ Break(w, "discovered")
    BY <1>5 DEF RefreshUnanswered, At
  <2>2. job[w].task # "named" /\ Onwards(row, row')
    BY <1>0, <2>1, RowSame DEF WantsOf
  <2> QED BY <2>1, <2>2, BreakWell
<1> QED BY <1>1, <1>2, <1>3, <1>4, <1>5 DEF Discover

(* Whom a worker works for is a film, or all of them.                      *)
LEMMA MineAreFilms ==
  ASSUME RoadFacts, RoadWell, NEW w \in Workers, job[w].at \in {"discovered", "choose"}
  PROVE  Mine(w) \subseteq Films
<1>1. job[w].task = "named" => job[w].film \in Films
  BY WorkerFacts DEF WantsOf
<1> QED BY <1>1 DEF Mine

(* An answer comes to the film that is heard.                              *)
LEMMA HeardWell ==
  ASSUME RoadFacts, RoadWell, NEW w \in Workers, Holds(w), job[w].at = "hear", NEW answer \in Answers,
         Heard(w, answer), row' = row
  PROVE  RoadMoves
<1>1. "settle" \in Places
  BY DEF Places
<1>2. Set(w, "settle", job[w].task, job[w].film, job[w].todo)
  BY <1>1, WorkerFacts, SetAtAnswer DEF Heard
<1>3. WantsOf("settle", job[w].task, job[w].film, job[w].todo, row)
  <2>1. /\ job[w].todo \subseteq Films /\ \A f \in job[w].todo : ToHear(row, f)
        /\ job[w].film \in Films /\ ToHear(row, job[w].film)
    BY WorkerFacts DEF WantsOf
  <2> QED BY <2>1 DEF WantsOf
<1> QED BY <1>2, <1>3, WorkerFacts, RowSame, HolderSets

LEMMA TranscribeWell ==
  ASSUME RoadFacts, RoadWell, NEW w \in Workers, Transcribe(w) \/ HearBlocked(w)
  PROVE  RoadMoves
<1>0. /\ WantsOf(job[w].at, job[w].task, job[w].film, job[w].todo, row) /\ Table(row)
      /\ job[w].todo \subseteq Films /\ job \in [Workers -> Job]
  BY WorkerFacts
<1>1. CASE StartTranscribing(w)
  <2> DEFINE pile == DueForTranscription(row', w)
  <2>1. /\ Holds(w) /\ job[w].at = "discovered" /\ row' = DropUnwanted(row)
        /\ job' = [job EXCEPT ![w].at = "choose", ![w].todo = pile]
    BY <1>1 DEF StartTranscribing, EndsStep, At
  <2>2. Mine(w) \subseteq Films
    BY <2>1, MineAreFilms
  <2>3. pile \subseteq Films /\ pile \in SUBSET (Films \cup {None}) /\ \A f \in pile : ToHear(row', f)
    BY <2>2 DEF DueForTranscription, ToHear
  <2> HIDE DEF pile
  <2>4. "choose" \in Places
    BY DEF Places
  <2>5. Set(w, "choose", job[w].task, job[w].film, pile)
    BY <1>0, <2>1, <2>3, <2>4, SetAtTodo
  <2>6. Onwards(row, row')
    BY <1>0, <2>1, DropRows
  <2>7. job[w].task = "named" => job[w].film \in Films
    BY <1>0, <2>1 DEF WantsOf
  <2>8. WantsOf("choose", job[w].task, job[w].film, pile, row')
    BY <2>3, <2>7 DEF WantsOf
  <2> QED BY <2>1, <2>5, <2>6, <2>8, HolderSets
<1>2. ASSUME NEW f \in Films, ChooseFilm(w, f) PROVE RoadMoves
  <2>1. Holds(w) /\ job[w].at = "choose" /\ f \in job[w].todo /\ row' = row
    BY <1>2 DEF ChooseFilm, At
  <2>2. /\ \A g \in job[w].todo : ToHear(row, g)
        /\ job[w].task = "named" => job[w].film \in Films
    BY <1>0, <2>1 DEF WantsOf
  <2>3. Onwards(row, row')
    BY <1>0, <2>1, RowSame
  <2>4. CASE Done(w, f, "choose") \/ Stop(w, "choose")
    BY <2>1, <2>2, <2>3, <2>4, DoneWell
  <2>5. CASE job' = [job EXCEPT ![w].at = "hear", ![w].film = f]
    <3>1. "hear" \in Places /\ f \in Films \cup {None}
      BY DEF Places
    <3>2. Set(w, "hear", job[w].task, f, job[w].todo)
      BY <1>0, <2>5, <3>1, SetAtFilm
    <3>3. WantsOf("hear", job[w].task, f, job[w].todo, row')
      BY <1>0, <2>1, <2>2 DEF WantsOf
    <3> QED BY <2>1, <2>3, <3>2, <3>3, HolderSets
  <2> QED BY <1>2, <2>4, <2>5 DEF ChooseFilm
<1>3. CASE HearPiece(w)
  <2>1. Holds(w) /\ job[w].at = "hear" /\ row' = row
    BY <1>3 DEF HearPiece, At
  <2>2. CASE job' = job
    <3>1. Onwards(row, row') /\ Spares(row, row')
      BY <1>0, <2>1, RowSame
    <3> QED BY <2>2, <3>1, NobodyWell
  <2>3. CASE \E answer \in {"words", "nothing"} : Heard(w, answer)
    BY <2>1, <2>3, HeardWell DEF Answers
  <2> QED BY <1>3, <2>2, <2>3 DEF HearPiece
<1>4. CASE HearNothing(w) \/ HearBlocked(w)
  <2>1. /\ Holds(w) /\ job[w].at = "hear" /\ row' = row
        /\ \E answer \in {"nothing", "blocked"} : Heard(w, answer)
    BY <1>4 DEF HearNothing, HearBlocked, At
  <2> QED BY <2>1, HeardWell DEF Answers
<1>5. CASE Settle(w)
  <2> DEFINE f == job[w].film
  <2>1. /\ Holds(w) /\ job[w].at = "settle"
        /\ Done(w, f, "choose") \/ Stop(w, "choose")
    BY <1>5 DEF Settle, At, Film
  <2>2. /\ \A g \in job[w].todo : ToHear(row, g)
        /\ f \in Films /\ ToHear(row, f)
    BY <1>0, <2>1 DEF WantsOf
  <2>3. \/ row' = [row EXCEPT ![f].state = "transcribed", ![f].later = FALSE]
        \/ row' = [row EXCEPT ![f].state = IF row[f].misses + 1 > Retries THEN "gave_up" ELSE "no_transcript",
                              ![f].misses = @ + 1, ![f].later = ~(row[f].misses + 1 > Retries)]
        \/ row' = row
    BY <1>5 DEF Settle, Film
  <2> HIDE DEF f
  <2>4. Onwards(row, row') /\ \A g \in Films : g # f => row'[g] = row[g]
    BY <1>0, <2>2, <2>3, RowSame, SettleRow
  <2>5. job[w].film \in Films
    BY <2>2 DEF f
  <2> QED BY <2>1, <2>2, <2>4, <2>5, DoneWell
<1> QED BY <1>1, <1>2, <1>3, <1>4, <1>5 DEF Transcribe

(* A reading is over, kept or not.                                         *)
LEMMA ReadingOver ==
  ASSUME RoadFacts, RoadWell, NEW w \in Workers, Holds(w), job[w].at \in {"reading", "save"},
         AfterReading(w), Onwards(row, row'), \A g \in Films : g # job[w].film => row'[g] = row[g]
  PROVE  RoadMoves
<1>1. job[w].film \in Films /\ \A g \in job[w].todo : ToRead(row, g)
  BY WorkerFacts DEF WantsOf
<1>2. CASE job[w].task = "again"
  <2>1. Break(w, "closing")
    BY <1>2 DEF AfterReading
  <2> QED BY <2>1, BreakWell
<1>3. CASE job[w].task # "again"
  <2>1. Done(w, job[w].film, "pick")
    BY <1>3 DEF AfterReading, Film
  <2> QED BY <1>1, <2>1, DoneWell
<1> QED BY <1>2, <1>3

LEMMA ReadWell ==
  ASSUME RoadFacts, RoadWell, NEW w \in Workers, ReadFilms(w) \/ ReadingFails(w)
  PROVE  RoadMoves
<1>0. /\ WantsOf(job[w].at, job[w].task, job[w].film, job[w].todo, row) /\ Table(row)
      /\ job[w].todo \subseteq Films /\ job \in [Workers -> Job]
  BY WorkerFacts
<1>1. CASE StartReading(w)
  <2> DEFINE pile == {f \in Mine(w) : row[f].state = "transcribed" /\ row[f].failures < MaxFailures}
  <2>1. /\ Holds(w) /\ job[w].at = "choose" /\ row' = row
        /\ job' = [job EXCEPT ![w].at = "pick", ![w].todo = pile]
    BY <1>1 DEF StartReading, EndsStep, At
  <2>2. Mine(w) \subseteq Films
    BY <2>1, MineAreFilms
  <2>3. pile \subseteq Films /\ pile \in SUBSET (Films \cup {None}) /\ \A f \in pile : ToRead(row, f)
    BY <2>2 DEF ToRead
  <2> HIDE DEF pile
  <2>4. "pick" \in Places
    BY DEF Places
  <2>5. Set(w, "pick", job[w].task, job[w].film, pile)
    BY <1>0, <2>1, <2>3, <2>4, SetAtTodo
  <2>6. job[w].task = "named" => job[w].film \in Films
    BY <1>0, <2>1 DEF WantsOf
  <2>7. WantsOf("pick", job[w].task, job[w].film, pile, row')
    BY <2>1, <2>3, <2>6 DEF WantsOf
  <2> QED BY <1>0, <2>1, <2>5, <2>7, RowSame, HolderSets
<1>2. ASSUME NEW f \in Films, PickReading(w, f) PROVE RoadMoves
  <2>1. Holds(w) /\ job[w].at = "pick" /\ f \in job[w].todo /\ row' = row
    BY <1>2 DEF PickReading, At
  <2>2. /\ \A g \in job[w].todo : ToRead(row, g)
        /\ job[w].task = "named" => job[w].film \in Films
    BY <1>0, <2>1 DEF WantsOf
  <2>3. Onwards(row, row')
    BY <1>0, <2>1, RowSame
  <2>4. CASE Stop(w, "pick")
    BY <2>1, <2>2, <2>3, <2>4, DoneWell
  <2>5. CASE job' = [job EXCEPT ![w].at = "reading", ![w].film = f]
    <3>1. "reading" \in Places /\ f \in Films \cup {None}
      BY DEF Places
    <3>2. Set(w, "reading", job[w].task, f, job[w].todo)
      BY <1>0, <2>5, <3>1, SetAtFilm
    <3>3. ToRead(row, f) /\ Worded(row, f)
      BY <2>1, <2>2 DEF ToRead, Worded
    <3>4. WantsOf("reading", job[w].task, f, job[w].todo, row')
      BY <1>0, <2>1, <2>2, <3>3 DEF WantsOf
    <3> QED BY <2>1, <2>3, <3>2, <3>4, HolderSets
  <2> QED BY <1>2, <2>4, <2>5 DEF PickReading
<1>3. CASE ReadAgain(w)
  <2> DEFINE spot == IF TokensAreLeft THEN "reading" ELSE "closing"
  <2>1. /\ Holds(w) /\ job[w].at = "check" /\ row' = row /\ job' = [job EXCEPT ![w].at = spot]
    BY <1>3 DEF ReadAgain, At, MovesTo
  <2>2. spot \in {"reading", "closing"} /\ spot \in Places
    BY DEF Places
  <2> HIDE DEF spot
  <2>3. Set(w, spot, job[w].task, job[w].film, job[w].todo)
    BY <1>0, <2>1, <2>2, SetAt
  <2>4. job[w].task = "again" /\ job[w].film \in Films /\ Worded(row, job[w].film)
    BY <1>0, <2>1 DEF WantsOf
  <2>5. job[w].todo = {}
    BY <1>0, <2>1 DEF WantsOf
  <2>6. WantsOf(spot, job[w].task, job[w].film, job[w].todo, row')
    BY <2>1, <2>2, <2>4, <2>5 DEF WantsOf
  <2> QED BY <1>0, <2>1, <2>3, <2>6, RowSame, HolderSets
<1>4. CASE ReadingComes(w)
  <2>1. Holds(w) /\ job[w].at = "reading" /\ row' = row
    BY <1>4 DEF ReadingComes, At
  <2>2. PICK answer \in Answers : job' = [job EXCEPT ![w].at = "save", ![w].answer = answer]
    BY <1>4 DEF ReadingComes, Answers
  <2>3. "save" \in Places
    BY DEF Places
  <2>4. Set(w, "save", job[w].task, job[w].film, job[w].todo)
    BY <1>0, <2>2, <2>3, SetAtAnswer
  <2>5. WantsOf("save", job[w].task, job[w].film, job[w].todo, row')
    BY <1>0, <2>1 DEF WantsOf
  <2> QED BY <1>0, <2>1, <2>4, <2>5, RowSame, HolderSets
<1>5. CASE ReadingFails(w)
  <2>1. Holds(w) /\ job[w].at = "reading" /\ row' = row /\ AfterReading(w)
    BY <1>5 DEF ReadingFails, At
  <2> QED BY <1>0, <2>1, RowSame, ReadingOver
<1>6. CASE SaveReading(w)
  <2> DEFINE f == job[w].film
  <2>1. Holds(w) /\ job[w].at = "save" /\ AfterReading(w)
    BY <1>6 DEF SaveReading, At
  <2>2. f \in Films /\ (IF job[w].task = "again" THEN Worded(row, f) ELSE ToRead(row, f))
    BY <1>0, <2>1 DEF WantsOf
  <2>3. Worded(row, f)
    BY <2>2 DEF ToRead, Worded
  <2>4. \/ row' = row
        \/ job[w].task # "again" /\ row' = [row EXCEPT ![f].failures = @ + 1]
        \/ \E own \in BOOLEAN : row' = [row EXCEPT ![f].aged = FALSE, ![f].state = StateOnceRead(own, @)]
    BY <1>6 DEF SaveReading, Film
  <2> HIDE DEF f
  <2>5. Onwards(row, row') /\ \A g \in Films : g # f => row'[g] = row[g]
    <3>1. CASE row' = row
      BY <1>0, <3>1, RowSame
    <3>2. CASE job[w].task # "again" /\ row' = [row EXCEPT ![f].failures = @ + 1]
      BY <1>0, <2>2, <3>2, SaveRow
    <3>3. CASE \E own \in BOOLEAN : row' = [row EXCEPT ![f].aged = FALSE, ![f].state = StateOnceRead(own, @)]
      BY <1>0, <2>2, <2>3, <3>3, SaveRow
    <3> QED BY <2>4, <3>1, <3>2, <3>3
  <2> QED BY <2>1, <2>5, ReadingOver DEF f
<1> QED BY <1>1, <1>2, <1>3, <1>4, <1>5, <1>6 DEF ReadFilms

LEMMA TellWell ==
  ASSUME RoadFacts, RoadWell, Sides, NEW w \in Workers, Tell(w) \/ NotPublished(w)
  PROVE  RoadMoves
<1>0. /\ WantsOf(job[w].at, job[w].task, job[w].film, job[w].todo, row) /\ Table(row)
      /\ job[w].todo \subseteq Films /\ job \in [Workers -> Job]
      /\ None \in Films \cup {None}
  BY WorkerFacts
<1>1. CASE StartTelling(w)
  <2> DEFINE pile == {f \in Films \ sulking : row'[f].state = "analysed"}
  <2>1. /\ Holds(w) /\ row' = [f \in Films |-> IF row[f].state = "analysed" /\ row[f].aged
                                               THEN [row[f] EXCEPT !.state = "quiet"] ELSE row[f]]
        /\ job' = [job EXCEPT ![w].at = "telling", ![w].film = None, ![w].todo = pile]
    BY <1>1 DEF StartTelling, EndsStep, At
  <2>2. pile \subseteq Films /\ pile \in SUBSET (Films \cup {None}) /\ "telling" \in Places
    BY DEF Places
  <2> HIDE DEF pile
  <2>3. Set(w, "telling", job[w].task, None, pile)
    BY <1>0, <2>1, <2>2, SetAtFilmTodo
  <2>4. WantsOf("telling", job[w].task, None, pile, row')
    BY <2>2 DEF WantsOf
  <2> QED BY <1>0, <2>1, <2>3, <2>4, QuietRows, HolderSets
<1>2. ASSUME NEW f \in Films, TellFilm(w, f) PROVE RoadMoves
  <2>1. Holds(w) /\ job[w].at = "telling" /\ f \in job[w].todo
    BY <1>2 DEF TellFilm, At
  <2>2. CASE SetOutcome(f, "quiet") /\ Pass(w, f)
    BY <1>0, <2>1, <2>2, OutcomeRow, PassWell
  <2>3. CASE job' = [job EXCEPT ![w].at = "publish", ![w].film = f] /\ row' = row
    <3>1. "publish" \in Places /\ f \in Films \cup {None}
      BY DEF Places
    <3>2. Set(w, "publish", job[w].task, f, job[w].todo)
      BY <1>0, <2>3, <3>1, SetAtFilm
    <3>3. WantsOf("publish", job[w].task, f, job[w].todo, row')
      BY <1>0 DEF WantsOf
    <3> QED BY <1>0, <2>1, <2>3, <3>2, <3>3, RowSame, HolderSets
  <2> QED BY <1>2, <2>2, <2>3 DEF TellFilm
<1>3. CASE Published(w)
  <2>1. Holds(w) /\ job[w].at = "publish" /\ SetOutcome(job[w].film, "notified") /\ Onward(w, "telling")
    BY <1>3 DEF Published, At, Film
  <2>2. job[w].film \in Films
    BY <1>0, <2>1 DEF WantsOf
  <2> QED BY <1>0, <2>1, <2>2, OutcomeRow, OnwardWell
<1>4. CASE NotPublished(w)
  <2>1. Holds(w) /\ Onward(w, "telling") /\ row' = row
    BY <1>4 DEF NotPublished, At
  <2> QED BY <1>0, <2>1, RowSame, OnwardWell
<1> QED BY <1>1, <1>2, <1>3, <1>4 DEF Tell

(* A statement fails: the worker breaks off where a film is not named.     *)
LEMMA TroubleWell ==
  ASSUME RoadFacts, RoadWell, Sides, NEW w \in Workers, Trouble(w)
  PROVE  RoadMoves
<1>1. CASE StatementFails(w)
  <2>1. Holds(w) /\ row' = row /\ Table(row) /\ Onwards(row, row')
    BY <1>1, WorkerFacts, RowSame DEF StatementFails
  <2>2. \/ job[w].at \in DOMAIN StepAfter /\ Break(w, IF w = Loop THEN StepAfter[job[w].at] ELSE "closing")
        \/ job[w].at \in DOMAIN EndOf /\ Break(w, IF w = Loop THEN EndOf[job[w].at] ELSE "closing")
    BY <1>1 DEF StatementFails
  <2>3. \A s \in DOMAIN StepAfter : StepAfter[s] \in {"choose", "pick", "telling"}
    BY DEF StepAfter
  <2>4. \A s \in DOMAIN EndOf : EndOf[s] \in {"discovered", "choose", "pick", "telling", "closing"}
    BY DEF EndOf
  <2>5. PICK place \in {"discovered", "choose", "pick", "telling", "closing"} :
          Break(w, place) /\ (w = Loop \/ place = "closing")
    BY <2>2, <2>3, <2>4
  <2>6. job[w].task = "named" => place \in {"telling", "closing"}
    BY <2>5 DEF RoadWell
  <2> QED BY <2>1, <2>5, <2>6, BreakWell
<1> QED BY <1>1, DiscoverWell, TranscribeWell, ReadWell, TellWell, TurnWell DEF Trouble

LEMMA WorkWell ==
  ASSUME RoadFacts, RoadWell, Sides, NEW w \in Workers, Work(w)
  PROVE  RoadMoves
BY DiscoverWell, TranscribeWell, ReadWell, TellWell, TurnWell DEF Work

-----------------------------------------------------------------------------
(* Who asks by hand holds no lock, and moves no film that has a row but    *)
(* the one that was turned away.                                           *)
LEMMA JoinWell ==
  ASSUME RoadFacts, RoadWell, NEW h \in Hands, NEW task \in {"named", "again"}, NEW f \in Films,
         Join(h, task, f), Onwards(row, row'), Spares(row, row'),
         task = "again" => Worded(row', f)
  PROVE  RoadMoves
<1> DEFINE r == [at |-> "queued", task |-> task, film |-> f, todo |-> {}, answer |-> None, flight |-> Zero]
<1>1. job \in [Workers -> Job] /\ h \in Workers /\ h # Loop
  BY RoadAssumption DEF RoadFacts, Turns, Workers
<1>2. r \in Job /\ r.at = "queued" /\ r.task = task /\ r.film = f /\ r.todo = {}
  BY DEF Job, Places, Answers, Zero, Tasks
<1>3. [Idle("queued") EXCEPT !.task = task, !.film = f] = r
  <2> DEFINE q == [at |-> "queued", task |-> task, film |-> None, todo |-> {}, answer |-> None, flight |-> Zero]
  <2>1. [Idle("queued") EXCEPT !.task = task] = q
    BY DEF Idle
  <2>2. [q EXCEPT !.film = f] = r
    OBVIOUS
  <2> QED BY <2>1, <2>2
<1>4. job' = [job EXCEPT ![h] = r]
  BY <1>3 DEF Join
<1> HIDE DEF r
<1>5. job'[h] = r /\ \A v \in Workers : v # h => job'[v] = job[v]
  BY <1>1, <1>2, <1>4
<1>6. WantsOf("queued", task, f, {}, row')
  BY DEF WantsOf
<1>7. Wants(job'[h], row')
  BY <1>2, <1>5, <1>6 DEF Wants
<1> QED BY <1>1, <1>5, <1>7, OutsiderWell

LEMMA RequestWell ==
  ASSUME RoadFacts, RoadWell, Sides, NEW h \in Hands, Request(h)
  PROVE  RoadMoves
<1>1. /\ job \in [Workers -> Job] /\ h \in Workers /\ h # Loop /\ job[h] \in Job
      /\ Table(row)
      /\ WantsOf(job[h].at, job[h].task, job[h].film, job[h].todo, row)
      /\ job[h].todo \subseteq Films
  BY RoadAssumption, WorkerFacts DEF Workers
<1>2. row' = row => Onwards(row, row') /\ Spares(row, row')
  BY <1>1, RowSame
<1>3. Idle("gone") \in Job /\ Wants(Idle("gone"), row')
  BY IdleWants
<1>4. ASSUME job' = [job EXCEPT ![h] = Idle("gone")], row' = row PROVE RoadMoves
  <2>1. job'[h] = Idle("gone") /\ \A v \in Workers : v # h => job'[v] = job[v]
    BY <1>1, <1>3, <1>4, WorkerPut
  <2> QED BY <1>1, <1>2, <1>3, <1>4, <2>1, OutsiderWell
<1>5. ASSUME NEW f \in Films, NameFilm(h, f) PROVE RoadMoves
  <2>1. job[h].at = "unused"
    BY <1>5 DEF NameFilm
  <2>2. CASE /\ row[f].state = "filtered_out" /\ Join(h, "named", f)
             /\ row' = [row EXCEPT ![f].state = "discovered", ![f].origins = @ \cup {"manual"}]
    BY <1>1, <2>2, NamedRow, JoinWell
  <2>3. CASE Join(h, "named", f) /\ row' = row
    BY <1>2, <2>3, JoinWell
  <2>4. CASE job' = [job EXCEPT ![h].at = "details", ![h].film = f] /\ row' = row
    <3>1. "details" \in Places /\ f \in Films \cup {None}
      BY DEF Places
    <3>2. Set(h, "details", job[h].task, f, job[h].todo)
      BY <1>1, <2>4, <3>1, SetAtFilm
    <3>3. WantsOf("details", job[h].task, f, job[h].todo, row')
      BY <1>1 DEF WantsOf
    <3> QED BY <1>1, <1>2, <2>4, <3>2, <3>3, OutsiderSets
  <2>5. CASE job' = [job EXCEPT ![h].at = "gone"] /\ row' = row
    <3>1. "gone" \in Places
      BY DEF Places
    <3>2. Set(h, "gone", job[h].task, job[h].film, job[h].todo)
      BY <1>1, <2>5, <3>1, SetAt
    <3>3. WantsOf("gone", job[h].task, job[h].film, job[h].todo, row')
      BY <1>1 DEF WantsOf
    <3> QED BY <1>1, <1>2, <2>5, <3>2, <3>3, OutsiderSets
  <2> QED BY <1>5, <2>2, <2>3, <2>4, <2>5 DEF NameFilm
<1>6. ASSUME NEW f \in Films, OrderReading(h, f) PROVE RoadMoves
  <2>1. Join(h, "again", f) /\ row' = row /\ Worded(row, f)
    BY <1>6 DEF OrderReading, Worded
  <2> QED BY <1>2, <2>1, JoinWell
<1>7. CASE DetailsCome(h)
  <2>1. job[h].at = "details" /\ job[h].film \in Films
    BY <1>1, <1>7 DEF DetailsCome, WantsOf
  <2>2. CASE /\ row' = Upsert(job[h].film, "manual", "discovered")
             /\ job' = [job EXCEPT ![h].at = "count", ![h].flight = meter]
    <3>1. "count" \in Places /\ meter \in [Units -> Nat]
      BY DEF Places, RoadFacts, MoneyFacts
    <3>2. Set(h, "count", job[h].task, job[h].film, job[h].todo)
      BY <1>1, <2>2, <3>1, SetAtFlight
    <3>3. shape[job[h].film] \in {"live", "fit", "unfit"}
      BY <2>1 DEF Sides
    <3>4. Onwards(row, row') /\ Spares(row, row')
      BY <1>1, <2>1, <2>2, <3>3, UpsertRow
    <3>5. WantsOf("count", job[h].task, job[h].film, job[h].todo, row')
      BY <1>1, <2>1 DEF WantsOf
    <3> QED BY <1>1, <3>2, <3>4, <3>5, OutsiderSets
  <2>3. CASE job' = [job EXCEPT ![h] = Idle("gone")] /\ row' = row
    BY <1>4, <2>3
  <2> QED BY <1>7, <2>2, <2>3 DEF DetailsCome, Film
<1>8. CASE CountDetails(h)
  <2>1. job[h].at = "count" /\ Join(h, "named", job[h].film) /\ row' = row
    BY <1>8 DEF CountDetails, Film
  <2>2. job[h].film \in Films
    BY <1>1, <2>1 DEF WantsOf
  <2> QED BY <1>2, <2>1, <2>2, JoinWell
<1>9. CASE CountFails(h)
  BY <1>4, <1>9 DEF CountFails
<1> QED BY <1>5, <1>6, <1>7, <1>8, <1>9 DEF Request

-----------------------------------------------------------------------------
(* The loop's turn comes, the process dies, and time passes.               *)
LEMMA TickWell ==
  ASSUME RoadFacts, RoadWell, Tick
  PROVE  RoadMoves
<1>1. /\ Loop \in Workers /\ row' = row /\ Table(row) /\ job \in [Workers -> Job]
      /\ job' = [job EXCEPT ![Loop].at = "queued", ![Loop].task = "pass"]
      /\ "queued" \in Places /\ "pass" \in Tasks \cup {None}
      /\ job[Loop].todo \subseteq Films
  BY WorkerFacts DEF Tick, Workers, Places, Tasks
<1>2. Set(Loop, "queued", "pass", job[Loop].film, job[Loop].todo)
  BY <1>1, SetAtTask
<1>3. WantsOf("queued", "pass", job[Loop].film, job[Loop].todo, row')
  BY <1>1 DEF WantsOf
<1> QED BY <1>1, <1>2, <1>3, RowSame, OutsiderSets

LEMMA CrashWell ==
  ASSUME RoadFacts, RoadWell, Crash
  PROVE  RoadMoves
<1>1. /\ row' = row /\ Table(row) /\ Loop \in Workers
      /\ job' = [w \in Workers |-> IF w = Loop THEN Idle("rest")
                                    ELSE IF job[w].at = "unused" THEN job[w] ELSE Idle("gone")]
  BY DEF Crash, RoadWell, Workers
<1>2. Onwards(row, row') /\ Spares(row, row')
  BY <1>1, RowSame
<1>3. \A s \in {"rest", "gone"} : Wants(Idle(s), row') /\ Idle(s).task = None
  BY IdleWants DEF Idle
<1>4. \A w \in Workers : Wants(job[w], row')
  BY <1>1 DEF RoadWell
<1>5. ASSUME NEW w \in Workers PROVE Wants(job'[w], row')
  BY <1>1, <1>3, <1>4
<1>6. job'[Loop] = Idle("rest")
  BY <1>1
<1>7. job'[Loop].task \notin {"named", "again"}
  BY <1>3, <1>6, RoadAssumption
<1> QED BY <1>2, <1>5, <1>7 DEF RoadMoves, RoadWell, Onwards

LEMMA MidnightWell ==
  ASSUME RoadFacts, RoadWell, Midnight
  PROVE  RoadMoves
<1>1. /\ row' = row /\ Table(row) /\ Loop \in Workers /\ job \in [Workers -> Job]
      /\ job' = [w \in Workers |-> [job[w] EXCEPT !.flight = Zero]]
  BY DEF Midnight, RoadWell, Workers, RoadFacts, Turns
<1>2. \A w \in Workers : /\ job'[w].at = job[w].at /\ job'[w].task = job[w].task
                         /\ job'[w].film = job[w].film /\ job'[w].todo = job[w].todo
  BY <1>1 DEF Job
<1>3. Onwards(row, row')
  BY <1>1, RowSame
<1>4. \A w \in Workers : Wants(job'[w], row')
  BY <1>1, <1>2 DEF RoadWell, Wants
<1>5. job'[Loop].task \notin {"named", "again"}
  BY <1>1, <1>2 DEF RoadWell
<1> QED BY <1>3, <1>4, <1>5 DEF RoadMoves, RoadWell, Onwards

LEMMA TimeWell ==
  ASSUME RoadWell, NEW f \in Films, Time(f)
  PROVE  RoadMoves
<1>1. Table(row)
  BY DEF RoadWell
<1>2. job' = job
  BY DEF Time, MissIsDue, WindowPasses, SulkEnds, StreamEnds
<1>3. MissIsDue(f) \/ WindowPasses(f) \/ row' = row
  BY DEF Time, SulkEnds, StreamEnds
<1>4. Onwards(row, row') /\ Spares(row, row')
  BY <1>1, <1>3, TimedRow, RowSame
<1> QED BY <1>2, <1>4, NobodyWell

(* Each step keeps what is wanted, and moves the rows onwards.             *)
LEMMA RoadWellStep == RoadFacts /\ RoadWell /\ Sides /\ [RoadNext]_road => RoadMoves
<1> SUFFICES ASSUME RoadFacts, RoadWell, Sides, [RoadNext]_road PROVE RoadMoves
  OBVIOUS
<1>1. ASSUME job' = job, row' = row PROVE RoadMoves
  <2>1. Onwards(row, row') /\ Spares(row, row')
    BY <1>1, RowSame DEF RoadWell
  <2> QED BY <1>1, <2>1, NobodyWell
<1>2. CASE UNCHANGED road \/ RestEnds
  BY <1>1, <1>2 DEF road, RestEnds
<1>3. CASE Tick
  BY <1>3, TickWell
<1>4. CASE Crash
  BY <1>4, CrashWell
<1>5. CASE Midnight
  BY <1>5, MidnightWell
<1>6. ASSUME NEW w \in Workers, Work(w) \/ Trouble(w) PROVE RoadMoves
  BY <1>6, WorkWell, TroubleWell
<1>7. ASSUME NEW h \in Hands, Request(h) PROVE RoadMoves
  BY <1>7, RequestWell
<1>8. ASSUME NEW f \in Films, Time(f) PROVE RoadMoves
  BY <1>8, TimeWell
<1> QED BY <1>2, <1>3, <1>4, <1>5, <1>6, <1>7, <1>8 DEF RoadNext

LEMMA RoadWellInit == RoadInit => RoadWell
<1> SUFFICES ASSUME RoadInit PROVE RoadWell
  OBVIOUS
<1>1. /\ row = [f \in Films |-> NoRow] /\ Loop \in Workers
      /\ job = [w \in Workers |-> Idle(IF w = Loop THEN "rest" ELSE "unused")]
  BY DEF RoadInit, Workers
<1>2. Table(row)
  BY <1>1, NoRowFields DEF Table
<1>3. \A w \in Workers : job[w] \in {Idle("rest"), Idle("unused")}
  BY <1>1
<1>4. \A s \in {"rest", "unused"} : Wants(Idle(s), row) /\ Idle(s).task = None
  BY IdleWants DEF Idle
<1> QED BY <1>1, <1>2, <1>3, <1>4, RoadAssumption DEF RoadWell

(* The rest of the types: what most steps leave alone,                     *)
LEMMA SidesStay ==
  ASSUME Sides, shape' = shape, unjudged' = unjudged, resting' \in BOOLEAN, sulking' \subseteq Films,
         mishaps' = mishaps \/ Fault
  PROVE  Sides'
<1>1. mishaps' \in 0..MaxFaults
  BY RoadAssumption DEF Sides, Fault
<1> QED BY <1>1 DEF Sides

(* and what the holder does to it, or anyone.                              *)
LEMMA WorkSides ==
  ASSUME RoadWell, Sides, NEW w \in Workers, Work(w)
  PROVE  Sides'
<1>0. resting \in BOOLEAN /\ sulking \subseteq Films
  BY DEF Sides
<1>1. CASE TakeTurn(w)
  BY <1>0, <1>1, SidesStay DEF TakeTurn, memory
<1>2. CASE Close(w)
  BY <1>0, <1>2, SidesStay DEF Close, memory
<1>3. ASSUME NEW f \in Films, ListChannel(w, f) PROVE Sides'
  BY <1>0, <1>3, SidesStay DEF ListChannel, memory
<1>4. CASE Judge(w)
  <2> DEFINE f == job[w].film
  <2>1. /\ shape' = shape /\ resting' = resting /\ sulking' = sulking /\ mishaps' = mishaps
    BY <1>4 DEF Judge
  <2>2. PICK n \in {unjudged[f], 0, unjudged[f] + 1} :
          /\ unjudged' = [unjudged EXCEPT ![f] = n]
          /\ n = unjudged[f] + 1 => n = unjudged[f] \/ n < JudgeMaxFailures \/ n = 0
    <3>1. PICK verdict \in {"passed", "turned away", "no verdict", "nobody"} :
            unjudged' = [unjudged EXCEPT ![f] =
                           CASE verdict = "nobody" -> @
                             [] verdict = "no verdict" /\ unjudged[f] + 1 < JudgeMaxFailures -> unjudged[f] + 1
                             [] OTHER -> 0]
      BY <1>4 DEF Judge, Film
    <3> HIDE DEF f
    <3> DEFINE m == CASE verdict = "nobody" -> unjudged[f]
                      [] verdict = "no verdict" /\ unjudged[f] + 1 < JudgeMaxFailures -> unjudged[f] + 1
                      [] OTHER -> 0
    <3>2. unjudged' = [unjudged EXCEPT ![f] = m]
      BY <3>1
    <3>3. m = unjudged[f] \/ (m = unjudged[f] + 1 /\ m < JudgeMaxFailures) \/ m = 0
      <4>1. CASE verdict = "nobody"
        BY <4>1
      <4>2. CASE verdict = "no verdict" /\ unjudged[f] + 1 < JudgeMaxFailures
        BY <4>2
      <4>3. CASE verdict # "nobody" /\ ~(verdict = "no verdict" /\ unjudged[f] + 1 < JudgeMaxFailures)
        BY <4>3
      <4> QED BY <4>1, <4>2, <4>3
    <3> HIDE DEF m
    <3> QED BY <3>2, <3>3
  <2>3. f \in Films
    <3>1. job[w].at = "judge" /\ Wants(job[w], row)
      BY <1>4 DEF Judge, At, RoadWell
    <3> QED BY <3>1 DEF Wants, WantsOf
  <2> HIDE DEF f
  <2>4. unjudged' \in [Films -> Nat] /\ \A g \in Films : unjudged'[g] < JudgeMaxFailures
    BY <2>2, <2>3, RoadAssumption DEF Sides
  <2> QED BY <2>1, <2>4 DEF Sides
<1>5. CASE ListingsEnd(w)
  BY <1>0, <1>5, SidesStay DEF ListingsEnd, memory
<1>6. CASE RefreshLive(w)
  BY <1>0, <1>6, SidesStay DEF RefreshLive, memory
<1>7. CASE Transcribe(w)
  <2>1. CASE StartTranscribing(w)
    BY <1>0, <2>1, SidesStay DEF StartTranscribing, EndsStep, memory
  <2>2. ASSUME NEW f \in Films, ChooseFilm(w, f) PROVE Sides'
    BY <1>0, <2>2, SidesStay DEF ChooseFilm, memory
  <2>3. CASE HearPiece(w)
    BY <1>0, <2>3, SidesStay DEF HearPiece
  <2>4. CASE HearNothing(w)
    BY <1>0, <2>4, SidesStay DEF HearNothing, memory
  <2>5. CASE Settle(w)
    BY <1>0, <2>5, SidesStay DEF Settle, memory
  <2> QED BY <1>7, <2>1, <2>2, <2>3, <2>4, <2>5 DEF Transcribe
<1>8. CASE ReadFilms(w)
  <2>1. CASE StartReading(w)
    BY <1>0, <2>1, SidesStay DEF StartReading, EndsStep, memory
  <2>2. ASSUME NEW f \in Films, PickReading(w, f) PROVE Sides'
    BY <1>0, <2>2, SidesStay DEF PickReading, memory
  <2>3. CASE ReadAgain(w)
    BY <1>0, <2>3, SidesStay DEF ReadAgain, memory
  <2>4. CASE ReadingComes(w)
    BY <1>0, <2>4, SidesStay DEF ReadingComes, memory
  <2>5. CASE SaveReading(w)
    BY <1>0, <2>5, SidesStay DEF SaveReading, memory
  <2> QED BY <1>8, <2>1, <2>2, <2>3, <2>4, <2>5 DEF ReadFilms
<1>9. CASE Tell(w)
  <2>1. CASE StartTelling(w)
    BY <1>0, <2>1, SidesStay DEF StartTelling, EndsStep, memory
  <2>2. ASSUME NEW f \in Films, TellFilm(w, f) PROVE Sides'
    BY <1>0, <2>2, SidesStay DEF TellFilm, memory
  <2>3. CASE Published(w)
    BY <1>0, <2>3, SidesStay DEF Published, memory
  <2> QED BY <1>9, <2>1, <2>2, <2>3 DEF Tell
<1> QED BY <1>1, <1>2, <1>3, <1>4, <1>5, <1>6, <1>7, <1>8, <1>9 DEF Work, Discover

LEMMA TroubleSides ==
  ASSUME RoadWell, Sides, NEW w \in Workers, Trouble(w)
  PROVE  Sides'
<1>0. resting \in BOOLEAN /\ sulking \subseteq Films
  BY DEF Sides
<1>1. CASE RefreshUnanswered(w)
  BY <1>0, <1>1, SidesStay DEF RefreshUnanswered, memory
<1>2. CASE HearBlocked(w)
  BY <1>0, <1>2, SidesStay DEF HearBlocked, memory
<1>3. CASE ReadingFails(w)
  BY <1>0, <1>3, SidesStay DEF ReadingFails, memory
<1>4. CASE NotPublished(w)
  <2>1. job[w].at = "publish" /\ Wants(job[w], row)
    BY <1>4 DEF NotPublished, At, RoadWell
  <2>2. job[w].film \in Films
    BY <2>1 DEF Wants, WantsOf
  <2> QED BY <1>0, <1>4, <2>2, SidesStay DEF NotPublished, Film
<1>5. CASE StatementFails(w)
  BY <1>0, <1>5, SidesStay DEF StatementFails, memory
<1>6. CASE FlushFails(w)
  BY <1>0, <1>6, SidesStay DEF FlushFails, memory
<1> QED BY <1>1, <1>2, <1>3, <1>4, <1>5, <1>6 DEF Trouble

LEMMA RequestSides ==
  ASSUME Sides, NEW h \in Hands, Request(h)
  PROVE  Sides'
<1>0. resting \in BOOLEAN /\ sulking \subseteq Films
  BY DEF Sides
<1>1. ASSUME NEW f \in Films, NameFilm(h, f) PROVE Sides'
  BY <1>0, <1>1, SidesStay DEF NameFilm, memory
<1>2. ASSUME NEW f \in Films, OrderReading(h, f) PROVE Sides'
  BY <1>0, <1>2, SidesStay DEF OrderReading, memory
<1>3. CASE DetailsCome(h)
  BY <1>0, <1>3, SidesStay DEF DetailsCome, memory
<1>4. CASE CountDetails(h)
  BY <1>0, <1>4, SidesStay DEF CountDetails, memory
<1>5. CASE CountFails(h)
  BY <1>0, <1>5, SidesStay DEF CountFails, memory
<1> QED BY <1>1, <1>2, <1>3, <1>4, <1>5 DEF Request

LEMMA SidesStep == RoadWell /\ Sides /\ [RoadNext]_road => Sides'
<1> SUFFICES ASSUME RoadWell, Sides, [RoadNext]_road PROVE Sides'
  OBVIOUS
<1>0. resting \in BOOLEAN /\ sulking \subseteq Films
  BY DEF Sides
<1>1. CASE UNCHANGED road
  BY <1>0, <1>1, SidesStay DEF road, memory
<1>2. CASE Tick
  BY <1>0, <1>2, SidesStay DEF Tick, memory
<1>3. CASE Crash
  <2>1. /\ shape' = shape /\ resting' = resting /\ Fault /\ sulking' = {}
        /\ unjudged' = [f \in Films |-> 0]
    BY <1>3 DEF Crash
  <2>2. mishaps' \in 0..MaxFaults
    BY <2>1, RoadAssumption DEF Sides, Fault
  <2>3. unjudged' \in [Films -> Nat] /\ \A f \in Films : unjudged'[f] < JudgeMaxFailures
    BY <2>1, RoadAssumption
  <2> QED BY <2>1, <2>2, <2>3 DEF Sides
<1>4. CASE Midnight
  BY <1>0, <1>4, SidesStay DEF Midnight, memory
<1>5. CASE RestEnds
  BY <1>0, <1>5, SidesStay DEF RestEnds, memory
<1>6. ASSUME NEW w \in Workers, Work(w) \/ Trouble(w) PROVE Sides'
  BY <1>6, WorkSides, TroubleSides
<1>7. ASSUME NEW h \in Hands, Request(h) PROVE Sides'
  BY <1>7, RequestSides
<1>8. ASSUME NEW f \in Films, Time(f) PROVE Sides'
  <2>1. CASE MissIsDue(f)
    BY <1>0, <2>1, SidesStay DEF MissIsDue, memory
  <2>2. CASE WindowPasses(f)
    BY <1>0, <2>2, SidesStay DEF WindowPasses, memory
  <2>3. CASE SulkEnds(f)
    BY <1>0, <2>3, SidesStay DEF SulkEnds
  <2>4. CASE StreamEnds(f)
    <3>1. /\ \E end \in {"fit", "unfit"} : shape' = [shape EXCEPT ![f] = end]
          /\ resting' = resting /\ unjudged' = unjudged /\ sulking' = sulking /\ mishaps' = mishaps
      BY <2>4 DEF StreamEnds, memory
    <3> QED BY <3>1 DEF Sides
  <2> QED BY <1>8, <2>1, <2>2, <2>3, <2>4 DEF Time
<1> QED BY <1>1, <1>2, <1>3, <1>4, <1>5, <1>6, <1>7, <1>8 DEF RoadNext

LEMMA SidesInit == RoadInit => Sides
<1> SUFFICES ASSUME RoadInit PROVE Sides
  OBVIOUS
<1>1. /\ shape = [f \in Films |-> IF f \in LiveAtFirst THEN "live" ELSE "fit"]
      /\ resting = FALSE /\ unjudged = [f \in Films |-> 0] /\ sulking = {} /\ mishaps = 0
  BY DEF RoadInit
<1>2. shape \in [Films -> {"live", "fit", "unfit"}]
  BY <1>1
<1>3. unjudged \in [Films -> Nat] /\ \A f \in Films : unjudged[f] < JudgeMaxFailures
  BY <1>1, RoadAssumption
<1>4. mishaps \in 0..MaxFaults
  BY <1>1, RoadAssumption
<1> QED BY <1>1, <1>2, <1>3, <1>4 DEF Sides

-----------------------------------------------------------------------------
(* All of it: the invariant.                                               *)
RoadInv == RoadFacts /\ RoadWell /\ Sides

LEMMA RoadInvHolds == RoadSpec => []RoadInv
<1>1. RoadInit => RoadInv
  BY RoadInvInit, RoadWellInit, SidesInit DEF RoadInv
<1>2. RoadInv /\ [RoadNext]_road => RoadInv'
  BY RoadFactsStep, RoadWellStep, SidesStep DEF RoadInv, RoadMoves
<1> QED BY <1>1, <1>2, PTL DEF RoadSpec

(* Every variable of the road keeps its type, the tries and the failures   *)
(* their bounds (ingest.py:525, store.py:511, :604).                       *)
THEOREM RoadTypesHold == RoadSpec => []RoadTypes
<1>1. RoadInv => RoadTypes
  <2> SUFFICES ASSUME RoadInv PROVE RoadTypes
    OBVIOUS
  <2>1. /\ line \in Seq(Workers) /\ \A w \in Workers : job[w].at \in Places
        /\ \A f \in Films : written[f] < Length[f]
        /\ usage \in [Units -> Nat] /\ meter \in [Units -> Nat] /\ billed \in [Units -> Nat]
        /\ astray \in BOOLEAN
    BY DEF RoadInv, RoadFacts, Turns, Pieces, MoneyFacts, Job
  <2>2. row \in [Films -> VideoRow] /\ \A w \in Workers : job[w].todo \subseteq Films
    BY DEF RoadInv, RoadWell, Table, Wants, WantsOf
  <2>3. /\ shape \in [Films -> {"live", "fit", "unfit"}] /\ resting \in BOOLEAN
        /\ \A f \in Films : unjudged[f] < JudgeMaxFailures
        /\ sulking \subseteq Films /\ mishaps \in 0..MaxFaults
    BY DEF RoadInv, Sides
  <2> QED BY <2>1, <2>2, <2>3 DEF RoadTypes, VideoRow
<1> QED BY <1>1, RoadInvHolds, PTL

(* Nothing is bought twice: a film is heard only while it has no words,    *)
(* and read by the pass only while it has words and no reading, whatever   *)
(* the requests do in the meantime (store.py:480, :542).                   *)
THEOREM NothingIsBoughtTwice == RoadSpec => []NothingBoughtTwice
<1>1. RoadInv => NothingBoughtTwice
  <2> SUFFICES ASSUME RoadInv, NEW w \in Workers PROVE HeardForItsWords(w) /\ ReadForItsWords(w)
    BY DEF NothingBoughtTwice
  <2>1. WantsOf(job[w].at, job[w].task, job[w].film, job[w].todo, row)
    BY DEF RoadInv, RoadWell, Wants
  <2>2. HeardForItsWords(w)
    BY <2>1 DEF WantsOf, ToHear, HeardForItsWords, Film
  <2>3. ReadForItsWords(w)
    BY <2>1 DEF WantsOf, ToRead, Worded, ReadForItsWords, Film
  <2> QED BY <2>2, <2>3
<1> QED BY <1>1, RoadInvHolds, PTL

(* A row only moves along the road, and a step at a time: no words, no     *)
(* reading and no word of what was told is lost again (store.py:405, :447, *)
(* :511, :519, :583, :604).                                                *)
THEOREM FilmsMoveOn == RoadSpec => RowsMoveOn
<1>1. RoadInv /\ [RoadNext]_road =>
        [\A f \in Films : row'[f].state # row[f].state => <<row[f].state, row'[f].state>> \in RoadSteps]_road
  BY RoadWellStep DEF RoadInv, RoadMoves, Onwards
<1> QED BY <1>1, RoadInvHolds, PTL DEF RoadSpec, RowsMoveOn
=============================================================================

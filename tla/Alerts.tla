------------------------------- MODULE Alerts -------------------------------
(***************************************************************************)
(* The alerts package: rules that look at a value or wait for an event,    *)
(* the fires they cause, and the clock that looks, and sends the fires     *)
(* through the door to Telegram a part at a time.                          *)
(*                                                                         *)
(* Time is what it makes true: an interval, a wait or a lease runs out, a  *)
(* cool-down ends, a delivery is an hour ago, a fire is too old to be news.*)
(* Left out: what is only told (reasons, history lines), the validation of *)
(* a rule, filters (an event matches every rule of its type), the limits   *)
(* of a batch, retention, and a process without a door.  A transaction is  *)
(* one step, but for publish, which is two: what it reads and its end.     *)
(***************************************************************************)
EXTENDS Naturals, FiniteSets

CONSTANTS
  Instance,   \* the processes that run a clock
  Rule, Once, \* the rules, and the ones that tell once
  Valued,     \* the rules of kind 'condition', the others are of kind 'event'
  Event,      \* the occurrences that are published, by source_key
  MaxEdge,    \* bound: edges a value rule sees
  Parts,      \* the parts of a message
  Cap,        \* max_per_hour
  MaxRule,    \* bound: rules there are at once
  MaxEdit,    \* bound: times the operator writes or switches a rule
  MaxFault    \* bound: crashes, failed statements, answers of the door that are lost

(* A fire is its rule and what set it off, as the table's keys have it.    *)
Fire == (Valued \X (1..MaxEdge)) \cup ((Rule \ Valued) \X Event)

ASSUME ConstantsAssumption ==
  /\ IsFiniteSet(Rule) /\ Once \subseteq Rule /\ Valued \subseteq Rule
  /\ IsFiniteSet(Event) /\ Event \cap Nat = {} /\ MaxEdge \in Nat /\ MaxRule \in Nat
  /\ Parts \in Nat \ {0} /\ Cap \in Nat \ {0}
  /\ MaxEdit \in Nat /\ MaxFault \in Nat

VARIABLES
  switch,   \* rules.enabled, with why not: "on", "off", "fired"; "gone" once deleted
  known,    \* rules.last_known_result
  fired,    \* the rules whose last_fired_at holds them back: for good, or for the cool-down
  due,      \* the value rules whose next_check_at has come
  noticed,  \* the rules whose throttle_notified_at is less than an hour ago
  edits,    \* how often each rule was written or switched
  state,    \* fires.state; "none" before, "gone" with its rule
  stale,    \* history: the fires of a rule as it was before its last edit
  sent,     \* fires.parts_sent
  ready,    \* the fires whose next_attempt_at has come
  old,      \* the fires older than the retry window
  recent,   \* the fires delivered in the last hour
  resumed,  \* history: the fires taken up with a part already sent
  told,     \* history: how often each part of a fire reached the phone
  events,   \* the events table
  reading,  \* the publish of each event under way, with the rules it read
  place,    \* where each clock is in its tick
  looks,    \* the rules claim_due handed it, as they were
  batch,    \* the fires claim_deliveries handed it, as they were
  job,      \* the fire it delivers, the parts sent of it, and the door's last word
  faults

rules     == <<switch, known, fired, due, noticed, edits>>
fires     == <<state, stale, sent, ready, old, recent, resumed, told>>
published == <<events, reading>>
clock     == <<place, looks, batch, job>>
vars      == <<rules, fires, published, clock, faults>>

Settled == {"delivered", "refused", "abandoned", "throttled"}
Places  == {"down", "idle", "looking", "delivering", "sending", "recording",
            "settling", "noticing", "telling", "releasing"}
NoJob   == [fire |-> <<>>, part |-> 0, answer |-> "ok"]

RuleOf(f) == f[1]
Pending   == {f \in Fire : state[f] = "pending"}

Fault == faults < MaxFault /\ faults' = faults + 1

Init ==
  /\ switch \in [Rule -> {"on", "gone"}]
  /\ Cardinality({r \in Rule : switch[r] = "on"}) \in 1..MaxRule
  /\ known = [r \in Rule |-> "none"]
  /\ fired = {} /\ due = {r \in Valued : switch[r] = "on"} /\ noticed = {} /\ edits = [r \in Rule |-> 0]
  /\ state = [f \in Fire |-> "none"]
  /\ sent = [f \in Fire |-> 0] /\ told = [f \in Fire |-> [k \in 1..Parts |-> 0]]
  /\ ready = {} /\ old = {} /\ recent = {} /\ resumed = {} /\ stale = {}
  /\ events = {} /\ reading = [e \in Event |-> {}]
  /\ place = [i \in Instance |-> "idle"]
  /\ looks = [i \in Instance |-> {}] /\ batch = [i \in Instance |-> {}]
  /\ job = [i \in Instance |-> NoJob]
  /\ faults = 0

Go(i, p) == place' = [place EXCEPT ![i] = p]

(* The fires of F, pending and ready, and their rules held back; v is what *)
(* their rules' edits were when they were read.                            *)
RecordFires(F, v) ==
  /\ state' = [f \in Fire |-> IF f \in F THEN "pending" ELSE state[f]]
  /\ stale' = stale \cup {f \in F : v[RuleOf(f)] # edits[RuleOf(f)]}
  /\ ready' = ready \cup F
  /\ fired' = fired \cup {RuleOf(f) : f \in F}

(* settle_fire: its last word, whatever the fire was.                      *)
SettleFire(f, s) ==
  /\ state' = [state EXCEPT ![f] = IF @ = "gone" THEN @ ELSE s]
  /\ ready' = ready \ {f} /\ old' = old \ {f}

(* reopen_once_rule                                                        *)
ReopenOnceRule(r) == fired' = IF r \in Once THEN fired \ {r} ELSE fired

(***************************************************************************)
(* Clock.tick: the looks                                                   *)
(***************************************************************************)

(* claim_due: every rule whose turn has come, moved on by its interval.    *)
ClaimDue(i) ==
  /\ place[i] = "idle"
  /\ looks' = [looks EXCEPT ![i] =
       {[rule |-> r, known |-> known[r], fired |-> r \in fired, edits |-> edits[r]] :
          r \in {s \in due : switch[s] = "on"}}]
  /\ due' = {r \in due : switch[r] # "on"}
  /\ Go(i, "looking")
  /\ UNCHANGED <<switch, known, fired, noticed, edits, fires, published, batch, job, faults>>

(* Mutant: a crossing is a crossing, whatever was told.                    *)
FiresAgain(l, result) == result = "yes" /\ l.known = "no"

(* decide: on the step from no to yes, from what the claim returned.       *)
Fires(l, result) == result = "yes" /\ l.known = "no" /\ ~l.fired

(* A crossing is named by the moment of its tick: one not used yet.        *)
Edge(r) == {<<r, n>> : n \in {m \in 1..MaxEdge : \A k \in m..MaxEdge : state[<<r, k>>] = "none"}}
NextEdge(r) == {f \in Edge(r) : \A g \in Edge(r) : f[2] <= g[2]}

(* _check: the tool answers, or has nothing to say, and what it means is   *)
(* written in one transaction; of a rule deleted meanwhile nothing is.     *)
Check(i, l) ==
  /\ l \in looks[i]
  /\ looks' = [looks EXCEPT ![i] = @ \ {l}]
  /\ \E result \in {"yes", "no", "none"} :
       IF switch[l.rule] = "gone" THEN UNCHANGED <<known, fired, state, stale, ready>>
       ELSE /\ known' = IF result = "none" THEN known ELSE [known EXCEPT ![l.rule] = result]
            /\ IF Fires(l, result)
               THEN /\ NextEdge(l.rule) # {}
                    /\ RecordFires(NextEdge(l.rule), [r \in Rule |-> l.edits])
               ELSE UNCHANGED <<fired, state, stale, ready>>
  /\ UNCHANGED <<switch, due, noticed, edits, sent, old, recent, resumed, told,
                 published, place, batch, job, faults>>

(***************************************************************************)
(* Deliverer.run                                                           *)
(***************************************************************************)

(* claim_deliveries: what is pending and ready, leased.                    *)
ClaimDeliveries(i) ==
  /\ place[i] = "looking" /\ looks[i] = {}
  /\ batch' = [batch EXCEPT ![i] =
       {[fire |-> f, sent |-> sent[f], enabled |-> switch[RuleOf(f)] = "on"] :
          f \in Pending \cap ready}]
  /\ ready' = ready \ Pending
  /\ Go(i, "delivering")
  /\ UNCHANGED <<rules, state, stale, sent, old, recent, resumed, told, published,
                 looks, job, faults>>

TickEnds(i) ==
  /\ place[i] = "delivering" /\ batch[i] = {}
  /\ Go(i, "idle")
  /\ UNCHANGED <<rules, fires, published, looks, batch, job, faults>>

(* The row is next in the loop over what was claimed.                      *)
Take(i, b) ==
  /\ place[i] = "delivering" /\ b \in batch[i]
  /\ batch' = [batch EXCEPT ![i] = @ \ {b}]

(* Mutant: no retry window.                                                *)
LateIfOff(b) == ~b.enabled

Late(b) == b.fire \in old \/ ~b.enabled

(* Mutant: a fire that is let go leaves its once rule as it is.            *)
GiveUpForGood(i, b) ==
  /\ Take(i, b) /\ Late(b)
  /\ SettleFire(b.fire, "abandoned") /\ UNCHANGED fired
  /\ UNCHANGED <<switch, known, due, noticed, edits, stale, sent, recent, resumed,
                 told, published, place, looks, job, faults>>

(* Too late to be news, or its rule was switched off: let go.              *)
GiveUp(i, b) ==
  /\ Take(i, b) /\ Late(b)
  /\ SettleFire(b.fire, "abandoned") /\ ReopenOnceRule(RuleOf(b.fire))
  /\ UNCHANGED <<switch, known, due, noticed, edits, stale, sent, recent, resumed,
                 told, published, place, looks, job, faults>>

(* _throttled asks only for a fire of which nothing was sent.              *)
OverCap(b) == b.sent = 0 /\ Cardinality({f \in recent : RuleOf(f) = RuleOf(b.fire)}) >= Cap

Throttle(i, b) ==
  /\ Take(i, b) /\ ~Late(b) /\ OverCap(b)
  /\ SettleFire(b.fire, "throttled")
  /\ job' = [job EXCEPT ![i] = [NoJob EXCEPT !.fire = b.fire]] /\ Go(i, "noticing")
  /\ UNCHANGED <<rules, stale, sent, recent, resumed, told, published, looks, faults>>

(* Mutant: every attempt starts with the first part.                       *)
BeginFromStart(i, b) ==
  /\ Take(i, b) /\ ~Late(b) /\ ~OverCap(b)
  /\ job' = [job EXCEPT ![i] = [fire |-> b.fire, part |-> 0, answer |-> "ok"]]
  /\ Go(i, IF b.sent = Parts THEN "settling" ELSE "sending")
  /\ resumed' = IF b.sent > 0 THEN resumed \cup {b.fire} ELSE resumed
  /\ UNCHANGED <<rules, state, stale, sent, ready, old, recent, told, published, looks, faults>>

(* The parts not sent yet follow; none is left if a crash came after the   *)
(* last.                                                                   *)
BeginSending(i, b) ==
  /\ Take(i, b) /\ ~Late(b) /\ ~OverCap(b)
  /\ job' = [job EXCEPT ![i] = [fire |-> b.fire, part |-> b.sent, answer |-> "ok"]]
  /\ Go(i, IF b.sent = Parts THEN "settling" ELSE "sending")
  /\ resumed' = IF b.sent > 0 THEN resumed \cup {b.fire} ELSE resumed
  /\ UNCHANGED <<rules, state, stale, sent, ready, old, recent, told, published, looks, faults>>

(* Mutant: a part that did not go does not keep the next one back.         *)
SendPartNoBreak(i) ==
  /\ place[i] = "sending" /\ Go(i, "recording")
  /\ \E a \in {"ok", "transient"} :
       /\ job' = [job EXCEPT ![i].answer = a]
       /\ told' = IF a = "ok" THEN [told EXCEPT ![job[i].fire][job[i].part + 1] = @ + 1] ELSE told
  /\ UNCHANGED <<rules, state, stale, sent, ready, old, recent, resumed, published, looks, batch,
                 faults>>

(* The door's answer to one part: taken, or for now not, or never; or the  *)
(* phone has it and the answer was lost, which reads as for now not.       *)
SendPart(i) ==
  /\ place[i] = "sending"
  /\ LET f == job[i].fire
         here == [told EXCEPT ![f][job[i].part + 1] = @ + 1]
     IN \/ told' = here /\ Go(i, "recording") /\ UNCHANGED <<job, faults>>
        \/ /\ \E a \in {"transient", "refused"} : job' = [job EXCEPT ![i].answer = a]
           /\ Go(i, "settling") /\ UNCHANGED <<told, faults>>
        \/ /\ Fault /\ told' = here
           /\ job' = [job EXCEPT ![i].answer = "transient"] /\ Go(i, "settling")
  /\ UNCHANGED <<rules, state, stale, sent, ready, old, recent, resumed, published, looks, batch>>

(* part_sent                                                               *)
PartSent(i) ==
  /\ place[i] = "recording"
  /\ LET f == job[i].fire IN
       sent' = IF state[f] = "gone" THEN sent ELSE [sent EXCEPT ![f] = @ + 1]
  /\ job' = [job EXCEPT ![i].part = @ + 1]
  /\ Go(i, IF job[i].part + 1 = Parts THEN "settling" ELSE "sending")
  /\ UNCHANGED <<rules, state, stale, ready, old, recent, resumed, told, published, looks,
                 batch, faults>>

Done(i) == Go(i, "delivering") /\ job' = [job EXCEPT ![i] = NoJob]

(* finish_once_rule: whatever the rule was made meanwhile.                 *)
FinishOnceRule(r) ==
  /\ switch' = [switch EXCEPT ![r] = IF r \in Once /\ @ # "gone" THEN "fired" ELSE @]
  /\ due' = IF r \in Once THEN due \ {r} ELSE due

(* The one transaction after the parts: the last answer decides.           *)
Settle(i) ==
  /\ place[i] = "settling" /\ Done(i)
  /\ LET f == job[i].fire
     IN \/ /\ job[i].answer = "ok" /\ SettleFire(f, "delivered")
           /\ recent' = IF state[f] = "gone" THEN recent ELSE recent \cup {f}
           /\ FinishOnceRule(RuleOf(f)) /\ UNCHANGED fired
        \/ /\ job[i].answer = "transient" /\ ready' = ready \ {f}
           /\ UNCHANGED <<state, old, recent, switch, due, fired>>
        \/ /\ job[i].answer = "refused" /\ SettleFire(f, "refused")
           /\ ReopenOnceRule(RuleOf(f)) /\ UNCHANGED <<recent, switch, due>>
  /\ UNCHANGED <<known, noticed, edits, stale, sent, resumed, told, published,
                 looks, batch, faults>>

(* claim_throttle_notice: mine, if nobody said so this hour.               *)
ClaimNotice(i) ==
  /\ place[i] = "noticing"
  /\ LET r == RuleOf(job[i].fire) IN
       IF r \in noticed \/ switch[r] = "gone" THEN Done(i) /\ UNCHANGED noticed
       ELSE noticed' = noticed \cup {r} /\ Go(i, "telling") /\ UNCHANGED job
  /\ UNCHANGED <<switch, known, fired, due, edits, fires, published, looks, batch, faults>>

(* The notice is taken by the door, or not.                                *)
TellNotice(i) ==
  /\ place[i] = "telling"
  /\ \/ Done(i)
     \/ Go(i, "releasing") /\ UNCHANGED job
  /\ UNCHANGED <<rules, fires, published, looks, batch, faults>>

ReleaseNotice(i) ==
  /\ place[i] = "releasing" /\ Done(i)
  /\ noticed' = noticed \ {RuleOf(job[i].fire)}
  /\ UNCHANGED <<switch, known, fired, due, edits, fires, published, looks, batch, faults>>

(* A statement fails: the look is lost for one interval, the fire is left  *)
(* leased, and the tick goes on with the next.                             *)
StatementFails(i) ==
  /\ Fault
  /\ \/ /\ place[i] \in {"recording", "settling", "noticing", "releasing"} /\ Done(i)
        /\ UNCHANGED <<looks, batch>>
     \/ /\ \E b \in batch[i] : Take(i, b)
        /\ UNCHANGED <<place, looks, job>>
     \/ /\ \E l \in looks[i] : looks' = [looks EXCEPT ![i] = @ \ {l}]
        /\ UNCHANGED <<place, batch, job>>
  /\ UNCHANGED <<rules, fires, published>>

(* The process ends where it is; the next one knows only the tables.       *)
Crash(i) ==
  /\ place[i] # "down" /\ Fault
  /\ Go(i, "down")
  /\ looks' = [looks EXCEPT ![i] = {}] /\ batch' = [batch EXCEPT ![i] = {}]
  /\ job' = [job EXCEPT ![i] = NoJob]
  /\ UNCHANGED <<rules, fires, published>>

Start(i) ==
  /\ place[i] = "down" /\ Go(i, "idle")
  /\ UNCHANGED <<rules, fires, published, looks, batch, job, faults>>

(***************************************************************************)
(* publish                                                                 *)
(***************************************************************************)

Listening(e) == {r \in Rule \ Valued : switch[r] = "on" /\ r \notin fired}

(* The event is inserted, unless it is there, and the rules of its type    *)
(* are read; a second publish of it waits for the first.  An event nobody  *)
(* listens to leaves only itself behind, and is left out.                  *)
Publish(e) ==
  /\ e \notin events /\ reading[e] = {} /\ Listening(e) # {}
  /\ reading' = [reading EXCEPT ![e] = [rule : Listening(e), edits : {edits}]]
  /\ UNCHANGED <<rules, fires, events, clock, faults>>

(* The fires, and the transaction's end.                                   *)
PublishCommits(e) ==
  /\ reading[e] # {} /\ \A l \in reading[e] : switch[l.rule] # "gone"
  /\ RecordFires({<<l.rule, e>> : l \in reading[e]}, (CHOOSE l \in reading[e] : TRUE).edits)
  /\ events' = events \cup {e}
  /\ reading' = [reading EXCEPT ![e] = {}]
  /\ UNCHANGED <<switch, known, due, noticed, edits, sent, old, recent, resumed, told,
                 clock, faults>>

(* A rule is gone, or a statement fails: nothing of it is there, and the   *)
(* producer that heard nothing may ask again.                              *)
PublishFails(e) ==
  /\ reading[e] # {}
  /\ \/ (\E l \in reading[e] : switch[l.rule] = "gone") /\ UNCHANGED faults
     \/ Fault
  /\ reading' = [reading EXCEPT ![e] = {}]
  /\ UNCHANGED <<rules, fires, events, clock>>

(***************************************************************************)
(* The operator: routers/rules.py                                          *)
(***************************************************************************)

Edit(r) ==
  /\ switch[r] # "gone" /\ edits[r] < MaxEdit
  /\ edits' = [edits EXCEPT ![r] = @ + 1]
  /\ stale' = stale \cup {f \in Fire : RuleOf(f) = r /\ state[f] # "none"}

(* What switching on and writing again have in common.                     *)
Rearm(r, on) ==
  /\ switch' = [switch EXCEPT ![r] = IF on THEN "on" ELSE "off"]
  /\ due' = IF on /\ r \in Valued THEN due \cup {r} ELSE due \ {r}
  /\ known' = [known EXCEPT ![r] = "none"]
  /\ ReopenOnceRule(r)

ReplaceRule(r) ==
  /\ Edit(r)
  /\ \E on \in BOOLEAN : Rearm(r, on)
  /\ noticed' = noticed \ {r}
  /\ UNCHANGED <<state, sent, ready, old, recent, resumed, told, published, clock, faults>>

SetEnabled(r) ==
  /\ Edit(r)
  /\ \/ Rearm(r, TRUE)
     \/ /\ switch' = [switch EXCEPT ![r] = "off"] /\ due' = due \ {r}
        /\ UNCHANGED <<known, fired>>
  /\ UNCHANGED <<noticed, state, sent, ready, old, recent, resumed, told, published, clock,
                 faults>>

(* Its fires go with it.                                                   *)
DeleteRule(r) ==
  /\ switch[r] # "gone" /\ edits[r] < MaxEdit
  /\ switch' = [switch EXCEPT ![r] = "gone"]
  /\ due' = due \ {r} /\ fired' = fired \ {r} /\ noticed' = noticed \ {r}
  /\ known' = [known EXCEPT ![r] = "none"]
  /\ LET its == {f \in Fire : RuleOf(f) = r} IN
       /\ state' = [f \in Fire |-> IF f \in its /\ state[f] # "none" THEN "gone" ELSE state[f]]
       /\ ready' = ready \ its /\ recent' = recent \ its /\ old' = old \ its
  /\ UNCHANGED <<edits, stale, sent, resumed, told, published, clock, faults>>

(***************************************************************************)
(* Time.  A tick goes by the moment it began at, so what time brings comes *)
(* while a clock is not in one.                                            *)
(***************************************************************************)

Between == \E i \in Instance : place[i] \in {"idle", "down"}

IntervalEnds(r) ==
  /\ Between /\ r \in Valued \ due /\ switch[r] = "on"
  /\ due' = due \cup {r}
  /\ UNCHANGED <<switch, known, fired, noticed, edits, fires, published, clock, faults>>

CooldownEnds(r) ==
  /\ r \in fired \ Once
  /\ fired' = fired \ {r}
  /\ UNCHANGED <<switch, known, due, noticed, edits, fires, published, clock, faults>>

WaitEnds(f) ==
  /\ Between /\ f \in Pending \ ready
  /\ ready' = ready \cup {f}
  /\ UNCHANGED <<rules, state, stale, sent, old, recent, resumed, told, published, clock, faults>>

GrowsOld(f) ==
  /\ Between /\ f \in Pending \ old
  /\ old' = old \cup {f}
  /\ UNCHANGED <<rules, state, stale, sent, ready, recent, resumed, told, published, clock, faults>>

HourEnds ==
  /\ Between
  /\ recent # {} \/ noticed # {}
  /\ recent' = {} /\ noticed' = {}
  /\ UNCHANGED <<switch, known, fired, due, edits, state, stale, sent, ready, old, resumed,
                 told, published, clock, faults>>

-----------------------------------------------------------------------------

(* What a clock does on its own, whatever it is answered.                  *)
TickStep(i) ==
  \/ Start(i) \/ ClaimDue(i) \/ ClaimDeliveries(i) \/ TickEnds(i)
  \/ \E l \in looks[i] : Check(i, l)
  \/ \E b \in batch[i] : GiveUp(i, b) \/ Throttle(i, b) \/ BeginSending(i, b)
  \/ SendPart(i) \/ PartSent(i) \/ Settle(i)
  \/ ClaimNotice(i) \/ TellNotice(i) \/ ReleaseNotice(i)

Next ==
  \/ \E i \in Instance : TickStep(i) \/ StatementFails(i) \/ Crash(i)
  \/ \E e \in Event : Publish(e) \/ PublishCommits(e) \/ PublishFails(e)
  \/ \E r \in Rule : ReplaceRule(r) \/ SetEnabled(r) \/ DeleteRule(r)
                     \/ IntervalEnds(r) \/ CooldownEnds(r)
  \/ \E f \in Fire : WaitEnds(f) \/ GrowsOld(f)
  \/ HourEnds

Spec == Init /\ [][Next]_vars

(* The loop ticks and time passes; nobody has to publish, the door may     *)
(* answer "not now" for ever.                                              *)
Fairness ==
  /\ \A i \in Instance : WF_vars(TickStep(i))
  /\ SF_vars(\E f \in Fire : WaitEnds(f)) /\ SF_vars(\E f \in Fire : GrowsOld(f))

FairSpec == Spec /\ Fairness

(***************************************************************************)
(* Properties                                                              *)
(***************************************************************************)

TypeOK ==
  /\ switch \in [Rule -> {"on", "off", "fired", "gone"}]
  /\ known \in [Rule -> {"none", "yes", "no"}] /\ edits \in [Rule -> 0..MaxEdit]
  /\ fired \subseteq Rule /\ due \subseteq Valued /\ noticed \subseteq Rule
  /\ state \in [Fire -> Settled \cup {"none", "pending", "gone"}]
  /\ sent \in [Fire -> 0..Parts]
  /\ told \in [Fire -> [1..Parts -> 0..(1 + MaxFault)]]
  /\ \A F \in {ready, old, recent, resumed, stale} : F \subseteq Fire
  /\ events \subseteq Event
  /\ place \in [Instance -> Places]
  /\ \A i \in Instance : /\ job[i].fire \in Fire \cup {<<>>} /\ job[i].part \in 0..Parts
                         /\ \A b \in batch[i] : b.fire \in Fire /\ b.sent \in 0..Parts

(* "Never one lost": what is settled as delivered reached the phone with   *)
(* every part, whatever was retried, resumed or interrupted.               *)
DeliveredIsWhole ==
  \A f \in Fire : state[f] = "delivered" => \A k \in 1..Parts : told[f][k] > 0

(* "Possibly told twice" is what a crash, a failed write or a lost answer  *)
(* costs, and no retry: without one no part is told again.                 *)
ToldTwiceByFaultsOnly ==
  \A f \in Fire : \A k \in 1..Parts : told[f][k] > 0 => told[f][k] <= 1 + faults

(* A value rule that tells once delivers once, if nobody writes it again   *)
(* or switches it.  Event rules are outside: two events published side by  *)
(* side both find the rule silent, and both are told                       *)
(* (publishing.py _consider reads last_fired_at with no lock).             *)
OnceTellsOnce ==
  \A r \in Once \cap Valued :
    edits[r] = 0 => Cardinality({f \in Fire : RuleOf(f) = r /\ state[f] = "delivered"}) <= 1

(* A once rule that is on and holds its fire has one on the way: else it   *)
(* would be mute for good.  A throttled fire is the exception.             *)
OnceIsNotMute ==
  \A r \in Once : r \in fired /\ switch[r] = "on" =>
    \E f \in Fire : RuleOf(f) = r /\ state[f] \in {"pending", "throttled"}

(* A fire has one last word: it is caused, settled and at most deleted     *)
(* with its rule, never the other way, and of a fire that is settled       *)
(* nothing more reaches the phone.                                         *)
FireMoves(f) ==
  \/ state[f] = "none" /\ state'[f] = "pending"
  \/ state[f] = "pending" /\ state'[f] \in Settled
  \/ state[f] # "none" /\ state'[f] = "gone" /\ switch'[RuleOf(f)] = "gone"

SettledIsSettled ==
  [][\A f \in Fire : /\ state'[f] = state[f] \/ FireMoves(f)
                     /\ state[f] \in Settled => told'[f] = told[f]]_vars

(* A fire is settled in the end, though the door never takes it.           *)
EveryFireSettles ==
  \A f \in Fire : state[f] = "pending" ~> state[f] # "pending"

(* store.finish_once_rule: "A one-time rule that has said its one thing:   *)
(* switched off" - a rule that was written again has not said its new one. *)
SwitchedOffAfterItTold ==
  [][\A r \in Rule : switch[r] = "on" /\ switch'[r] = "fired" =>
       \E f \in Fire : RuleOf(f) = r /\ state'[f] = "delivered" /\ f \notin stale']_vars
=============================================================================

---------------------------- MODULE AlertsProofs ----------------------------
(***************************************************************************)
(* Proofs about Alerts, for any rules, events and parts of a message, and  *)
(* any number of edits and faults.                                         *)
(*                                                                         *)
(* That a once rule is never mute holds of any number of clocks.  The rest *)
(* is about one: the lease is taken for a whole batch, by the moment its   *)
(* tick began at, so with two clocks it may run out under the one that     *)
(* still sends, and nothing in the code stops the other.                   *)
(***************************************************************************)
EXTENDS Alerts, FiniteSetTheorems, TLAPS

(* The process that runs the clock is the only one.                        *)
OneClock == \A i, j \in Instance : i = j

Sending == {"sending", "recording", "settling"}
Busy    == Sending \cup {"noticing", "telling", "releasing"}

(***************************************************************************)
(* The shape of every variable, whatever the number of clocks.             *)
(***************************************************************************)
Look    == [rule : Valued, known : {"none", "yes", "no"}, fired : BOOLEAN, edits : 0..MaxEdit]
Claimed == [fire : Fire, sent : Nat, enabled : BOOLEAN]
Job     == [fire : Fire \cup {<<>>}, part : Nat, answer : {"ok", "transient", "refused"}]

Shape ==
  /\ switch \in [Rule -> {"on", "off", "fired", "gone"}]
  /\ known \in [Rule -> {"none", "yes", "no"}] /\ edits \in [Rule -> 0..MaxEdit]
  /\ fired \subseteq Rule /\ due \subseteq Valued /\ noticed \subseteq Rule
  /\ state \in [Fire -> Settled \cup {"none", "pending", "gone"}]
  /\ sent \in [Fire -> Nat] /\ told \in [Fire -> [1..Parts -> Nat]]
  /\ ready \subseteq Fire /\ old \subseteq Fire /\ recent \subseteq Fire
  /\ resumed \subseteq Fire /\ stale \subseteq Fire
  /\ events \subseteq Event
  /\ reading \in [Event -> SUBSET [rule : Rule \ Valued, edits : [Rule -> 0..MaxEdit]]]
  /\ place \in [Instance -> Places]
  /\ looks \in [Instance -> SUBSET Look] /\ batch \in [Instance -> SUBSET Claimed]
  /\ job \in [Instance -> Job]
  /\ \A i \in Instance : place[i] \in Busy => job[i].fire \in Fire
  /\ faults \in 0..MaxFault

(***************************************************************************)
(* What the one clock holds is its own: the fires of its batch and the one *)
(* it sends are all different, and still pending unless their rule is      *)
(* gone.                                                                   *)
(***************************************************************************)
Held ==
  \A i \in Instance :
    /\ looks[i] # {} => place[i] = "looking"
    /\ batch[i] # {} => place[i] \in Busy \cup {"delivering"}
    /\ \A b \in batch[i] : state[b.fire] \in {"pending", "gone"}
    /\ \A b, c \in batch[i] : b.fire = c.fire => b = c
    /\ place[i] \in Sending => state[job[i].fire] \in {"pending", "gone"}
    /\ place[i] \in Busy => \A b \in batch[i] : b.fire # job[i].fire

(* A fire that is gone is of a rule that is, and an event leaves no fire   *)
(* before it is published.                                                 *)
Gone ==
  /\ \A f \in Fire : state[f] = "gone" => switch[RuleOf(f)] = "gone"
  /\ \A f \in Fire : switch[RuleOf(f)] = "gone" => state[f] \in {"none", "gone"}
  /\ \A e \in Event : reading[e] # {} => e \notin events
  /\ \A f \in Fire : RuleOf(f) \notin Valued /\ f[2] \notin events => state[f] = "none"

(* What is noted as sent has reached the phone, and the clock knows it.    *)
Noted ==
  /\ \A f \in Fire : sent[f] <= Parts /\ \A k \in 1..sent[f] : told[f][k] > 0
  /\ \A f \in Fire : state[f] = "none" => sent[f] = 0 /\ \A k \in 1..Parts : told[f][k] = 0
  /\ \A i \in Instance :
       /\ \A b \in batch[i] : b.sent = sent[b.fire]
       /\ place[i] \in Sending =>
            LET f == job[i].fire IN
            /\ job[i].part <= Parts /\ (place[i] # "settling" => job[i].part < Parts)
            /\ sent[f] <= job[i].part /\ (state[f] = "pending" => sent[f] = job[i].part)
            /\ \A k \in 1..job[i].part : told[f][k] > 0
            /\ place[i] = "recording" => told[f][job[i].part + 1] > 0
            /\ place[i] = "settling" /\ job[i].answer = "ok" => job[i].part = Parts

(* A part the tables do not have as sent was told by faults only.          *)
Known(i) == job[i].part + (IF place[i] = "recording" THEN 1 ELSE 0)

Counted ==
  /\ \A f \in Fire, k \in 1..Parts : told[f][k] <= 1 + faults
  /\ \A f \in Fire : 
       state[f] = "pending" /\ (\A i \in Instance : place[i] \in Sending => job[i].fire # f) =>
         \A k \in 1..Parts : k > sent[f] => told[f][k] <= faults
  /\ \A i \in Instance :
       /\ \A b \in batch[i], k \in 1..Parts : k > b.sent => told[b.fire][k] <= faults
       /\ place[i] \in Sending =>
            \A k \in 1..Parts : k > Known(i) => told[job[i].fire][k] <= faults

(* A once rule nobody wrote again has one fire that is pending or          *)
(* delivered at most, which holds it back.                                 *)
Telling(f) == state[f] \in {"pending", "delivered"}

OnceInv ==
  /\ \A r \in Once \cap Valued : edits[r] = 0 =>
       /\ \A f, g \in Fire : RuleOf(f) = r /\ RuleOf(g) = r /\ Telling(f) /\ Telling(g) => f = g
       /\ \A f \in Fire : RuleOf(f) = r /\ Telling(f) => r \in fired
  /\ \A i \in Instance :
       /\ \A l, m \in looks[i] : l.rule = m.rule => l = m
       /\ \A l \in looks[i] : l.rule \in Once /\ edits[l.rule] = 0 /\ ~l.fired =>
            \A f \in Fire : RuleOf(f) = l.rule => ~Telling(f)

LEMMA FireFacts ==
  /\ \A f \in Fire : RuleOf(f) \in Rule
  /\ \A f \in Fire : RuleOf(f) \notin Valued => f[2] \in Event
  /\ \A r \in Rule \ Valued, e \in Event : <<r, e>> \in Fire /\ RuleOf(<<r, e>>) = r
  /\ \A r \in Valued, n \in 1..MaxEdge : <<r, n>> \in Fire /\ RuleOf(<<r, n>>) = r
BY ConstantsAssumption DEF Fire, RuleOf

(* The next edge of a rule is a fire that never was.                       *)
LEMMA NextEdgeFacts ==
  ASSUME NEW r \in Valued
  PROVE  \A f \in NextEdge(r) : f \in Fire /\ RuleOf(f) = r /\ state[f] = "none"
         /\ \A g \in NextEdge(r) : g = f
<1>1. MaxEdge \in Nat
  BY ConstantsAssumption
<1>2. ASSUME NEW f \in Edge(r)
      PROVE  \E n \in 1..MaxEdge : f = <<r, n>> /\ state[<<r, n>>] = "none"
  BY <1>1 DEF Edge
<1>3. \A f \in NextEdge(r) : f \in Edge(r)
  BY DEF NextEdge
<1>4. \A f \in NextEdge(r) : f \in Fire /\ RuleOf(f) = r /\ state[f] = "none"
  BY <1>2, <1>3, FireFacts
<1>5. ASSUME NEW f \in NextEdge(r), NEW g \in NextEdge(r)
      PROVE  f = g
  <2>1. PICK n \in 1..MaxEdge : f = <<r, n>>
    BY <1>2, <1>3
  <2>2. PICK m \in 1..MaxEdge : g = <<r, m>>
    BY <1>2, <1>3
  <2>3. f[2] <= g[2] /\ g[2] <= f[2]
    BY <1>3 DEF NextEdge
  <2> QED BY <2>1, <2>2, <2>3
<1> QED BY <1>4, <1>5

(* The initial state has the shape.                                        *)
LEMMA ShapeInit == Init => Shape
<1> SUFFICES ASSUME Init PROVE Shape
  OBVIOUS
<1>1. NoJob \in Job
  BY DEF NoJob, Job
<1>2. 0 \in 0..MaxEdit /\ 0 \in 0..MaxFault
  BY ConstantsAssumption
<1> QED BY <1>1, <1>2 DEF Init, Shape, Settled, Places, Busy, Sending

(* So has every state after a look.                                        *)
LEMMA ShapeLook ==
  ASSUME Shape, NEW i \in Instance, ClaimDue(i) \/ \E l \in looks[i] : Check(i, l)
  PROVE  Shape'
<1>1. CASE ClaimDue(i)
  <2> DEFINE S == {[rule |-> r, known |-> known[r], fired |-> r \in fired, edits |-> edits[r]] :
                     r \in {s \in due : switch[s] = "on"}}
  <2>1. S \in SUBSET Look
    <3> SUFFICES ASSUME NEW r \in Valued PROVE [rule |-> r, known |-> known[r], fired |-> r \in fired, edits |-> edits[r]] \in Look
      BY DEF Shape
    <3>1. known[r] \in {"none", "yes", "no"} /\ edits[r] \in 0..MaxEdit /\ (r \in fired) \in BOOLEAN
      BY ConstantsAssumption DEF Shape
    <3> QED BY <3>1 DEF Look
  <2>2. looks' = [looks EXCEPT ![i] = S] /\ due' \subseteq due /\ Go(i, "looking")
        /\ UNCHANGED <<switch, known, fired, noticed, edits, fires, published, batch, job, faults>>
    BY <1>1 DEF ClaimDue
  <2> HIDE DEF S
  <2>3. place' \in [Instance -> Places] /\ looks' \in [Instance -> SUBSET Look]
        /\ \A j \in Instance : place'[j] \in Busy => job[j].fire \in Fire
    BY <2>1, <2>2 DEF Shape, Go, Places, Busy, Sending
  <2> QED BY <2>2, <2>3 DEF Shape, fires, published
<1>2. ASSUME NEW l \in looks[i], Check(i, l) PROVE Shape'
  <2>1. l \in Look /\ l.rule \in Valued /\ l.rule \in Rule
    BY ConstantsAssumption DEF Shape, Look
  <2>2. looks' \in [Instance -> SUBSET Look]
    BY <1>2 DEF Check, Shape
  <2>3. UNCHANGED <<switch, due, noticed, edits, sent, old, recent, resumed, told,
                    published, place, batch, job, faults>>
    BY <1>2 DEF Check
  <2>4. \A f \in NextEdge(l.rule) : f \in Fire /\ RuleOf(f) \in Rule
    BY <2>1, NextEdgeFacts
  <2>5. /\ known' \in [Rule -> {"none", "yes", "no"}] /\ fired' \subseteq Rule
        /\ state' \in [Fire -> Settled \cup {"none", "pending", "gone"}]
        /\ stale' \subseteq Fire /\ ready' \subseteq Fire
    <3>1. CASE UNCHANGED <<known, fired, state, stale, ready>>
      BY <3>1 DEF Shape
    <3>2. ASSUME NEW result \in {"yes", "no", "none"},
                 known' = IF result = "none" THEN known ELSE [known EXCEPT ![l.rule] = result],
                 \/ RecordFires(NextEdge(l.rule), [r \in Rule |-> l.edits])
                 \/ UNCHANGED <<fired, state, stale, ready>>
          PROVE  <2>5!1 /\ <2>5!2 /\ <2>5!3
      BY <2>1, <2>4, <3>2 DEF Shape, RecordFires
    <3> QED BY <1>2, <3>1, <3>2 DEF Check
  <2> QED BY <2>2, <2>3, <2>5 DEF Shape, published
<1> QED BY <1>1, <1>2

(* A clock that goes elsewhere stays in a place.                           *)
LEMMA GoShape ==
  ASSUME Shape, NEW i \in Instance, NEW p \in Places, Go(i, p)
  PROVE  /\ place' \in [Instance -> Places] /\ place'[i] = p
         /\ \A j \in Instance \ {i} : place'[j] = place[j]
BY DEF Shape, Go

LEMMA SettleShape ==
  ASSUME Shape, NEW f \in Fire, NEW s \in Settled, SettleFire(f, s)
  PROVE  /\ state' \in [Fire -> Settled \cup {"none", "pending", "gone"}]
         /\ ready' \subseteq Fire /\ old' \subseteq Fire
         /\ state' = [state EXCEPT ![f] = IF @ = "gone" THEN @ ELSE s]
BY DEF Shape, SettleFire

(* And after every step of a delivery.                                     *)
LEMMA ShapeTake ==
  ASSUME Shape, NEW i \in Instance, NEW b \in batch[i],
         GiveUp(i, b) \/ Throttle(i, b) \/ BeginSending(i, b)
  PROVE  Shape'
<1>0. b.fire \in Fire /\ b.sent \in Nat /\ RuleOf(b.fire) \in Rule
  BY FireFacts DEF Shape, Claimed
<1>1. batch' \in [Instance -> SUBSET Claimed] /\ looks' = looks
  BY SMTT(20) DEF GiveUp, Throttle, BeginSending, Take, Shape
<1>2. CASE GiveUp(i, b)
  <2>1. fired' \subseteq Rule
    BY <1>2 DEF GiveUp, ReopenOnceRule, Shape
  <2>2. SettleFire(b.fire, "abandoned") /\ "abandoned" \in Settled
    BY <1>2 DEF GiveUp, Settled
  <2> QED BY <1>0, <1>1, <1>2, <2>1, <2>2, SettleShape DEF GiveUp, Shape, published
<1>3. CASE Throttle(i, b)
  <2>1. SettleFire(b.fire, "throttled") /\ "throttled" \in Settled
    BY <1>3 DEF Throttle, Settled
  <2>2. [NoJob EXCEPT !.fire = b.fire] \in Job /\ [NoJob EXCEPT !.fire = b.fire].fire = b.fire
    BY <1>0 DEF NoJob, Job
  <2>3. job' = [job EXCEPT ![i] = [NoJob EXCEPT !.fire = b.fire]] /\ Go(i, "noticing")
        /\ "noticing" \in Places
    BY <1>3 DEF Throttle, Places
  <2>4. job' \in [Instance -> Job] /\ \A j \in Instance : place'[j] \in Busy => job'[j].fire \in Fire
    BY <1>0, <2>2, <2>3, GoShape DEF Shape
  <2> QED BY <1>0, <1>1, <1>3, <2>1, <2>3, <2>4, GoShape, SettleShape DEF Throttle, Shape, published, rules
<1>4. CASE BeginSending(i, b)
  <2> DEFINE new == [fire |-> b.fire, part |-> b.sent, answer |-> "ok"]
  <2>1. new \in Job /\ new.fire = b.fire
    BY <1>0 DEF Job
  <2>2. job' = [job EXCEPT ![i] = new] /\ Go(i, IF b.sent = Parts THEN "settling" ELSE "sending")
        /\ "settling" \in Places /\ "sending" \in Places
        /\ resumed' \subseteq Fire
    BY <1>0, <1>4 DEF BeginSending, Places, Shape
  <2> HIDE DEF new
  <2>3. place' \in [Instance -> Places] /\ \A j \in Instance \ {i} : place'[j] = place[j]
    BY <2>2, GoShape
  <2>4. job' \in [Instance -> Job] /\ \A j \in Instance : place'[j] \in Busy => job'[j].fire \in Fire
    BY <1>0, <2>1, <2>2, <2>3 DEF Shape
  <2> QED BY <1>1, <1>4, <2>2, <2>3, <2>4 DEF BeginSending, Shape, published, rules
<1> QED BY <1>2, <1>3, <1>4

LEMMA DoneShape ==
  ASSUME Shape, NEW i \in Instance, Done(i)
  PROVE  /\ place' \in [Instance -> Places] /\ place'[i] = "delivering" /\ job'[i] = NoJob
         /\ \A j \in Instance \ {i} : place'[j] = place[j] /\ job'[j] = job[j]
         /\ job' \in [Instance -> Job]
         /\ \A j \in Instance : place'[j] \in Busy => job'[j].fire \in Fire
<1>1. NoJob \in Job /\ "delivering" \in Places
  BY DEF NoJob, Job, Places
<1>2. Go(i, "delivering") /\ job' = [job EXCEPT ![i] = NoJob]
  BY DEF Done
<1> QED BY <1>1, <1>2, GoShape DEF Shape, Busy, Sending

(* A part more on the phone.                                               *)
LEMMA ToldShape ==
  ASSUME Shape, NEW f \in Fire, NEW k \in Nat, told' = [told EXCEPT ![f][k] = @ + 1]
  PROVE  /\ told' \in [Fire -> [1..Parts -> Nat]]
         /\ \A g \in Fire, m \in 1..Parts :
              told'[g][m] = IF g = f /\ m = k THEN told[g][m] + 1 ELSE told[g][m]
<1> DEFINE new == [told[f] EXCEPT ![k] = @ + 1]
<1>1. told[f] \in [1..Parts -> Nat] /\ told \in [Fire -> [1..Parts -> Nat]]
  BY DEF Shape
<1>2. \A m \in 1..Parts : told[f][m] \in Nat
  BY <1>1
<1>3. new = [m \in 1..Parts |-> IF m = k THEN told[f][m] + 1 ELSE told[f][m]]
  BY <1>1
<1>4. told' = [told EXCEPT ![f] = new]
  OBVIOUS
<1> HIDE DEF new
<1>5. new \in [1..Parts -> Nat]
  BY <1>2, <1>3
<1>6. told'[f] = new /\ \A g \in Fire \ {f} : told'[g] = told[g]
  BY <1>1, <1>4
<1>7. told' \in [Fire -> [1..Parts -> Nat]]
  BY <1>1, <1>4, <1>5
<1>8. \A m \in 1..Parts : new[m] = IF m = k THEN told[f][m] + 1 ELSE told[f][m]
  BY <1>3
<1> QED BY <1>6, <1>7, <1>8, Zenon

(* The job of a clock, with another answer or a part further.              *)
LEMMA JobShape ==
  ASSUME Shape, NEW i \in Instance,
         \/ \E a \in {"transient", "refused"} : job' = [job EXCEPT ![i].answer = a]
         \/ job' = [job EXCEPT ![i].part = @ + 1]
  PROVE  /\ job' \in [Instance -> Job]
         /\ \A j \in Instance : job'[j].fire = job[j].fire
         /\ \A j \in Instance \ {i} : job'[j] = job[j]
<1>1. job[i] \in Job /\ job \in [Instance -> Job]
  BY DEF Shape
<1>2. ASSUME NEW a \in {"transient", "refused"}, job' = [job EXCEPT ![i].answer = a]
      PROVE  \E n \in Job : n.fire = job[i].fire /\ job' = [job EXCEPT ![i] = n]
  <2>1. [job[i] EXCEPT !.answer = a] \in Job /\ [job[i] EXCEPT !.answer = a].fire = job[i].fire
    BY <1>1 DEF Job
  <2> QED BY <1>1, <1>2, <2>1
<1>3. ASSUME job' = [job EXCEPT ![i].part = @ + 1]
      PROVE  \E n \in Job : n.fire = job[i].fire /\ job' = [job EXCEPT ![i] = n]
  <2>1. [job[i] EXCEPT !.part = @ + 1] \in Job /\ [job[i] EXCEPT !.part = @ + 1].fire = job[i].fire
    BY <1>1 DEF Job
  <2> QED BY <1>1, <1>3, <2>1
<1>4. PICK n \in Job : n.fire = job[i].fire /\ job' = [job EXCEPT ![i] = n]
  BY <1>2, <1>3
<1> QED BY <1>1, <1>4

LEMMA ShapeDelivery ==
  ASSUME Shape, NEW i \in Instance,
         \/ ClaimDeliveries(i) \/ TickEnds(i) \/ SendPart(i) \/ PartSent(i) \/ Settle(i)
         \/ ClaimNotice(i) \/ TellNotice(i) \/ ReleaseNotice(i)
  PROVE  Shape'
<1>0. /\ place[i] \in Busy => job[i].fire \in Fire /\ RuleOf(job[i].fire) \in Rule
      /\ job[i] \in Job /\ job[i].part \in Nat
  BY FireFacts DEF Shape, Job
<1>1. CASE ClaimDeliveries(i)
  <2> DEFINE S == {[fire |-> f, sent |-> sent[f], enabled |-> switch[RuleOf(f)] = "on"] :
                     f \in Pending \cap ready}
  <2>1. S \in SUBSET Claimed
    <3> SUFFICES ASSUME NEW f \in Fire
                 PROVE  [fire |-> f, sent |-> sent[f], enabled |-> switch[RuleOf(f)] = "on"] \in Claimed
      BY DEF Pending
    <3>1. sent[f] \in Nat /\ (switch[RuleOf(f)] = "on") \in BOOLEAN
      BY DEF Shape
    <3> QED BY <3>1 DEF Claimed
  <2>2. /\ batch' = [batch EXCEPT ![i] = S] /\ ready' \subseteq ready
        /\ Go(i, "delivering") /\ "delivering" \in Places /\ "delivering" \notin Busy
        /\ state' = state /\ stale' = stale /\ sent' = sent /\ old' = old /\ recent' = recent
        /\ resumed' = resumed /\ told' = told /\ looks' = looks /\ job' = job /\ faults' = faults
    BY <1>1 DEF ClaimDeliveries, Places, Busy, Sending
  <2>3. /\ switch' = switch /\ known' = known /\ edits' = edits /\ fired' = fired
        /\ due' = due /\ noticed' = noticed /\ events' = events /\ reading' = reading
    BY <1>1 DEF ClaimDeliveries, rules, published
  <2> HIDE DEF S
  <2>4. batch' \in [Instance -> SUBSET Claimed]
    BY <2>1, <2>2 DEF Shape
  <2>5. /\ place' \in [Instance -> Places] /\ place'[i] = "delivering"
        /\ \A j \in Instance \ {i} : place'[j] = place[j]
    BY <2>2, GoShape
  <2>6. \A j \in Instance : place'[j] \in Busy => job'[j].fire \in Fire
    BY <2>2, <2>5 DEF Shape
  <2>7. ready' \subseteq Fire
    BY <2>2 DEF Shape
  <2> QED BY <2>2, <2>3, <2>4, <2>5, <2>6, <2>7 DEF Shape
<1>2. CASE TickEnds(i) \/ TellNotice(i)
  <2>1. UNCHANGED <<rules, fires, published, looks, batch, faults>>
    BY <1>2 DEF TickEnds, TellNotice
  <2>2. Done(i) \/ (Go(i, "idle") /\ job' = job) \/ (Go(i, "releasing") /\ place[i] = "telling" /\ job' = job)
    BY <1>2 DEF TickEnds, TellNotice
  <2>3. "idle" \in Places \ Busy /\ "releasing" \in Places /\ "telling" \in Busy
    BY DEF Places, Busy, Sending
  <2>4. /\ place' \in [Instance -> Places] /\ job' \in [Instance -> Job]
        /\ \A j \in Instance : place'[j] \in Busy => job'[j].fire \in Fire
    BY <1>0, <2>2, <2>3, DoneShape, GoShape, ZenonT(40) DEF Shape
  <2> QED BY <2>1, <2>4 DEF Shape, rules, fires, published
<1>3. CASE SendPart(i)
  <2>0. place[i] = "sending" /\ place[i] \in Busy
    BY <1>3 DEF SendPart, Busy, Sending
  <2>1. UNCHANGED <<rules, state, stale, sent, ready, old, recent, resumed, published, looks, batch>>
    BY <1>3 DEF SendPart
  <2>2. told' \in [Fire -> [1..Parts -> Nat]] /\ faults' \in 0..MaxFault
    <3>1. told' = told \/ told' = [told EXCEPT ![job[i].fire][job[i].part + 1] = @ + 1]
      BY <1>3, Zenon DEF SendPart
    <3>2. faults' = faults \/ Fault
      BY <1>3, Zenon DEF SendPart
    <3>3. job[i].part + 1 \in Nat /\ MaxFault \in Nat
      BY <1>0, ConstantsAssumption
    <3>4. told' \in [Fire -> [1..Parts -> Nat]]
      BY <1>0, <2>0, <3>1, <3>3, ToldShape DEF Shape
    <3>5. faults' \in 0..MaxFault
      BY <3>2, <3>3 DEF Fault, Shape
    <3> QED BY <3>4, <3>5
  <2>3. \E p \in {"recording", "settling"} : Go(i, p)
    BY <1>3 DEF SendPart
  <2>4. job' = job \/ \E a \in {"transient", "refused"} : job' = [job EXCEPT ![i].answer = a]
    BY <1>3 DEF SendPart
  <2>5. job' \in [Instance -> Job] /\ \A j \in Instance : job'[j].fire = job[j].fire
    BY <2>4, JobShape DEF Shape
  <2>6. {"recording", "settling"} \subseteq Places
    BY DEF Places
  <2>7. place' \in [Instance -> Places] /\ \A j \in Instance \ {i} : place'[j] = place[j]
    BY <2>3, <2>6, GoShape
  <2> QED BY <1>0, <2>0, <2>1, <2>2, <2>5, <2>7 DEF Shape, rules, published
<1>4. CASE PartSent(i)
  <2>0. place[i] = "recording" /\ place[i] \in Busy
    BY <1>4 DEF PartSent, Busy, Sending
  <2>1. UNCHANGED <<rules, state, stale, ready, old, recent, resumed, told, published, looks, batch,
                    faults>>
    BY <1>4 DEF PartSent
  <2>2. sent' \in [Fire -> Nat]
    <3>1. sent' = sent \/ sent' = [sent EXCEPT ![job[i].fire] = @ + 1]
      BY <1>4, Zenon DEF PartSent
    <3> QED BY <1>0, <2>0, <3>1 DEF Shape
  <2>3. \E p \in {"sending", "settling"} : Go(i, p)
    BY <1>4 DEF PartSent
  <2>4. job' = [job EXCEPT ![i].part = @ + 1]
    BY <1>4 DEF PartSent
  <2>5. job' \in [Instance -> Job] /\ \A j \in Instance : job'[j].fire = job[j].fire
    BY <2>4, JobShape
  <2>6. {"sending", "settling"} \subseteq Places
    BY DEF Places
  <2>7. place' \in [Instance -> Places] /\ \A j \in Instance \ {i} : place'[j] = place[j]
    BY <2>3, <2>6, GoShape
  <2> QED BY <1>0, <2>0, <2>1, <2>2, <2>5, <2>7 DEF Shape, rules, published
<1>5. CASE Settle(i)
  <2>0. place[i] = "settling" /\ place[i] \in Busy /\ Done(i)
    BY <1>5 DEF Settle, Busy, Sending
  <2>1. UNCHANGED <<known, noticed, edits, stale, sent, resumed, told, published, looks, batch, faults>>
    BY <1>5 DEF Settle
  <2>2. /\ state' \in [Fire -> Settled \cup {"none", "pending", "gone"}]
        /\ ready' \subseteq Fire /\ old' \subseteq Fire
    <3>1. \/ \E s \in {"delivered", "refused"} : SettleFire(job[i].fire, s)
          \/ ready' \subseteq ready /\ UNCHANGED <<state, old>>
      BY <1>5 DEF Settle
    <3>2. {"delivered", "refused"} \subseteq Settled
      BY DEF Settled
    <3> QED BY <1>0, <2>0, <3>1, <3>2, SettleShape DEF Shape
  <2>3. recent' \subseteq Fire /\ fired' \subseteq Rule /\ due' \subseteq Valued
        /\ switch' \in [Rule -> {"on", "off", "fired", "gone"}]
    <3> DEFINE f == job[i].fire
    <3>0. f \in Fire
      BY <1>0, <2>0
    <3> HIDE DEF f
    <3>1. recent' \in {recent, recent \cup {f}}
      BY <1>5 DEF Settle, f
    <3>2. fired' \subseteq fired
      BY <1>5 DEF Settle, ReopenOnceRule
    <3>3. \/ FinishOnceRule(RuleOf(f))
          \/ switch' = switch /\ due' = due
      BY <1>5 DEF Settle, f
    <3>4. due' \subseteq due /\ switch' \in [Rule -> {"on", "off", "fired", "gone"}]
      BY <3>3 DEF FinishOnceRule, Shape
    <3> QED BY <3>0, <3>1, <3>2, <3>4 DEF Shape
  <2> QED BY <2>0, <2>1, <2>2, <2>3, DoneShape DEF Shape, published
<1>6. CASE ClaimNotice(i) \/ ReleaseNotice(i)
  <2>0. place[i] \in Busy
    BY <1>6 DEF ClaimNotice, ReleaseNotice, Busy
  <2>1. UNCHANGED <<switch, known, fired, due, edits, fires, published, looks, batch, faults>>
    BY <1>6 DEF ClaimNotice, ReleaseNotice
  <2>2. noticed' \subseteq Rule
    BY <1>0, <1>6, <2>0 DEF ClaimNotice, ReleaseNotice, Shape
  <2>3. Done(i) \/ (Go(i, "telling") /\ job' = job)
    BY <1>6 DEF ClaimNotice, ReleaseNotice
  <2>4. "telling" \in Places
    BY DEF Places
  <2>5. /\ place' \in [Instance -> Places] /\ job' \in [Instance -> Job]
        /\ \A j \in Instance : place'[j] \in Busy => job'[j].fire \in Fire
    BY <1>0, <2>0, <2>3, <2>4, DoneShape, GoShape DEF Shape
  <2> QED BY <2>1, <2>2, <2>5 DEF Shape, fires, published
<1> QED BY <1>1, <1>2, <1>3, <1>4, <1>5, <1>6

(* After what fails, dies and starts.                                      *)
LEMMA ShapeFault ==
  ASSUME Shape, NEW i \in Instance, StatementFails(i) \/ Crash(i) \/ Start(i)
  PROVE  Shape'
<1>0. NoJob \in Job /\ {"down", "idle"} \subseteq Places \ Busy /\ MaxFault \in Nat
  BY ConstantsAssumption DEF NoJob, Job, Places, Busy, Sending
<1>1. faults' \in 0..MaxFault
  BY <1>0 DEF StatementFails, Crash, Start, Fault, Shape
<1>2. UNCHANGED <<rules, fires, published>>
  BY DEF StatementFails, Crash, Start
<1>3. looks' \in [Instance -> SUBSET Look] /\ batch' \in [Instance -> SUBSET Claimed]
  BY DEF StatementFails, Crash, Start, Take, Shape
<1>4. \/ Done(i) \/ UNCHANGED <<place, job>>
      \/ Go(i, "down") /\ job' = [job EXCEPT ![i] = NoJob]
      \/ Go(i, "idle") /\ job' = job
  BY Zenon DEF StatementFails, Crash, Start
<1>5. /\ place' \in [Instance -> Places] /\ job' \in [Instance -> Job]
      /\ \A j \in Instance : place'[j] \in Busy => job'[j].fire \in Fire
  <2>1. CASE Done(i)
    BY <2>1, DoneShape
  <2>2. CASE UNCHANGED <<place, job>>
    BY <2>2 DEF Shape
  <2>3. CASE \/ Go(i, "down") /\ job' = [job EXCEPT ![i] = NoJob]
             \/ Go(i, "idle") /\ job' = job
    <3>1. PICK p \in {"down", "idle"} : Go(i, p)
      BY <2>3
    <3>2. /\ place' \in [Instance -> Places] /\ place'[i] \notin Busy
          /\ \A j \in Instance \ {i} : place'[j] = place[j]
      BY <1>0, <3>1, GoShape
    <3>3. job' \in [Instance -> Job] /\ \A j \in Instance \ {i} : job'[j] = job[j]
      BY <1>0, <2>3 DEF Shape
    <3> QED BY <3>2, <3>3 DEF Shape
  <2> QED BY <1>4, <2>1, <2>2, <2>3
<1> QED BY <1>1, <1>2, <1>3, <1>5 DEF Shape, rules, fires, published

(* After a publish.                                                        *)
LEMMA ShapePublish ==
  ASSUME Shape, NEW e \in Event, Publish(e) \/ PublishCommits(e) \/ PublishFails(e)
  PROVE  Shape'
<1> DEFINE Read == [rule : Rule \ Valued, edits : [Rule -> 0..MaxEdit]]
<1>1. CASE Publish(e)
  <2>1. [rule : Listening(e), edits : {edits}] \in SUBSET Read
    BY DEF Listening, Shape
  <2> QED BY <1>1, <2>1 DEF Publish, Shape, rules, fires, clock
<1>2. CASE PublishCommits(e)
  <2>1. {<<l.rule, e>> : l \in reading[e]} \subseteq Fire
        /\ {RuleOf(f) : f \in {<<l.rule, e>> : l \in reading[e]}} \subseteq Rule
    BY FireFacts DEF Shape
  <2>2. RecordFires({<<l.rule, e>> : l \in reading[e]}, (CHOOSE l \in reading[e] : TRUE).edits)
        /\ events' = events \cup {e} /\ reading' = [reading EXCEPT ![e] = {}]
        /\ UNCHANGED <<switch, known, due, noticed, edits, sent, old, recent, resumed, told,
                       clock, faults>>
    BY <1>2 DEF PublishCommits
  <2>3. state' \in [Fire -> Settled \cup {"none", "pending", "gone"}] /\ fired' \subseteq Rule
        /\ stale' \subseteq Fire /\ ready' \subseteq Fire
    BY <2>1, <2>2 DEF RecordFires, Shape
  <2> QED BY <2>2, <2>3 DEF Shape, clock
<1>3. CASE PublishFails(e)
  <2>1. /\ faults' = faults \/ Fault
        /\ reading' = [reading EXCEPT ![e] = {}] /\ UNCHANGED <<rules, fires, events, clock>>
    BY <1>3 DEF PublishFails
  <2>2. faults' \in 0..MaxFault
    BY <2>1, ConstantsAssumption DEF Fault, Shape
  <2> QED BY <2>1, <2>2 DEF Shape, rules, fires, clock
<1> QED BY <1>1, <1>2, <1>3

(* After what the operator does, and time.                                 *)
LEMMA ShapeRest ==
  ASSUME Shape,
         \/ \E r \in Rule : ReplaceRule(r) \/ SetEnabled(r) \/ DeleteRule(r)
                            \/ IntervalEnds(r) \/ CooldownEnds(r)
         \/ \E f \in Fire : WaitEnds(f) \/ GrowsOld(f)
         \/ HourEnds
  PROVE  Shape'
<1>0. MaxEdit \in Nat /\ Valued \subseteq Rule
  BY ConstantsAssumption
<1>1. ASSUME NEW r \in Rule, ReplaceRule(r) \/ SetEnabled(r) PROVE Shape'
  <2>1. edits' \in [Rule -> 0..MaxEdit] /\ stale' \subseteq Fire
    <3>1. Edit(r)
      BY <1>1 DEF ReplaceRule, SetEnabled
    <3>2. edits[r] + 1 \in 0..MaxEdit
      BY <1>0, <3>1 DEF Edit, Shape
    <3> QED BY <3>1, <3>2 DEF Edit, Shape
  <2>2. /\ switch' \in [Rule -> {"on", "off", "fired", "gone"}] /\ due' \subseteq Valued
        /\ known' \in [Rule -> {"none", "yes", "no"}] /\ fired' \subseteq Rule
        /\ noticed' \subseteq Rule
    BY <1>1 DEF ReplaceRule, SetEnabled, Rearm, ReopenOnceRule, Shape
  <2>3. UNCHANGED <<state, sent, ready, old, recent, resumed, told, published, clock, faults>>
    BY <1>1 DEF ReplaceRule, SetEnabled
  <2> QED BY <2>1, <2>2, <2>3 DEF Shape, published, clock
<1>2. ASSUME NEW r \in Rule, DeleteRule(r) PROVE Shape'
  <2>1. /\ switch' \in [Rule -> {"on", "off", "fired", "gone"}] /\ due' \subseteq Valued
        /\ known' \in [Rule -> {"none", "yes", "no"}] /\ fired' \subseteq Rule
        /\ noticed' \subseteq Rule
    BY <1>2 DEF DeleteRule, Shape
  <2>2. state' \in [Fire -> Settled \cup {"none", "pending", "gone"}]
        /\ ready' \subseteq Fire /\ recent' \subseteq Fire /\ old' \subseteq Fire
    BY <1>2 DEF DeleteRule, Shape
  <2>3. UNCHANGED <<edits, stale, sent, resumed, told, published, clock, faults>>
    BY <1>2 DEF DeleteRule
  <2> QED BY <2>1, <2>2, <2>3 DEF Shape, published, clock
<1>3. ASSUME NEW r \in Rule, IntervalEnds(r) \/ CooldownEnds(r) PROVE Shape'
  BY <1>3 DEF IntervalEnds, CooldownEnds, Shape, fires, published, clock
<1>4. ASSUME NEW f \in Fire, WaitEnds(f) \/ GrowsOld(f) PROVE Shape'
  BY <1>4 DEF WaitEnds, GrowsOld, Shape, rules, published, clock
<1>5. CASE HourEnds
  BY <1>5 DEF HourEnds, Shape, published, clock
<1> QED BY <1>1, <1>2, <1>3, <1>4, <1>5

LEMMA ShapeNext == Shape /\ [Next]_vars => Shape'
<1> SUFFICES ASSUME Shape, [Next]_vars PROVE Shape'
  OBVIOUS
<1>1. CASE UNCHANGED vars
  BY <1>1 DEF vars, rules, fires, published, clock, Shape
<1>2. CASE \E i \in Instance : TickStep(i) \/ StatementFails(i) \/ Crash(i)
  BY <1>2, ShapeLook, ShapeTake, ShapeDelivery, ShapeFault DEF TickStep
<1>3. CASE \E e \in Event : Publish(e) \/ PublishCommits(e) \/ PublishFails(e)
  BY <1>3, ShapePublish
<1>4. CASE \/ \E r \in Rule : ReplaceRule(r) \/ SetEnabled(r) \/ DeleteRule(r)
                              \/ IntervalEnds(r) \/ CooldownEnds(r)
           \/ \E f \in Fire : WaitEnds(f) \/ GrowsOld(f)
           \/ HourEnds
  BY <1>4, ShapeRest
<1> QED BY <1>1, <1>2, <1>3, <1>4 DEF Next

LEMMA ShapeAlways == Spec => []Shape
BY ShapeInit, ShapeNext, PTL DEF Spec

(***************************************************************************)
(* A once rule is never mute.                                              *)
(***************************************************************************)

(* Recording fires leaves the rules held back with a pending one each.     *)
LEMMA RecordingIsHeard ==
  ASSUME Shape, OnceIsNotMute, NEW F \in SUBSET Fire, NEW v, RecordFires(F, v), switch' = switch
  PROVE  OnceIsNotMute'
<1> SUFFICES ASSUME NEW r \in Once, r \in fired', switch[r] = "on"
             PROVE  \E f \in Fire : RuleOf(f) = r /\ state'[f] \in {"pending", "throttled"}
  BY DEF OnceIsNotMute
<1>1. /\ state' = [f \in Fire |-> IF f \in F THEN "pending" ELSE state[f]]
      /\ fired' = fired \cup {RuleOf(f) : f \in F}
  BY DEF RecordFires
<1>2. CASE r \in fired
  BY <1>1, <1>2 DEF OnceIsNotMute
<1>3. CASE \E f \in F : r = RuleOf(f)
  BY <1>1, <1>3
<1> QED BY <1>1, <1>2, <1>3

(* A fire that is settled for good leaves its rule switched off, open      *)
(* again, or throttled.                                                    *)
LEMMA SettlingIsHeard ==
  ASSUME Shape, OnceIsNotMute, NEW f \in Fire, NEW s \in Settled, SettleFire(f, s),
         \/ s = "throttled" /\ switch' = switch /\ fired' = fired
         \/ FinishOnceRule(RuleOf(f)) /\ fired' = fired
         \/ ReopenOnceRule(RuleOf(f)) /\ switch' = switch
  PROVE  OnceIsNotMute'
<1> SUFFICES ASSUME NEW r \in Once, r \in fired', switch'[r] = "on"
             PROVE  \E g \in Fire : RuleOf(g) = r /\ state'[g] \in {"pending", "throttled"}
  BY DEF OnceIsNotMute
<1>1. state' = [state EXCEPT ![f] = IF @ = "gone" THEN @ ELSE s] /\ state \in [Fire -> Settled \cup {"none", "pending", "gone"}]
  BY DEF SettleFire, Shape
<1>2. RuleOf(f) \in Rule /\ r \in Rule
  BY FireFacts, ConstantsAssumption
<1>3. r \in fired /\ switch[r] = "on" /\ (r = RuleOf(f) => s = "throttled")
  BY <1>2 DEF FinishOnceRule, ReopenOnceRule, Shape
<1>4. PICK g \in Fire : RuleOf(g) = r /\ state[g] \in {"pending", "throttled"}
  BY <1>3 DEF OnceIsNotMute
<1>5. state'[g] \in {"pending", "throttled"}
  BY <1>1, <1>3, <1>4
<1> QED BY <1>4, <1>5

LEMMA NotMuteNext == Shape /\ OnceIsNotMute /\ [Next]_vars => OnceIsNotMute'
<1> SUFFICES ASSUME Shape, OnceIsNotMute, [Next]_vars PROVE OnceIsNotMute'
  OBVIOUS
<1>1. CASE UNCHANGED <<switch, fired, state>>
  BY <1>1 DEF OnceIsNotMute
<1>2. ASSUME NEW i \in Instance, TickStep(i) \/ StatementFails(i) \/ Crash(i) PROVE OnceIsNotMute'
  <2>1. CASE \/ Start(i) \/ ClaimDue(i) \/ ClaimDeliveries(i) \/ TickEnds(i) \/ SendPart(i)
             \/ PartSent(i) \/ ClaimNotice(i) \/ TellNotice(i) \/ ReleaseNotice(i)
             \/ (\E b \in batch[i] : BeginSending(i, b)) \/ StatementFails(i) \/ Crash(i)
    <3>1. UNCHANGED <<switch, fired, state>>
      BY <2>1 DEF Start, ClaimDue, ClaimDeliveries, TickEnds, SendPart, PartSent, ClaimNotice,
         TellNotice, ReleaseNotice, BeginSending, StatementFails, Crash, rules, fires
    <3> QED BY <1>1, <3>1
  <2>2. ASSUME NEW l \in looks[i], Check(i, l) PROVE OnceIsNotMute'
    <3>1. l.rule \in Valued /\ switch' = switch
      BY <2>2 DEF Check, Shape, Look
    <3>2. NextEdge(l.rule) \in SUBSET Fire
      BY <3>1, NextEdgeFacts
    <3>3. UNCHANGED <<fired, state>> \/ \E v : RecordFires(NextEdge(l.rule), v)
      BY <2>2 DEF Check
    <3> QED BY <1>1, <3>1, <3>2, <3>3, RecordingIsHeard
  <2>3. ASSUME NEW b \in batch[i], GiveUp(i, b) \/ Throttle(i, b) PROVE OnceIsNotMute'
    <3>1. b.fire \in Fire /\ "abandoned" \in Settled /\ "throttled" \in Settled
      BY DEF Shape, Claimed, Settled
    <3>2. CASE GiveUp(i, b)
      BY <3>1, <3>2, SettlingIsHeard DEF GiveUp
    <3>3. CASE Throttle(i, b)
      <4>1. SettleFire(b.fire, "throttled") /\ UNCHANGED <<switch, fired>>
        BY <3>3 DEF Throttle, rules
      <4> QED BY <3>1, <4>1, SettlingIsHeard
    <3> QED BY <2>3, <3>2, <3>3
  <2>4. CASE Settle(i)
    <3>1. job[i].fire \in Fire /\ "delivered" \in Settled /\ "refused" \in Settled
      BY <2>4 DEF Settle, Shape, Settled, Busy, Sending
    <3>2. CASE SettleFire(job[i].fire, "delivered") /\ FinishOnceRule(RuleOf(job[i].fire)) /\ UNCHANGED fired
      BY <3>1, <3>2, SettlingIsHeard
    <3>3. CASE SettleFire(job[i].fire, "refused") /\ ReopenOnceRule(RuleOf(job[i].fire)) /\ UNCHANGED switch
      BY <3>1, <3>3, SettlingIsHeard
    <3>4. \/ SettleFire(job[i].fire, "delivered") /\ FinishOnceRule(RuleOf(job[i].fire)) /\ UNCHANGED fired
          \/ UNCHANGED <<switch, fired, state>>
          \/ SettleFire(job[i].fire, "refused") /\ ReopenOnceRule(RuleOf(job[i].fire)) /\ UNCHANGED switch
      BY <2>4 DEF Settle
    <3> QED BY <1>1, <3>2, <3>3, <3>4
  <2> QED BY <1>2, <2>1, <2>2, <2>3, <2>4 DEF TickStep
<1>3. ASSUME NEW e \in Event, Publish(e) \/ PublishCommits(e) \/ PublishFails(e) PROVE OnceIsNotMute'
  <2>1. CASE Publish(e) \/ PublishFails(e)
    BY <1>1, <2>1 DEF Publish, PublishFails, rules, fires
  <2>2. CASE PublishCommits(e)
    <3>1. {<<l.rule, e>> : l \in reading[e]} \in SUBSET Fire
      BY FireFacts DEF Shape
    <3>2. switch' = switch /\ \E v : RecordFires({<<l.rule, e>> : l \in reading[e]}, v)
      BY <2>2 DEF PublishCommits
    <3> QED BY <3>1, <3>2, RecordingIsHeard
  <2> QED BY <1>3, <2>1, <2>2
<1>4. ASSUME NEW r \in Rule,
             ReplaceRule(r) \/ SetEnabled(r) \/ DeleteRule(r) \/ IntervalEnds(r) \/ CooldownEnds(r)
      PROVE  OnceIsNotMute'
  <2>1. CASE ReplaceRule(r) \/ SetEnabled(r)
    <3>1. /\ state' = state
          /\ (\E on \in BOOLEAN : Rearm(r, on))
             \/ (switch' = [switch EXCEPT ![r] = "off"] /\ fired' = fired)
      BY <2>1 DEF ReplaceRule, SetEnabled
    <3>2. \A q \in Once : q \in fired' /\ switch'[q] = "on" => q \in fired /\ switch[q] = "on"
      BY <3>1, ConstantsAssumption DEF Rearm, ReopenOnceRule, Shape
    <3> QED BY <3>1, <3>2 DEF OnceIsNotMute
  <2>2. CASE DeleteRule(r)
    <3>1. /\ switch' = [switch EXCEPT ![r] = "gone"] /\ fired' = fired \ {r}
          /\ \A f \in Fire : RuleOf(f) # r => state'[f] = state[f]
      BY <2>2 DEF DeleteRule, Shape
    <3> SUFFICES ASSUME NEW q \in Once, q \in fired', switch'[q] = "on"
                 PROVE  \E f \in Fire : RuleOf(f) = q /\ state'[f] \in {"pending", "throttled"}
      BY DEF OnceIsNotMute
    <3>2. q \in fired /\ q # r /\ switch[q] = "on"
      BY <3>1, ConstantsAssumption DEF Shape
    <3> QED BY <3>1, <3>2 DEF OnceIsNotMute
  <2>3. CASE IntervalEnds(r) \/ CooldownEnds(r)
    BY <2>3 DEF IntervalEnds, CooldownEnds, OnceIsNotMute, fires
  <2> QED BY <1>4, <2>1, <2>2, <2>3
<1>5. CASE (\E f \in Fire : WaitEnds(f) \/ GrowsOld(f)) \/ HourEnds
  BY <1>1, <1>5 DEF WaitEnds, GrowsOld, HourEnds, rules
<1>6. CASE UNCHANGED vars
  BY <1>1, <1>6 DEF vars, rules, fires
<1> QED BY <1>2, <1>3, <1>4, <1>5, <1>6 DEF Next

(* A once rule that is switched on and holds its fire has one pending, or  *)
(* one the hourly limit let go, however many clocks deliver and whatever   *)
(* is refused, abandoned, written again or deleted meanwhile.              *)
THEOREM NoOnceRuleIsMute == Spec => []OnceIsNotMute
<1>1. Init => OnceIsNotMute
  BY DEF Init, OnceIsNotMute
<1> QED BY <1>1, ShapeAlways, NotMuteNext, PTL DEF Spec

(***************************************************************************)
(* One clock: what it holds.                                               *)
(***************************************************************************)

(* Whatever is not a step of the clock records fires that never were and   *)
(* drops those of a deleted rule, and leaves the clock and the phone alone.*)
Ages == \A f \in Fire : \/ state'[f] = state[f]
                        \/ state[f] = "none" /\ state'[f] = "pending"
                        \/ state[f] # "none" /\ state'[f] = "gone"

Aside ==
  \/ \E i \in Instance : \E l \in looks[i] : Check(i, l)
  \/ \E e \in Event : Publish(e) \/ PublishCommits(e) \/ PublishFails(e)
  \/ \E r \in Rule : ReplaceRule(r) \/ SetEnabled(r) \/ DeleteRule(r)
                     \/ IntervalEnds(r) \/ CooldownEnds(r)
  \/ \E f \in Fire : WaitEnds(f) \/ GrowsOld(f)
  \/ HourEnds

LEMMA PublishedFacts ==
  ASSUME Shape, Gone, NEW e \in Event, PublishCommits(e)
  PROVE  /\ \A l \in reading[e] : /\ <<l.rule, e>> \in Fire /\ RuleOf(<<l.rule, e>>) = l.rule
                                  /\ l.rule \in Rule \ Valued
                                  /\ state[<<l.rule, e>>] = "none" /\ switch[l.rule] # "gone"
         /\ \A f \in Fire : state'[f] = IF \E l \in reading[e] : f = <<l.rule, e>>
                                        THEN "pending" ELSE state[f]
<1>1. e \notin events /\ \A l \in reading[e] : switch[l.rule] # "gone" /\ l.rule \in Rule \ Valued
  BY DEF PublishCommits, Gone, Shape
<1>2. \A l \in reading[e] : <<l.rule, e>> \in Fire /\ RuleOf(<<l.rule, e>>) = l.rule
  BY <1>1, FireFacts
<1>3. \A l \in reading[e] : <<l.rule, e>>[2] = e
  OBVIOUS
<1>4. \A l \in reading[e] : state[<<l.rule, e>>] = "none"
  BY <1>1, <1>2, <1>3 DEF Gone
<1>5. state' = [f \in Fire |-> IF f \in {<<l.rule, e>> : l \in reading[e]} THEN "pending" ELSE state[f]]
  BY DEF PublishCommits, RecordFires
<1> QED BY <1>1, <1>2, <1>4, <1>5

LEMMA LookedFacts ==
  ASSUME Shape, NEW i \in Instance, NEW l \in looks[i], Check(i, l)
  PROVE  /\ l.rule \in Valued /\ l.rule \in Rule
         /\ \/ UNCHANGED <<fired, state>>
            \/ /\ ~l.fired /\ switch[l.rule] # "gone"
               /\ fired' = fired \cup {l.rule}
               /\ \E g \in Fire : /\ RuleOf(g) = l.rule /\ state[g] = "none"
                                  /\ state' = [state EXCEPT ![g] = "pending"]
<1>1. l.rule \in Valued /\ l.rule \in Rule
  BY ConstantsAssumption DEF Shape, Look
<1>2. \/ UNCHANGED <<fired, state>>
      \/ /\ ~l.fired /\ switch[l.rule] # "gone" /\ NextEdge(l.rule) # {}
         /\ \E v : RecordFires(NextEdge(l.rule), v)
  BY DEF Check, Fires
<1>3. ASSUME NextEdge(l.rule) # {}, NEW v, RecordFires(NextEdge(l.rule), v)
      PROVE  /\ fired' = fired \cup {l.rule}
             /\ \E g \in Fire : /\ RuleOf(g) = l.rule /\ state[g] = "none"
                                /\ state' = [state EXCEPT ![g] = "pending"]
  <2>1. PICK g \in NextEdge(l.rule) : TRUE
    BY <1>3
  <2>2. g \in Fire /\ RuleOf(g) = l.rule /\ state[g] = "none" /\ NextEdge(l.rule) = {g}
    BY <1>1, <2>1, NextEdgeFacts
  <2>3. state' = [state EXCEPT ![g] = "pending"] /\ fired' = fired \cup {l.rule}
    BY <1>3, <2>2, ZenonT(40) DEF RecordFires, Shape
  <2> QED BY <2>2, <2>3
<1> QED BY <1>1, <1>2, <1>3

LEMMA AsideEffect ==
  ASSUME Shape, Gone, Aside
  PROVE  Ages /\ UNCHANGED <<sent, told, place, batch, job>> /\ faults' >= faults
         /\ \A i \in Instance : looks'[i] \subseteq looks[i]
<1>0. faults \in Nat
  BY ConstantsAssumption DEF Shape
<1>1. ASSUME NEW i \in Instance, NEW l \in looks[i], Check(i, l)
      PROVE  Ages /\ UNCHANGED <<sent, told, place, batch, job, faults>>
             /\ \A j \in Instance : looks'[j] \subseteq looks[j]
  <2>1. Ages
    BY <1>1, LookedFacts DEF Ages, Shape
  <2>2. looks' = [looks EXCEPT ![i] = @ \ {l}] /\ UNCHANGED <<sent, told, place, batch, job, faults>>
    BY <1>1 DEF Check
  <2> QED BY <2>1, <2>2 DEF Shape
<1>2. ASSUME NEW e \in Event, Publish(e) \/ PublishCommits(e) \/ PublishFails(e)
      PROVE  Ages /\ UNCHANGED <<sent, told, place, batch, job, looks>> /\ faults' >= faults
  <2>1. CASE PublishCommits(e)
    <3>1. Ages
      BY <2>1, PublishedFacts DEF Ages
    <3>2. UNCHANGED <<sent, told, place, batch, job, looks, faults>>
      BY <2>1 DEF PublishCommits, clock
    <3> QED BY <1>0, <3>1, <3>2
  <2>2. CASE Publish(e) \/ PublishFails(e)
    <3>1. UNCHANGED <<fires, clock>> /\ (faults' = faults \/ faults' = faults + 1)
      BY <2>2 DEF Publish, PublishFails, Fault
    <3> QED BY <1>0, <3>1 DEF fires, clock, Ages
  <2> QED BY <1>2, <2>1, <2>2
<1>3. ASSUME NEW r \in Rule,
             ReplaceRule(r) \/ SetEnabled(r) \/ DeleteRule(r) \/ IntervalEnds(r) \/ CooldownEnds(r)
      PROVE  Ages /\ UNCHANGED <<sent, told, place, batch, job, looks, faults>>
  <2>1. CASE DeleteRule(r)
    BY <2>1 DEF DeleteRule, Ages, Shape, clock
  <2>2. CASE ReplaceRule(r) \/ SetEnabled(r) \/ IntervalEnds(r) \/ CooldownEnds(r)
    <3>1. UNCHANGED <<state, sent, told, clock, faults>>
      BY <2>2 DEF ReplaceRule, SetEnabled, IntervalEnds, CooldownEnds, fires
    <3> QED BY <3>1 DEF Ages, clock
  <2> QED BY <1>3, <2>1, <2>2
<1>4. CASE (\E f \in Fire : WaitEnds(f) \/ GrowsOld(f)) \/ HourEnds
  <2>1. UNCHANGED <<state, sent, told, clock, faults>>
    BY <1>4 DEF WaitEnds, GrowsOld, HourEnds
  <2> QED BY <1>0, <2>1 DEF Ages, clock
<1> QED BY <1>0, <1>1, <1>2, <1>3, <1>4 DEF Aside

(***************************************************************************)
(* A step of the clock itself is one of seven kinds, told by what becomes  *)
(* of the fires, of the batch, and of the fire that is sent.               *)
(***************************************************************************)

ClockStep(i) ==
  \/ Start(i) \/ ClaimDue(i) \/ ClaimDeliveries(i) \/ TickEnds(i)
  \/ \E b \in batch[i] : GiveUp(i, b) \/ Throttle(i, b) \/ BeginSending(i, b)
  \/ SendPart(i) \/ PartSent(i) \/ Settle(i)
  \/ ClaimNotice(i) \/ TellNotice(i) \/ ReleaseNotice(i)
  \/ StatementFails(i) \/ Crash(i)

(* It looks, waits, or lets go of what it held, the tables as they were.   *)
Rests(i) ==
  /\ state' = state /\ sent' = sent /\ told' = told
  /\ faults' \in {faults, faults + 1} /\ (place[i] = "recording" => faults' = faults + 1)
  /\ place'[i] \notin Sending /\ batch'[i] \subseteq batch[i]
  /\ place'[i] \in Busy => place[i] \in Busy /\ job'[i] = job[i]
  /\ batch'[i] # {} => place'[i] \in Busy \cup {"delivering"}
  /\ looks'[i] # {} => place'[i] = "looking"

Claims(i) ==
  /\ state' = state /\ sent' = sent /\ told' = told /\ faults' = faults
  /\ place[i] = "looking" /\ place'[i] = "delivering" /\ looks'[i] = {}
  /\ batch'[i] = {[fire |-> f, sent |-> sent[f], enabled |-> switch[RuleOf(f)] = "on"] :
                    f \in Pending \cap ready}

Drops(i, b, s) ==
  /\ state' = [state EXCEPT ![b.fire] = IF @ = "gone" THEN @ ELSE s]
  /\ sent' = sent /\ told' = told /\ faults' = faults /\ looks' = looks
  /\ place[i] = "delivering" /\ batch'[i] = batch[i] \ {b}
  /\ place'[i] = "delivering" \/ (place'[i] = "noticing" /\ job'[i].fire = b.fire)

Begins(i, b) ==
  /\ state' = state /\ sent' = sent /\ told' = told /\ faults' = faults /\ looks' = looks
  /\ place[i] = "delivering" /\ batch'[i] = batch[i] \ {b}
  /\ place'[i] = (IF b.sent = Parts THEN "settling" ELSE "sending")
  /\ job'[i].fire = b.fire /\ job'[i].part = b.sent

Reaches(i) ==
  told' = [told EXCEPT ![job[i].fire][job[i].part + 1] = @ + 1]

Sends(i) ==
  /\ state' = state /\ sent' = sent /\ looks' = looks /\ batch' = batch
  /\ place[i] = "sending" /\ job'[i].fire = job[i].fire /\ job'[i].part = job[i].part
  /\ \/ Reaches(i) /\ faults' = faults /\ place'[i] = "recording"
     \/ told' = told /\ faults' = faults /\ place'[i] = "settling" /\ job'[i].answer # "ok"
     \/ Reaches(i) /\ faults' = faults + 1 /\ place'[i] = "settling" /\ job'[i].answer # "ok"

Records(i) ==
  /\ state' = state /\ told' = told /\ faults' = faults /\ looks' = looks /\ batch' = batch
  /\ place[i] = "recording"
  /\ sent' = IF state[job[i].fire] = "gone" THEN sent ELSE [sent EXCEPT ![job[i].fire] = @ + 1]
  /\ place'[i] = (IF job[i].part + 1 = Parts THEN "settling" ELSE "sending")
  /\ job'[i].fire = job[i].fire /\ job'[i].part = job[i].part + 1

Settles(i, s) ==
  /\ state' = [state EXCEPT ![job[i].fire] = IF @ = "gone" THEN @ ELSE s]
  /\ sent' = sent /\ told' = told /\ faults' = faults /\ looks' = looks /\ batch' = batch
  /\ place[i] = "settling" /\ place'[i] = "delivering"
  /\ s = "delivered" => job[i].answer = "ok"

Kinds(i) ==
  \/ Rests(i) \/ Claims(i) \/ Sends(i) \/ Records(i)
  \/ \E b \in batch[i] : Begins(i, b) \/ \E s \in {"abandoned", "throttled"} : Drops(i, b, s)
  \/ \E s \in {"delivered", "refused"} : Settles(i, s)

LEMMA StepIsOfAKind ==
  ASSUME Shape, Held, NEW i \in Instance, ClockStep(i)
  PROVE  Kinds(i)
<1>0. /\ faults \in Nat /\ MaxFault \in Nat
      /\ DOMAIN place = Instance /\ DOMAIN job = Instance /\ DOMAIN batch = Instance
      /\ DOMAIN looks = Instance
  BY ConstantsAssumption DEF Shape
<1>h. /\ looks[i] # {} => place[i] = "looking"
      /\ batch[i] # {} => place[i] \in Busy \cup {"delivering"}
  BY DEF Held
<1>1. CASE Start(i) \/ ClaimDue(i) \/ TickEnds(i)
  <2>1. /\ UNCHANGED <<fires, batch, job, faults>>
        /\ place'[i] \in {"idle", "looking"} /\ batch[i] = {}
        /\ looks'[i] # {} => place'[i] = "looking"
    BY <1>0, <1>1, <1>h DEF Start, ClaimDue, TickEnds, Go, Busy, Sending
  <2>2. Rests(i)
    BY <1>0, <1>1, <2>1 DEF Rests, fires, Busy, Sending, Start, ClaimDue, TickEnds
  <2> QED BY <2>2 DEF Kinds
<1>2. CASE ClaimDeliveries(i)
  BY <1>0, <1>2 DEF ClaimDeliveries, Go, Claims, Kinds
<1>3. ASSUME NEW b \in batch[i], GiveUp(i, b) PROVE Kinds(i)
  <2>1. Drops(i, b, "abandoned")
    BY <1>0, <1>3 DEF GiveUp, Take, SettleFire, Drops
  <2> QED BY <2>1 DEF Kinds
<1>4. ASSUME NEW b \in batch[i], Throttle(i, b) PROVE Kinds(i)
  <2>1. job'[i].fire = b.fire
    <3>1. [NoJob EXCEPT !.fire = b.fire].fire = b.fire
      BY DEF NoJob
    <3> QED BY <1>0, <1>4, <3>1 DEF Throttle
  <2>2. Drops(i, b, "throttled")
    BY <1>0, <1>4, <2>1 DEF Throttle, Take, SettleFire, Drops, Go
  <2> QED BY <2>2 DEF Kinds
<1>5. ASSUME NEW b \in batch[i], BeginSending(i, b) PROVE Kinds(i)
  <2>1. Begins(i, b)
    BY <1>0, <1>5 DEF BeginSending, Take, Begins, Go
  <2> QED BY <2>1 DEF Kinds
<1>6. CASE SendPart(i)
  <2>1. /\ state' = state /\ sent' = sent /\ looks' = looks /\ batch' = batch
        /\ place[i] = "sending"
    BY <1>6 DEF SendPart
  <2>2. job[i] \in Job
    BY DEF Shape
  <2>3. \/ Reaches(i) /\ Go(i, "recording") /\ job' = job /\ faults' = faults
        \/ (\E a \in {"transient", "refused"} : job' = [job EXCEPT ![i].answer = a])
           /\ Go(i, "settling") /\ told' = told /\ faults' = faults
        \/ Fault /\ Reaches(i) /\ Go(i, "settling") /\ job' = [job EXCEPT ![i].answer = "transient"]
    BY <1>6, Zenon DEF SendPart, Reaches
  <2>4. CASE Reaches(i) /\ Go(i, "recording") /\ job' = job /\ faults' = faults
    <3>1. place'[i] = "recording"
      BY <1>0, <2>4 DEF Go
    <3>2. Sends(i)
      BY <2>1, <2>4, <3>1, Zenon DEF Sends
    <3> QED BY <3>2 DEF Kinds
  <2>5. ASSUME NEW a \in {"transient", "refused"}, job' = [job EXCEPT ![i].answer = a], Go(i, "settling")
        PROVE  /\ place'[i] = "settling" /\ job'[i].answer # "ok"
               /\ job'[i].fire = job[i].fire /\ job'[i].part = job[i].part
    BY <1>0, <2>2, <2>5 DEF Go, Job
  <2>6. CASE (\E a \in {"transient", "refused"} : job' = [job EXCEPT ![i].answer = a])
             /\ Go(i, "settling") /\ told' = told /\ faults' = faults
    <3>1. Sends(i)
      BY <2>1, <2>5, <2>6, Zenon DEF Sends
    <3> QED BY <3>1 DEF Kinds
  <2>7. CASE Fault /\ Reaches(i) /\ Go(i, "settling") /\ job' = [job EXCEPT ![i].answer = "transient"]
    <3>0. "transient" \in {"transient", "refused"} /\ faults' = faults + 1
      BY <2>7 DEF Fault
    <3>1. Sends(i)
      BY <2>1, <2>5, <2>7, <3>0, Zenon DEF Sends
    <3> QED BY <3>1 DEF Kinds
  <2> QED BY <2>3, <2>4, <2>6, <2>7
<1>7. CASE PartSent(i)
  <2>1. job[i] \in Job
    BY DEF Shape
  <2>2. job'[i].fire = job[i].fire /\ job'[i].part = job[i].part + 1
    BY <1>0, <1>7, <2>1 DEF PartSent, Job
  <2>3. place'[i] = IF job[i].part + 1 = Parts THEN "settling" ELSE "sending"
    BY <1>0, <1>7 DEF PartSent, Go
  <2>4. Records(i)
    BY <1>7, <2>2, <2>3, Zenon DEF PartSent, Records
  <2> QED BY <2>4 DEF Kinds
<1>8. CASE Settle(i)
  <2>1. /\ place[i] = "settling" /\ place'[i] = "delivering"
        /\ sent' = sent /\ told' = told /\ faults' = faults /\ looks' = looks /\ batch' = batch
    BY <1>0, <1>8 DEF Settle, Done, Go
  <2>2. \/ job[i].answer = "ok" /\ SettleFire(job[i].fire, "delivered")
        \/ state' = state
        \/ SettleFire(job[i].fire, "refused")
    BY <1>8 DEF Settle
  <2>3. CASE state' = state
    <3>1. Rests(i)
      BY <1>0, <1>h, <2>1, <2>3 DEF Rests, Sending, Busy
    <3> QED BY <3>1 DEF Kinds
  <2>4. CASE job[i].answer = "ok" /\ SettleFire(job[i].fire, "delivered")
    BY <2>1, <2>4 DEF Settles, SettleFire, Kinds
  <2>5. CASE SettleFire(job[i].fire, "refused")
    BY <2>1, <2>5 DEF Settles, SettleFire, Kinds
  <2> QED BY <2>2, <2>3, <2>4, <2>5
<1>9. CASE ClaimNotice(i) \/ TellNotice(i) \/ ReleaseNotice(i)
  <2>1. /\ state' = state /\ sent' = sent /\ told' = told /\ faults' = faults
        /\ looks' = looks /\ batch' = batch
    BY <1>9 DEF ClaimNotice, TellNotice, ReleaseNotice, fires
  <2>2. place[i] \in {"noticing", "telling", "releasing"}
    BY <1>9 DEF ClaimNotice, TellNotice, ReleaseNotice
  <2>3. place'[i] = "delivering" \/ (place'[i] \in {"telling", "releasing"} /\ job' = job)
    BY <1>0, <1>9 DEF ClaimNotice, TellNotice, ReleaseNotice, Done, Go
  <2>4. Rests(i)
    BY <1>0, <1>h, <2>1, <2>2, <2>3 DEF Rests, Sending, Busy
  <2> QED BY <2>4 DEF Kinds
<1>10. CASE StatementFails(i)
  <2>1. state' = state /\ sent' = sent /\ told' = told /\ faults' = faults + 1
    BY <1>10 DEF StatementFails, fires, Fault
  <2>2. CASE place[i] \in {"recording", "settling", "noticing", "releasing"} /\ Done(i)
             /\ UNCHANGED <<looks, batch>>
    <3>1. place'[i] = "delivering"
      BY <1>0, <2>2 DEF Done, Go
    <3>2. Rests(i)
      BY <1>0, <1>h, <2>1, <2>2, <3>1 DEF Rests, Sending, Busy
    <3> QED BY <3>2 DEF Kinds
  <2>3. CASE (\E b \in batch[i] : Take(i, b)) /\ UNCHANGED <<place, looks, job>>
    <3>1. Rests(i)
      BY <1>0, <1>h, <2>1, <2>3 DEF Rests, Sending, Busy, Take
    <3> QED BY <3>1 DEF Kinds
  <2>4. CASE (\E l \in looks[i] : looks' = [looks EXCEPT ![i] = @ \ {l}])
             /\ UNCHANGED <<place, batch, job>>
    <3>1. Rests(i)
      BY <1>0, <1>h, <2>1, <2>4 DEF Rests, Sending, Busy
    <3> QED BY <3>1 DEF Kinds
  <2> QED BY <1>10, <2>2, <2>3, <2>4 DEF StatementFails
<1>11. CASE Crash(i)
  <2>1. Rests(i)
    BY <1>0, <1>11 DEF Crash, Go, Rests, Fault, fires, Sending, Busy
  <2> QED BY <2>1 DEF Kinds
<1> QED BY <1>1, <1>2, <1>3, <1>4, <1>5, <1>6, <1>7, <1>8, <1>9, <1>10, <1>11 DEF ClockStep

LEMMA NextIsOfAKind ==
  Next => Aside \/ \E i \in Instance : ClockStep(i)
BY DEF Next, TickStep, Aside, ClockStep

(* What a step of the clock settles was pending.                           *)
LEMMA KindsOnFires ==
  ASSUME Shape, Held, NEW i \in Instance, Kinds(i)
  PROVE  \A f \in Fire : \/ state'[f] = state[f]
                         \/ state[f] = "pending" /\ state'[f] \in Settled
<1>1. \A b \in batch[i] : b.fire \in Fire /\ state[b.fire] \in {"pending", "gone"}
  BY DEF Shape, Claimed, Held
<1>2. place[i] \in Sending => job[i].fire \in Fire /\ state[job[i].fire] \in {"pending", "gone"}
  BY DEF Shape, Held, Busy
<1>3. CASE Rests(i) \/ Claims(i) \/ Sends(i) \/ Records(i) \/ \E b \in batch[i] : Begins(i, b)
  BY <1>3 DEF Rests, Claims, Sends, Records, Begins
<1>4. ASSUME NEW b \in batch[i], NEW s \in {"abandoned", "throttled"}, Drops(i, b, s)
      PROVE  \A f \in Fire : \/ state'[f] = state[f]
                             \/ state[f] = "pending" /\ state'[f] \in Settled
  BY <1>1, <1>4 DEF Drops, Shape, Settled
<1>5. ASSUME NEW s \in {"delivered", "refused"}, Settles(i, s)
      PROVE  \A f \in Fire : \/ state'[f] = state[f]
                             \/ state[f] = "pending" /\ state'[f] \in Settled
  BY <1>2, <1>5 DEF Settles, Shape, Settled, Sending
<1> QED BY <1>3, <1>4, <1>5 DEF Kinds

LEMMA ClockStepOnRules ==
  ASSUME Shape, NEW i \in Instance, ClockStep(i)
  PROVE  /\ events' = events /\ reading' = reading /\ edits' = edits
         /\ \A r \in Rule : switch'[r] = "gone" <=> switch[r] = "gone"
<1>0. place[i] = "settling" => RuleOf(job[i].fire) \in Rule
  BY FireFacts DEF Shape, Busy, Sending
<1>1. CASE Settle(i)
  BY <1>0, <1>1 DEF Settle, FinishOnceRule, Shape, published
<1>2. CASE ~Settle(i)
  BY <1>2 DEF ClockStep, Start, ClaimDue, ClaimDeliveries, TickEnds, GiveUp, Throttle, BeginSending,
     SendPart, PartSent, ClaimNotice, TellNotice, ReleaseNotice, StatementFails, Crash, rules, published
<1> QED BY <1>1, <1>2

LEMMA GoneNext == Shape /\ Held /\ Gone /\ Next => Gone'
<1> SUFFICES ASSUME Shape, Held, Gone, Next PROVE Gone'
  OBVIOUS
<1>1. ASSUME NEW i \in Instance, ClockStep(i) PROVE Gone'
  <2>1. \A f \in Fire : state'[f] = state[f] \/ (state[f] = "pending" /\ state'[f] \in Settled)
    BY <1>1, StepIsOfAKind, KindsOnFires
  <2>2. /\ events' = events /\ reading' = reading
        /\ \A r \in Rule : switch'[r] = "gone" <=> switch[r] = "gone"
    BY <1>1, ClockStepOnRules
  <2>3. {"none", "gone"} \cap Settled = {}
    BY DEF Settled
  <2> QED BY <2>1, <2>2, <2>3, FireFacts DEF Gone
<1>2. ASSUME NEW i \in Instance, NEW l \in looks[i], Check(i, l) PROVE Gone'
  <2>1. switch' = switch /\ events' = events /\ reading' = reading
    BY <1>2 DEF Check, published
  <2>2. CASE state' = state
    BY <2>1, <2>2 DEF Gone
  <2>3. CASE \E g \in Fire : RuleOf(g) = l.rule /\ state[g] = "none" /\ state' = [state EXCEPT ![g] = "pending"]
             /\ switch[l.rule] # "gone" /\ l.rule \in Valued
    BY <2>1, <2>3 DEF Gone, Shape
  <2> QED BY <1>2, <2>2, <2>3, LookedFacts
<1>3. ASSUME NEW e \in Event, PublishCommits(e) PROVE Gone'
  <2>1. switch' = switch /\ events' = events \cup {e} /\ reading' = [reading EXCEPT ![e] = {}]
    BY <1>3 DEF PublishCommits
  <2>2. \A f \in Fire : state'[f] = (IF \E l \in reading[e] : f = <<l.rule, e>> THEN "pending" ELSE state[f])
    BY <1>3, PublishedFacts
  <2>3. \A l \in reading[e] : RuleOf(<<l.rule, e>>) = l.rule /\ switch[l.rule] # "gone" /\ <<l.rule, e>>[2] = e
    BY <1>3, PublishedFacts
  <2>4. \A f \in Fire : \/ state'[f] = state[f]
                        \/ state'[f] = "pending" /\ switch[RuleOf(f)] # "gone" /\ f[2] = e
    BY <2>2, <2>3
  <2>5. \A f \in Fire : state'[f] = "gone" => switch'[RuleOf(f)] = "gone"
    BY <2>1, <2>4 DEF Gone
  <2>6. \A f \in Fire : switch'[RuleOf(f)] = "gone" => state'[f] \in {"none", "gone"}
    BY <2>1, <2>4 DEF Gone
  <2>7. \A d \in Event : reading'[d] # {} => d \notin events'
    BY <2>1 DEF Gone, Shape
  <2>8. \A f \in Fire : RuleOf(f) \notin Valued /\ f[2] \notin events' => state'[f] = "none"
    BY <2>1, <2>4 DEF Gone
  <2> QED BY <2>5, <2>6, <2>7, <2>8 DEF Gone
<1>4. ASSUME NEW e \in Event, Publish(e) \/ PublishFails(e) PROVE Gone'
  BY <1>4 DEF Publish, PublishFails, Gone, Shape, rules, fires
<1>5. ASSUME NEW r \in Rule, DeleteRule(r) PROVE Gone'
  <2>1. switch' = [switch EXCEPT ![r] = "gone"] /\ events' = events /\ reading' = reading
    BY <1>5 DEF DeleteRule, published
  <2>2. \A f \in Fire : state'[f] = IF RuleOf(f) = r /\ state[f] # "none" THEN "gone" ELSE state[f]
    BY <1>5 DEF DeleteRule
  <2> QED BY <2>1, <2>2, FireFacts DEF Gone, Shape
<1>6. ASSUME NEW r \in Rule, ReplaceRule(r) \/ SetEnabled(r) PROVE Gone'
  <2>1. state' = state /\ events' = events /\ reading' = reading
    BY <1>6 DEF ReplaceRule, SetEnabled, published
  <2>2. \A q \in Rule : switch'[q] = "gone" <=> switch[q] = "gone"
    BY <1>6 DEF ReplaceRule, SetEnabled, Edit, Rearm, Shape
  <2> QED BY <2>1, <2>2, FireFacts DEF Gone
<1>7. CASE \/ \E r \in Rule : IntervalEnds(r) \/ CooldownEnds(r)
           \/ \E f \in Fire : WaitEnds(f) \/ GrowsOld(f)
           \/ HourEnds
  BY <1>7 DEF IntervalEnds, CooldownEnds, WaitEnds, GrowsOld, HourEnds, Gone, rules, fires, published
<1> QED BY <1>1, <1>2, <1>3, <1>4, <1>5, <1>6, <1>7, NextIsOfAKind DEF Aside

(* What the clock holds stays its own.                                     *)
LEMMA HeldNext == OneClock /\ Shape /\ Gone /\ Held /\ Next => Held'
<1> SUFFICES ASSUME OneClock, Shape, Gone, Held, Next PROVE Held'
  OBVIOUS
<1>1. CASE Aside
  <2>1. /\ Ages /\ sent' = sent /\ told' = told /\ place' = place /\ batch' = batch /\ job' = job
        /\ \A i \in Instance : looks'[i] \subseteq looks[i]
    BY <1>1, AsideEffect
  <2>2. \A f \in Fire : state[f] \in {"pending", "gone"} => state'[f] \in {"pending", "gone"}
    BY <2>1 DEF Ages
  <2>3. \A i \in Instance : /\ \A b \in batch[i] : b.fire \in Fire
                            /\ place[i] \in Sending => job[i].fire \in Fire
    BY DEF Shape, Claimed, Busy
  <2> QED BY <2>1, <2>2, <2>3 DEF Held
<1>2. ASSUME NEW i \in Instance, ClockStep(i) PROVE Held'
  <2> DEFINE At == /\ looks'[i] # {} => place'[i] = "looking"
                   /\ batch'[i] # {} => place'[i] \in Busy \cup {"delivering"}
                   /\ \A b \in batch'[i] : state'[b.fire] \in {"pending", "gone"}
                   /\ \A b, c \in batch'[i] : b.fire = c.fire => b = c
                   /\ place'[i] \in Sending => state'[job'[i].fire] \in {"pending", "gone"}
                   /\ place'[i] \in Busy => \A b \in batch'[i] : b.fire # job'[i].fire
  <2>1. SUFFICES At
    BY DEF Held, OneClock
  <2>2. Kinds(i)
    BY <1>2, StepIsOfAKind
  <2>3. /\ \A b \in batch[i] : b.fire \in Fire /\ state[b.fire] \in {"pending", "gone"}
        /\ \A b, c \in batch[i] : b.fire = c.fire => b = c
        /\ place[i] \in Sending => job[i].fire \in Fire /\ state[job[i].fire] \in {"pending", "gone"}
        /\ place[i] \in Busy => \A b \in batch[i] : b.fire # job[i].fire
        /\ looks[i] # {} => place[i] = "looking"
    BY DEF Held, Shape, Claimed, Busy
  <2>4. CASE Rests(i)
    BY <2>3, <2>4 DEF Rests
  <2>5. CASE Claims(i)
    BY <2>5 DEF Claims, Pending, Busy, Sending
  <2>6. ASSUME NEW b \in batch[i], Begins(i, b) PROVE At
    BY <2>3, <2>6 DEF Begins, Busy, Sending
  <2>7. ASSUME NEW b \in batch[i], NEW s \in {"abandoned", "throttled"}, Drops(i, b, s) PROVE At
    <3>1. \A c \in batch'[i] : c \in batch[i] /\ c.fire # b.fire
      BY <2>3, <2>7 DEF Drops
    <3>2. \A c \in batch'[i] : state'[c.fire] = state[c.fire]
      BY <2>3, <2>7, <3>1 DEF Drops, Shape
    <3>3. place'[i] = "delivering" \/ (place'[i] = "noticing" /\ job'[i].fire = b.fire)
      BY <2>7 DEF Drops
    <3>4. looks'[i] = {}
      BY <2>3, <2>7 DEF Drops
    <3> QED BY <2>3, <3>1, <3>2, <3>3, <3>4 DEF Busy, Sending
  <2>8. CASE Sends(i) \/ Records(i)
    BY <2>3, <2>8 DEF Sends, Records, Busy, Sending
  <2>9. ASSUME NEW s \in {"delivered", "refused"}, Settles(i, s) PROVE At
    <3>1. \A c \in batch[i] : state'[c.fire] = state[c.fire]
      BY <2>3, <2>9 DEF Settles, Shape, Busy, Sending
    <3> QED BY <2>3, <2>9, <3>1 DEF Settles, Busy, Sending
  <2> QED BY <2>2, <2>4, <2>5, <2>6, <2>7, <2>8, <2>9 DEF Kinds
<1> QED BY <1>1, <1>2, NextIsOfAKind

(***************************************************************************)
(* One clock: what is noted as sent is what the phone has.                 *)
(***************************************************************************)

(* What the phone gets when the clock sends.                               *)
LEMMA ReachesPhone ==
  ASSUME Shape, NEW i \in Instance, place[i] \in Sending, Reaches(i)
  PROVE  \A g \in Fire, m \in 1..Parts :
           told'[g][m] = IF g = job[i].fire /\ m = job[i].part + 1 THEN told[g][m] + 1 ELSE told[g][m]
<1>1. job[i].fire \in Fire /\ job[i].part + 1 \in Nat
  BY DEF Shape, Job, Busy
<1> QED BY <1>1, ToldShape DEF Reaches

(* Nothing that reached the phone is taken back.                           *)
LEMMA ToldGrows ==
  ASSUME Shape, NEW i \in Instance, Kinds(i)
  PROVE  \A f \in Fire, k \in 1..Parts :
           told[f][k] \in Nat /\ told'[f][k] \in Nat /\ told'[f][k] >= told[f][k]
<1>1. \A f \in Fire, k \in 1..Parts : told[f][k] \in Nat
  BY DEF Shape
<1>2. CASE Sends(i)
  <2>1. told' = told \/ Reaches(i)
    BY <1>2 DEF Sends
  <2>2. place[i] \in Sending
    BY <1>2 DEF Sends, Sending
  <2> QED BY <1>1, <2>1, <2>2, ReachesPhone
<1>3. CASE told' = told
  BY <1>1, <1>3
<1> QED BY <1>2, <1>3 DEF Kinds, Rests, Claims, Records, Begins, Drops, Settles

NotedFires ==
  /\ \A f \in Fire : sent[f] <= Parts /\ \A k \in 1..sent[f] : told[f][k] > 0
  /\ \A f \in Fire : state[f] = "none" => sent[f] = 0 /\ \A k \in 1..Parts : told[f][k] = 0

NotedAt(i) ==
  /\ \A b \in batch[i] : b.sent = sent[b.fire]
  /\ place[i] \in Sending =>
       /\ job[i].part <= Parts /\ (place[i] # "settling" => job[i].part < Parts)
       /\ sent[job[i].fire] <= job[i].part
       /\ state[job[i].fire] = "pending" => sent[job[i].fire] = job[i].part
       /\ \A k \in 1..job[i].part : told[job[i].fire][k] > 0
       /\ place[i] = "recording" => told[job[i].fire][job[i].part + 1] > 0
       /\ place[i] = "settling" /\ job[i].answer = "ok" => job[i].part = Parts

LEMMA NotedParts == Noted <=> NotedFires /\ \A i \in Instance : NotedAt(i)
BY DEF Noted, NotedFires, NotedAt

(* The fires, after a step of the clock.                                   *)
LEMMA NotedFiresClock ==
  ASSUME Shape, Held, NotedFires, NEW i \in Instance, NotedAt(i), Kinds(i)
  PROVE  NotedFires'
<1>1. /\ \A f \in Fire : sent[f] \in Nat
      /\ Parts \in Nat /\ job[i].part \in Nat
  BY ConstantsAssumption DEF Shape, Job
<1>2. place[i] \in Sending => job[i].fire \in Fire /\ state[job[i].fire] \in {"pending", "gone"}
  BY DEF Shape, Held, Busy
<1>3. \A f \in Fire, k \in 1..Parts :
        told[f][k] \in Nat /\ told'[f][k] \in Nat /\ told'[f][k] >= told[f][k]
  BY ToldGrows
<1>4. \A f \in Fire : state'[f] = state[f] \/ state'[f] # "none"
  BY KindsOnFires DEF Settled
<1>5. \A f \in Fire : state[f] = "none" => \A k \in 1..Parts : told'[f][k] = told[f][k]
  <2>1. CASE Sends(i)
    <3>1. told' = told \/ Reaches(i)
      BY <2>1 DEF Sends
    <3>2. place[i] \in Sending
      BY <2>1 DEF Sends, Sending
    <3> QED BY <1>2, <3>1, <3>2, ReachesPhone
  <2>2. CASE told' = told
    BY <2>2
  <2> QED BY <2>1, <2>2 DEF Kinds, Rests, Claims, Records, Begins, Drops, Settles
<1>6. CASE sent' = sent
  <2>1. \A f \in Fire : \A k \in 1..sent[f] : k \in 1..Parts
    BY <1>1 DEF NotedFires
  <2>2. \A f \in Fire : \A k \in 1..sent[f] : told'[f][k] > 0
    BY <1>3, <2>1 DEF NotedFires
  <2> QED BY <1>4, <1>5, <1>6, <2>2 DEF NotedFires
<1>7. CASE Records(i)
  <2>1. place[i] = "recording" /\ place[i] \in Sending /\ told' = told /\ state' = state
    BY <1>7 DEF Records, Sending
  <2> DEFINE f == job[i].fire
  <2>2. /\ f \in Fire /\ job[i].part < Parts /\ told[f][job[i].part + 1] > 0
        /\ state[f] # "gone" => sent[f] = job[i].part /\ state[f] = "pending"
    BY <1>2, <2>1 DEF NotedAt
  <2>3. sent' = IF state[f] = "gone" THEN sent ELSE [sent EXCEPT ![f] = @ + 1]
    BY <1>7 DEF Records
  <2>4. CASE state[f] = "gone"
    BY <1>6, <2>3, <2>4
  <2>5. CASE state[f] # "gone"
    <3>1. \A g \in Fire : sent'[g] = IF g = f THEN sent[g] + 1 ELSE sent[g]
      BY <2>2, <2>3, <2>5 DEF Shape
    <3>2. sent'[f] <= Parts /\ \A k \in 1..sent'[f] : told[f][k] > 0
      BY <1>1, <2>2, <2>5, <3>1 DEF NotedFires
    <3> HIDE DEF f
    <3> QED BY <2>1, <2>2, <2>5, <3>1, <3>2 DEF NotedFires
  <2> QED BY <2>4, <2>5
<1> QED BY <1>6, <1>7 DEF Kinds, Rests, Claims, Sends, Begins, Drops, Settles

(* What the clock holds, after a step of it.                               *)
LEMMA NotedAtClock ==
  ASSUME Shape, Held, NotedFires, NEW i \in Instance, NotedAt(i), Kinds(i)
  PROVE  NotedAt(i)'
<1>1. /\ \A f \in Fire : sent[f] \in Nat
      /\ Parts \in Nat /\ job[i].part \in Nat
      /\ \A b \in batch[i] : b.fire \in Fire
  BY ConstantsAssumption DEF Shape, Job, Claimed
<1>2. place[i] \in Sending => job[i].fire \in Fire /\ state[job[i].fire] \in {"pending", "gone"}
  BY DEF Shape, Held, Busy
<1>3. \A f \in Fire, k \in 1..Parts :
        told[f][k] \in Nat /\ told'[f][k] \in Nat /\ told'[f][k] >= told[f][k]
  BY ToldGrows
<1>4. CASE Rests(i)
  BY <1>4 DEF Rests, NotedAt
<1>5. CASE Claims(i)
  BY <1>5 DEF Claims, NotedAt, Sending
<1>6. ASSUME NEW b \in batch[i], NEW s \in {"abandoned", "throttled"}, Drops(i, b, s)
      PROVE  NotedAt(i)'
  BY <1>6 DEF Drops, NotedAt, Sending
<1>7. ASSUME NEW b \in batch[i], Begins(i, b) PROVE NotedAt(i)'
  <2>1. b.sent = sent[b.fire] /\ b.sent <= Parts /\ b.sent \in Nat
        /\ \A k \in 1..b.sent : told[b.fire][k] > 0
    BY <1>1 DEF NotedAt, NotedFires
  <2>2. /\ sent' = sent /\ told' = told /\ batch'[i] \subseteq batch[i]
        /\ job'[i].fire = b.fire /\ job'[i].part = b.sent
        /\ place'[i] = (IF b.sent = Parts THEN "settling" ELSE "sending")
    BY <1>7 DEF Begins
  <2> QED BY <1>1, <2>1, <2>2 DEF NotedAt
<1>8. CASE Sends(i)
  <2>1. /\ place[i] = "sending" /\ place[i] \in Sending /\ sent' = sent /\ state' = state
        /\ batch' = batch /\ job'[i].fire = job[i].fire /\ job'[i].part = job[i].part
    BY <1>8 DEF Sends, Sending
  <2>2. job[i].part < Parts /\ \A k \in 1..job[i].part : k \in 1..Parts
    BY <1>1, <2>1 DEF NotedAt
  <2>3. \A k \in 1..job[i].part : told'[job[i].fire][k] > 0
    BY <1>2, <1>3, <2>1, <2>2 DEF NotedAt
  <2>4. \/ place'[i] = "recording" /\ Reaches(i)
        \/ place'[i] = "settling" /\ job'[i].answer # "ok"
    BY <1>8 DEF Sends
  <2>5. place'[i] = "recording" => told'[job[i].fire][job[i].part + 1] > 0
    <3> SUFFICES ASSUME Reaches(i) PROVE told'[job[i].fire][job[i].part + 1] > 0
      BY <2>4
    <3>1. job[i].part + 1 \in 1..Parts
      BY <1>1, <2>2
    <3>2. told'[job[i].fire][job[i].part + 1] = told[job[i].fire][job[i].part + 1] + 1
      BY <1>2, <2>1, <3>1, ReachesPhone
    <3>3. told[job[i].fire][job[i].part + 1] \in Nat
      BY <1>2, <1>3, <2>1, <3>1
    <3> QED BY <3>2, <3>3
  <2> QED BY <1>2, <2>1, <2>2, <2>3, <2>4, <2>5 DEF NotedAt
<1>9. CASE Records(i)
  <2>1. /\ place[i] = "recording" /\ place[i] \in Sending /\ told' = told /\ state' = state
        /\ batch' = batch /\ job'[i].fire = job[i].fire /\ job'[i].part = job[i].part + 1
        /\ place'[i] = (IF job[i].part + 1 = Parts THEN "settling" ELSE "sending")
        /\ sent' = IF state[job[i].fire] = "gone" THEN sent ELSE [sent EXCEPT ![job[i].fire] = @ + 1]
    BY <1>9 DEF Records, Sending
  <2>2. /\ job[i].part < Parts /\ sent[job[i].fire] <= job[i].part
        /\ state[job[i].fire] = "pending" => sent[job[i].fire] = job[i].part
        /\ \A k \in 1..job[i].part : told[job[i].fire][k] > 0
        /\ told[job[i].fire][job[i].part + 1] > 0
    BY <2>1 DEF NotedAt
  <2>3. \A b \in batch[i] : b.sent = sent'[b.fire]
    <3>1. \A b \in batch[i] : b.sent = sent[b.fire] /\ b.fire # job[i].fire
      BY <2>1 DEF NotedAt, Held, Busy
    <3> QED BY <1>1, <2>1, <3>1 DEF Shape
  <2>4. sent'[job[i].fire] <= job[i].part + 1
        /\ (state[job[i].fire] = "pending" => sent'[job[i].fire] = job[i].part + 1)
    BY <1>1, <1>2, <2>1, <2>2 DEF Shape
  <2>5. \A k \in 1..(job[i].part + 1) : told[job[i].fire][k] > 0
    BY <1>1, <2>2
  <2> HIDE DEF Sending
  <2> QED BY <1>1, <2>1, <2>2, <2>3, <2>4, <2>5 DEF NotedAt
<1>10. ASSUME NEW s \in {"delivered", "refused"}, Settles(i, s) PROVE NotedAt(i)'
  BY <1>10 DEF Settles, NotedAt, Sending
<1> QED BY <1>4, <1>5, <1>6, <1>7, <1>8, <1>9, <1>10 DEF Kinds

LEMMA NotedNext == OneClock /\ Shape /\ Gone /\ Held /\ Noted /\ Next => Noted'
<1> SUFFICES ASSUME OneClock, Shape, Gone, Held, Noted, Next PROVE Noted'
  OBVIOUS
<1>1. NotedFires /\ \A i \in Instance : NotedAt(i)
  BY NotedParts
<1>2. SUFFICES NotedFires' /\ \A i \in Instance : NotedAt(i)'
  BY NotedParts DEF Noted, NotedFires, NotedAt
<1>3. CASE Aside
  <2>1. Ages /\ sent' = sent /\ told' = told /\ place' = place /\ batch' = batch /\ job' = job
    BY <1>3, AsideEffect
  <2>2. NotedFires'
    BY <1>1, <2>1 DEF NotedFires, Ages
  <2>3. ASSUME NEW i \in Instance PROVE NotedAt(i)'
    <3>1. place[i] \in Sending => job[i].fire \in Fire /\ state[job[i].fire] \in {"pending", "gone"}
      BY DEF Shape, Held, Busy
    <3>2. place[i] \in Sending => (state'[job[i].fire] = "pending" => state[job[i].fire] = "pending")
      BY <2>1, <3>1 DEF Ages
    <3> QED BY <1>1, <2>1, <3>2 DEF NotedAt
  <2> QED BY <2>2, <2>3
<1>4. ASSUME NEW i \in Instance, ClockStep(i) PROVE NotedFires' /\ \A j \in Instance : NotedAt(j)'
  <2>1. Kinds(i)
    BY <1>4, StepIsOfAKind
  <2>2. NotedFires'
    BY <1>1, <2>1, NotedFiresClock
  <2>3. NotedAt(i)'
    BY <1>1, <2>1, NotedAtClock
  <2>4. \A j \in Instance : j = i
    BY DEF OneClock
  <2> QED BY <2>2, <2>3, <2>4
<1> QED BY <1>3, <1>4, NextIsOfAKind

(* What is delivered is whole.                                             *)
LEMMA WholeNext ==
  Shape /\ Gone /\ Held /\ Noted /\ DeliveredIsWhole /\ Next => DeliveredIsWhole'
<1> SUFFICES ASSUME Shape, Gone, Held, Noted, DeliveredIsWhole, Next,
                    NEW f \in Fire, state'[f] = "delivered", NEW k \in 1..Parts
             PROVE  told'[f][k] > 0
  BY DEF DeliveredIsWhole
<1>1. CASE Aside
  BY <1>1, AsideEffect DEF Ages, DeliveredIsWhole
<1>2. ASSUME NEW i \in Instance, ClockStep(i) PROVE told'[f][k] > 0
  <2>1. Kinds(i)
    BY <1>2, StepIsOfAKind
  <2>2. told[f][k] \in Nat /\ told'[f][k] \in Nat /\ told'[f][k] >= told[f][k]
    BY <2>1, ToldGrows
  <2>3. told[f][k] > 0
    <3>1. CASE state[f] = "delivered"
      BY <3>1 DEF DeliveredIsWhole
    <3>2. CASE state[f] # "delivered"
      <4>1. \E s \in {"delivered", "refused"} : Settles(i, s)
        <5>1. \A b \in batch[i] : b.fire \in Fire
          BY DEF Shape, Claimed
        <5> QED BY <2>1, <3>2, <5>1 DEF Kinds, Rests, Claims, Sends, Records, Begins, Drops, Shape
      <4>2. PICK s \in {"delivered", "refused"} : Settles(i, s)
        BY <4>1
      <4>3. place[i] = "settling" /\ job[i].fire = f /\ s = "delivered" /\ job[i].answer = "ok"
        BY <3>2, <4>2 DEF Settles, Shape, Busy, Sending
      <4>4. job[i].part = Parts /\ \A m \in 1..job[i].part : told[f][m] > 0
        BY <4>3, NotedParts DEF NotedAt, Sending
      <4>5. k \in 1..job[i].part
        BY <4>4
      <4> QED BY <4>4, <4>5
    <3> QED BY <3>1, <3>2
  <2> QED BY <2>2, <2>3
<1> QED BY <1>1, <1>2, NextIsOfAKind

(***************************************************************************)
(* One clock: what a part was told too often is a fault's.                 *)
(***************************************************************************)

CountedFires ==
  /\ \A f \in Fire, k \in 1..Parts : told[f][k] <= 1 + faults
  /\ \A f \in Fire :
       state[f] = "pending" /\ (\A i \in Instance : place[i] \in Sending => job[i].fire # f) =>
         \A k \in 1..Parts : k > sent[f] => told[f][k] <= faults

CountedAt(i) ==
  /\ \A b \in batch[i], k \in 1..Parts : k > b.sent => told[b.fire][k] <= faults
  /\ place[i] \in Sending =>
       \A k \in 1..Parts : k > Known(i) => told[job[i].fire][k] <= faults

LEMMA CountedParts == Counted <=> CountedFires /\ \A i \in Instance : CountedAt(i)
BY DEF Counted, CountedFires, CountedAt

LEMMA CountedAtClock ==
  ASSUME OneClock, Shape, Held, CountedFires, NEW i \in Instance, CountedAt(i), Kinds(i)
  PROVE  CountedAt(i)'
<1>1. /\ faults \in Nat /\ Parts \in Nat /\ job[i].part \in Nat
      /\ \A f \in Fire : sent[f] \in Nat
      /\ \A f \in Fire, k \in 1..Parts : told[f][k] \in Nat
      /\ \A b \in batch[i] : b.fire \in Fire /\ b.sent \in Nat
  BY ConstantsAssumption DEF Shape, Job, Claimed
<1>2. place[i] \in Sending => job[i].fire \in Fire /\ \A b \in batch[i] : b.fire # job[i].fire
  BY DEF Shape, Held, Busy
<1>3. CASE Rests(i)
  <2>1. /\ told' = told /\ faults' \in Nat /\ faults' >= faults
        /\ place'[i] \notin Sending /\ batch'[i] \subseteq batch[i]
    BY <1>1, <1>3 DEF Rests
  <2> QED BY <1>1, <2>1 DEF CountedAt
<1>4. CASE Claims(i)
  <2>1. /\ told' = told /\ faults' = faults /\ place[i] = "looking" /\ place'[i] = "delivering"
        /\ \A b \in batch'[i] : b.fire \in Fire /\ state[b.fire] = "pending" /\ b.sent = sent[b.fire]
    BY <1>4 DEF Claims, Pending
  <2>2. \A j \in Instance : place[j] \notin Sending
    BY <2>1 DEF OneClock, Sending
  <2>3. \A b \in batch'[i], k \in 1..Parts : k > b.sent => told[b.fire][k] <= faults
    BY <2>1, <2>2 DEF CountedFires
  <2>4. place'[i] \notin Sending
    BY <2>1 DEF Sending
  <2> QED BY <2>1, <2>3, <2>4 DEF CountedAt
<1>5. ASSUME NEW b \in batch[i], NEW s \in {"abandoned", "throttled"}, Drops(i, b, s)
      PROVE  CountedAt(i)'
  BY <1>5 DEF Drops, CountedAt, Sending
<1>6. ASSUME NEW b \in batch[i], Begins(i, b) PROVE CountedAt(i)'
  <2>1. /\ told' = told /\ faults' = faults /\ batch'[i] \subseteq batch[i]
        /\ place'[i] # "recording" /\ job'[i].fire = b.fire /\ job'[i].part = b.sent
    BY <1>6 DEF Begins
  <2> QED BY <1>1, <2>1 DEF CountedAt, Known
<1>7. CASE Sends(i)
  <2>1. /\ place[i] = "sending" /\ place[i] \in Sending /\ batch' = batch
        /\ job'[i].fire = job[i].fire /\ job'[i].part = job[i].part
        /\ Known(i) = job[i].part
    BY <1>1, <1>7 DEF Sends, Sending, Known
  <2>2. \A b \in batch[i], k \in 1..Parts : told'[b.fire][k] = told[b.fire][k]
    <3>1. told' = told \/ Reaches(i)
      BY <1>7 DEF Sends
    <3> QED BY <1>1, <1>2, <2>1, <3>1, ReachesPhone
  <2>3. faults' = faults \/ faults' = faults + 1
    BY <1>7 DEF Sends
  <2>4. \A b \in batch'[i], k \in 1..Parts : k > b.sent => told'[b.fire][k] <= faults'
    BY <1>1, <2>1, <2>2, <2>3 DEF CountedAt
  <2>5. \A k \in 1..Parts : k > job[i].part => told[job[i].fire][k] <= faults
    BY <2>1 DEF CountedAt
  <2>6. CASE Reaches(i) /\ faults' = faults /\ place'[i] = "recording"
    <3>1. Known(i)' = job[i].part + 1
      BY <2>1, <2>6 DEF Known
    <3>2. \A k \in 1..Parts : k > job[i].part + 1 => told'[job[i].fire][k] <= faults
      BY <1>1, <1>2, <2>1, <2>5, <2>6, ReachesPhone
    <3> QED BY <2>1, <2>4, <2>6, <3>1, <3>2 DEF CountedAt
  <2>7. CASE told' = told /\ faults' = faults /\ place'[i] = "settling"
    BY <2>1, <2>4, <2>5, <2>7 DEF CountedAt, Known
  <2>8. CASE Reaches(i) /\ faults' = faults + 1 /\ place'[i] = "settling"
    <3>1. Known(i)' = job[i].part
      BY <1>1, <2>1, <2>8 DEF Known
    <3>2. \A k \in 1..Parts : k > job[i].part => told'[job[i].fire][k] <= faults + 1
      BY <1>1, <1>2, <2>1, <2>5, <2>8, ReachesPhone
    <3> QED BY <2>1, <2>4, <2>8, <3>1, <3>2 DEF CountedAt
  <2> QED BY <1>7, <2>6, <2>7, <2>8 DEF Sends
<1>8. CASE Records(i)
  <2>1. /\ place[i] = "recording" /\ place[i] \in Sending /\ told' = told /\ faults' = faults
        /\ batch' = batch /\ place'[i] # "recording"
        /\ job'[i].fire = job[i].fire /\ job'[i].part = job[i].part + 1
    BY <1>8 DEF Records, Sending
  <2>2. Known(i) = job[i].part + 1 /\ Known(i)' = job[i].part + 1
    BY <1>1, <2>1 DEF Known
  <2> QED BY <2>1, <2>2 DEF CountedAt
<1>9. ASSUME NEW s \in {"delivered", "refused"}, Settles(i, s) PROVE CountedAt(i)'
  BY <1>9 DEF Settles, CountedAt, Sending
<1> QED BY <1>3, <1>4, <1>5, <1>6, <1>7, <1>8, <1>9 DEF Kinds

LEMMA CountedFiresClock ==
  ASSUME OneClock, Shape, Held, Noted, CountedFires,
         NEW i \in Instance, CountedAt(i), Kinds(i)
  PROVE  CountedFires'
<1>1. /\ faults \in Nat /\ Parts \in Nat /\ job[i].part \in Nat
      /\ \A f \in Fire : sent[f] \in Nat
      /\ \A f \in Fire, k \in 1..Parts : told[f][k] \in Nat
      /\ \A b \in batch[i] : b.fire \in Fire /\ b.sent \in Nat
  BY ConstantsAssumption DEF Shape, Job, Claimed
<1>2. place[i] \in Sending => job[i].fire \in Fire /\ state[job[i].fire] \in {"pending", "gone"}
  BY DEF Shape, Held, Busy
<1>3. \A j \in Instance : j = i
  BY DEF OneClock
<1>4. /\ \A f \in Fire, k \in 1..Parts : told[f][k] <= 1 + faults
      /\ \A f \in Fire :
           state[f] = "pending" /\ (place[i] \in Sending => job[i].fire # f) =>
             \A k \in 1..Parts : k > sent[f] => told[f][k] <= faults
  BY <1>3 DEF CountedFires
<1> DEFINE Goal == /\ \A f \in Fire, k \in 1..Parts : told'[f][k] <= 1 + faults'
                   /\ \A f \in Fire :
                        state'[f] = "pending" /\ (place'[i] \in Sending => job'[i].fire # f) =>
                          \A k \in 1..Parts : k > sent'[f] => told'[f][k] <= faults'
<1>5. SUFFICES Goal
  BY <1>3 DEF CountedFires
<1>6. /\ NotedAt(i)
      /\ \A b \in batch[i] : b.sent = sent[b.fire]
      /\ \A f \in Fire : state'[f] = "pending" => state[f] = "pending"
  BY NotedParts, KindsOnFires DEF NotedAt, Settled
<1>7. CASE Rests(i)
  <2>1. /\ told' = told /\ state' = state /\ sent' = sent /\ faults' \in Nat /\ faults' >= faults
        /\ place[i] = "recording" => faults' = faults + 1
    BY <1>1, <1>7 DEF Rests
  <2>2. \A f \in Fire, k \in 1..Parts : told'[f][k] <= 1 + faults'
    BY <1>1, <1>4, <2>1
  <2>3. ASSUME NEW f \in Fire, state[f] = "pending", NEW k \in 1..Parts, k > sent[f]
        PROVE  told[f][k] <= faults'
    <3>1. CASE place[i] \in Sending => job[i].fire # f
      BY <1>1, <1>4, <2>1, <2>3, <3>1
    <3>2. CASE place[i] = "recording"
      BY <1>1, <1>4, <2>1, <3>2
    <3>3. CASE place[i] \in Sending /\ place[i] # "recording" /\ job[i].fire = f
      <4>1. sent[f] = job[i].part /\ Known(i) = job[i].part
        BY <1>1, <1>6, <2>3, <3>3 DEF NotedAt, Known
      <4> QED BY <1>1, <2>1, <2>3, <3>3, <4>1 DEF CountedAt
    <3> QED BY <3>1, <3>2, <3>3
  <2> QED BY <2>1, <2>2, <2>3
<1>8. CASE Claims(i)
  BY <1>4, <1>8 DEF Claims, Sending
<1>9. ASSUME NEW b \in batch[i], NEW s \in {"abandoned", "throttled"}, Drops(i, b, s)
      PROVE  Goal
  BY <1>4, <1>6, <1>9 DEF Drops, Sending
<1>10. ASSUME NEW b \in batch[i], Begins(i, b) PROVE Goal
  <2>1. place[i] \notin Sending /\ place'[i] \in Sending
    BY <1>10 DEF Begins, Sending
  <2> QED BY <1>4, <1>10, <2>1 DEF Begins
<1>11. CASE Sends(i)
  <2>1. /\ place[i] = "sending" /\ place[i] \in Sending /\ place'[i] \in Sending
        /\ job'[i].fire = job[i].fire /\ sent' = sent /\ state' = state
        /\ Known(i) = job[i].part
    BY <1>1, <1>11 DEF Sends, Sending, Known
  <2>2. /\ told' = told \/ Reaches(i)
        /\ faults' \in Nat /\ faults' >= faults
    BY <1>1, <1>11 DEF Sends
  <2>3. job[i].part + 1 \in 1..Parts
    BY <1>1, <1>6, <2>1 DEF NotedAt
  <2>4. told[job[i].fire][job[i].part + 1] <= faults
    BY <1>1, <2>1, <2>3 DEF CountedAt
  <2>5. \A f \in Fire, k \in 1..Parts : told'[f][k] <= 1 + faults'
    BY <1>1, <1>2, <1>4, <2>1, <2>2, <2>4, ReachesPhone
  <2>6. \A f \in Fire, k \in 1..Parts : f # job[i].fire => told'[f][k] = told[f][k]
    BY <2>1, <2>2, ReachesPhone
  <2>7. ASSUME NEW f \in Fire, state'[f] = "pending", job'[i].fire # f,
               NEW k \in 1..Parts, k > sent'[f]
        PROVE  told'[f][k] <= faults'
    BY <1>1, <1>4, <2>1, <2>2, <2>6, <2>7
  <2> QED BY <2>1, <2>5, <2>7
<1>12. CASE Records(i)
  <2>1. /\ place[i] \in Sending /\ told' = told /\ faults' = faults /\ state' = state
        /\ place'[i] \in Sending /\ job'[i].fire = job[i].fire
        /\ sent' = IF state[job[i].fire] = "gone" THEN sent ELSE [sent EXCEPT ![job[i].fire] = @ + 1]
    BY <1>12 DEF Records, Sending
  <2>2. \A f \in Fire : f # job[i].fire => sent'[f] = sent[f]
    BY <1>2, <2>1 DEF Shape
  <2> QED BY <1>4, <2>1, <2>2
<1>13. ASSUME NEW s \in {"delivered", "refused"}, Settles(i, s) PROVE Goal
  <2>1. /\ told' = told /\ faults' = faults /\ sent' = sent /\ place[i] \in Sending
        /\ state' = [state EXCEPT ![job[i].fire] = IF @ = "gone" THEN @ ELSE s]
    BY <1>13 DEF Settles, Sending
  <2>2. state'[job[i].fire] # "pending" /\ job[i].fire \in Fire
    BY <1>2, <2>1 DEF Shape
  <2> QED BY <1>4, <1>6, <2>1, <2>2
<1> QED BY <1>7, <1>8, <1>9, <1>10, <1>11, <1>12, <1>13 DEF Kinds

LEMMA CountedNext == OneClock /\ Shape /\ Gone /\ Held /\ Noted /\ Counted /\ Next => Counted'
<1> SUFFICES ASSUME OneClock, Shape, Gone, Held, Noted, Counted, Next PROVE Counted'
  OBVIOUS
<1>0. CountedFires /\ \A i \in Instance : CountedAt(i)
  BY CountedParts
<1>1. SUFFICES CountedFires' /\ \A i \in Instance : CountedAt(i)'
  BY DEF Counted, CountedFires, CountedAt
<1>2. CASE Aside
  <2>1. /\ Ages /\ sent' = sent /\ told' = told /\ place' = place /\ batch' = batch /\ job' = job
        /\ faults' >= faults
    BY <1>2, AsideEffect
  <2>2. faults \in Nat /\ faults' \in Nat
    BY <1>2, ShapeNext DEF Shape
  <2>3. \A f \in Fire, k \in 1..Parts : told[f][k] \in Nat
    BY DEF Shape
  <2>4. \A f \in Fire, k \in 1..Parts : told'[f][k] <= 1 + faults'
    BY <1>0, <2>1, <2>2, <2>3 DEF CountedFires
  <2>5. ASSUME NEW f \in Fire, state'[f] = "pending",
               \A i \in Instance : place[i] \in Sending => job[i].fire # f,
               NEW k \in 1..Parts, k > sent[f]
        PROVE  told[f][k] <= faults'
    <3>1. CASE state[f] = "pending"
      <4>1. told[f][k] <= faults
        BY <1>0, <2>5, <3>1 DEF CountedFires
      <4> QED BY <2>1, <2>2, <2>3, <4>1
    <3>2. CASE state[f] = "none"
      BY <2>2, <3>2 DEF Noted
    <3> QED BY <2>1, <2>5, <3>1, <3>2 DEF Ages
  <2>6. ASSUME NEW i \in Instance PROVE CountedAt(i)'
    <3>1. /\ \A b \in batch[i] : b.fire \in Fire
          /\ place[i] \in Sending => job[i].fire \in Fire
      BY DEF Shape, Claimed, Busy
    <3>2. Known(i)' = Known(i)
      BY <2>1 DEF Known
    <3>3. \A b \in batch[i], k \in 1..Parts : k > b.sent => told[b.fire][k] <= faults'
      BY <1>0, <2>1, <2>2, <2>3, <3>1 DEF CountedAt
    <3>4. place[i] \in Sending => \A k \in 1..Parts : k > Known(i) => told[job[i].fire][k] <= faults'
      BY <1>0, <2>1, <2>2, <2>3, <3>1 DEF CountedAt
    <3> QED BY <2>1, <3>2, <3>3, <3>4 DEF CountedAt
  <2> QED BY <2>1, <2>4, <2>5, <2>6 DEF CountedFires
<1>3. ASSUME NEW i \in Instance, ClockStep(i) PROVE CountedFires' /\ \A j \in Instance : CountedAt(j)'
  <2>1. Kinds(i)
    BY <1>3, StepIsOfAKind
  <2>2. CountedFires'
    BY <1>0, <2>1, CountedFiresClock
  <2>3. CountedAt(i)'
    BY <1>0, <2>1, CountedAtClock
  <2>4. \A j \in Instance : j = i
    BY DEF OneClock
  <2> QED BY <2>2, <2>3, <2>4
<1> QED BY <1>2, <1>3, NextIsOfAKind

(***************************************************************************)
(* One clock: a once rule tells once.                                      *)
(***************************************************************************)

(* A step that starts no fire of a once rule nobody wrote again, and takes *)
(* its hold away only with its fire, keeps the invariant.                  *)
LEMMA OnceKept ==
  ASSUME Shape, OnceInv,
         \A r \in Rule : edits'[r] = 0 => edits[r] = 0,
         \A f \in Fire : Telling(f)' => Telling(f) \/ RuleOf(f) \notin Valued,
         \A r \in Once \cap Valued : edits'[r] = 0 /\ r \in fired /\ r \notin fired' =>
           \A f \in Fire : RuleOf(f) = r => ~Telling(f)',
         \A i \in Instance : looks'[i] \subseteq looks[i]
  PROVE  OnceInv'
<1>0. Once \subseteq Rule /\ Valued \subseteq Rule
  BY ConstantsAssumption
<1>1. ASSUME NEW r \in Once \cap Valued, edits'[r] = 0
      PROVE  /\ \A f, g \in Fire : RuleOf(f) = r /\ RuleOf(g) = r /\ Telling(f)' /\ Telling(g)' => f = g
             /\ \A f \in Fire : RuleOf(f) = r /\ Telling(f)' => r \in fired'
  BY <1>0, <1>1 DEF OnceInv
<1>2. ASSUME NEW i \in Instance, NEW l \in looks'[i], l.rule \in Once, edits'[l.rule] = 0, ~l.fired
      PROVE  \A f \in Fire : RuleOf(f) = l.rule => ~Telling(f)'
  <2>1. l.rule \in Valued
    BY DEF Shape, Look
  <2>2. edits[l.rule] = 0
    BY <1>0, <1>2
  <2>3. \A f \in Fire : RuleOf(f) = l.rule => ~Telling(f)
    BY <1>2, <2>2 DEF OnceInv
  <2> QED BY <2>1, <2>3
<1>3. \A i \in Instance : \A l, m \in looks'[i] : l.rule = m.rule => l = m
  BY DEF OnceInv
<1> HIDE DEF Telling
<1> QED BY <1>1, <1>2, <1>3 DEF OnceInv

(* Settling the fire that is held ends it.                                 *)
LEMMA OnceSettled ==
  ASSUME Shape, Gone, OnceInv, NEW f \in Fire, state[f] \in {"pending", "gone"},
         NEW s \in Settled, SettleFire(f, s), edits' = edits, looks' = looks,
         fired' = fired \/ (s # "delivered" /\ ReopenOnceRule(RuleOf(f)))
  PROVE  OnceInv'
<1>1. state' = [state EXCEPT ![f] = IF @ = "gone" THEN @ ELSE s]
  BY DEF SettleFire
<1>2. \A g \in Fire : Telling(g)' => Telling(g)
  BY <1>1 DEF Telling, Shape
<1>3. ASSUME NEW r \in Once \cap Valued, edits[r] = 0, r \in fired, r \notin fired',
             NEW g \in Fire, RuleOf(g) = r, Telling(g)'
      PROVE  FALSE
  <2>1. r = RuleOf(f) /\ s # "delivered"
    BY <1>3 DEF ReopenOnceRule
  <2>2. Telling(g)
    BY <1>2, <1>3
  <2>3. CASE state[f] = "gone"
    BY <1>3, <2>1, <2>2, <2>3 DEF Gone, Telling
  <2>4. CASE state[f] = "pending"
    <3>1. f = g
      BY <1>3, <2>1, <2>2, <2>4 DEF OnceInv, Telling
    <3>2. state'[g] = s
      BY <1>1, <2>4, <3>1 DEF Shape
    <3>3. s \notin {"pending", "delivered"}
      BY <2>1 DEF Settled
    <3> QED BY <1>3, <3>2, <3>3 DEF Telling
  <2> QED BY <2>3, <2>4
<1> QED BY <1>2, <1>3, OnceKept

(* A look writes down whether the rule had fired.                          *)
LEMMA OnceClaimed ==
  ASSUME OneClock, Shape, Held, OnceInv, NEW i \in Instance, ClaimDue(i)
  PROVE  OnceInv'
<1>1. /\ UNCHANGED <<fired, edits, state>>
      /\ looks'[i] = {[rule |-> r, known |-> known[r], fired |-> r \in fired, edits |-> edits[r]] :
                        r \in {s \in due : switch[s] = "on"}}
  BY DEF ClaimDue, fires, Shape
<1>2. ASSUME NEW l \in looks'[i]
      PROVE  l.rule \in Valued /\ (~l.fired => l.rule \notin fired)
  <2>1. PICK r \in due :
          l = [rule |-> r, known |-> known[r], fired |-> r \in fired, edits |-> edits[r]]
    BY <1>1
  <2>2. l.rule = r /\ r \in Valued
    BY <2>1 DEF Shape
  <2>3. l.fired = (r \in fired)
    BY <2>1, Zenon
  <2>4. ~l.fired => r \notin fired
    BY <2>3, Zenon
  <2> QED BY <2>2, <2>4
<1>3. \A l, m \in looks'[i] : l.rule = m.rule => l = m
  BY <1>1
<1>4. \A j \in Instance : j = i
  BY DEF OneClock
<1>5. \A f \in Fire : Telling(f)' <=> Telling(f)
  BY <1>1 DEF Telling
<1>6. ASSUME NEW l \in looks'[i], l.rule \in Once, edits[l.rule] = 0, ~l.fired,
             NEW f \in Fire, RuleOf(f) = l.rule, Telling(f)
      PROVE  FALSE
  BY <1>2, <1>6 DEF OnceInv
<1>7. \A r \in Once \cap Valued : edits[r] = 0 =>
       /\ \A f, g \in Fire : RuleOf(f) = r /\ RuleOf(g) = r /\ Telling(f) /\ Telling(g) => f = g
       /\ \A f \in Fire : RuleOf(f) = r /\ Telling(f) => r \in fired
  BY DEF OnceInv
<1> HIDE DEF Telling
<1>8. \A r \in Once \cap Valued : edits'[r] = 0 =>
       /\ \A f, g \in Fire : RuleOf(f) = r /\ RuleOf(g) = r /\ Telling(f)' /\ Telling(g)' => f = g
       /\ \A f \in Fire : RuleOf(f) = r /\ Telling(f)' => r \in fired'
  BY <1>1, <1>5, <1>7
<1>9. \A j \in Instance :
       /\ \A l, m \in looks'[j] : l.rule = m.rule => l = m
       /\ \A l \in looks'[j] : l.rule \in Once /\ edits'[l.rule] = 0 /\ ~l.fired =>
            \A f \in Fire : RuleOf(f) = l.rule => ~Telling(f)'
  BY <1>1, <1>3, <1>4, <1>5, <1>6
<1> QED BY <1>8, <1>9 DEF OnceInv

(* A look that fires is the only one of its rule, and finds none on the way.*)
LEMMA OnceChecked ==
  ASSUME OneClock, Shape, OnceInv, NEW i \in Instance, NEW l \in looks[i], Check(i, l)
  PROVE  OnceInv'
<1>0. Once \subseteq Rule /\ Valued \subseteq Rule
  BY ConstantsAssumption
<1>1. edits' = edits /\ looks' = [looks EXCEPT ![i] = @ \ {l}]
  BY DEF Check
<1>2. \A j \in Instance : looks'[j] \subseteq looks[j]
  BY <1>1 DEF Shape
<1>3. CASE UNCHANGED <<fired, state>>
  <2>1. \A f \in Fire : Telling(f)' => Telling(f)
    BY <1>3 DEF Telling
  <2> QED BY <1>1, <1>2, <1>3, <2>1, OnceKept
<1>4. ASSUME ~l.fired, fired' = fired \cup {l.rule},
             NEW g \in Fire, RuleOf(g) = l.rule, state[g] = "none",
             state' = [state EXCEPT ![g] = "pending"]
      PROVE  OnceInv'
  <2>1. \A f \in Fire : Telling(f)' <=> (Telling(f) \/ f = g)
    BY <1>4 DEF Telling, Shape
  <2>2. l.rule \in Once /\ edits[l.rule] = 0 => \A f \in Fire : RuleOf(f) = l.rule => ~Telling(f)
    BY <1>4 DEF OnceInv
  <2>3. \A j \in Instance : j = i
    BY DEF OneClock
  <2>4. \A m \in looks'[i] : m.rule # l.rule
    <3>1. \A m \in looks'[i] : m \in looks[i] /\ m # l
      BY <1>1 DEF Shape
    <3> QED BY <3>1 DEF OnceInv
  <2>5. \A r \in Once \cap Valued : edits[r] = 0 =>
         /\ \A f, h \in Fire : RuleOf(f) = r /\ RuleOf(h) = r /\ Telling(f) /\ Telling(h) => f = h
         /\ \A f \in Fire : RuleOf(f) = r /\ Telling(f) => r \in fired
    BY DEF OnceInv
  <2>6. \A m \in looks'[i] : m.rule \in Once /\ edits[m.rule] = 0 /\ ~m.fired =>
          \A f \in Fire : RuleOf(f) = m.rule => ~Telling(f)
    BY <1>2 DEF OnceInv
  <2>7. \A r \in Once \cap Valued : edits'[r] = 0 =>
         /\ \A f, h \in Fire : RuleOf(f) = r /\ RuleOf(h) = r /\ Telling(f)' /\ Telling(h)' => f = h
         /\ \A f \in Fire : RuleOf(f) = r /\ Telling(f)' => r \in fired'
    BY <1>1, <1>4, <2>1, <2>2, <2>5
  <2>8. \A j \in Instance :
         /\ \A m, n \in looks'[j] : m.rule = n.rule => m = n
         /\ \A m \in looks'[j] : m.rule \in Once /\ edits'[m.rule] = 0 /\ ~m.fired =>
              \A f \in Fire : RuleOf(f) = m.rule => ~Telling(f)'
    <3>1. \A m, n \in looks'[i] : m.rule = n.rule => m = n
      BY <1>2 DEF OnceInv
    <3> QED BY <1>1, <1>4, <2>1, <2>3, <2>4, <2>6, <3>1
  <2> QED BY <2>7, <2>8 DEF OnceInv
<1> QED BY <1>3, <1>4, LookedFacts

LEMMA OnceNext == OneClock /\ Shape /\ Gone /\ Held /\ OnceInv /\ Next => OnceInv'
<1> SUFFICES ASSUME OneClock, Shape, Gone, Held, OnceInv, Next PROVE OnceInv'
  OBVIOUS
<1>1. ASSUME NEW i \in Instance, ClockStep(i) PROVE OnceInv'
  <2>1. edits' = edits
    BY <1>1, ClockStepOnRules
  <2>2. CASE ClaimDue(i)
    BY <2>2, OnceClaimed
  <2>3. ASSUME NEW b \in batch[i], GiveUp(i, b) \/ Throttle(i, b) PROVE OnceInv'
    <3>1. b.fire \in Fire /\ state[b.fire] \in {"pending", "gone"}
      BY DEF Shape, Claimed, Held
    <3>2. "abandoned" \in Settled /\ "throttled" \in Settled
      BY DEF Settled
    <3>3. CASE GiveUp(i, b)
      <4>1. SettleFire(b.fire, "abandoned") /\ ReopenOnceRule(RuleOf(b.fire)) /\ looks' = looks
        BY <3>3 DEF GiveUp
      <4> QED BY <2>1, <3>1, <3>2, <4>1, OnceSettled
    <3>4. CASE Throttle(i, b)
      <4>1. SettleFire(b.fire, "throttled") /\ fired' = fired /\ looks' = looks
        BY <3>4 DEF Throttle, rules
      <4> QED BY <2>1, <3>1, <3>2, <4>1, OnceSettled
    <3> QED BY <2>3, <3>3, <3>4
  <2>4. CASE Settle(i)
    <3>1. job[i].fire \in Fire /\ state[job[i].fire] \in {"pending", "gone"} /\ looks' = looks
      BY <2>4 DEF Settle, Shape, Held, Busy, Sending
    <3>2. "delivered" \in Settled /\ "refused" \in Settled
      BY DEF Settled
    <3>3. CASE SettleFire(job[i].fire, "delivered") /\ fired' = fired
      BY <2>1, <3>1, <3>2, <3>3, OnceSettled
    <3>4. CASE SettleFire(job[i].fire, "refused") /\ ReopenOnceRule(RuleOf(job[i].fire))
      BY <2>1, <3>1, <3>2, <3>4, OnceSettled
    <3>5. CASE UNCHANGED <<state, fired>>
      BY <2>1, <3>1, <3>5, OnceKept DEF Telling
    <3> QED BY <2>4, <3>3, <3>4, <3>5 DEF Settle
  <2>5. CASE \/ Start(i) \/ ClaimDeliveries(i) \/ TickEnds(i) \/ SendPart(i) \/ PartSent(i)
             \/ (\E b \in batch[i] : BeginSending(i, b))
             \/ ClaimNotice(i) \/ TellNotice(i) \/ ReleaseNotice(i) \/ StatementFails(i) \/ Crash(i)
    <3>1. UNCHANGED <<state, fired>>
      BY <2>5 DEF Start, ClaimDeliveries, TickEnds, SendPart, PartSent, BeginSending,
         ClaimNotice, TellNotice, ReleaseNotice, StatementFails, Crash, rules, fires
    <3>2. \A j \in Instance : looks'[j] \subseteq looks[j]
      BY <2>5 DEF Start, ClaimDeliveries, TickEnds, SendPart, PartSent, BeginSending,
         ClaimNotice, TellNotice, ReleaseNotice, StatementFails, Crash, Shape
    <3> QED BY <2>1, <3>1, <3>2, OnceKept DEF Telling
  <2> QED BY <1>1, <2>2, <2>3, <2>4, <2>5 DEF ClockStep
<1>2. ASSUME NEW i \in Instance, NEW l \in looks[i], Check(i, l) PROVE OnceInv'
  BY <1>2, OnceChecked
<1>3. ASSUME NEW e \in Event, Publish(e) \/ PublishCommits(e) \/ PublishFails(e) PROVE OnceInv'
  <2>1. edits' = edits /\ looks' = looks
    BY <1>3 DEF Publish, PublishCommits, PublishFails, rules, clock
  <2>2. CASE PublishCommits(e)
    <3>1. \A f \in Fire : state'[f] = state[f] \/ RuleOf(f) \notin Valued
      BY <2>2, PublishedFacts
    <3>2. \A f \in Fire : Telling(f)' => Telling(f) \/ RuleOf(f) \notin Valued
      BY <3>1 DEF Telling
    <3>3. fired \subseteq fired'
      BY <2>2 DEF PublishCommits, RecordFires
    <3> QED BY <2>1, <3>2, <3>3, OnceKept
  <2>3. CASE Publish(e) \/ PublishFails(e)
    <3>1. UNCHANGED <<state, fired>>
      BY <2>3 DEF Publish, PublishFails, rules, fires
    <3> QED BY <2>1, <3>1, OnceKept DEF Telling
  <2> QED BY <1>3, <2>2, <2>3
<1>4. ASSUME NEW r \in Rule, ReplaceRule(r) \/ SetEnabled(r) PROVE OnceInv'
  <2>1. edits' = [edits EXCEPT ![r] = @ + 1] /\ state' = state /\ looks' = looks
    BY <1>4 DEF ReplaceRule, SetEnabled, Edit, clock
  <2>2. edits'[r] # 0 /\ \A q \in Rule \ {r} : edits'[q] = edits[q]
    BY <2>1, ConstantsAssumption DEF Shape
  <2>3. \A q \in Rule \ {r} : q \in fired => q \in fired'
    BY <1>4 DEF ReplaceRule, SetEnabled, Rearm, ReopenOnceRule
  <2>4. \A q \in Once \cap Valued : ~(edits'[q] = 0 /\ q \in fired /\ q \notin fired')
    BY <2>2, <2>3, ConstantsAssumption
  <2> QED BY <2>1, <2>2, <2>4, OnceKept DEF Telling
<1>5. ASSUME NEW r \in Rule, DeleteRule(r) PROVE OnceInv'
  <2>1. edits' = edits /\ looks' = looks /\ fired' = fired \ {r}
    BY <1>5 DEF DeleteRule, clock
  <2>2. \A f \in Fire : state'[f] = IF RuleOf(f) = r /\ state[f] # "none" THEN "gone" ELSE state[f]
    BY <1>5 DEF DeleteRule
  <2>3. /\ \A f \in Fire : Telling(f)' => Telling(f)
        /\ \A f \in Fire : RuleOf(f) = r => ~Telling(f)'
    BY <2>2 DEF Telling
  <2> QED BY <2>1, <2>3, OnceKept
<1>6. CASE \/ \E r \in Rule : IntervalEnds(r) \/ CooldownEnds(r)
           \/ \E f \in Fire : WaitEnds(f) \/ GrowsOld(f)
           \/ HourEnds
  <2>1. edits' = edits /\ looks' = looks /\ state' = state
        /\ \A r \in Once : r \in fired => r \in fired'
    BY <1>6 DEF IntervalEnds, CooldownEnds, WaitEnds, GrowsOld, HourEnds, rules, fires, clock
  <2> QED BY <2>1, OnceKept DEF Telling
<1> QED BY <1>1, <1>2, <1>3, <1>4, <1>5, <1>6, NextIsOfAKind DEF Aside

(***************************************************************************)
(* The theorems of one clock.                                              *)
(***************************************************************************)

ClockInv == Shape /\ Held /\ Gone /\ Noted /\ Counted /\ DeliveredIsWhole /\ OnceInv

LEMMA ClockInit == Init => ClockInv
<1> SUFFICES ASSUME Init PROVE ClockInv
  OBVIOUS
<1>1. Shape
  BY ShapeInit
<1>2. \A i \in Instance : place[i] = "idle" /\ batch[i] = {} /\ looks[i] = {}
  BY DEF Init
<1>3. \A f \in Fire : state[f] = "none" /\ sent[f] = 0
  BY DEF Init
<1>4. \A f \in Fire, k \in 1..Parts : told[f][k] = 0
  BY DEF Init
<1>5. Held
  BY <1>2 DEF Held, Busy, Sending
<1>6. Gone
  BY <1>3 DEF Gone, Init
<1>7. Parts \in Nat /\ faults = 0
  BY ConstantsAssumption DEF Init
<1>8. Noted
  BY <1>2, <1>3, <1>4, <1>7 DEF Noted, Sending
<1>9. Counted
  BY <1>2, <1>3, <1>4, <1>7 DEF Counted, Sending
<1>10. DeliveredIsWhole /\ OnceInv
  BY <1>2, <1>3 DEF DeliveredIsWhole, OnceInv, Telling
<1> QED BY <1>1, <1>5, <1>6, <1>8, <1>9, <1>10 DEF ClockInv

LEMMA ClockNext == OneClock /\ ClockInv /\ [Next]_vars => ClockInv'
<1> SUFFICES ASSUME OneClock, ClockInv, [Next]_vars PROVE ClockInv'
  OBVIOUS
<1>1. CASE Next
  BY <1>1, ShapeNext, HeldNext, GoneNext, NotedNext, CountedNext, WholeNext, OnceNext DEF ClockInv
<1>2. CASE UNCHANGED vars
  <2>1. /\ UNCHANGED <<switch, known, fired, due, noticed, edits>>
        /\ UNCHANGED <<state, stale, sent, ready, old, recent, resumed, told>>
        /\ UNCHANGED <<events, reading, place, looks, batch, job, faults>>
    BY <1>2 DEF vars, rules, fires, published, clock
  <2>2. Shape' /\ Held' /\ Gone'
    BY <2>1 DEF ClockInv, Shape, Held, Gone
  <2>3. Noted' /\ Counted'
    BY <2>1 DEF ClockInv, Noted, Counted, Known
  <2>4. DeliveredIsWhole' /\ OnceInv'
    BY <2>1 DEF ClockInv, DeliveredIsWhole, OnceInv, Telling
  <2> QED BY <2>2, <2>3, <2>4 DEF ClockInv
<1> QED BY <1>1, <1>2

LEMMA ClockAlways == ASSUME OneClock PROVE Spec => []ClockInv
<1>1. OneClock /\ ClockInv /\ [Next]_vars => ClockInv'
  BY ClockNext
<1>2. ClockInv /\ [Next]_vars => ClockInv'
  BY <1>1, OneClock
<1> QED BY <1>2, ClockInit, PTL DEF Spec

(* The job never counts more parts than a message has.                     *)
PartInBounds == \A i \in Instance : job[i].part <= Parts

LEMMA PartNext == ClockInv /\ PartInBounds /\ [Next]_vars => PartInBounds'
<1> SUFFICES ASSUME ClockInv, PartInBounds, [Next]_vars PROVE PartInBounds'
  OBVIOUS
<1>0. Parts \in Nat /\ 0 <= Parts /\ NoJob.part = 0 /\ NoJob.part <= Parts /\ Shape
  BY ConstantsAssumption DEF NoJob, ClockInv
<1>1. CASE job' = job
  BY <1>1 DEF PartInBounds
<1>2. ASSUME NEW i \in Instance, NEW n, n.part <= Parts, job' = [job EXCEPT ![i] = n]
      PROVE  PartInBounds'
  BY <1>0, <1>2 DEF PartInBounds, Shape
<1>3. ASSUME NEW i \in Instance, ClockStep(i) PROVE PartInBounds'
  <2>1. job[i] \in Job /\ job \in [Instance -> Job] /\ job[i].part <= Parts
    BY <1>0 DEF Shape, PartInBounds
  <2>2. CASE job' = [job EXCEPT ![i] = NoJob]
    BY <1>0, <1>2, <2>2
  <2>3. ASSUME NEW b \in batch[i], Throttle(i, b) PROVE PartInBounds'
    <3>1. [NoJob EXCEPT !.fire = b.fire].part <= Parts
      BY <1>0 DEF NoJob
    <3>2. job' = [job EXCEPT ![i] = [NoJob EXCEPT !.fire = b.fire]]
      BY <2>3 DEF Throttle
    <3> QED BY <1>0, <1>2, <3>1, <3>2
  <2>4. ASSUME NEW b \in batch[i], BeginSending(i, b) PROVE PartInBounds'
    <3>1. b.sent <= Parts
      BY DEF ClockInv, Noted, Shape, Claimed
    <3>2. [fire |-> b.fire, part |-> b.sent, answer |-> "ok"].part = b.sent
      OBVIOUS
    <3>3. job' = [job EXCEPT ![i] = [fire |-> b.fire, part |-> b.sent, answer |-> "ok"]]
      BY <2>4 DEF BeginSending
    <3> QED BY <1>2, <3>1, <3>2, <3>3
  <2>5. CASE SendPart(i)
    <3>1. job' = job \/ \E a \in {"transient", "refused"} : job' = [job EXCEPT ![i].answer = a]
      BY <2>5 DEF SendPart
    <3>2. ASSUME NEW a, job' = [job EXCEPT ![i].answer = a] PROVE PartInBounds'
      <4>1. [job[i] EXCEPT !.answer = a].part = job[i].part
        BY <2>1 DEF Job
      <4>2. job' = [job EXCEPT ![i] = [job[i] EXCEPT !.answer = a]]
        BY <2>1, <3>2
      <4> QED BY <1>2, <2>1, <4>1, <4>2
    <3> QED BY <1>1, <3>1, <3>2
  <2>6. CASE PartSent(i)
    <3>1. job[i].part + 1 <= Parts
      BY <1>0, <2>1, <2>6 DEF PartSent, ClockInv, Noted, Sending, Job
    <3>2. [job[i] EXCEPT !.part = @ + 1].part = job[i].part + 1
      BY <2>1 DEF Job
    <3>3. job' = [job EXCEPT ![i] = [job[i] EXCEPT !.part = @ + 1]]
      BY <2>1, <2>6 DEF PartSent
    <3> QED BY <1>2, <3>1, <3>2, <3>3
  <2>7. CASE \/ Start(i) \/ ClaimDue(i) \/ ClaimDeliveries(i) \/ TickEnds(i) \/ Settle(i)
             \/ (\E b \in batch[i] : GiveUp(i, b))
             \/ ClaimNotice(i) \/ TellNotice(i) \/ ReleaseNotice(i) \/ StatementFails(i) \/ Crash(i)
    <3>1. job' = job \/ job' = [job EXCEPT ![i] = NoJob]
      BY <2>7, Zenon DEF Start, ClaimDue, ClaimDeliveries, TickEnds, Settle, GiveUp, ClaimNotice,
         TellNotice, ReleaseNotice, StatementFails, Crash, Done
    <3> QED BY <1>1, <2>2, <3>1
  <2> QED BY <1>3, <2>3, <2>4, <2>5, <2>6, <2>7 DEF ClockStep
<1>4. CASE Aside
  BY <1>1, <1>4, AsideEffect DEF ClockInv
<1>5. CASE UNCHANGED vars
  BY <1>1, <1>5 DEF vars, clock
<1> QED BY <1>3, <1>4, <1>5, NextIsOfAKind

(* The values of the variables stay in their types: no part is noted that  *)
(* the message does not have, and no part is told more than faults allow.  *)
THEOREM TypeCorrect == ASSUME OneClock PROVE Spec => []TypeOK
<1>1. Init => PartInBounds
  BY ConstantsAssumption DEF Init, PartInBounds, NoJob
<1>2. ClockInv /\ PartInBounds => TypeOK
  <2> SUFFICES ASSUME ClockInv, PartInBounds PROVE TypeOK
    OBVIOUS
  <2>1. Parts \in Nat /\ MaxFault \in Nat /\ Shape /\ Noted /\ faults \in 0..MaxFault
    BY ConstantsAssumption DEF ClockInv, Shape
  <2>2. sent \in [Fire -> 0..Parts]
    BY <2>1 DEF Shape, Noted
  <2>3. told \in [Fire -> [1..Parts -> 0..(1 + MaxFault)]]
    <3>1. \A f \in Fire : told[f] \in [1..Parts -> Nat]
      BY <2>1 DEF Shape
    <3>2. \A f \in Fire, k \in 1..Parts : told[f][k] \in 0..(1 + MaxFault)
      BY <2>1, <3>1 DEF ClockInv, Counted
    <3>3. \A f \in Fire : told[f] \in [1..Parts -> 0..(1 + MaxFault)]
      BY <3>1, <3>2
    <3> QED BY <2>1, <3>3 DEF Shape
  <2>4. \A F \in {ready, old, recent, resumed, stale} : F \subseteq Fire
    BY <2>1 DEF Shape
  <2>5. ASSUME NEW i \in Instance
        PROVE  /\ job[i].fire \in Fire \cup {<<>>} /\ job[i].part \in 0..Parts
               /\ \A b \in batch[i] : b.fire \in Fire /\ b.sent \in 0..Parts
    <3>1. job[i].fire \in Fire \cup {<<>>} /\ job[i].part \in 0..Parts
      BY <2>1 DEF Shape, Job, PartInBounds
    <3>2. \A b \in batch[i] : b.fire \in Fire /\ b.sent \in 0..Parts
      BY <2>1 DEF Shape, Claimed, Noted
    <3> QED BY <3>1, <3>2
  <2> QED BY <2>1, <2>2, <2>3, <2>4, <2>5 DEF TypeOK, Shape
<1> QED BY <1>1, <1>2, ClockAlways, PartNext, PTL DEF Spec

(* "Never one lost": a fire that is settled as delivered reached the phone *)
(* with every part, whatever was retried, resumed after a crash, or noted  *)
(* by a statement that failed.                                             *)
THEOREM NothingDeliveredIsLost == ASSUME OneClock PROVE Spec => []DeliveredIsWhole
<1>1. ClockInv => DeliveredIsWhole
  BY DEF ClockInv
<1> QED BY <1>1, ClockAlways, PTL

(* A part is told again only at the price of a fault: never by a retry.    *)
THEOREM OnlyFaultsTellTwice == ASSUME OneClock PROVE Spec => []ToldTwiceByFaultsOnly
<1>1. ClockInv => ToldTwiceByFaultsOnly
  BY DEF ClockInv, Counted, ToldTwiceByFaultsOnly
<1> QED BY <1>1, ClockAlways, PTL

(* A value rule that tells once delivers once, if nobody writes it again   *)
(* or switches it; event rules are outside.                                *)
THEOREM OnceRulesTellOnce == ASSUME OneClock PROVE Spec => []OnceTellsOnce
<1>1. ClockInv => OnceTellsOnce
  <2> SUFFICES ASSUME ClockInv, NEW r \in Once \cap Valued, edits[r] = 0
               PROVE  Cardinality({f \in Fire : RuleOf(f) = r /\ state[f] = "delivered"}) <= 1
    BY DEF OnceTellsOnce
  <2> DEFINE S == {f \in Fire : RuleOf(f) = r /\ state[f] = "delivered"}
  <2>1. \A f, g \in S : f = g
    BY DEF ClockInv, OnceInv, Telling
  <2> HIDE DEF S
  <2>2. Cardinality(S) <= 1
    <3>1. CASE S = {}
      BY <3>1, FS_EmptySet
    <3>2. ASSUME NEW f \in S PROVE Cardinality(S) <= 1
      <4>1. S = {f}
        BY <2>1, <3>2
      <4>2. Cardinality({f}) = 1
        BY FS_Singleton
      <4> QED BY <4>1, <4>2
    <3> QED BY <3>1, <3>2
  <2> QED BY <2>2 DEF S
<1> QED BY <1>1, ClockAlways, PTL

(***************************************************************************)
(* One clock: the last word on a fire.                                     *)
(***************************************************************************)

(* What the clock sends is not settled yet.                                *)
LEMMA SettledNext ==
  ASSUME OneClock, Shape, Gone, Held, Next
  PROVE  \A f \in Fire : /\ state'[f] = state[f] \/ FireMoves(f)
                         /\ state[f] \in Settled => told'[f] = told[f]
<1>0. \A f \in Fire : state'[f] = "gone" => switch'[RuleOf(f)] = "gone"
  BY GoneNext DEF Gone
<1>1. CASE Aside
  <2>1. Ages /\ told' = told
    BY <1>1, AsideEffect
  <2> QED BY <1>0, <2>1 DEF Ages, FireMoves
<1>2. ASSUME NEW i \in Instance, ClockStep(i)
      PROVE  \A f \in Fire : /\ state'[f] = state[f] \/ FireMoves(f)
                             /\ state[f] \in Settled => told'[f] = told[f]
  <2>1. Kinds(i)
    BY <1>2, StepIsOfAKind
  <2>2. \A f \in Fire : state'[f] = state[f] \/ FireMoves(f)
    BY <2>1, KindsOnFires DEF FireMoves
  <2>3. ASSUME NEW f \in Fire, state[f] \in Settled PROVE told'[f] = told[f]
    <3>1. CASE told' = told
      BY <3>1
    <3>2. CASE Sends(i)
      <4>1. told' = told \/ Reaches(i)
        BY <3>2 DEF Sends
      <4>2. job[i].fire # f
        BY <2>3, <3>2 DEF Sends, Sending, Held, Settled
      <4>3. Reaches(i) => told'[f] = told[f]
        BY <4>2 DEF Reaches, Shape
      <4> QED BY <4>1, <4>3
    <3> QED BY <2>1, <3>1, <3>2 DEF Kinds, Rests, Claims, Records, Begins, Drops, Settles
  <2> QED BY <2>2, <2>3
<1> QED BY <1>1, <1>2, NextIsOfAKind

(* With one clock a fire has one last word, and of what is settled nothing *)
(* more is sent, whatever is retried, written again or interrupted.        *)
THEOREM TheLastWordIsKept == ASSUME OneClock PROVE Spec => SettledIsSettled
<1>1. OneClock /\ ClockInv /\ [Next]_vars
        => [\A f \in Fire : /\ state'[f] = state[f] \/ FireMoves(f)
                            /\ state[f] \in Settled => told'[f] = told[f]]_vars
  BY SettledNext DEF ClockInv
<1>2. ClockInv /\ [Next]_vars
        => [\A f \in Fire : /\ state'[f] = state[f] \/ FireMoves(f)
                            /\ state[f] \in Settled => told'[f] = told[f]]_vars
  BY <1>1, OneClock
<1> QED BY <1>2, ClockAlways, PTL DEF Spec, SettledIsSettled
=============================================================================

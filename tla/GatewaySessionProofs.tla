------------------------ MODULE GatewaySessionProofs ------------------------
(***************************************************************************)
(* Proofs about the gateway.                                               *)
(*                                                                         *)
(* GatewaySession, for any number of requests, sessions and failures: its  *)
(* type invariant, that an order which waited for the session to be        *)
(* renewed is carried out on the account it names, and that no order is    *)
(* carried out twice.                                                      *)
(*                                                                         *)
(* GatewayStream, for any number of clients, rooms, periods and failures:  *)
(* its type invariant, that a daily candle is handed on as settled only    *)
(* when the provider made it, and that a room's connection follows its     *)
(* audience.                                                               *)
(***************************************************************************)
EXTENDS GatewaySession, GatewayStream, TLAPS

(***************************************************************************)
(* Types                                                                   *)
(***************************************************************************)

(* The initial state has the types.                                        *)
LEMMA TypeInit == Init => TypeOK
<1> SUFFICES ASSUME Init PROVE TypeOK
  OBVIOUS
<1>1. /\ tokens \in 0..opened /\ opened \in 0..MaxSession /\ faults \in 0..MaxFault
      /\ alive \subseteq 1..opened /\ home \subseteq 1..opened
  BY ConstantsAssumption DEF Init
<1>2. headers \in [Request -> 0..opened] /\ placed \in [Request -> Nat]
  BY DEF Init
<1>3. Waiting = {}
  BY DEF Init, Waiting
<1> QED BY <1>1, <1>2, <1>3 DEF Init, TypeOK

(* The counters are numbers.                                               *)
LEMMA Numbers ==
  ASSUME TypeOK
  PROVE  /\ MaxSession \in Nat /\ MaxFault \in Nat
         /\ opened \in Nat /\ opened <= MaxSession
         /\ faults \in Nat /\ faults <= MaxFault
<1>1. MaxSession \in Nat /\ MaxFault \in Nat
  BY ConstantsAssumption
<1>2. opened \in 0..MaxSession /\ faults \in 0..MaxFault
  BY DEF TypeOK
<1> QED BY <1>1, <1>2

(* A failure is counted up to its bound.                                   *)
LEMMA FaultType == ASSUME TypeOK, Fault PROVE faults' \in 0..MaxFault
  BY Numbers DEF Fault

(* More sessions leave the old ones where they were.                       *)
LEMMA HeadersGrow ==
  ASSUME TypeOK, opened' \in Nat, opened' >= opened
  PROVE  headers \in [Request -> 0..opened']
<1>1. opened \in Nat /\ headers \in [Request -> 0..opened]
  BY Numbers DEF TypeOK
<1>2. 0..opened \subseteq 0..opened'
  BY <1>1
<1> QED BY <1>1, <1>2

(* What the two ends of a login leave for the callers.                     *)
CallsLeft ==
  /\ login' = "none" /\ Waiting' = {}
  /\ at' \in [Request -> {"idle", "first login", "sent", "second login", "resent", "over"}]
  /\ headers' \in [Request -> 0..opened']
  /\ renewed' \subseteq Request
  /\ answer' \in [Request -> {"none", "done", "401", "lost", "refused"}]

(* A login that returned leaves its waiters sent, one that raised leaves   *)
(* them over, and both leave nobody waiting.                               *)
LEMMA ReleaseType ==
  ASSUME TypeOK, NEW b, Release(b), tokens' \in 0..opened', opened' >= opened,
         opened \in Nat, opened' \in Nat
  PROVE  CallsLeft
<1>1. at' \in [Request -> {"idle", "first login", "sent", "second login", "resent", "over"}]
  BY DEF Release, TypeOK
<1>2. Waiting' = {}
  BY DEF Release, TypeOK, Waiting
<1>3. headers' \in [Request -> 0..opened']
  <2>1. headers \in [Request -> 0..opened']
    BY HeadersGrow
  <2> QED BY <2>1 DEF Release
<1>4. renewed' \subseteq Request
  BY DEF Release, TypeOK, Waiting
<1>5. answer' \in [Request -> {"none", "done", "401", "lost", "refused"}] /\ login' = "none"
  BY DEF Release, TypeOK
<1> QED BY <1>1, <1>2, <1>3, <1>4, <1>5 DEF CallsLeft

(* The same of a login that raised.                                        *)
LEMMA RaiseType ==
  ASSUME TypeOK, Raise, UNCHANGED opened
  PROVE  CallsLeft
  BY DEF Raise, TypeOK, Waiting, CallsLeft

(* Each step keeps the types.                                              *)
LEMMA TypeStep == ASSUME TypeOK, [Next]_vars PROVE TypeOK'
<1>0. /\ opened \in Nat /\ opened <= MaxSession /\ MaxSession \in Nat
      /\ opened \in 0..MaxSession
  BY Numbers
<1>1. ASSUME NEW r \in Request, SendRequest(r) PROVE TypeOK'
  <2>1. CASE authenticated
    <3>1. headers' \in [Request -> 0..opened'] /\ UNCHANGED opened
      BY <1>1, <2>1 DEF SendRequest, TypeOK, provider
    <3>2. at' = [at EXCEPT ![r] = "sent"] /\ UNCHANGED login
      BY <1>1, <2>1 DEF SendRequest
    <3>3. Waiting' \subseteq Waiting
      BY <3>2 DEF Waiting, TypeOK
    <3> QED BY <1>1, <3>1, <3>2, <3>3 DEF SendRequest, TypeOK, provider, orders
  <2>2. CASE ~authenticated
    BY <1>1, <2>2 DEF SendRequest, JoinLogin, TypeOK, Waiting, provider, orders
  <2> QED BY <2>1, <2>2
<1>2. ASSUME NEW r \in Request, ProviderReceives(r) PROVE TypeOK'
  <2>1. placed' \in [Request -> Nat]
    <3>1. placed \in [Request -> Nat]
      BY DEF TypeOK
    <3> QED BY <1>2, <3>1 DEF ProviderReceives
  <2>. astray' \subseteq Request
    BY <1>2 DEF ProviderReceives, TypeOK
  <2>2. answer' \in [Request -> {"none", "done", "401", "lost", "refused"}]
    BY <1>2 DEF ProviderReceives, TypeOK
  <2> QED BY <1>2, <2>1, <2>2 DEF ProviderReceives, TypeOK, Waiting, provider
<1>3. ASSUME NEW r \in Request, Answered(r) PROVE TypeOK'
  <2>1. CASE at[r] = "sent" /\ answer[r] = "401"
    BY <1>3, <2>1 DEF Answered, JoinLogin, TypeOK, Waiting, provider, orders
  <2>2. CASE ~(at[r] = "sent" /\ answer[r] = "401")
    <3>1. at' = [at EXCEPT ![r] = "over"] /\ UNCHANGED <<login, answer>>
      BY <1>3, <2>2 DEF Answered
    <3>2. Waiting' \subseteq Waiting
      BY <3>1 DEF Waiting, TypeOK
    <3> QED BY <1>3, <3>1, <3>2 DEF Answered, TypeOK, provider, orders
  <2> QED BY <2>1, <2>2
<1>4. ASSUME NEW r \in Request, ConnectionFails(r) PROVE TypeOK'
  <2>1. Waiting' \subseteq Waiting
    BY <1>4 DEF ConnectionFails, Waiting, TypeOK
  <2>2. faults' \in 0..MaxFault
    BY <1>4, FaultType DEF ConnectionFails
  <2> QED BY <1>4, <2>1, <2>2 DEF ConnectionFails, TypeOK, provider, orders
<1>5. ASSUME NEW on \in BOOLEAN, NEW named \in BOOLEAN, LoginOpens(on, named) PROVE TypeOK'
  <2>1. /\ opened' = opened + 1 /\ opened' \in 0..MaxSession
        /\ tokens' \in 0..opened' /\ alive' \subseteq 1..opened' /\ home' \subseteq 1..opened'
    <3>1. alive \subseteq 1..opened /\ home \subseteq 1..opened
      BY DEF TypeOK
    <3> QED BY <1>5, <1>0, <3>1 DEF LoginOpens
  <2>2. placed' \in [Request -> Nat] /\ astray' \subseteq Request /\ faults' \in 0..MaxFault
    BY <1>5 DEF LoginOpens, TypeOK, orders
  <2>3. CASE on /\ named
    <3>1. Release(TRUE)
      BY <1>5, <2>3 DEF LoginOpens
    <3>2. CallsLeft
      <4>1. opened' \in Nat /\ opened' >= opened
        BY <2>1, <1>0
      <4> QED BY <2>1, <3>1, <4>1, <1>0, ReleaseType
    <3> QED BY <2>1, <2>2, <3>2 DEF TypeOK, CallsLeft
  <2>4. CASE ~(on /\ named)
    <3>1. login' = "put" /\ UNCHANGED calls
      BY <1>5, <2>4 DEF LoginOpens
    <3>2. headers' \in [Request -> 0..opened']
      BY <3>1, <2>1, <1>0, HeadersGrow DEF calls
    <3> QED BY <2>1, <2>2, <3>1, <3>2 DEF TypeOK, calls
  <2> QED BY <2>3, <2>4
<1>6. ASSUME LoginRefused PROVE TypeOK'
  <2>1. Release(FALSE) /\ UNCHANGED <<tokens, opened, alive, home, placed, astray>>
    BY <1>6 DEF LoginRefused, provider, orders
  <2>2. faults' \in 0..MaxFault
    BY <1>6, FaultType DEF LoginRefused
  <2>3. tokens' \in 0..opened'
    BY <2>1 DEF TypeOK
  <2>4. CallsLeft
    <3>1. opened' \in Nat /\ opened' >= opened
      BY <2>1, <1>0
    <3> QED BY <2>1, <2>3, <3>1, <1>0, ReleaseType
  <2> QED BY <2>1, <2>2, <2>3, <2>4 DEF TypeOK, CallsLeft
<1>7. ASSUME LoginUnanswered PROVE TypeOK'
  <2>1. Raise /\ UNCHANGED <<tokens, opened, alive, home, placed, astray>>
    BY <1>7 DEF LoginUnanswered, provider, orders
  <2>2. faults' \in 0..MaxFault
    BY <1>7, FaultType DEF LoginUnanswered
  <2> QED BY <2>1, <2>2, RaiseType DEF TypeOK, CallsLeft
<1>8. ASSUME PutBackTaken PROVE TypeOK'
  <2>1. Release(TRUE) /\ UNCHANGED <<tokens, opened, alive, placed, astray, faults>>
    BY <1>8 DEF PutBackTaken, orders
  <2>2. home' \subseteq 1..opened'
    BY <1>8, <2>1 DEF PutBackTaken, TypeOK
  <2>3. tokens' \in 0..opened'
    BY <2>1 DEF TypeOK
  <2>4. CallsLeft
    <3>1. opened' \in Nat /\ opened' >= opened
      BY <2>1, <1>0
    <3> QED BY <2>1, <2>3, <3>1, <1>0, ReleaseType
  <2> QED BY <2>1, <2>2, <2>3, <2>4 DEF TypeOK, CallsLeft
<1>9. ASSUME PutBackLimited PROVE TypeOK'
  <2>1. faults' \in 0..MaxFault
    BY <1>9, FaultType DEF PutBackLimited
  <2> QED BY <1>9, <2>1 DEF PutBackLimited, TypeOK, Waiting, provider, calls, orders
<1>10. ASSUME PutBackRefused PROVE TypeOK'
  <2>1. Raise /\ tokens' = 0 /\ UNCHANGED <<opened, alive, home, placed, astray>>
    BY <1>10 DEF PutBackRefused, provider, orders
  <2>2. faults' \in 0..MaxFault
    <3>1. faults \in 0..MaxFault
      BY DEF TypeOK
    <3> QED BY <1>10, <3>1, FaultType DEF PutBackRefused
  <2>3. tokens' \in 0..opened'
    BY <2>1, <1>0
  <2>4. CallsLeft
    BY <2>1, RaiseType
  <2> QED BY <2>1, <2>2, <2>3, <2>4 DEF TypeOK, CallsLeft
<1>11. ASSUME NEW taken \in BOOLEAN, PutBackUnanswered(taken) PROVE TypeOK'
  <2>1. Raise /\ UNCHANGED <<tokens, opened, alive, placed, astray>>
    BY <1>11 DEF PutBackUnanswered, orders
  <2>2. faults' \in 0..MaxFault
    BY <1>11, FaultType DEF PutBackUnanswered
  <2>3. home' \subseteq 1..opened'
    BY <1>11, <2>1 DEF PutBackUnanswered, TypeOK
  <2> QED BY <2>1, <2>2, <2>3, RaiseType DEF TypeOK, CallsLeft
<1>12. ASSUME NEW s \in Session, Expire(s) PROVE TypeOK'
  <2>1. faults' \in 0..MaxFault
    BY <1>12, FaultType DEF Expire
  <2> QED BY <1>12, <2>1 DEF Expire, TypeOK, Waiting, calls, orders
<1>13. ASSUME UNCHANGED vars PROVE TypeOK'
  BY <1>13 DEF vars, provider, calls, orders, TypeOK, Waiting
<1> QED
  BY <1>1, <1>2, <1>3, <1>4, <1>5, <1>6, <1>7, <1>8, <1>9, <1>10, <1>11, <1>12, <1>13
  DEF Next, LoginStep

(* Every variable keeps its type, and nobody waits for a login that is not *)
(* under way.                                                              *)
THEOREM TypeCorrect == Spec => []TypeOK
  BY TypeInit, TypeStep, PTL DEF Spec

(***************************************************************************)
(* Orders                                                                  *)
(***************************************************************************)

Sent(r) == at[r] \in {"sent", "resent"}

(* What is known of one request: it is unanswered until it has been sent,  *)
(* the provider has done nothing for it as long as no answer but a 401 or  *)
(* an exception of the login is on its way, and if it waited for a login   *)
(* that restored the session it was sent on a session standing at home.    *)
CallInv(r) ==
  /\ at[r] \in {"idle", "first login"} => r \notin renewed
  /\ at[r] \in {"idle", "first login", "second login"} => answer[r] = "none"
  /\ Sent(r) => answer[r] \in {"none", "done", "401"}
  /\ answer[r] \in {"none", "401", "refused"} => placed[r] = 0 /\ r \notin astray
  /\ placed[r] <= 1
  /\ r \in renewed /\ Sent(r) => headers[r] \in home
  /\ r \in renewed => r \notin astray

OrderInv == \A r \in Request : CallInv(r)

(* A step that leaves a request as it is keeps what is known of it, since  *)
(* a session that stands at home goes on standing there.                   *)
LEMMA CallLeftAlone ==
  ASSUME NEW r \in Request, CallInv(r), home \subseteq home',
         at'[r] = at[r], headers'[r] = headers[r], answer'[r] = answer[r],
         placed'[r] = placed[r], r \in astray' <=> r \in astray,
         r \in renewed' <=> r \in renewed
  PROVE  CallInv(r)'
  BY DEF CallInv, Sent

(* A login that returns leaves the other requests alone, and its waiters   *)
(* sent with a session that stands at home if it was restored.             *)
LEMMA ReleasedCall ==
  ASSUME TypeOK, OrderInv, NEW restored \in BOOLEAN, Release(restored),
         home \subseteq home', UNCHANGED orders, restored => tokens' \in home',
         NEW r \in Request
  PROVE  CallInv(r)'
<1>0. CallInv(r) /\ placed'[r] = placed[r] /\ astray' = astray /\ answer' = answer
  BY DEF OrderInv, orders, Release
<1>1. CASE r \notin Waiting
  <2>1. at'[r] = at[r] /\ headers'[r] = headers[r] /\ (r \in renewed' <=> r \in renewed)
    BY <1>1 DEF Release, Waiting, TypeOK
  <2> QED BY <1>0, <2>1, CallLeftAlone
<1>2. CASE r \in Waiting
  <2>1. /\ at[r] \in {"first login", "second login"}
        /\ at'[r] \in {"sent", "resent"} /\ headers'[r] = tokens'
    BY <1>2 DEF Release, Waiting
  <2>2. answer[r] = "none" /\ placed[r] = 0 /\ r \notin astray
    BY <1>0, <2>1 DEF CallInv
  <2>3. r \in renewed' => headers'[r] \in home'
    BY <1>2, <2>1 DEF Release
  <2> QED BY <1>0, <2>1, <2>2, <2>3 DEF CallInv, Sent
<1> QED BY <1>1, <1>2

(* A login that raises ends its waiters with nothing placed.               *)
LEMMA RaisedCall ==
  ASSUME TypeOK, OrderInv, Raise, home \subseteq home', UNCHANGED orders,
         NEW r \in Request
  PROVE  CallInv(r)'
<1>0. CallInv(r) /\ placed'[r] = placed[r] /\ astray' = astray /\ renewed' = renewed
  BY DEF OrderInv, orders, Raise
<1>1. CASE r \notin Waiting
  <2>1. at'[r] = at[r] /\ headers'[r] = headers[r] /\ answer'[r] = answer[r]
    BY <1>1 DEF Raise, TypeOK
  <2> QED BY <1>0, <2>1, CallLeftAlone
<1>2. CASE r \in Waiting
  <2>1. /\ at[r] \in {"first login", "second login"}
        /\ at'[r] = "over" /\ answer'[r] = "refused"
    BY <1>2 DEF Raise, Waiting
  <2>2. placed[r] = 0 /\ r \notin astray
    BY <1>0, <2>1 DEF CallInv
  <2> QED BY <1>0, <2>1, <2>2 DEF CallInv, Sent
<1> QED BY <1>1, <1>2

(* Each step keeps what is known of every request.                         *)
LEMMA OrderStep == ASSUME TypeOK, OrderInv, [Next]_vars PROVE OrderInv'
<1> SUFFICES ASSUME NEW r \in Request PROVE CallInv(r)'
  BY DEF OrderInv
<1>0. CallInv(r)
  BY DEF OrderInv
<1>1. ASSUME NEW q \in Request, SendRequest(q) PROVE CallInv(r)'
  <2>1. home' = home /\ renewed' = renewed /\ answer' = answer /\ placed' = placed
        /\ astray' = astray /\ at[q] = "idle"
    BY <1>1 DEF SendRequest, provider, orders
  <2>2. CASE r # q
    <3>1. at'[r] = at[r] /\ headers'[r] = headers[r]
      BY <1>1, <2>2 DEF SendRequest, JoinLogin, TypeOK
    <3> QED BY <1>0, <2>1, <3>1, CallLeftAlone
  <2>3. CASE r = q
    <3>1. at'[r] \in {"sent", "first login"}
      BY <1>1, <2>3 DEF SendRequest, JoinLogin, TypeOK
    <3>2. answer[r] = "none" /\ placed[r] = 0 /\ r \notin astray
      BY <1>0, <2>1, <2>3 DEF CallInv
    <3>3. r \notin renewed
      BY <1>0, <2>1, <2>3 DEF CallInv
    <3>4. /\ answer'[r] = "none" /\ placed'[r] = 0 /\ 0 <= 1
          /\ r \notin astray' /\ r \notin renewed'
      BY <2>1, <3>2, <3>3
    <3> QED BY <3>1, <3>4 DEF CallInv, Sent
  <2> QED BY <2>2, <2>3
<1>2. ASSUME NEW q \in Request, ProviderReceives(q) PROVE CallInv(r)'
  <2>1. home' = home /\ renewed' = renewed /\ at' = at /\ headers' = headers
    BY <1>2 DEF ProviderReceives, provider
  <2>2. CASE r # q
    <3>1. answer'[r] = answer[r] /\ placed'[r] = placed[r] /\ (r \in astray' <=> r \in astray)
      BY <1>2, <2>2 DEF ProviderReceives, TypeOK
    <3> QED BY <1>0, <2>1, <3>1, CallLeftAlone
  <2>3. CASE r = q
    <3>1. Sent(r) /\ answer[r] = "none" /\ placed[r] = 0 /\ r \notin astray
      BY <1>0, <1>2, <2>3 DEF ProviderReceives, CallInv, Sent
    <3>2. CASE headers[r] \in alive
      <4>1. answer'[r] = "done" /\ (r \in astray' => headers[r] \notin home)
        BY <1>2, <2>3, <3>1, <3>2 DEF ProviderReceives, TypeOK
      <4>2. placed'[r] = 1
        <5>1. placed'[r] = placed[r] + 1
          BY <1>2, <2>3, <3>2 DEF ProviderReceives, TypeOK
        <5> QED BY <3>1, <5>1
      <4>3. r \in renewed' => r \notin astray'
        BY <1>0, <2>1, <3>1, <4>1 DEF CallInv
      <4>4. placed'[r] <= 1
        BY <4>2
      <4>5. at'[r] \in {"sent", "resent"} /\ (r \in renewed' => headers'[r] \in home')
        BY <1>0, <2>1, <3>1 DEF CallInv, Sent
      <4> QED BY <4>1, <4>3, <4>4, <4>5 DEF CallInv, Sent
    <3>3. CASE headers[r] \notin alive
      <4>1. answer'[r] = "401" /\ placed'[r] = 0 /\ r \notin astray'
        BY <1>2, <2>3, <3>1, <3>3 DEF ProviderReceives, TypeOK
      <4> QED BY <1>0, <2>1, <3>1, <4>1 DEF CallInv, Sent
    <3> QED BY <3>2, <3>3
  <2> QED BY <2>2, <2>3
<1>3. ASSUME NEW q \in Request, Answered(q) PROVE CallInv(r)'
  <2>1. /\ home' = home /\ renewed' = renewed /\ headers' = headers
        /\ placed' = placed /\ astray' = astray
    BY <1>3 DEF Answered, provider, orders
  <2>2. CASE r # q
    <3>1. at'[r] = at[r] /\ answer'[r] = answer[r]
      BY <1>3, <2>2 DEF Answered, JoinLogin, TypeOK
    <3> QED BY <1>0, <2>1, <3>1, CallLeftAlone
  <2>3. CASE r = q /\ at[r] = "sent" /\ answer[r] = "401"
    <3>1. at'[r] = "second login" /\ answer'[r] = "none"
      BY <1>3, <2>3 DEF Answered, JoinLogin, TypeOK
    <3>2. placed'[r] = 0 /\ 0 <= 1 /\ r \notin astray'
      BY <1>0, <2>1, <2>3 DEF CallInv
    <3> QED BY <3>1, <3>2 DEF CallInv, Sent
  <2>4. CASE r = q /\ ~(at[r] = "sent" /\ answer[r] = "401")
    <3>1. at'[r] = "over" /\ answer'[r] = answer[r]
      BY <1>3, <2>4 DEF Answered, TypeOK
    <3> QED BY <1>0, <2>1, <3>1 DEF CallInv, Sent
  <2> QED BY <2>2, <2>3, <2>4
<1>4. ASSUME NEW q \in Request, ConnectionFails(q) PROVE CallInv(r)'
  <2>1. /\ home' = home /\ renewed' = renewed /\ headers' = headers
        /\ placed' = placed /\ astray' = astray
    BY <1>4 DEF ConnectionFails, provider, orders
  <2>2. CASE r # q
    <3>1. at'[r] = at[r] /\ answer'[r] = answer[r]
      BY <1>4, <2>2 DEF ConnectionFails, TypeOK
    <3> QED BY <1>0, <2>1, <3>1, CallLeftAlone
  <2>3. CASE r = q
    <3>1. at'[r] = "over" /\ answer'[r] = "lost"
      BY <1>4, <2>3 DEF ConnectionFails, TypeOK
    <3> QED BY <1>0, <2>1, <3>1 DEF CallInv, Sent
  <2> QED BY <2>2, <2>3
<1>5. ASSUME NEW on \in BOOLEAN, NEW named \in BOOLEAN, LoginOpens(on, named)
      PROVE  CallInv(r)'
  <2>1. home \subseteq home' /\ UNCHANGED orders /\ (on => tokens' \in home')
    BY <1>5 DEF LoginOpens
  <2>2. CASE on /\ named
    <3>1. Release(TRUE)
      BY <1>5, <2>2 DEF LoginOpens
    <3> QED BY <2>1, <2>2, <3>1, ReleasedCall
  <2>3. CASE ~(on /\ named)
    <3>1. UNCHANGED calls
      BY <1>5, <2>3 DEF LoginOpens
    <3> QED BY <1>0, <2>1, <3>1, CallLeftAlone DEF calls, orders
  <2> QED BY <2>2, <2>3
<1>6. ASSUME LoginRefused PROVE CallInv(r)'
  <2>1. Release(FALSE) /\ home \subseteq home' /\ UNCHANGED orders
    BY <1>6 DEF LoginRefused, provider
  <2> QED BY <2>1, ReleasedCall
<1>7. ASSUME LoginUnanswered PROVE CallInv(r)'
  <2>1. Raise /\ home \subseteq home' /\ UNCHANGED orders
    BY <1>7 DEF LoginUnanswered, provider
  <2> QED BY <2>1, RaisedCall
<1>8. ASSUME PutBackTaken PROVE CallInv(r)'
  <2>1. Release(TRUE) /\ home \subseteq home' /\ tokens' \in home' /\ UNCHANGED orders
    BY <1>8 DEF PutBackTaken
  <2> QED BY <2>1, ReleasedCall
<1>9. ASSUME PutBackLimited PROVE CallInv(r)'
  BY <1>0, <1>9, CallLeftAlone DEF PutBackLimited, provider, calls, orders
<1>10. ASSUME PutBackRefused PROVE CallInv(r)'
  <2>1. Raise /\ home \subseteq home' /\ UNCHANGED orders
    BY <1>10 DEF PutBackRefused, provider
  <2> QED BY <2>1, RaisedCall
<1>11. ASSUME NEW taken \in BOOLEAN, PutBackUnanswered(taken) PROVE CallInv(r)'
  <2>1. Raise /\ home \subseteq home' /\ UNCHANGED orders
    BY <1>11 DEF PutBackUnanswered
  <2> QED BY <2>1, RaisedCall
<1>12. ASSUME NEW s \in Session, Expire(s) PROVE CallInv(r)'
  BY <1>0, <1>12, CallLeftAlone DEF Expire, calls, orders
<1>13. ASSUME UNCHANGED vars PROVE CallInv(r)'
  BY <1>0, <1>13, CallLeftAlone DEF vars, provider, calls, orders
<1> QED
  BY <1>1, <1>2, <1>3, <1>4, <1>5, <1>6, <1>7, <1>8, <1>9, <1>10, <1>11, <1>12, <1>13
  DEF Next, LoginStep

(* What is known of every request holds throughout.                        *)
LEMMA OrdersCorrect == Spec => []OrderInv
<1>1. Init => OrderInv
  BY DEF Init, OrderInv, CallInv, Sent
<1>2. TypeOK /\ OrderInv /\ [Next]_vars => OrderInv'
  BY OrderStep
<1> QED BY <1>1, <1>2, TypeCorrect, PTL DEF Spec

(* An order that waited for the session to be renewed is carried out on    *)
(* the account it names.                                                   *)
THEOREM RenewedCorrect == Spec => []RenewedOrdersStayHome
<1>1. TypeOK /\ OrderInv => RenewedOrdersStayHome
  BY DEF TypeOK, OrderInv, CallInv, RenewedOrdersStayHome
<1> QED BY <1>1, TypeCorrect, OrdersCorrect, PTL

(* No order is carried out twice, nor one whose caller was told it was     *)
(* not.                                                                    *)
THEOREM PlacedCorrect == Spec => []PlacedOnce
<1>1. OrderInv => PlacedOnce
  BY DEF OrderInv, CallInv, PlacedOnce
<1> QED BY <1>1, OrdersCorrect, PTL

(***************************************************************************)
(* The streaming hub                                                       *)
(***************************************************************************)

(* A connection that is being made or is there.                            *)
Runs(room) == room.up \in {"connecting", "connected"}

(* Why a daily candle labelled settled is the provider's: the label goes   *)
(* with an untouched bar whose period is over, and such a bar takes no     *)
(* quote until a boundary is found, which takes the label off.             *)
SealIsWhole(room) == room.sealed => room.theirs /\ room.over

(* Only the client that made a daily room asks for its boundary, and it    *)
(* waits.                                                                  *)
AskerWaits(r) ==
  LET by == rooms[r].asking.by
  IN  by \in Clients => /\ daily /\ rooms[r].creator = by
                        /\ client[by].at = "placing" /\ client[by].room = r

(* One room: only the hub's has a connection that runs.                    *)
SoundRoom(r) ==
  /\ daily => SealIsWhole(rooms[r])
  /\ AskerWaits(r) /\ (Runs(rooms[r]) <=> r = hub)

(* The hub's room is kept for somebody, and everybody in it hears it.      *)
HubIsKept ==
  hub # NoRoom => /\ Kept(hub)
                  /\ \A c \in rooms[hub].subs : client[c].at = "in" /\ client[c].room = hub

(* Whoever hears, hears the hub's room, or made a daily room which the     *)
(* others left before its boundary was found.                              *)
Heard(c) ==
  client[c].at = "in" =>
    LET r == client[c].room
    IN  /\ r \in RoomIds
        /\ \/ r = hub /\ rooms[r].up # "stopped" /\ c \in rooms[r].subs
           \/ daily /\ rooms[r].creator = c

(* The inductive invariant.                                                *)
StreamFacts ==
  /\ StreamTypes /\ DailySettledMeansSealed
  /\ \A r \in RoomIds : SoundRoom(r)
  /\ HubIsKept
  /\ \A c \in Clients : Heard(c)

(* The bounds are numbers, and no room is no room.                         *)
LEMMA RoomNumbers == NoRoom \notin RoomIds /\ MaxRoom \in Nat /\ MaxPeriod \in Nat /\ MaxTrouble \in Nat
BY StreamAssumption DEF NoRoom, RoomIds

(* One room is replaced.                                                   *)
LEMMA RoomPut ==
  ASSUME rooms \in [RoomIds -> Room], NEW r \in RoomIds, NEW x \in Room
  PROVE  /\ [rooms EXCEPT ![r] = x] \in [RoomIds -> Room] /\ [rooms EXCEPT ![r] = x][r] = x
         /\ \A s \in RoomIds : s # r => [rooms EXCEPT ![r] = x][s] = rooms[s]
OBVIOUS

(* The fields of a room.                                                   *)
LEMMA RoomFields ==
  ASSUME NEW a \in Room
  PROVE  /\ a.subs \in SUBSET Clients /\ a.up \in {"none", "connecting", "connected", "stopped"}
         /\ a.timer \in BOOLEAN /\ a.bar \in 0 .. MaxPeriod /\ a.theirs \in BOOLEAN
         /\ a.sealed \in BOOLEAN /\ a.over \in BOOLEAN /\ a.stale \in BOOLEAN /\ a.mayAsk \in BOOLEAN
         /\ a.asking \in [by : Clients \union {"nobody", "quote", "timer"}, at : 0 .. MaxPeriod]
         /\ a.heard \in 0 .. MaxPeriod /\ a.creator \in Clients \union {"nobody"}
BY DEF Room

(* A room as it is made, and none.                                         *)
LEMMA NewRoomFacts ==
  ASSUME NEW c \in Clients \union {"nobody"}
  PROVE  /\ NewRoom(c) \in Room /\ NewRoom(c).subs = {} /\ NewRoom(c).up = "connecting"
         /\ NewRoom(c).sealed = FALSE /\ NewRoom(c).asking = Free /\ NewRoom(c).creator = c
         /\ NoSuchRoom \in Room /\ NoSuchRoom.subs = {} /\ NoSuchRoom.up = "none"
         /\ NoSuchRoom.sealed = FALSE /\ NoSuchRoom.asking = Free /\ NoSuchRoom.creator = "nobody"
<1>1. Free \in [by : Clients \union {"nobody", "quote", "timer"}, at : 0 .. MaxPeriod]
  BY RoomNumbers DEF Free
<1>2. 0 \in 0 .. MaxPeriod
  BY RoomNumbers
<1>3. \A d \in Clients \union {"nobody"} :
        /\ NewRoom(d) \in Room /\ NewRoom(d).subs = {} /\ NewRoom(d).up = "connecting"
        /\ NewRoom(d).sealed = FALSE /\ NewRoom(d).asking = Free /\ NewRoom(d).creator = d
  BY <1>1, <1>2 DEF NewRoom, Room
<1> DEFINE a == NewRoom("nobody")
<1>4. a \in Room /\ a.subs = {} /\ a.sealed = FALSE /\ a.asking = Free /\ a.creator = "nobody"
  BY <1>3
<1> HIDE DEF a
<1>5. /\ [a EXCEPT !.up = "none"] \in Room /\ [a EXCEPT !.up = "none"].up = "none"
      /\ [a EXCEPT !.up = "none"].subs = a.subs /\ [a EXCEPT !.up = "none"].sealed = a.sealed
      /\ [a EXCEPT !.up = "none"].asking = a.asking /\ [a EXCEPT !.up = "none"].creator = a.creator
  BY <1>4 DEF Room
<1>6. NoSuchRoom = [a EXCEPT !.up = "none"]
  BY DEF NoSuchRoom, a
<1> QED BY <1>3, <1>4, <1>5, <1>6

(* At first there is no room.                                              *)
LEMMA StreamStarts == StreamInit => StreamFacts
<1> SUFFICES ASSUME StreamInit PROVE StreamFacts
  OBVIOUS
<1>1. /\ daily \in BOOLEAN /\ now = 1 /\ hub = NoRoom /\ rooms = [r \in RoomIds |-> NoSuchRoom]
      /\ client = [c \in Clients |-> [at |-> "out", room |-> NoRoom]] /\ told = {} /\ troubles = 0
  BY DEF StreamInit
<1>2. /\ NoSuchRoom \in Room /\ NoSuchRoom.up = "none" /\ NoSuchRoom.sealed = FALSE
      /\ NoSuchRoom.asking = Free
  BY NewRoomFacts
<1>3. now \in Periods /\ troubles \in 0 .. MaxTrouble
  BY <1>1, RoomNumbers, StreamAssumption DEF Periods
<1>4. StreamTypes
  BY <1>1, <1>2, <1>3 DEF StreamTypes
<1>5. \A r \in RoomIds : rooms[r] = NoSuchRoom
  BY <1>1
<1>6. \A r \in RoomIds : SealIsWhole(rooms[r]) /\ ~Runs(rooms[r]) /\ r # hub
  BY <1>1, <1>2, <1>5, RoomNumbers DEF SealIsWhole, Runs
<1>7. \A r \in RoomIds : AskerWaits(r)
  BY <1>2, <1>5, StreamAssumption DEF AskerWaits, Free
<1>8. HubIsKept /\ \A c \in Clients : Heard(c)
  BY <1>1 DEF HubIsKept, Heard
<1>9. DailySettledMeansSealed
  BY <1>1 DEF DailySettledMeansSealed, SettledMeansSealed
<1> QED BY <1>4, <1>6, <1>7, <1>8, <1>9 DEF StreamFacts, SoundRoom

(* A room changes and nobody comes or goes.                                *)
LEMMA RoomMoves ==
  ASSUME StreamFacts, NEW r \in RoomIds, NEW x \in Room, rooms' = [rooms EXCEPT ![r] = x],
         x.subs = rooms[r].subs, x.creator = rooms[r].creator,
         x.asking.by \in Clients => x.asking.by = rooms[r].asking.by,
         x.up = rooms[r].up \/ (Runs(x) /\ Runs(rooms[r])), daily => SealIsWhole(x),
         daily' = daily, hub' = hub, client' = client, told' = told, now' = now,
         troubles' \in 0 .. MaxTrouble
  PROVE  StreamFacts'
<1>1. /\ StreamTypes /\ DailySettledMeansSealed /\ HubIsKept /\ \A c \in Clients : Heard(c)
      /\ \A s \in RoomIds : SoundRoom(s)
      /\ rooms \in [RoomIds -> Room]
  BY DEF StreamFacts, StreamTypes
<1>2. /\ rooms' \in [RoomIds -> Room] /\ rooms'[r] = x
      /\ \A s \in RoomIds : s # r => rooms'[s] = rooms[s]
  BY <1>1, RoomPut
<1>3. StreamTypes'
  BY <1>1, <1>2 DEF StreamTypes
<1>4. DailySettledMeansSealed'
  BY <1>1 DEF DailySettledMeansSealed, SettledMeansSealed
<1>5. \A s \in RoomIds : SoundRoom(s)'
  <2>1. Runs(x) <=> Runs(rooms[r])
    BY DEF Runs
  <2>2. AskerWaits(r)'
    BY <1>1, <1>2 DEF AskerWaits, SoundRoom
  <2>3. \A s \in RoomIds : s # r => SoundRoom(s)'
    BY <1>1, <1>2 DEF SoundRoom, SealIsWhole, AskerWaits, Runs
  <2>4. (daily => SealIsWhole(rooms[r]))' /\ (Runs(rooms[r]) <=> r = hub)'
    BY <1>1, <1>2, <2>1 DEF SoundRoom, SealIsWhole, Runs
  <2> QED BY <2>2, <2>3, <2>4 DEF SoundRoom
<1>6. HubIsKept'
  <2>1. hub \in RoomIds => rooms'[hub].subs = rooms[hub].subs
    BY <1>2
  <2> QED BY <1>1, <2>1 DEF HubIsKept, Kept, StreamTypes
<1>7. ASSUME NEW c \in Clients PROVE Heard(c)'
  <2>1. x.up = "stopped" => rooms[r].up = "stopped"
    BY DEF Runs
  <2>2. hub \in RoomIds \union {NoRoom} /\ client[c].room \in RoomIds \union {NoRoom}
    BY <1>1 DEF StreamTypes
  <2>3. hub = NoRoom \/ hub \in RoomIds
    BY <2>2
  <2>4. \A s \in RoomIds : /\ rooms'[s].subs = rooms[s].subs /\ rooms'[s].creator = rooms[s].creator
                           /\ rooms'[s].up = "stopped" => rooms[s].up = "stopped"
    BY <1>2, <2>1
  <2>5. CASE hub \in RoomIds
    BY <1>1, <2>4, <2>5 DEF Heard
  <2>6. CASE hub = NoRoom
    \* Nobody hears a room that is none: there is no such index of rooms.
    BY <1>1, <2>4, <2>6 DEF Heard
  <2> QED BY <2>3, <2>5, <2>6
<1> QED BY <1>3, <1>4, <1>5, <1>6, <1>7 DEF StreamFacts

(* The candle of a room changed, and neither its connection nor its        *)
(* people.                                                                 *)
SameSeat(a, b) == b.subs = a.subs /\ b.up = a.up /\ b.asking = a.asking /\ b.creator = a.creator

(* A quote that is folded in leaves a daily seal whole: the bar is either  *)
(* not touched or was not labelled.                                        *)
LEMMA QuoteFacts ==
  ASSUME NEW a \in Room, NEW q \in 0 .. MaxPeriod, NEW e \in BOOLEAN, daily => SealIsWhole(a)
  PROVE  /\ OnQuote(a, q, e) \in Room /\ SameSeat(a, OnQuote(a, q, e))
         /\ daily => SealIsWhole(OnQuote(a, q, e))
<1> DEFINE lapsed == [a EXCEPT !.over = TRUE]
           folded == [a EXCEPT !.theirs = FALSE]
           b == IF q <= a.bar THEN a.bar ELSE q
           moved == [a EXCEPT !.bar = b, !.theirs = FALSE]
<1>1. lapsed \in Room /\ SameSeat(a, lapsed) /\ lapsed.sealed = a.sealed /\ lapsed.theirs = a.theirs /\ lapsed.over
  BY DEF Room, SameSeat
<1>2. folded \in Room /\ SameSeat(a, folded) /\ folded.sealed = a.sealed
  BY DEF Room, SameSeat
<1>3. b \in 0 .. MaxPeriod
  BY DEF Room
<1> HIDE DEF b
<1>4. moved \in Room /\ SameSeat(a, moved)
  <2> DEFINE m == [a EXCEPT !.bar = b]
  <2>1. m \in Room /\ SameSeat(a, m)
    BY <1>3 DEF Room, SameSeat
  <2> HIDE DEF m
  <2>2. [m EXCEPT !.theirs = FALSE] \in Room /\ SameSeat(m, [m EXCEPT !.theirs = FALSE])
    BY <2>1 DEF Room, SameSeat
  <2> QED BY <2>1, <2>2 DEF m, SameSeat
<1>5. OnQuote(a, q, e) = IF daily THEN IF NeedsBoundary(a) THEN a ELSE IF e THEN lapsed ELSE folded
                                  ELSE moved
  BY DEF OnQuote, b
<1>6. daily /\ ~NeedsBoundary(a) => ~a.sealed
  BY DEF NeedsBoundary, SealIsWhole
<1> HIDE DEF lapsed, folded, moved
<1>7. SameSeat(a, a)
  BY DEF SameSeat
<1>8. daily /\ ~NeedsBoundary(a) => SealIsWhole(lapsed) /\ SealIsWhole(folded)
  BY <1>1, <1>2, <1>6 DEF SealIsWhole
<1>9. CASE daily /\ NeedsBoundary(a)
  BY <1>5, <1>7, <1>9
<1>10. CASE daily /\ ~NeedsBoundary(a)
  BY <1>1, <1>2, <1>5, <1>8, <1>10
<1>11. CASE ~daily
  BY <1>4, <1>5, <1>11
<1> QED BY <1>9, <1>10, <1>11

(* A boundary takes the label off.                                         *)
LEMMA SeedFacts ==
  ASSUME NEW a \in Room, NEW p \in 0 .. MaxPeriod
  PROVE  Seed(a, p) \in Room /\ SameSeat(a, Seed(a, p)) /\ SealIsWhole(Seed(a, p))
<1> DEFINE b == [a EXCEPT !.bar = p]
           c == [b EXCEPT !.theirs = FALSE]
           d == [c EXCEPT !.sealed = FALSE]
           e == [d EXCEPT !.over = FALSE]
           f == [e EXCEPT !.stale = FALSE]
<1>1. b \in Room /\ SameSeat(a, b)
  BY DEF Room, SameSeat
<1> HIDE DEF b
<1>2. c \in Room /\ SameSeat(b, c)
  BY <1>1 DEF Room, SameSeat
<1> HIDE DEF c
<1>3. d \in Room /\ SameSeat(c, d) /\ d.sealed = FALSE
  BY <1>2 DEF Room, SameSeat
<1> HIDE DEF d
<1>4. e \in Room /\ SameSeat(d, e) /\ e.sealed = FALSE
  BY <1>3 DEF Room, SameSeat
<1> HIDE DEF e
<1>5. f \in Room /\ SameSeat(e, f) /\ f.sealed = FALSE
  BY <1>4 DEF Room, SameSeat
<1>6. f = Seed(a, p)
  BY DEF Seed, b, c, d, e
<1> HIDE DEF f
<1>7. SameSeat(a, f) /\ SealIsWhole(f)
  BY <1>1, <1>2, <1>3, <1>4, <1>5 DEF SameSeat, SealIsWhole
<1> QED BY <1>5, <1>6, <1>7

(* A seal is the provider's, and of a daily bar the period is over.        *)
LEMMA SealFacts ==
  ASSUME NEW a \in Room, NEW p \in 0 .. MaxPeriod, daily \in BOOLEAN
  PROVE  /\ OnSealed(a, p) \in Room /\ SameSeat(a, OnSealed(a, p))
         /\ daily => SealIsWhole(OnSealed(a, p))
<1> DEFINE b == [a EXCEPT !.bar = p]
           c == [b EXCEPT !.theirs = TRUE]
           d == [c EXCEPT !.sealed = TRUE]
           e == [d EXCEPT !.over = daily]
           s == IF daily THEN FALSE ELSE a.stale
           f == [e EXCEPT !.stale = s]
           g == [f EXCEPT !.heard = p]
<1>1. b \in Room /\ SameSeat(a, b) /\ b.stale = a.stale
  BY DEF Room, SameSeat
<1> HIDE DEF b
<1>2. c \in Room /\ SameSeat(b, c) /\ c.theirs = TRUE /\ c.stale = b.stale
  BY <1>1 DEF Room, SameSeat
<1> HIDE DEF c
<1>3. d \in Room /\ SameSeat(c, d) /\ d.theirs = TRUE /\ d.stale = c.stale
  BY <1>2 DEF Room, SameSeat
<1> HIDE DEF d
<1>4. e \in Room /\ SameSeat(d, e) /\ e.theirs = TRUE /\ e.over = daily /\ e.stale = d.stale
  BY <1>3 DEF Room, SameSeat
<1>5. s \in BOOLEAN /\ s = IF daily THEN FALSE ELSE e.stale
  BY <1>1, <1>2, <1>3, <1>4, ZenonT(40) DEF Room
<1> HIDE DEF e, s
<1>6. f \in Room /\ SameSeat(e, f) /\ f.theirs = TRUE /\ f.over = daily
  BY <1>4, <1>5 DEF Room, SameSeat
<1> HIDE DEF f
<1>7. g \in Room /\ SameSeat(f, g) /\ g.theirs = TRUE /\ g.over = daily
  BY <1>6 DEF Room, SameSeat
<1>8. g = OnSealed(a, p)
  BY <1>5 DEF OnSealed, b, c, d, e, f, s
<1> HIDE DEF g
<1>9. SameSeat(a, g) /\ (daily => SealIsWhole(g))
  BY <1>1, <1>2, <1>3, <1>4, <1>6, <1>7 DEF SameSeat, SealIsWhole
<1> QED BY <1>7, <1>8, <1>9

(* What each of the other changes of a room leaves alone.                  *)
LEMMA MayFacts ==
  ASSUME NEW a \in Room, NEW may \in BOOLEAN
  PROVE  /\ [a EXCEPT !.mayAsk = may] \in Room /\ SameSeat(a, [a EXCEPT !.mayAsk = may])
         /\ SealIsWhole(a) => SealIsWhole([a EXCEPT !.mayAsk = may])
BY DEF Room, SameSeat, SealIsWhole

(* The same for who asks,                                                  *)
LEMMA AskFacts ==
  ASSUME NEW a \in Room,
         NEW ask \in [by : Clients \union {"nobody", "quote", "timer"}, at : 0 .. MaxPeriod]
  PROVE  LET b == [a EXCEPT !.asking = ask]
         IN  /\ b \in Room /\ b.asking = ask /\ b.subs = a.subs /\ b.up = a.up
             /\ b.creator = a.creator /\ b.bar = a.bar /\ b.sealed = a.sealed /\ b.theirs = a.theirs
             /\ SealIsWhole(a) => SealIsWhole(b)
BY DEF Room, SealIsWhole

(* for the connection,                                                     *)
LEMMA UpFacts ==
  ASSUME NEW a \in Room, NEW up \in {"none", "connecting", "connected", "stopped"}
  PROVE  LET b == [a EXCEPT !.up = up]
         IN  /\ b \in Room /\ b.up = up /\ b.subs = a.subs /\ b.asking = a.asking
             /\ b.creator = a.creator /\ (SealIsWhole(a) => SealIsWhole(b))
BY DEF Room, SealIsWhole

(* for a drop,                                                             *)
LEMMA StaleFacts ==
  ASSUME NEW a \in Room, daily \in BOOLEAN
  PROVE  /\ Invalidate(a) \in Room /\ SameSeat(a, Invalidate(a))
         /\ SealIsWhole(a) => SealIsWhole(Invalidate(a))
BY DEF Invalidate, Room, SameSeat, SealIsWhole

(* for the audience,                                                       *)
LEMMA SubsFacts ==
  ASSUME NEW a \in Room, NEW subs \in SUBSET Clients
  PROVE  LET b == [a EXCEPT !.subs = subs]
         IN  /\ b \in Room /\ b.subs = subs /\ b.up = a.up /\ b.asking = a.asking
             /\ b.creator = a.creator /\ (SealIsWhole(a) => SealIsWhole(b))
BY DEF Room, SealIsWhole

(* for the timer.                                                          *)
LEMMA TimerFacts ==
  ASSUME NEW a \in Room, NEW timer \in BOOLEAN
  PROVE  LET b == [a EXCEPT !.timer = timer]
         IN  b \in Room /\ SameSeat(a, b) /\ (SealIsWhole(a) => SealIsWhole(b))
BY DEF Room, SameSeat, SealIsWhole

(* The types, as the steps below need them.                                *)
LEMMA StreamIsTyped ==
  ASSUME StreamFacts
  PROVE  /\ daily \in BOOLEAN /\ now \in Periods /\ hub \in RoomIds \union {NoRoom}
         /\ rooms \in [RoomIds -> Room] /\ troubles \in 0 .. MaxTrouble
         /\ client \in [Clients -> [at : {"out", "placing", "in", "dead"}, room : RoomIds \union {NoRoom}]]
         /\ \A r \in RoomIds : rooms[r] \in Room /\ (daily => SealIsWhole(rooms[r]))
         /\ now \in 0 .. MaxPeriod
BY RoomNumbers DEF StreamFacts, StreamTypes, SoundRoom, Periods

(* The timer, the end of a wait, and the connection.                       *)
LEMMA TickKeeps ==
  ASSUME StreamFacts, NEW r \in RoomIds, BoundaryTick(r) \/ RetryDue(r) \/ Connect(r) \/ Drop(r)
  PROVE  StreamFacts'
<1> DEFINE a == rooms[r]
<1>1. /\ daily \in BOOLEAN /\ now \in 0 .. MaxPeriod /\ rooms \in [RoomIds -> Room] /\ a \in Room
      /\ daily => SealIsWhole(a)
      /\ troubles \in 0 .. MaxTrouble /\ MaxTrouble \in Nat
  BY StreamIsTyped, RoomNumbers
<1>2. "timer" \notin Clients
  BY StreamAssumption
<1>3. CASE BoundaryTick(r)
  <2> DEFINE ask == [by |-> "timer", at |-> now]
             b == [a EXCEPT !.asking = ask]
  <2>1. ask \in [by : Clients \union {"nobody", "quote", "timer"}, at : 0 .. MaxPeriod] /\ ask.by = "timer"
    BY <1>1
  <2>2. rooms' = [rooms EXCEPT ![r] = b]
    BY <1>1, <1>3 DEF BoundaryTick, Ask
  <2>3. /\ daily' = daily /\ hub' = hub /\ client' = client /\ told' = told /\ now' = now
        /\ troubles' = troubles
    BY <1>3 DEF BoundaryTick
  <2> HIDE DEF ask
  <2>4. b \in Room /\ b.asking = ask /\ b.subs = a.subs /\ b.up = a.up /\ b.creator = a.creator
        /\ (SealIsWhole(a) => SealIsWhole(b))
    BY <1>1, <2>1, AskFacts
  <2> HIDE DEF b
  <2> QED BY <1>1, <1>2, <2>1, <2>2, <2>3, <2>4, RoomMoves
<1>4. CASE RetryDue(r)
  <2> DEFINE b == [a EXCEPT !.mayAsk = TRUE]
  <2>1. /\ rooms' = [rooms EXCEPT ![r] = b] /\ daily' = daily /\ hub' = hub /\ client' = client
        /\ told' = told /\ now' = now /\ troubles' = troubles
    BY <1>1, <1>4 DEF RetryDue
  <2>2. b \in Room /\ SameSeat(a, b) /\ (SealIsWhole(a) => SealIsWhole(b))
    BY <1>1, MayFacts
  <2> HIDE DEF b
  <2> QED BY <1>1, <2>1, <2>2, RoomMoves DEF SameSeat
<1>5. CASE Connect(r)
  <2> DEFINE b == [a EXCEPT !.up = "connected"]
  <2>1. /\ rooms' = [rooms EXCEPT ![r] = b] /\ daily' = daily /\ hub' = hub /\ client' = client
        /\ told' = told /\ now' = now /\ troubles' = troubles /\ a.up = "connecting"
    BY <1>1, <1>5 DEF Connect
  <2>2. b \in Room /\ b.up = "connected" /\ b.subs = a.subs /\ b.asking = a.asking
        /\ b.creator = a.creator /\ (SealIsWhole(a) => SealIsWhole(b))
    BY <1>1, UpFacts
  <2> HIDE DEF b
  <2>3. Runs(a) /\ Runs(b)
    BY <2>1, <2>2 DEF Runs
  <2> QED BY <1>1, <2>1, <2>2, <2>3, RoomMoves
<1>6. CASE Drop(r)
  <2> DEFINE i == Invalidate(a)
             u == [i EXCEPT !.up = "connecting"]
             b == [u EXCEPT !.mayAsk = TRUE]
  <2>1. /\ rooms' = [rooms EXCEPT ![r] = b] /\ daily' = daily /\ hub' = hub /\ client' = client
        /\ told' = told /\ now' = now /\ troubles' = troubles + 1 /\ troubles < MaxTrouble
        /\ a.up = "connected"
    BY <1>1, <1>6 DEF Drop, Listens
  <2>2. i \in Room /\ SameSeat(a, i) /\ (SealIsWhole(a) => SealIsWhole(i))
    BY <1>1, StaleFacts
  <2> HIDE DEF i
  <2>3. u \in Room /\ u.up = "connecting" /\ u.subs = i.subs /\ u.asking = i.asking
        /\ u.creator = i.creator /\ (SealIsWhole(i) => SealIsWhole(u))
    BY <2>2, UpFacts
  <2> HIDE DEF u
  <2>4. b \in Room /\ SameSeat(u, b) /\ (SealIsWhole(u) => SealIsWhole(b))
    BY <2>3, MayFacts
  <2> HIDE DEF b
  <2>5. /\ b.subs = a.subs /\ b.asking = a.asking /\ b.creator = a.creator /\ b.up = "connecting"
        /\ (SealIsWhole(a) => SealIsWhole(b))
    BY <2>2, <2>3, <2>4 DEF SameSeat
  <2>6. Runs(a) /\ Runs(b) /\ troubles' \in 0 .. MaxTrouble
    BY <1>1, <2>1, <2>5 DEF Runs
  <2> QED BY <1>1, <2>1, <2>4, <2>5, <2>6, RoomMoves
<1> QED BY <1>3, <1>4, <1>5, <1>6

(* Quotes and seals.                                                       *)
LEMMA MarketKeeps ==
  ASSUME StreamFacts, NEW r \in RoomIds, Quote(r) \/ Sealed(r)
  PROVE  StreamFacts'
<1> DEFINE a == rooms[r]
<1>1. /\ daily \in BOOLEAN /\ now \in 0 .. MaxPeriod /\ rooms \in [RoomIds -> Room] /\ a \in Room
      /\ daily => SealIsWhole(a)
      /\ troubles \in 0 .. MaxTrouble /\ MaxTrouble \in Nat /\ MaxPeriod \in Nat
  BY StreamIsTyped, RoomNumbers
<1>2. "quote" \notin Clients
  BY StreamAssumption
<1>3. CASE Quote(r)
  <2>1. /\ daily' = daily /\ hub' = hub /\ client' = client /\ told' = told /\ now' = now
        /\ troubles' = troubles
    BY <1>3 DEF Quote
  <2>2. CASE Ask(r, "quote")
    <3> DEFINE ask == [by |-> "quote", at |-> now]
               b == [a EXCEPT !.asking = ask]
    <3>1. ask \in [by : Clients \union {"nobody", "quote", "timer"}, at : 0 .. MaxPeriod] /\ ask.by = "quote"
      BY <1>1
    <3>2. rooms' = [rooms EXCEPT ![r] = b]
      BY <1>1, <2>2 DEF Ask
    <3> HIDE DEF ask
    <3>3. b \in Room /\ b.asking = ask /\ b.subs = a.subs /\ b.up = a.up /\ b.creator = a.creator
          /\ (SealIsWhole(a) => SealIsWhole(b))
      BY <1>1, <3>1, AskFacts
    <3> HIDE DEF b
    <3> QED BY <1>1, <1>2, <2>1, <3>1, <3>2, <3>3, RoomMoves
  <2>3. CASE \E e \in MayHaveElapsed(a, now) : rooms' = [rooms EXCEPT ![r] = OnQuote(@, now, e)]
    <3>1. PICK e \in BOOLEAN : rooms' = [rooms EXCEPT ![r] = OnQuote(a, now, e)]
      BY <1>1, <2>3 DEF MayHaveElapsed
    <3> DEFINE b == OnQuote(a, now, e)
    <3>2. b \in Room /\ SameSeat(a, b) /\ (daily => SealIsWhole(b))
      BY <1>1, QuoteFacts
    <3>3. rooms' = [rooms EXCEPT ![r] = b]
      BY <3>1
    <3> HIDE DEF b
    <3> QED BY <1>1, <2>1, <3>2, <3>3, RoomMoves DEF SameSeat
  <2> QED BY <1>3, <2>2, <2>3 DEF Quote
<1>4. CASE Sealed(r)
  <2>1. /\ daily' = daily /\ hub' = hub /\ client' = client /\ told' = told /\ now' = now
        /\ troubles' = troubles
    BY <1>4 DEF Sealed
  <2>2. PICK p \in 1 .. now - 1 : rooms' = [rooms EXCEPT ![r] = OnSealed(a, p)]
    BY <1>1, <1>4 DEF Sealed
  <2>3. p \in 0 .. MaxPeriod
    BY <1>1
  <2> DEFINE b == OnSealed(a, p)
  <2>4. b \in Room /\ SameSeat(a, b) /\ (daily => SealIsWhole(b))
    BY <1>1, <2>3, SealFacts
  <2>5. rooms' = [rooms EXCEPT ![r] = b]
    BY <2>2
  <2> HIDE DEF b
  <2> QED BY <1>1, <2>1, <2>4, <2>5, RoomMoves DEF SameSeat
<1> QED BY <1>3, <1>4

(* A joiner is handed a daily candle as settled only when the provider     *)
(* made it.                                                                *)
LEMMA WelcomeTells ==
  ASSUME StreamFacts, NEW a \in Room, daily => SealIsWhole(a), Welcome(a), daily' = daily
  PROVE  told' \subseteq Periods \X BOOLEAN /\ DailySettledMeansSealed'
<1>1. told \subseteq Periods \X BOOLEAN /\ (daily => \A t \in told : t[2])
  BY DEF StreamFacts, StreamTypes, DailySettledMeansSealed, SettledMeansSealed
<1>2. CASE a.bar # 0 /\ a.sealed
  <2>1. told' = told \union {<<a.bar, a.theirs>>}
    BY <1>2 DEF Welcome
  <2>2. a.bar \in 0 .. MaxPeriod /\ a.theirs \in BOOLEAN
    BY RoomFields
  <2>3. a.bar \in Periods
    BY <1>2, <2>2, RoomNumbers DEF Periods
  <2>4. daily => a.theirs
    BY <1>2 DEF SealIsWhole
  <2>5. \A t \in told' : t \in Periods \X BOOLEAN /\ (daily => t[2])
    BY <1>1, <2>1, <2>2, <2>3, <2>4
  <2> QED BY <2>5 DEF DailySettledMeansSealed, SettledMeansSealed
<1>3. CASE ~(a.bar # 0 /\ a.sealed)
  <2>1. told' = told
    BY <1>3 DEF Welcome
  <2> QED BY <1>1, <2>1 DEF DailySettledMeansSealed, SettledMeansSealed
<1> QED BY <1>2, <1>3

(* One client moves.                                                       *)
LEMMA ClientPut ==
  ASSUME client \in [Clients -> [at : {"out", "placing", "in", "dead"}, room : RoomIds \union {NoRoom}]],
         NEW c \in Clients, NEW d \in [at : {"out", "placing", "in", "dead"}, room : RoomIds \union {NoRoom}]
  PROVE  /\ [client EXCEPT ![c] = d] \in
              [Clients -> [at : {"out", "placing", "in", "dead"}, room : RoomIds \union {NoRoom}]]
         /\ [client EXCEPT ![c] = d][c] = d
         /\ \A b \in Clients : b # c => [client EXCEPT ![c] = d][b] = client[b]
OBVIOUS

(* The client that made a daily room is let in, though the room may have   *)
(* stopped.                                                                *)
LEMMA ClientIsPlaced ==
  ASSUME StreamFacts, NEW r \in RoomIds, NEW seated \in Room, SameSeat(rooms[r], seated),
         daily => SealIsWhole(seated), NEW c \in Clients, rooms[r].asking.by = c,
         rooms' = [rooms EXCEPT ![r] =
            [[seated EXCEPT !.asking = Free] EXCEPT !.subs = @ \union {c},
                                                    !.timer = Watches([seated EXCEPT !.asking = Free])]],
         Enter(c, r), Welcome([seated EXCEPT !.asking = Free]),
         daily' = daily, hub' = hub, now' = now, troubles' \in 0 .. MaxTrouble
  PROVE  StreamFacts'
<1> DEFINE a == rooms[r]
           idle == [seated EXCEPT !.asking = Free]
           subs == idle.subs \union {c}
           held == [idle EXCEPT !.subs = subs]
           x == [held EXCEPT !.timer = daily]
           d == [at |-> "in", room |-> r]
<1>1. /\ daily \in BOOLEAN /\ rooms \in [RoomIds -> Room] /\ a \in Room
      /\ client \in [Clients -> [at : {"out", "placing", "in", "dead"}, room : RoomIds \union {NoRoom}]]
      /\ hub \in RoomIds \union {NoRoom} /\ now \in Periods
      /\ HubIsKept /\ \A b \in Clients : Heard(b)
      /\ \A s \in RoomIds : SoundRoom(s)
  BY StreamIsTyped DEF StreamFacts
<1>2. Free \in [by : Clients \union {"nobody", "quote", "timer"}, at : 0 .. MaxPeriod] /\ Free.by \notin Clients
  BY RoomNumbers, StreamAssumption DEF Free
<1>3. /\ idle \in Room /\ idle.asking = Free /\ idle.subs = a.subs /\ idle.up = a.up
      /\ idle.creator = a.creator /\ (daily => SealIsWhole(idle))
  BY <1>2, AskFacts DEF SameSeat
<1>4. rooms' = [rooms EXCEPT ![r] = x] /\ client' = [client EXCEPT ![c] = d]
  BY DEF Watches, Enter
<1>5. told' \subseteq Periods \X BOOLEAN /\ DailySettledMeansSealed'
  BY <1>3, WelcomeTells
<1> HIDE DEF idle
<1>6. subs \in SUBSET Clients
  BY <1>3 DEF Room
<1> HIDE DEF subs
<1>7. /\ held \in Room /\ held.subs = subs /\ held.up = idle.up /\ held.asking = idle.asking
      /\ held.creator = idle.creator /\ (SealIsWhole(idle) => SealIsWhole(held))
  BY <1>3, <1>6, SubsFacts
<1> HIDE DEF held
<1>8. x \in Room /\ SameSeat(held, x) /\ (SealIsWhole(held) => SealIsWhole(x))
  BY <1>1, <1>7, TimerFacts
<1> HIDE DEF x
<1>9. /\ x.subs = a.subs \union {c} /\ x.up = a.up /\ x.asking = Free /\ x.creator = a.creator
      /\ (daily => SealIsWhole(x))
  BY <1>3, <1>7, <1>8 DEF SameSeat, subs
<1>10. /\ rooms' \in [RoomIds -> Room] /\ rooms'[r] = x
       /\ \A s \in RoomIds : s # r => rooms'[s] = rooms[s]
  BY <1>1, <1>4, <1>8, RoomPut
<1>11. d \in [at : {"out", "placing", "in", "dead"}, room : RoomIds \union {NoRoom}]
       /\ d.at = "in" /\ d.room = r
  OBVIOUS
<1> HIDE DEF d
<1>12. /\ client' \in [Clients -> [at : {"out", "placing", "in", "dead"}, room : RoomIds \union {NoRoom}]]
       /\ client'[c] = d /\ \A b \in Clients : b # c => client'[b] = client[b]
  BY <1>1, <1>4, <1>11, ClientPut
<1>13. daily /\ a.creator = c /\ client[c].at = "placing" /\ client[c].room = r
  BY <1>1 DEF SoundRoom, AskerWaits
<1>14. StreamTypes'
  BY <1>1, <1>5, <1>10, <1>12 DEF StreamTypes
<1>15. ASSUME NEW s \in RoomIds PROVE SoundRoom(s)'
  <2>1. CASE s = r
    <3>1. Runs(x) <=> Runs(a)
      BY <1>9 DEF Runs
    <3>2. AskerWaits(s)'
      BY <1>2, <1>9, <1>10, <2>1 DEF AskerWaits
    <3>3. (daily => SealIsWhole(rooms[s]))' /\ (Runs(rooms[s]) <=> s = hub)'
      BY <1>1, <1>9, <1>10, <2>1, <3>1 DEF SoundRoom, SealIsWhole, Runs
    <3> QED BY <3>2, <3>3 DEF SoundRoom
  <2>2. CASE s # r
    <3>1. rooms'[s] = rooms[s]
      BY <1>10, <2>2
    <3>2. rooms[s].asking.by # c
      BY <1>1, <1>13, <2>2 DEF SoundRoom, AskerWaits
    <3>3. AskerWaits(s)'
      BY <1>1, <1>12, <3>1, <3>2 DEF SoundRoom, AskerWaits
    <3>4. (daily => SealIsWhole(rooms[s]))' /\ (Runs(rooms[s]) <=> s = hub)'
      BY <1>1, <3>1 DEF SoundRoom, SealIsWhole, Runs
    <3> QED BY <3>3, <3>4 DEF SoundRoom
  <2> QED BY <2>1, <2>2
<1>16. HubIsKept'
  <2> SUFFICES ASSUME hub # NoRoom
               PROVE  /\ Kept(hub)'
                      /\ \A b \in rooms'[hub].subs : client'[b].at = "in" /\ client'[b].room = hub
    BY DEF HubIsKept
  <2>1. /\ hub \in RoomIds /\ Kept(hub)
        /\ \A b \in rooms[hub].subs : client[b].at = "in" /\ client[b].room = hub
    BY <1>1 DEF HubIsKept
  <2>2. Kept(hub)'
    <3>1. PICK b \in Clients : client[b].room = hub /\ client[b].at # "out"
      BY <2>1 DEF Kept
    <3>2. client'[b].room = hub /\ client'[b].at # "out"
      BY <1>11, <1>12, <1>13, <3>1
    <3> QED BY <3>2 DEF Kept
  <2>3. rooms[hub].subs \in SUBSET Clients /\ c \notin rooms[hub].subs
    BY <1>1, <1>13, <2>1, RoomFields
  <2>4. ASSUME NEW b \in rooms'[hub].subs PROVE client'[b].at = "in" /\ client'[b].room = hub
    <3>1. b \in rooms[hub].subs \/ (b = c /\ hub = r)
      <4>1. CASE hub = r
        BY <1>9, <1>10, <2>4, <4>1
      <4>2. CASE hub # r
        <5>1. rooms'[hub] = rooms[hub]
          BY <1>10, <2>1, <4>2
        <5> QED BY <2>4, <5>1
      <4> QED BY <4>1, <4>2
    <3>2. CASE b = c /\ hub = r
      BY <1>11, <1>12, <3>2
    <3>3. CASE b \in rooms[hub].subs
      <4>1. b \in Clients /\ b # c
        BY <2>3, <3>3
      <4>2. client'[b] = client[b]
        BY <1>12, <4>1
      <4> QED BY <2>1, <3>3, <4>2
    <3> QED BY <3>1, <3>2, <3>3
  <2> QED BY <2>2, <2>4
<1>17. ASSUME NEW b \in Clients PROVE Heard(b)'
  <2>1. CASE b = c
    BY <1>9, <1>10, <1>11, <1>12, <1>13, <2>1, ZenonT(40) DEF Heard
  <2>2. CASE b # c
    <3>1. client'[b] = client[b]
      BY <1>12, <2>2
    <3>2. \A s \in RoomIds : /\ rooms[s].subs \subseteq rooms'[s].subs
                             /\ rooms'[s].up = rooms[s].up /\ rooms'[s].creator = rooms[s].creator
      BY <1>9, <1>10
    <3>3. client[b].at = "in" =>
            /\ client[b].room \in RoomIds
            /\ \/ /\ client[b].room = hub /\ rooms[hub].up # "stopped" /\ b \in rooms[hub].subs
               \/ daily /\ rooms[client[b].room].creator = b
      BY <1>1 DEF Heard
    <3>4. CASE hub \in RoomIds
      BY <3>1, <3>2, <3>3, <3>4 DEF Heard
    <3>5. CASE hub = NoRoom
      BY <3>1, <3>2, <3>3, <3>5 DEF Heard
    <3> QED BY <1>1, <3>4, <3>5
  <2> QED BY <2>1, <2>2
<1> QED BY <1>5, <1>14, <1>15, <1>16, <1>17 DEF StreamFacts

(* Whoever asked goes on, whatever the room has become.                    *)
LEMMA ResumeKeeps ==
  ASSUME StreamFacts, NEW r \in RoomIds, NEW seated \in Room, SameSeat(rooms[r], seated),
         daily => SealIsWhole(seated), Resumes(r, seated),
         daily' = daily, hub' = hub, now' = now, troubles' \in 0 .. MaxTrouble
  PROVE  StreamFacts'
<1> DEFINE a == rooms[r]
           idle == [seated EXCEPT !.asking = Free]
           since == a.asking.at
<1>1. /\ daily \in BOOLEAN /\ now \in 0 .. MaxPeriod /\ rooms \in [RoomIds -> Room] /\ a \in Room
      /\ since \in 0 .. MaxPeriod
  BY StreamIsTyped, RoomFields
<1>2. Free \in [by : Clients \union {"nobody", "quote", "timer"}, at : 0 .. MaxPeriod] /\ Free.by \notin Clients
  BY RoomNumbers, StreamAssumption DEF Free
<1>3. /\ idle \in Room /\ idle.asking = Free /\ idle.subs = a.subs /\ idle.up = a.up
      /\ idle.creator = a.creator /\ (daily => SealIsWhole(idle))
  BY <1>2, AskFacts DEF SameSeat
<1>4. CASE a.asking.by = "timer" /\ rooms' = [rooms EXCEPT ![r] = idle]
           /\ client' = client /\ told' = told
  <2> HIDE DEF idle
  <2> QED BY <1>1, <1>2, <1>3, <1>4, RoomMoves
<1>5. CASE a.asking.by = "quote" /\ client' = client /\ told' = told
           /\ \E e \in MayHaveElapsed(idle, since) : rooms' = [rooms EXCEPT ![r] = OnQuote(idle, since, e)]
  <2>1. PICK e \in BOOLEAN : rooms' = [rooms EXCEPT ![r] = OnQuote(idle, since, e)]
    BY <1>5 DEF MayHaveElapsed
  <2> DEFINE b == OnQuote(idle, since, e)
  <2>2. b \in Room /\ SameSeat(idle, b) /\ (daily => SealIsWhole(b))
    <3> HIDE DEF idle, since
    <3> QED BY <1>1, <1>3, QuoteFacts
  <2>3. rooms' = [rooms EXCEPT ![r] = b]
    BY <2>1
  <2> HIDE DEF b, idle
  <2>4. b.subs = a.subs /\ b.up = a.up /\ b.creator = a.creator /\ b.asking.by \notin Clients
    BY <1>2, <1>3, <2>2 DEF SameSeat
  <2> QED BY <1>1, <1>5, <2>2, <2>3, <2>4, RoomMoves
<1>6. CASE a.asking.by \in Clients /\ Enter(a.asking.by, r) /\ Welcome(idle)
           /\ rooms' = [rooms EXCEPT ![r] =
                [idle EXCEPT !.subs = @ \union {a.asking.by}, !.timer = Watches(idle)]]
  BY <1>6, ClientIsPlaced
<1> QED BY <1>4, <1>5, <1>6 DEF Resumes

(* The provider answers, or does not.                                      *)
LEMMA AnswerKeeps ==
  ASSUME StreamFacts, NEW r \in RoomIds, BoundaryAnswered(r) \/ BoundaryUnknown(r)
  PROVE  StreamFacts'
<1> DEFINE a == rooms[r]
           unasked == [a EXCEPT !.mayAsk = FALSE]
           asked == [a EXCEPT !.mayAsk = TRUE]
<1>1. /\ now \in 0 .. MaxPeriod /\ a \in Room /\ (daily => SealIsWhole(a))
      /\ a.asking.at \in 0 .. MaxPeriod /\ troubles \in 0 .. MaxTrouble
      /\ MaxTrouble \in Nat /\ MaxPeriod \in Nat
  BY StreamIsTyped, RoomFields, RoomNumbers
<1>2. /\ unasked \in Room /\ SameSeat(a, unasked) /\ (daily => SealIsWhole(unasked))
      /\ asked \in Room /\ SameSeat(a, asked)
  BY <1>1, MayFacts
<1>3. CASE BoundaryAnswered(r)
  <2>1. daily' = daily /\ hub' = hub /\ now' = now /\ troubles' = troubles
    BY <1>3 DEF BoundaryAnswered
  <2>2. PICK p \in a.asking.at .. now :
          Resumes(r, IF NoProgress(a, p) THEN unasked ELSE Seed(asked, p))
    BY <1>3 DEF BoundaryAnswered
  <2>3. p \in 0 .. MaxPeriod
    BY <1>1
  <2> DEFINE s == Seed(asked, p)
  <2> HIDE DEF asked, unasked
  <2>4. s \in Room /\ SameSeat(asked, s) /\ SealIsWhole(s)
    BY <1>2, <2>3, SeedFacts
  <2> HIDE DEF s
  <2>5. SameSeat(a, s)
    BY <1>2, <2>4 DEF SameSeat
  <2>6. Resumes(r, unasked) \/ Resumes(r, s)
    BY <2>2 DEF s
  <2>7. CASE Resumes(r, unasked)
    BY <1>1, <1>2, <2>1, <2>7, ResumeKeeps
  <2>8. CASE Resumes(r, s)
    BY <1>1, <2>1, <2>4, <2>5, <2>8, ResumeKeeps
  <2> QED BY <2>6, <2>7, <2>8
<1>4. CASE BoundaryUnknown(r)
  <2>1. /\ daily' = daily /\ hub' = hub /\ now' = now /\ troubles' = troubles + 1
        /\ troubles < MaxTrouble /\ Resumes(r, unasked)
    BY <1>4 DEF BoundaryUnknown
  <2> HIDE DEF unasked
  <2>2. troubles' \in 0 .. MaxTrouble
    BY <1>1, <2>1
  <2> QED BY <1>2, <2>1, <2>2, ResumeKeeps
<1> QED BY <1>3, <1>4

(* A client that is not waiting comes or goes.                             *)
LEMMA ClientMoves ==
  ASSUME StreamFacts, NEW c \in Clients, client[c].at # "placing",
         NEW d \in [at : {"out", "placing", "in", "dead"}, room : RoomIds \union {NoRoom}],
         client' = [client EXCEPT ![c] = d], d.at # "placing",
         NEW r \in RoomIds, NEW x \in Room, rooms' = [rooms EXCEPT ![r] = x],
         x.asking = rooms[r].asking \/ x.asking.by \notin Clients,
         x.creator = rooms[r].creator, daily => SealIsWhole(x),
         daily' = daily, now' = now, troubles' = troubles,
         hub' \in RoomIds \union {NoRoom}, told' \subseteq Periods \X BOOLEAN,
         DailySettledMeansSealed', \A s \in RoomIds : (Runs(rooms[s]) <=> s = hub)',
         HubIsKept', \A b \in Clients : Heard(b)'
  PROVE  StreamFacts'
<1>1. /\ daily \in BOOLEAN /\ now \in Periods /\ rooms \in [RoomIds -> Room] /\ troubles \in 0 .. MaxTrouble
      /\ client \in [Clients -> [at : {"out", "placing", "in", "dead"}, room : RoomIds \union {NoRoom}]]
      /\ \A s \in RoomIds : SoundRoom(s)
  BY StreamIsTyped DEF StreamFacts
<1>2. /\ rooms' \in [RoomIds -> Room] /\ rooms'[r] = x
      /\ \A s \in RoomIds : s # r => rooms'[s] = rooms[s]
  BY <1>1, RoomPut
<1>3. /\ client' \in [Clients -> [at : {"out", "placing", "in", "dead"}, room : RoomIds \union {NoRoom}]]
      /\ \A b \in Clients : b # c => client'[b] = client[b]
  BY <1>1, ClientPut
<1>4. StreamTypes'
  BY <1>1, <1>2, <1>3 DEF StreamTypes
<1>5. ASSUME NEW s \in RoomIds PROVE SoundRoom(s)'
  <2>1. /\ rooms'[s].asking = rooms[s].asking \/ rooms'[s].asking.by \notin Clients
        /\ rooms'[s].creator = rooms[s].creator
        /\ (daily => SealIsWhole(rooms'[s]))
    <3>1. CASE s = r
      BY <1>2, <3>1
    <3>2. CASE s # r
      BY <1>1, <1>2, <3>2 DEF SoundRoom
    <3> QED BY <3>1, <3>2
  <2>2. AskerWaits(s)'
    <3> DEFINE by == rooms[s].asking.by
    <3>1. by \in Clients => /\ daily /\ rooms[s].creator = by
                            /\ client[by].at = "placing" /\ client[by].room = s
      BY <1>1 DEF SoundRoom, AskerWaits
    <3>2. by \in Clients => client'[by] = client[by]
      BY <1>3, <3>1
    <3> QED BY <2>1, <3>1, <3>2 DEF AskerWaits
  <2>3. (daily => SealIsWhole(rooms[s]))'
    BY <2>1
  <2> QED BY <2>2, <2>3 DEF SoundRoom
<1> QED BY <1>4, <1>5 DEF StreamFacts

(* A room that is closed.                                                  *)
LEMMA CloseFacts ==
  ASSUME NEW a \in Room, NEW c \in Clients
  PROVE  LET x == Close(a, c)
         IN  /\ x \in Room /\ x.up = "stopped" /\ x.creator = a.creator
             /\ x.asking = a.asking \/ x.asking.by \notin Clients
             /\ SealIsWhole(a) => SealIsWhole(x)
<1>1. CASE a.asking.by \in Clients
  <2> DEFINE t == [a EXCEPT !.timer = FALSE]
             u == [t EXCEPT !.up = "stopped"]
             subs == u.subs \ {c}
             x == [u EXCEPT !.subs = subs]
  <2>1. t \in Room /\ SameSeat(a, t) /\ (SealIsWhole(a) => SealIsWhole(t))
    BY TimerFacts
  <2> HIDE DEF t
  <2>2. /\ u \in Room /\ u.up = "stopped" /\ u.creator = t.creator /\ u.asking = t.asking
        /\ (SealIsWhole(t) => SealIsWhole(u))
    BY <2>1, UpFacts
  <2> HIDE DEF u
  <2>3. subs \in SUBSET Clients
    BY <2>2, RoomFields
  <2>4. Close(a, c) = x
    BY <1>1 DEF Close, t, u
  <2> HIDE DEF subs
  <2>5. /\ x \in Room /\ x.up = u.up /\ x.creator = u.creator /\ x.asking = u.asking
        /\ (SealIsWhole(u) => SealIsWhole(x))
    BY <2>2, <2>3, SubsFacts
  <2> HIDE DEF x
  <2> QED BY <2>1, <2>2, <2>4, <2>5 DEF SameSeat
<1>2. CASE a.asking.by \notin Clients
  <2> DEFINE none == NoSuchRoom
             u == [none EXCEPT !.up = "stopped"]
             x == [u EXCEPT !.creator = a.creator]
  <2>1. none \in Room /\ none.asking = Free /\ none.sealed = FALSE
    BY NewRoomFacts
  <2>2. Close(a, c) = x
    BY <1>2 DEF Close
  <2> HIDE DEF none
  <2>3. u \in Room /\ u.up = "stopped" /\ u.asking = none.asking /\ u.sealed = none.sealed
    BY <2>1 DEF Room
  <2> HIDE DEF u
  <2>4. /\ x \in Room /\ x.up = u.up /\ x.asking = u.asking /\ x.sealed = u.sealed
        /\ x.creator = a.creator
    BY <2>3 DEF Room
  <2> HIDE DEF x
  <2>5. Free.by \notin Clients
    BY StreamAssumption DEF Free
  <2> QED BY <2>1, <2>2, <2>3, <2>4, <2>5 DEF SealIsWhole
<1> QED BY <1>1, <1>2

(* Another client joins the hub's room.                                    *)
LEMMA JoinKeeps ==
  ASSUME StreamFacts, NEW c \in Clients, SubscribeJoin(c)
  PROVE  StreamFacts'
<1> DEFINE a == rooms[hub]
           subs == a.subs \union {c}
           x == [a EXCEPT !.subs = subs]
           d == [at |-> "in", room |-> hub]
<1>1. /\ client[c].at = "out" /\ hub \in RoomIds /\ rooms' = [rooms EXCEPT ![hub] = x]
      /\ client' = [client EXCEPT ![c] = d] /\ Welcome(a)
      /\ daily' = daily /\ now' = now /\ hub' = hub /\ troubles' = troubles
  BY StreamIsTyped DEF SubscribeJoin, Enter
<1>2. /\ a \in Room /\ rooms \in [RoomIds -> Room] /\ (daily => SealIsWhole(a)) /\ hub # NoRoom
      /\ client \in [Clients -> [at : {"out", "placing", "in", "dead"}, room : RoomIds \union {NoRoom}]]
      /\ Kept(hub) /\ \A b \in a.subs : client[b].at = "in" /\ client[b].room = hub
      /\ \A b \in Clients : Heard(b)
      /\ \A s \in RoomIds : SoundRoom(s)
  BY <1>1, StreamIsTyped, RoomNumbers DEF StreamFacts, HubIsKept
<1>3. told' \subseteq Periods \X BOOLEAN /\ DailySettledMeansSealed'
  BY <1>1, <1>2, WelcomeTells
<1>4. subs \in SUBSET Clients
  BY <1>2, RoomFields
<1>5. /\ x \in Room /\ x.subs = a.subs \union {c} /\ x.up = a.up /\ x.asking = a.asking
      /\ x.creator = a.creator /\ (daily => SealIsWhole(x))
  <2> HIDE DEF subs
  <2>1. /\ x \in Room /\ x.subs = subs /\ x.up = a.up /\ x.asking = a.asking
        /\ x.creator = a.creator /\ (SealIsWhole(a) => SealIsWhole(x))
    BY <1>2, <1>4, SubsFacts
  <2> QED BY <1>2, <2>1 DEF subs
<1>6. /\ d \in [at : {"out", "placing", "in", "dead"}, room : RoomIds \union {NoRoom}]
      /\ d.at = "in" /\ d.room = hub
  BY <1>1
<1> HIDE DEF x, d, subs
<1>7. /\ rooms'[hub] = x /\ \A s \in RoomIds : s # hub => rooms'[s] = rooms[s]
  BY <1>1, <1>2, <1>5, RoomPut
<1>8. /\ client'[c] = d /\ \A b \in Clients : b # c => client'[b] = client[b]
  BY <1>1, <1>2, <1>6, ClientPut
<1>9. \A s \in RoomIds : (Runs(rooms[s]) <=> s = hub)'
  <2>1. \A s \in RoomIds : rooms'[s].up = rooms[s].up
    BY <1>5, <1>7
  <2> QED BY <1>1, <1>2, <2>1 DEF SoundRoom, Runs
<1>10. HubIsKept'
  <2>1. Kept(hub)'
    BY <1>1, <1>6, <1>8 DEF Kept
  <2>2. ASSUME NEW b \in x.subs PROVE client'[b].at = "in" /\ client'[b].room = hub
    <3>1. CASE b = c
      BY <1>6, <1>8, <3>1
    <3>2. CASE b # c
      <4>1. b \in a.subs /\ b \in Clients
        BY <1>2, <1>5, <3>2, RoomFields
      <4> QED BY <1>2, <1>8, <3>2, <4>1
    <3> QED BY <3>1, <3>2
  <2> QED BY <1>1, <1>7, <2>1, <2>2 DEF HubIsKept
<1>11. ASSUME NEW b \in Clients PROVE Heard(b)'
  <2>1. \A s \in RoomIds : /\ rooms[s].subs \subseteq rooms'[s].subs
                           /\ rooms'[s].up = rooms[s].up /\ rooms'[s].creator = rooms[s].creator
    BY <1>5, <1>7
  <2>2. CASE b = c
    <3>1. Runs(a)
      BY <1>1, <1>2 DEF SoundRoom
    <3>2. x.up # "stopped" /\ c \in x.subs
      BY <1>5, <3>1 DEF Runs
    <3> QED BY <1>1, <1>6, <1>7, <1>8, <2>2, <3>2 DEF Heard
  <2>3. CASE b # c
    BY <1>1, <1>2, <1>8, <2>1, <2>3 DEF Heard
  <2> QED BY <2>2, <2>3
<1> QED BY <1>1, <1>2, <1>3, <1>5, <1>6, <1>9, <1>10, <1>11, ClientMoves

(* A dead socket is dropped from its room.                                 *)
LEMMA SendFailsKeeps ==
  ASSUME StreamFacts, NEW c \in Clients, SendFails(c)
  PROVE  StreamFacts'
<1> DEFINE r == client[c].room
           a == rooms[r]
           subs == a.subs \ {c}
           x == [a EXCEPT !.subs = subs]
           d == [client[c] EXCEPT !.at = "dead"]
<1>1. /\ daily \in BOOLEAN /\ rooms \in [RoomIds -> Room] /\ told \subseteq Periods \X BOOLEAN
      /\ client \in [Clients -> [at : {"out", "placing", "in", "dead"}, room : RoomIds \union {NoRoom}]]
      /\ hub \in RoomIds \union {NoRoom} /\ DailySettledMeansSealed
      /\ HubIsKept /\ \A b \in Clients : Heard(b)
      /\ \A s \in RoomIds : SoundRoom(s)
  BY DEF StreamFacts, StreamTypes
<1>2. /\ client[c].at = "in" /\ r \in RoomIds
  BY <1>1 DEF SendFails, Heard
<1>3. a \in Room /\ (daily => SealIsWhole(a))
  BY <1>2, StreamIsTyped
<1>4. /\ rooms' = [rooms EXCEPT ![r] = x] /\ client' = [client EXCEPT ![c] = d]
      /\ daily' = daily /\ now' = now /\ hub' = hub /\ told' = told /\ troubles' = troubles
  BY <1>1, <1>2 DEF SendFails
<1>5. subs \in SUBSET Clients
  BY <1>3, RoomFields
<1>6. /\ x \in Room /\ x.subs = a.subs \ {c} /\ x.up = a.up /\ x.asking = a.asking
      /\ x.creator = a.creator /\ (daily => SealIsWhole(x))
  <2> HIDE DEF subs
  <2>1. /\ x \in Room /\ x.subs = subs /\ x.up = a.up /\ x.asking = a.asking
        /\ x.creator = a.creator /\ (SealIsWhole(a) => SealIsWhole(x))
    BY <1>3, <1>5, SubsFacts
  <2> QED BY <1>3, <2>1 DEF subs
<1>7. /\ d \in [at : {"out", "placing", "in", "dead"}, room : RoomIds \union {NoRoom}]
      /\ d.at = "dead" /\ d.room = client[c].room
  BY <1>1
<1> HIDE DEF x, d, subs
<1>8. /\ rooms'[r] = x /\ \A s \in RoomIds : s # r => rooms'[s] = rooms[s]
  BY <1>1, <1>2, <1>4, <1>6, RoomPut
<1>9. /\ client'[c] = d /\ \A b \in Clients : b # c => client'[b] = client[b]
  BY <1>1, <1>4, <1>7, ClientPut
<1>10. \A s \in RoomIds : /\ rooms'[s].subs = rooms[s].subs \ (IF s = r THEN {c} ELSE {})
                          /\ rooms'[s].up = rooms[s].up /\ rooms'[s].creator = rooms[s].creator
  BY <1>6, <1>8
<1>11. \A s \in RoomIds : (Runs(rooms[s]) <=> s = hub)'
  BY <1>1, <1>4, <1>10 DEF SoundRoom, Runs
<1>12. HubIsKept'
  <2> SUFFICES ASSUME hub # NoRoom
               PROVE  /\ Kept(hub)'
                      /\ \A b \in rooms'[hub].subs : client'[b].at = "in" /\ client'[b].room = hub
    BY <1>4 DEF HubIsKept
  <2>1. /\ hub \in RoomIds /\ Kept(hub)
        /\ \A b \in rooms[hub].subs : client[b].at = "in" /\ client[b].room = hub
    BY <1>1 DEF HubIsKept
  <2>2. Kept(hub)'
    <3>1. PICK b \in Clients : client[b].room = hub /\ client[b].at # "out"
      BY <2>1 DEF Kept
    <3>2. client'[b].room = hub /\ client'[b].at # "out"
      BY <1>7, <1>9, <3>1
    <3> QED BY <1>4, <3>2 DEF Kept
  <2>3. ASSUME NEW b \in rooms'[hub].subs PROVE client'[b].at = "in" /\ client'[b].room = hub
    <3>1. b \in rooms[hub].subs /\ (hub = r => b # c)
      BY <1>10, <2>1, <2>3
    <3>2. b \in Clients /\ b # c
      <4>1. rooms[hub] \in Room
        BY <2>1, StreamIsTyped
      <4> QED BY <2>1, <3>1, <4>1, RoomFields
    <3> QED BY <1>9, <2>1, <3>1, <3>2
  <2> QED BY <2>2, <2>3
<1>13. ASSUME NEW b \in Clients PROVE Heard(b)'
  <2>1. CASE b = c
    BY <1>7, <1>9, <2>1 DEF Heard
  <2>2. CASE b # c
    BY <1>1, <1>4, <1>9, <1>10, <2>2 DEF Heard
  <2> QED BY <2>1, <2>2
<1>14. DailySettledMeansSealed'
  BY <1>1, <1>4 DEF DailySettledMeansSealed, SettledMeansSealed
<1> HIDE DEF r, a
<1> QED BY <1>1, <1>2, <1>4, <1>6, <1>7, <1>11, <1>12, <1>13, <1>14, ClientMoves DEF a

(* A client leaves: by the key, so that the room it takes its leave of may *)
(* not be its own, and is then still kept for whoever it was kept for.     *)
LEMMA LeaveKeeps ==
  ASSUME StreamFacts, NEW c \in Clients, Unsubscribe(c)
  PROVE  StreamFacts'
<1> DEFINE d == [at |-> "out", room |-> NoRoom]
           a == rooms[hub]
<1>1. /\ daily \in BOOLEAN /\ rooms \in [RoomIds -> Room] /\ told \subseteq Periods \X BOOLEAN
      /\ client \in [Clients -> [at : {"out", "placing", "in", "dead"}, room : RoomIds \union {NoRoom}]]
      /\ hub \in RoomIds \union {NoRoom} /\ DailySettledMeansSealed
      /\ HubIsKept /\ \A b \in Clients : Heard(b)
      /\ \A s \in RoomIds : SoundRoom(s)
  BY DEF StreamFacts, StreamTypes
<1>2. /\ client[c].at # "placing" /\ client' = [client EXCEPT ![c] = d]
      /\ daily' = daily /\ now' = now /\ told' = told /\ troubles' = troubles
  BY DEF Unsubscribe
<1>3. /\ d \in [at : {"out", "placing", "in", "dead"}, room : RoomIds \union {NoRoom}]
      /\ d.at = "out" /\ d.room = NoRoom
  OBVIOUS
<1> HIDE DEF d
<1>4. /\ client'[c] = d /\ \A b \in Clients : b # c => client'[b] = client[b]
  BY <1>1, <1>2, <1>3, ClientPut
<1>5. DailySettledMeansSealed' /\ told' \subseteq Periods \X BOOLEAN
  BY <1>1, <1>2 DEF DailySettledMeansSealed, SettledMeansSealed
<1>6. CASE hub = NoRoom /\ hub' = hub /\ rooms' = rooms
  <2>1. 1 \in RoomIds
    BY StreamAssumption DEF RoomIds
  <2>2. rooms[1] \in Room /\ (daily => SealIsWhole(rooms[1])) /\ rooms' = [rooms EXCEPT ![1] = rooms[1]]
    BY <1>1, <1>6, <2>1, StreamIsTyped
  <2>3. \A s \in RoomIds : (Runs(rooms[s]) <=> s = hub)'
    BY <1>1, <1>6 DEF SoundRoom, Runs
  <2>4. HubIsKept'
    BY <1>6 DEF HubIsKept
  <2>5. ASSUME NEW b \in Clients PROVE Heard(b)'
    <3>1. CASE b = c
      BY <1>3, <1>4, <3>1 DEF Heard
    <3>2. CASE b # c
      BY <1>1, <1>2, <1>4, <1>6, <3>2 DEF Heard
    <3> QED BY <3>1, <3>2
  <2> QED BY <1>1, <1>2, <1>3, <1>5, <1>6, <2>1, <2>2, <2>3, <2>4, <2>5, ClientMoves
<1>7. ASSUME hub # NoRoom
      PROVE  /\ hub \in RoomIds /\ a \in Room /\ (daily => SealIsWhole(a)) /\ a.subs \in SUBSET Clients
             /\ \A b \in a.subs : client[b].at = "in" /\ client[b].room = hub
  <2>1. hub \in RoomIds
    BY <1>1, <1>7
  <2>2. a \in Room
    BY <2>1, StreamIsTyped
  <2> QED BY <1>1, <1>7, <2>1, <2>2, StreamIsTyped, RoomFields DEF HubIsKept
<1>8. CASE hub # NoRoom /\ ~EmptiedBy(c, hub) /\ hub' = hub
           /\ rooms' = [rooms EXCEPT ![hub].subs = @ \ {c}]
  <2> DEFINE subs == a.subs \ {c}
             x == [a EXCEPT !.subs = subs]
  <2>1. subs \in SUBSET Clients
    BY <1>7, <1>8
  <2>2. rooms' = [rooms EXCEPT ![hub] = x]
    BY <1>1, <1>7, <1>8
  <2>3. /\ x \in Room /\ x.subs = a.subs \ {c} /\ x.up = a.up /\ x.asking = a.asking
        /\ x.creator = a.creator /\ (daily => SealIsWhole(x))
    <3> HIDE DEF subs
    <3>1. /\ x \in Room /\ x.subs = subs /\ x.up = a.up /\ x.asking = a.asking
          /\ x.creator = a.creator /\ (SealIsWhole(a) => SealIsWhole(x))
      BY <1>7, <1>8, <2>1, SubsFacts
    <3> QED BY <1>7, <1>8, <3>1 DEF subs
  <2> HIDE DEF x, subs
  <2>4. /\ rooms'[hub] = x /\ \A s \in RoomIds : s # hub => rooms'[s] = rooms[s]
    BY <1>1, <1>7, <1>8, <2>2, <2>3, RoomPut
  <2>5. \A s \in RoomIds : /\ \A b \in rooms[s].subs : b # c => b \in rooms'[s].subs
                           /\ rooms'[s].up = rooms[s].up /\ rooms'[s].creator = rooms[s].creator
    BY <2>3, <2>4
  <2>6. \A s \in RoomIds : (Runs(rooms[s]) <=> s = hub)'
    BY <1>1, <1>8, <2>5 DEF SoundRoom, Runs
  <2>7. HubIsKept'
    <3>1. PICK b \in a.subs : b # c
      BY <1>7, <1>8 DEF EmptiedBy
    <3>2. /\ b \in Clients /\ client'[b] = client[b] /\ client[b].at = "in" /\ client[b].room = hub
      BY <1>4, <1>7, <1>8, <3>1
    <3>3. Kept(hub)'
      BY <1>8, <3>2 DEF Kept
    <3>4. ASSUME NEW e \in rooms'[hub].subs PROVE client'[e].at = "in" /\ client'[e].room = hub
      <4>1. e \in a.subs /\ e # c /\ e \in Clients
        BY <1>7, <1>8, <2>3, <2>4
      <4> QED BY <1>4, <1>7, <1>8, <4>1
    <3> QED BY <1>8, <3>3, <3>4 DEF HubIsKept
  <2>8. ASSUME NEW b \in Clients PROVE Heard(b)'
    <3>1. CASE b = c
      BY <1>3, <1>4, <3>1 DEF Heard
    <3>2. CASE b # c
      BY <1>1, <1>2, <1>4, <1>8, <2>5, <3>2 DEF Heard
    <3> QED BY <3>1, <3>2
  <2>9. hub \in RoomIds /\ hub' \in RoomIds \union {NoRoom}
    BY <1>1, <1>7, <1>8
  <2> HIDE DEF a
  <2> QED BY <1>1, <1>2, <1>3, <1>5, <2>2, <2>3, <2>6, <2>7, <2>8, <2>9, ClientMoves DEF a
<1>9. CASE hub # NoRoom /\ EmptiedBy(c, hub) /\ hub' = NoRoom
           /\ rooms' = [rooms EXCEPT ![hub] = Close(@, c)]
  <2> DEFINE x == Close(a, c)
  <2>1. /\ x \in Room /\ x.up = "stopped" /\ x.creator = a.creator
        /\ x.asking = a.asking \/ x.asking.by \notin Clients
        /\ (daily => SealIsWhole(x))
    BY <1>7, <1>9, CloseFacts
  <2>2. rooms' = [rooms EXCEPT ![hub] = x]
    BY <1>1, <1>7, <1>9
  <2> HIDE DEF x
  <2>3. /\ rooms'[hub] = x /\ \A s \in RoomIds : s # hub => rooms'[s] = rooms[s]
    BY <1>1, <1>7, <1>9, <2>1, <2>2, RoomPut
  <2>4. \A s \in RoomIds : (Runs(rooms[s]) <=> s = hub)'
    BY <1>1, <1>9, <2>1, <2>3, RoomNumbers DEF SoundRoom, Runs
  <2>5. HubIsKept'
    BY <1>9 DEF HubIsKept
  <2>6. ASSUME NEW b \in Clients PROVE Heard(b)'
    <3>1. CASE b = c
      BY <1>3, <1>4, <3>1 DEF Heard
    <3>2. CASE b # c
      <4>1. b \notin rooms[hub].subs
        BY <1>9, <3>2 DEF EmptiedBy
      <4>2. \A s \in RoomIds : rooms'[s].creator = rooms[s].creator
        BY <2>1, <2>3
      <4> QED BY <1>1, <1>2, <1>4, <3>2, <4>1, <4>2 DEF Heard
    <3> QED BY <3>1, <3>2
  <2>7. hub' \in RoomIds \union {NoRoom}
    BY <1>9
  <2>8. hub \in RoomIds
    BY <1>7, <1>9
  <2> HIDE DEF a
  <2> QED BY <1>1, <1>2, <1>3, <1>5, <2>1, <2>2, <2>4, <2>5, <2>6, <2>7, <2>8, ClientMoves DEF a
<1> QED BY <1>6, <1>8, <1>9 DEF Unsubscribe

(* The first client makes a room.                                          *)
LEMMA FirstKeeps ==
  ASSUME StreamFacts, NEW c \in Clients, SubscribeFirst(c)
  PROVE  StreamFacts'
<1>1. /\ daily \in BOOLEAN /\ rooms \in [RoomIds -> Room] /\ told \subseteq Periods \X BOOLEAN
      /\ client \in [Clients -> [at : {"out", "placing", "in", "dead"}, room : RoomIds \union {NoRoom}]]
      /\ DailySettledMeansSealed /\ now \in 0 .. MaxPeriod /\ now \in Periods
      /\ \A b \in Clients : Heard(b)
      /\ \A s \in RoomIds : SoundRoom(s)
  BY StreamIsTyped DEF StreamFacts, StreamTypes
<1>2. /\ client[c].at = "out" /\ hub = NoRoom
      /\ daily' = daily /\ now' = now /\ told' = told /\ troubles' = troubles
  BY DEF SubscribeFirst
<1>3. PICK r \in RoomIds :
        /\ rooms[r] = NoSuchRoom /\ hub' = r
        /\ IF daily
           THEN /\ rooms' = [rooms EXCEPT ![r] =
                                [NewRoom(c) EXCEPT !.asking = [by |-> c, at |-> now]]]
                /\ client' = [client EXCEPT ![c] = [at |-> "placing", room |-> r]]
           ELSE /\ rooms' = [rooms EXCEPT ![r] = [NewRoom(c) EXCEPT !.subs = {c}]]
                /\ Enter(c, r)
  BY DEF SubscribeFirst
<1>4. /\ rooms[r].creator = "nobody" /\ r # NoRoom /\ "nobody" \notin Clients
  BY <1>3, NewRoomFacts, RoomNumbers, StreamAssumption
<1> DEFINE n == NewRoom(c)
           ask == [by |-> c, at |-> now]
           subs == {c}
           askedx == [n EXCEPT !.asking = ask]
           heldx == [n EXCEPT !.subs = subs]
           x == IF daily THEN askedx ELSE heldx
           d == IF daily THEN [at |-> "placing", room |-> r] ELSE [at |-> "in", room |-> r]
<1>5. /\ n \in Room /\ n.subs = {} /\ n.up = "connecting" /\ n.sealed = FALSE
      /\ n.asking = Free /\ n.creator = c
  BY NewRoomFacts
<1>6. rooms' = [rooms EXCEPT ![r] = x] /\ client' = [client EXCEPT ![c] = d]
  BY <1>3 DEF Enter
<1>7. /\ d \in [at : {"out", "placing", "in", "dead"}, room : RoomIds \union {NoRoom}]
      /\ d.room = r /\ d.at = IF daily THEN "placing" ELSE "in"
  OBVIOUS
<1>8. /\ ask \in [by : Clients \union {"nobody", "quote", "timer"}, at : 0 .. MaxPeriod]
      /\ ask.by = c /\ subs \in SUBSET Clients
  BY <1>1
<1> HIDE DEF n, ask, subs
<1>9. /\ askedx \in Room /\ askedx.asking = ask /\ askedx.subs = n.subs /\ askedx.up = n.up
      /\ askedx.creator = n.creator /\ askedx.sealed = n.sealed
  BY <1>5, <1>8, AskFacts
<1>10. /\ heldx \in Room /\ heldx.subs = subs /\ heldx.up = n.up /\ heldx.asking = n.asking
       /\ heldx.creator = n.creator
  BY <1>5, <1>8, SubsFacts
<1> HIDE DEF askedx, heldx
<1>11. /\ x \in Room /\ x.up = "connecting" /\ x.creator = c /\ x.subs = IF daily THEN {} ELSE {c}
       /\ daily => ~x.sealed /\ x.asking.by = c
       /\ ~daily => x.asking.by \notin Clients
  <2>1. CASE daily
    BY <1>5, <1>8, <1>9, <2>1
  <2>2. CASE ~daily
    BY <1>4, <1>5, <1>10, <2>2 DEF subs, Free
  <2> QED BY <2>1, <2>2
<1> HIDE DEF x, d
<1>12. /\ rooms' \in [RoomIds -> Room] /\ rooms'[r] = x
       /\ \A s \in RoomIds : s # r => rooms'[s] = rooms[s]
  BY <1>1, <1>6, <1>11, RoomPut
<1>13. /\ client' \in [Clients -> [at : {"out", "placing", "in", "dead"}, room : RoomIds \union {NoRoom}]]
       /\ client'[c] = d /\ \A b \in Clients : b # c => client'[b] = client[b]
  BY <1>1, <1>6, <1>7, ClientPut
<1>14. StreamTypes'
  BY <1>1, <1>2, <1>3, <1>12, <1>13, StreamIsTyped DEF StreamTypes
<1>15. ASSUME NEW s \in RoomIds PROVE SoundRoom(s)'
  <2>1. CASE s = r
    <3>1. AskerWaits(s)'
      BY <1>2, <1>7, <1>11, <1>12, <1>13, <2>1 DEF AskerWaits
    <3>2. (daily => SealIsWhole(rooms[s]))' /\ (Runs(rooms[s]) <=> s = hub)'
      BY <1>2, <1>3, <1>11, <1>12, <2>1 DEF SealIsWhole, Runs
    <3> QED BY <3>1, <3>2 DEF SoundRoom
  <2>2. CASE s # r
    <3>1. rooms'[s] = rooms[s]
      BY <1>12, <2>2
    <3>2. AskerWaits(s)'
      BY <1>1, <1>2, <1>13, <3>1 DEF SoundRoom, AskerWaits
    <3>3. (daily => SealIsWhole(rooms[s]))' /\ (Runs(rooms[s]) <=> s = hub)'
      BY <1>1, <1>2, <1>3, <2>2, <3>1, RoomNumbers DEF SoundRoom, SealIsWhole, Runs
    <3> QED BY <3>2, <3>3 DEF SoundRoom
  <2> QED BY <2>1, <2>2
<1>16. HubIsKept'
  <2>1. Kept(hub)'
    BY <1>3, <1>7, <1>13 DEF Kept
  <2>2. ASSUME NEW b \in x.subs PROVE client'[b].at = "in" /\ client'[b].room = r
    BY <1>7, <1>11, <1>13, <2>2
  <2> QED BY <1>3, <1>12, <2>1, <2>2 DEF HubIsKept
<1>17. ASSUME NEW b \in Clients PROVE Heard(b)'
  <2>1. CASE b = c
    <3>1. CASE daily
      BY <1>7, <1>13, <2>1, <3>1 DEF Heard
    <3>2. CASE ~daily
      BY <1>3, <1>7, <1>11, <1>12, <1>13, <2>1, <3>2 DEF Heard
    <3> QED BY <3>1, <3>2
  <2>2. CASE b # c
    <3>1. client[b].at = "in" =>
            client[b].room \in RoomIds /\ daily /\ rooms[client[b].room].creator = b
      BY <1>1, <1>2, RoomNumbers DEF Heard
    <3>2. client[b].at = "in" => rooms'[client[b].room].creator = b
      BY <1>4, <1>12, <3>1
    <3> QED BY <1>2, <1>13, <2>2, <3>1, <3>2 DEF Heard
  <2> QED BY <2>1, <2>2
<1>18. DailySettledMeansSealed'
  BY <1>1, <1>2 DEF DailySettledMeansSealed, SettledMeansSealed
<1> QED BY <1>14, <1>15, <1>16, <1>17, <1>18 DEF StreamFacts

(* Every step keeps the invariant.                                         *)
LEMMA StreamStep == ASSUME StreamFacts, [StreamNext]_stream PROVE StreamFacts'
<1>1. CASE PeriodPasses
  <2>1. /\ now < MaxPeriod /\ now' = now + 1 /\ daily' = daily /\ hub' = hub /\ rooms' = rooms
        /\ client' = client /\ told' = told /\ troubles' = troubles
    BY <1>1 DEF PeriodPasses
  <2>2. now' \in Periods
    BY <2>1, StreamIsTyped, RoomNumbers DEF Periods
  <2>3. StreamTypes' /\ DailySettledMeansSealed'
    BY <2>1, <2>2 DEF StreamFacts, StreamTypes, DailySettledMeansSealed, SettledMeansSealed
  <2>4. HubIsKept' /\ (\A c \in Clients : Heard(c)')
    BY <2>1 DEF StreamFacts, HubIsKept, Kept, Heard
  <2>5. \A r \in RoomIds : SoundRoom(r)'
    BY <2>1 DEF StreamFacts, SoundRoom, SealIsWhole, AskerWaits, Runs
  <2> QED BY <2>3, <2>4, <2>5 DEF StreamFacts
<1>2. CASE UNCHANGED stream
  <2>1. /\ now' = now /\ daily' = daily /\ hub' = hub /\ rooms' = rooms
        /\ client' = client /\ told' = told /\ troubles' = troubles
    BY <1>2 DEF stream
  <2>2. StreamTypes' /\ DailySettledMeansSealed'
    BY <2>1 DEF StreamFacts, StreamTypes, DailySettledMeansSealed, SettledMeansSealed
  <2>3. HubIsKept' /\ (\A c \in Clients : Heard(c)')
    BY <2>1 DEF StreamFacts, HubIsKept, Kept, Heard
  <2>4. \A r \in RoomIds : SoundRoom(r)'
    BY <2>1 DEF StreamFacts, SoundRoom, SealIsWhole, AskerWaits, Runs
  <2> QED BY <2>2, <2>3, <2>4 DEF StreamFacts
<1>3. ASSUME NEW c \in Clients,
             SubscribeFirst(c) \/ SubscribeJoin(c) \/ SendFails(c) \/ Unsubscribe(c)
      PROVE  StreamFacts'
  BY <1>3, FirstKeeps, JoinKeeps, SendFailsKeeps, LeaveKeeps
<1>4. ASSUME NEW r \in RoomIds,
             \/ BoundaryTick(r) \/ RetryDue(r) \/ BoundaryAnswered(r) \/ BoundaryUnknown(r)
             \/ Connect(r) \/ Drop(r) \/ Quote(r) \/ Sealed(r)
      PROVE  StreamFacts'
  BY <1>4, TickKeeps, AnswerKeeps, MarketKeeps
<1> QED BY <1>1, <1>2, <1>3, <1>4 DEF StreamNext

(* The streaming hub's state keeps its types.                              *)
THEOREM StreamTypesHold == StreamSpec => []StreamTypes
<1>1. StreamFacts => StreamTypes
  BY DEF StreamFacts
<1> QED BY <1>1, StreamStarts, StreamStep, PTL DEF StreamSpec

(* Of a daily or weekly candle handed to a joiner as settled the provider  *)
(* made all (FormingCandle, Hub.subscribe).                                *)
THEOREM OnlySealedIsSettled == StreamSpec => []DailySettledMeansSealed
<1>1. StreamFacts => DailySettledMeansSealed
  BY DEF StreamFacts
<1> QED BY <1>1, StreamStarts, StreamStep, PTL DEF StreamSpec

(* A room's connection runs while the room is kept for somebody, and       *)
(* whoever hears a room hears the hub's, with the one exception the        *)
(* property names (Hub.subscribe, Hub.unsubscribe).                        *)
THEOREM ConnectionsFollow == StreamSpec => []ConnectionFollowsAudience
<1>1. StreamFacts => ConnectionFollowsAudience
  <2> SUFFICES ASSUME StreamFacts PROVE ConnectionFollowsAudience
    OBVIOUS
  <2>1. \A r \in RoomIds : rooms[r].up \in {"connecting", "connected"} => r = hub /\ Kept(r)
    BY RoomNumbers DEF StreamFacts, SoundRoom, Runs, HubIsKept
  <2>2. \A c \in Clients : client[c].at = "in" =>
          LET r == client[c].room
          IN  \/ r = hub /\ rooms[r].up # "stopped" /\ c \in rooms[r].subs
              \/ daily /\ rooms[r].creator = c
    BY DEF StreamFacts, Heard
  <2> QED BY <2>1, <2>2 DEF ConnectionFollowsAudience
<1> QED BY <1>1, StreamStarts, StreamStep, PTL DEF StreamSpec
=============================================================================

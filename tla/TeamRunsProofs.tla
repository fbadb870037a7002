--------------------------- MODULE TeamRunsProofs ---------------------------
(***************************************************************************)
(* Proofs about TeamRuns, for any team, any limits and any number of       *)
(* faults: its types; that no order of the account is missing from the     *)
(* rows or denied by them; how far a run may pass its ceilings; that an    *)
(* open run is worked or excused; that a viewer hears of the end; and that *)
(* the run seen through its rows is the abstract one of RunLifecycle.      *)
(***************************************************************************)
EXTENDS TeamRuns, FiniteSetTheorems, WellFoundedInduction, TLAPS

(***************************************************************************)
(* Naturals.                                                               *)
(***************************************************************************)
NatBelow == {p \in Nat \X Nat : p[1] < p[2]}

LEMMA NatBelowWellFounded == IsWellFoundedOn(NatBelow, Nat)
  BY NatLessThanWellFounded DEF OpToRel, NatBelow

(* Max gives the largest member of a bounded set of naturals.              *)
LEMMA MaxOfNaturals ==
  ASSUME NEW S \in SUBSET Nat, S # {}, NEW n \in Nat, \A x \in S : x <= n
  PROVE  Max(S) \in S /\ \A x \in S : x <= Max(S)
<1> DEFINE T == {n - x : x \in S}
<1>1. T \in SUBSET Nat /\ T # {}
  <2>1. \A x \in S : n - x \in Nat
    OBVIOUS
  <2> QED BY <2>1
<1>2. PICK t \in T : \A u \in T : <<u, t>> \notin NatBelow
  <2> HIDE DEF T
  <2> QED BY <1>1, NatBelowWellFounded, WFMin
<1>3. PICK m \in S : t = n - m
  BY <1>2
<1>4. \A x \in S : x <= m
  <2> SUFFICES ASSUME NEW x \in S, x > m PROVE FALSE
    OBVIOUS
  <2>1. n - x \in T /\ n - x < t /\ n - x \in Nat /\ t \in Nat
    BY <1>3
  <2> QED BY <2>1, <1>2 DEF NatBelow
<1> QED BY <1>3, <1>4 DEF Max

(***************************************************************************)
(* Types.  That a round never passes its ceiling needs to be known of the  *)
(* agents in the middle of an order: they are below it.                    *)
(***************************************************************************)
InOrder == {"checked", "recorded", "ordering", "answered"}

RoundInv == \A a \in Agents : at[a] \in InOrder => round[a] < RoundCeiling

TypeInv == TypeOK /\ RoundInv

(* An agent that goes elsewhere leaves the others where they are.          *)
LEMMA MovesType ==
  ASSUME TypeOK, NEW a \in Agents, NEW from, NEW to \in AgentAt, AgentMoves(a, from, to)
  PROVE  /\ at' \in [Agents -> AgentAt] /\ at' = [at EXCEPT ![a] = to]
         /\ at[a] = from /\ task = "team"
  BY DEF TypeOK, AgentMoves, Goes

(* A team that is stopped has no agent in the middle of an order.          *)
LEMMA StopType ==
  ASSUME TypeOK, NEW s \in Ended, Stop(s)
  PROVE  /\ at' \in [Agents -> AgentAt] /\ task' \in TaskAt /\ ending' \in Ended
         /\ \A a \in Agents : at'[a] \in {"done", "stopped"}
  BY DEF TypeOK, Stop, AgentAt, TaskAt

(* The initial state has the types.                                        *)
LEMMA TypeInit == Init => TypeInv
  BY TeamAssumption DEF Init, TypeInv, TypeOK, RoundInv, InOrder, Ended, Open,
     AgentAt, TaskAt, Answers, Orders

(* So do the states after every step of an agent.                          *)
LEMMA TypeAgent ==
  ASSUME TypeInv, NEW a \in Agents, AgentStep(a)
  PROVE  TypeInv'
<1> USE DEF TypeInv, RoundInv, InOrder
<1>0. /\ RoundCeiling \in Nat /\ round[a] \in 0 .. RoundCeiling /\ spent \in Nat /\ placed \in Nat
      /\ at \in [Agents -> AgentAt]
  BY TeamAssumption DEF TypeOK
<1>1. CASE StartStep(a) \/ CallModel(a) \/ Concludes(a) \/ FinishStep(a)
  <2>1. \E to \in AgentAt \ InOrder : at' = [at EXCEPT ![a] = to]
    BY <1>1 DEF StartStep, CallModel, Concludes, FinishStep, AgentMoves, Goes, AgentAt
  <2>2. steps' \in [Agents -> {"pending", "running", "completed", "failed"}]
    BY <1>1 DEF StartStep, CallModel, Concludes, FinishStep, TypeOK
  <2>3. UNCHANGED <<status, task, ending, round, answer, guards, trades, viewer, excuse, faults>>
    BY <1>1 DEF StartStep, CallModel, Concludes, FinishStep
  <2> QED BY <1>0, <2>1, <2>2, <2>3, ZenonT(40) DEF TypeOK, guards, trades
<1>2. CASE CostLimitReached(a) \/ OrderLimitReached(a) \/ AgentFailed(a)
  <2>1. Stop("failed") /\ "failed" \in Ended
    BY <1>2 DEF CostLimitReached, OrderLimitReached, AgentFailed, Raises, Ended
  <2>2. /\ at' \in [Agents -> AgentAt] /\ task' \in TaskAt /\ ending' \in Ended
        /\ \A b \in Agents : at'[b] \in {"done", "stopped"}
    BY <2>1, StopType
  <2>3. steps' \in [Agents -> {"pending", "running", "completed", "failed"}]
    BY <1>2 DEF CostLimitReached, OrderLimitReached, AgentFailed, TypeOK
  <2>4. UNCHANGED <<status, round, answer, guards, trades, viewer, excuse, faults>>
    BY <1>2 DEF CostLimitReached, OrderLimitReached, AgentFailed, Raises
  <2> QED BY <2>2, <2>3, <2>4 DEF TypeOK, guards, trades
<1>3. CASE ModelAnswers(a)
  <2>1. \E to \in AgentAt \ InOrder : at' = [at EXCEPT ![a] = to]
    BY <1>3 DEF ModelAnswers, AgentMoves, Goes, AgentAt
  <2> QED BY <1>0, <1>3, <2>1 DEF ModelAnswers, TypeOK, trades
<1>4. CASE ReadsOnly(a)
  <2>1. at' = [at EXCEPT ![a] = "asking"] /\ "asking" \in AgentAt
    BY <1>4 DEF ReadsOnly, AgentMoves, Goes, AgentAt
  <2>2. round' = [round EXCEPT ![a] = @ + 1] /\ round[a] + 1 \in 0 .. RoundCeiling
    BY <1>0, <1>4 DEF ReadsOnly, NextRound
  <2> QED BY <1>0, <1>4, <2>1, <2>2 DEF ReadsOnly, TypeOK, guards, trades
<1>5. CASE OrderAllowed(a)
  <2>1. at' = [at EXCEPT ![a] = "checked"] /\ "checked" \in AgentAt
    BY <1>5 DEF OrderAllowed, AgentMoves, Goes, AgentAt
  <2> QED BY <1>0, <1>5, <2>1 DEF OrderAllowed, TypeOK, guards, trades
<1>6. CASE RecordTrade(a)
  <2>1. at' = [at EXCEPT ![a] = "recorded"] /\ "recorded" \in AgentAt /\ at[a] = "checked"
    BY <1>6 DEF RecordTrade, AgentMoves, Goes, AgentAt
  <2>2. rows' \in [Orders -> {"none", "sent", "settled", "unsettled", "refused", "unknown"}]
    BY <1>6 DEF RecordTrade, TypeOK
  <2> QED BY <1>0, <1>6, <2>1, <2>2 DEF RecordTrade, TypeOK, guards
<1>7. CASE \E taken \in BOOLEAN : SendOrder(a, taken)
  <2>1. at' = [at EXCEPT ![a] = "ordering"] /\ "ordering" \in AgentAt /\ at[a] = "recorded"
    BY <1>7 DEF SendOrder, AgentMoves, Goes, AgentAt
  <2>2. reached' \subseteq Orders /\ disowned \subseteq reached'
    BY <1>0, <1>7 DEF SendOrder, TypeOK, Orders
  <2>3. /\ placed' \in Nat
        /\ UNCHANGED <<status, steps, task, ending, round, answer, spent, rows, disowned,
                       viewer, excuse, faults>>
    BY <1>0, <1>7 DEF SendOrder
  <2> QED BY <1>0, <2>1, <2>2, <2>3 DEF TypeOK
<1>8. CASE OrderAnswered(a)
  <2>1. at' = [at EXCEPT ![a] = "answered"] /\ "answered" \in AgentAt /\ at[a] = "ordering"
    BY <1>8 DEF OrderAnswered, AgentMoves, Goes, AgentAt
  <2>2. PICK x \in MayAnswer(<<a, round[a]>>) :
           /\ answer' = [answer EXCEPT ![a] = x]
           /\ disowned' = IF x = "refusedLate" THEN disowned \union {<<a, round[a]>>} ELSE disowned
    BY <1>8 DEF OrderAnswered
  <2>3. x \in Answers /\ (x = "refusedLate" => <<a, round[a]>> \in reached)
    BY DEF MayAnswer, Answers
  <2>4. answer' \in [Agents -> Answers] /\ disowned' \subseteq reached
    BY <2>2, <2>3 DEF TypeOK
  <2>5. UNCHANGED <<status, steps, task, ending, round, guards, rows, reached, viewer, excuse, faults>>
    BY <1>8 DEF OrderAnswered
  <2> QED BY <1>0, <2>1, <2>4, <2>5 DEF TypeOK, guards
<1>9. CASE SettleTrade(a)
  <2>1. at' = [at EXCEPT ![a] = "asking"] /\ "asking" \in AgentAt /\ at[a] = "answered"
    BY <1>9 DEF SettleTrade, AgentMoves, Goes, AgentAt
  <2>2. round' = [round EXCEPT ![a] = @ + 1] /\ round[a] + 1 \in 0 .. RoundCeiling
    BY <1>0, <1>9, <2>1 DEF SettleTrade, NextRound
  <2>3. ReadSettlement(answer[a]) \in {"settled", "unsettled", "refused", "unknown"}
    BY DEF ReadSettlement, Says, Refusal, TypeOK, Answers
  <2>4. rows' \in [Orders -> {"none", "sent", "settled", "unsettled", "refused", "unknown"}]
    BY <1>9, <2>3 DEF SettleTrade, TypeOK
  <2> QED BY <1>0, <1>9, <2>1, <2>2, <2>4 DEF SettleTrade, TypeOK, guards
<1> QED BY <1>1, <1>2, <1>3, <1>4, <1>5, <1>6, <1>7, <1>8, <1>9 DEF AgentStep

(* And after every other step of the process, the operator and the viewer. *)
LEMMA TypeOther ==
  ASSUME TypeInv, Next, \A a \in Agents : ~AgentStep(a)
  PROVE  TypeInv'
<1> USE DEF TypeInv
<1>1. CASE CreateRun \/ CreateTask \/ MarkRunRunning \/ EnterTry \/ ToolsPlanned
  <2>1. UNCHANGED <<ending, memory, trades, viewer, excuse, faults>>
    BY <1>1 DEF CreateRun, CreateTask, MarkRunRunning, EnterTry, ToolsPlanned
  <2>2. steps' = steps /\ task' \in TaskAt /\ status' \in Open \cup Ended \cup {"none"}
    BY <1>1 DEF CreateRun, CreateTask, MarkRunRunning, EnterTry, ToolsPlanned, TypeOK, TaskAt, Open
  <2> QED BY <2>1, <2>2 DEF TypeOK, RoundInv, memory, trades
<1>2. CASE ToolsRefused \/ TeamCompletes \/ TeamStops
  <2>1. /\ \E s \in Ended : Stop(s)
        /\ UNCHANGED <<status, steps, round, answer, guards, trades, viewer, excuse, faults>>
    BY <1>2 DEF ToolsRefused, TeamCompletes, TeamStops, Ended
  <2>2. /\ at' \in [Agents -> AgentAt] /\ task' \in TaskAt /\ ending' \in Ended
        /\ \A b \in Agents : at'[b] \in {"done", "stopped"}
    BY <2>1, StopType
  <2> QED BY <2>1, <2>2 DEF TypeOK, RoundInv, InOrder, guards, trades
<1>3. CASE FailRunningSteps
  <2>1. steps' \in [Agents -> {"pending", "running", "completed", "failed"}]
    BY <1>3 DEF FailRunningSteps, TypeOK
  <2> QED BY <1>3, <2>1 DEF FailRunningSteps, TypeOK, RoundInv, memory, trades, TaskAt
<1>4. CASE FinishRun
  BY <1>4 DEF FinishRun, TypeOK, RoundInv, memory, trades, TaskAt
<1>5. CASE Publish
  <2>1. viewer' = [at |-> viewer.at, queued |-> viewer.at # "away"]
    BY <1>5 DEF Publish, TypeOK
  <2> QED BY <1>5, <2>1 DEF Publish, TypeOK, RoundInv, memory, trades, TaskAt
<1>6. CASE Cancel
  <2>1. /\ UNCHANGED <<status, steps, round, answer, guards, trades, viewer, faults>>
        /\ excuse' \in {"no", "lost", "untold"}
    BY <1>6 DEF Cancel, CutOff, LossAt, TypeOK
  <2>2. CASE Stop("cancelled")
    <3>1. /\ at' \in [Agents -> AgentAt] /\ task' \in TaskAt /\ ending' \in Ended
          /\ \A b \in Agents : at'[b] \in {"done", "stopped"}
      BY <2>2, StopType DEF Ended
    <3> QED BY <2>1, <3>1 DEF TypeOK, RoundInv, InOrder, guards, trades
  <2>3. CASE task' = "over" /\ UNCHANGED <<ending, at>>
    BY <2>1, <2>3 DEF TypeOK, RoundInv, TaskAt, guards, trades
  <2> QED BY <1>6, <2>2, <2>3 DEF Cancel, CutOff
<1>7. CASE StatementFails
  <2>1. faults' \in 0 .. MaxFault
    BY <1>7, TeamAssumption DEF StatementFails, TypeOK
  <2>2. /\ UNCHANGED <<status, steps, ending, at, round, answer, guards, trades, viewer>>
        /\ task' = "over" /\ excuse' \in {"no", "lost", "untold"}
    BY <1>7 DEF StatementFails, CutOff, LossAt
  <2> QED BY <2>1, <2>2 DEF TypeOK, RoundInv, guards, trades, TaskAt
<1>8. CASE Crash
  <2>1. faults' \in 0 .. MaxFault
    BY <1>8, TeamAssumption DEF Crash, TypeOK
  <2>2. at' \in [Agents -> AgentAt] /\ \A b \in Agents : at'[b] \in {"done", "stopped"}
    BY <1>8 DEF Crash, TypeOK, AgentAt
  <2> QED BY <1>8, <2>1, <2>2 DEF Crash, TypeOK, RoundInv, InOrder, guards, trades, TaskAt
<1>9. CASE FailUnfinishedRuns
  <2>1. steps' \in [Agents -> {"pending", "running", "completed", "failed"}]
    BY <1>9 DEF FailUnfinishedRuns, TypeOK
  <2> QED BY <1>9, <2>1 DEF FailUnfinishedRuns, TypeOK, RoundInv, memory, trades, TaskAt, Ended
<1>10. CASE Subscribe \/ ReadSnapshot \/ OpenStream \/ HearTheEnd
  <2>1. viewer' \in [at : {"away", "reading", "releasing", "streaming", "told"}, queued : BOOLEAN]
    <3>1. viewer' = [at |-> "reading", queued |-> FALSE]
          \/ (\E place \in {"releasing", "streaming", "told"} : viewer' = [viewer EXCEPT !.at = place])
      BY <1>10 DEF Subscribe, ReadSnapshot, OpenStream, HearTheEnd
    <3>2. viewer = [at |-> viewer.at, queued |-> viewer.queued] /\ viewer.queued \in BOOLEAN
      BY DEF TypeOK
    <3>3. \A place : [viewer EXCEPT !.at = place] = [at |-> place, queued |-> viewer.queued]
      BY <3>2
    <3>4. \E place \in {"reading", "releasing", "streaming", "told"}, q \in BOOLEAN :
             viewer' = [at |-> place, queued |-> q]
      <4>1. CASE viewer' = [at |-> "reading", queued |-> FALSE]
        BY <4>1
      <4>2. ASSUME NEW place \in {"releasing", "streaming", "told"}, viewer' = [viewer EXCEPT !.at = place]
            PROVE  viewer' = [at |-> place, queued |-> viewer.queued]
        BY <4>2, <3>3
      <4> QED BY <3>1, <3>2, <4>1, <4>2
    <3> QED BY <3>4
  <2>2. UNCHANGED <<status, steps, task, ending, memory, trades, excuse, faults>>
    BY <1>10 DEF Subscribe, ReadSnapshot, OpenStream, HearTheEnd
  <2> QED BY <2>1, <2>2 DEF TypeOK, RoundInv, memory, trades
<1> QED BY <1>1, <1>2, <1>3, <1>4, <1>5, <1>6, <1>7, <1>8, <1>9, <1>10 DEF Next, TaskStep

LEMMA TypeStep == TypeInv /\ [Next]_vars => TypeInv'
<1> SUFFICES ASSUME TypeInv, [Next]_vars PROVE TypeInv'
  OBVIOUS
<1>1. CASE \E a \in Agents : AgentStep(a)
  BY <1>1, TypeAgent
<1>2. CASE Next /\ \A a \in Agents : ~AgentStep(a)
  BY <1>2, TypeOther
<1>3. CASE UNCHANGED vars
  BY <1>3 DEF vars, memory, trades, TypeInv, TypeOK, RoundInv
<1> QED BY <1>1, <1>2, <1>3

(* Every variable of TeamRuns keeps its type, whatever the team.           *)
THEOREM TypeCorrect == Spec => []TypeOK
<1>1. TypeInv => TypeOK
  BY DEF TypeInv
<1> QED BY <1>1, TypeInit, TypeStep, PTL DEF Spec

(***************************************************************************)
(* Orders and their rows.  What an agent is about to do rests on what it   *)
(* has done: it sends an order whose row is written, and settles the row   *)
(* by an answer the gateway may give of it.                                *)
(***************************************************************************)
Own(a) == <<a, round[a]>>

AgentOrderInv(a) ==
  /\ at[a] = "recorded" => rows[Own(a)] = "sent"
  /\ at[a] = "answered" => /\ answer[a] \in MayAnswer(Own(a))
                           /\ answer[a] = "refusedLate" => Own(a) \in disowned

OrderInv == TypeInv /\ OrderIsOnRecord /\ \A a \in Agents : AgentOrderInv(a)

(* An agent's order is an order, and no other agent's.                     *)
LEMMA OwnOrders ==
  ASSUME TypeInv
  PROVE  /\ \A a \in Agents : Own(a) \in Orders
         /\ \A a, b \in Agents : a # b => Own(a) # Own(b)
  BY DEF TypeInv, TypeOK, Own, Orders

(* A step that leaves the orders alone and brings no agent to one of the   *)
(* two places leaves the invariant alone.                                  *)
LEMMA OrdersLeft ==
  ASSUME OrderInv, UNCHANGED trades,
         \A a \in Agents :
           \/ at'[a] \notin {"recorded", "answered"}
           \/ at'[a] = at[a] /\ round'[a] = round[a] /\ answer'[a] = answer[a]
  PROVE  OrderIsOnRecord' /\ \A a \in Agents : AgentOrderInv(a)'
<1>1. OrderIsOnRecord'
  BY DEF OrderInv, OrderIsOnRecord, trades
<1>2. ASSUME NEW a \in Agents PROVE AgentOrderInv(a)'
  BY <1>2 DEF OrderInv, AgentOrderInv, Own, MayAnswer, trades
<1> QED BY <1>1, <1>2

LEMMA OrderInit == Init => OrderInv
<1> SUFFICES ASSUME Init PROVE OrderInv
  OBVIOUS
<1>1. TypeInv
  BY TypeInit
<1>2. OrderIsOnRecord
  BY DEF Init, OrderIsOnRecord
<1>3. ASSUME NEW a \in Agents PROVE AgentOrderInv(a)
  BY <1>3 DEF Init, AgentOrderInv
<1> QED BY <1>1, <1>2, <1>3 DEF OrderInv

(* The steps of an agent, one by one.                                      *)
LEMMA OrderAgent ==
  ASSUME OrderInv, NEW a \in Agents, AgentStep(a)
  PROVE  OrderIsOnRecord' /\ \A b \in Agents : AgentOrderInv(b)'
<1>0. /\ TypeInv /\ OrderIsOnRecord /\ at \in [Agents -> AgentAt]
      /\ round \in [Agents -> 0 .. RoundCeiling] /\ answer \in [Agents -> Answers]
      /\ rows \in [Orders -> {"none", "sent", "settled", "unsettled", "refused", "unknown"}]
  BY DEF OrderInv, TypeInv, TypeOK
<1>o. /\ Own(a) \in Orders /\ AgentOrderInv(a)
      /\ \A b \in Agents : b # a => Own(b) # Own(a) /\ AgentOrderInv(b)
  BY <1>0, OwnOrders DEF OrderInv
<1>1. CASE StartStep(a) \/ CallModel(a) \/ Concludes(a) \/ FinishStep(a) \/ OrderAllowed(a)
  <2>1. /\ \E to \in AgentAt \ {"recorded", "answered"} : at' = [at EXCEPT ![a] = to]
        /\ UNCHANGED <<round, answer, trades>>
    BY <1>1 DEF StartStep, CallModel, Concludes, FinishStep, OrderAllowed, AgentMoves, Goes, AgentAt
  <2> QED BY <1>0, <2>1, OrdersLeft
<1>2. CASE CostLimitReached(a) \/ OrderLimitReached(a) \/ AgentFailed(a)
  <2>1. Stop("failed") /\ UNCHANGED trades
    BY <1>2 DEF CostLimitReached, OrderLimitReached, AgentFailed, Raises
  <2>2. \A b \in Agents : at'[b] \in {"done", "stopped"}
    BY <1>0, <2>1, StopType DEF Ended, TypeInv
  <2> QED BY <2>1, <2>2, OrdersLeft
<1>3. CASE ModelAnswers(a)
  <2>1. /\ \E to \in {"deciding", "breaking"} : at' = [at EXCEPT ![a] = to]
        /\ UNCHANGED <<round, answer, trades>>
    BY <1>3 DEF ModelAnswers, AgentMoves, Goes
  <2> QED BY <1>0, <2>1, OrdersLeft
<1>4. CASE ReadsOnly(a)
  <2>1. /\ at' = [at EXCEPT ![a] = "asking"] /\ UNCHANGED <<answer, trades>>
        /\ round' = [round EXCEPT ![a] = @ + 1]
    BY <1>4 DEF ReadsOnly, AgentMoves, Goes, NextRound
  <2> QED BY <1>0, <2>1, OrdersLeft
<1>5. CASE RecordTrade(a)
  <2>1. /\ at' = [at EXCEPT ![a] = "recorded"] /\ UNCHANGED <<round, answer, reached, disowned>>
        /\ rows' = [rows EXCEPT ![Own(a)] = "sent"]
    BY <1>5 DEF RecordTrade, AgentMoves, Goes, Own
  <2>2. OrderIsOnRecord'
    BY <1>0, <1>o, <2>1 DEF OrderIsOnRecord
  <2>3. ASSUME NEW b \in Agents PROVE AgentOrderInv(b)'
    BY <1>0, <1>o, <2>1, <2>3, OwnOrders DEF AgentOrderInv, Own, MayAnswer
  <2> QED BY <2>2, <2>3
<1>6. ASSUME NEW taken \in BOOLEAN, SendOrder(a, taken)
      PROVE  OrderIsOnRecord' /\ \A b \in Agents : AgentOrderInv(b)'
  <2>1. /\ at[a] = "recorded" /\ at' = [at EXCEPT ![a] = "ordering"]
        /\ UNCHANGED <<round, answer, rows, disowned>>
        /\ reached' = reached \/ reached' = reached \cup {Own(a)}
    BY <1>6 DEF SendOrder, AgentMoves, Goes, Own
  <2>2. rows[Own(a)] = "sent"
    BY <1>o, <2>1 DEF AgentOrderInv
  <2>3. OrderIsOnRecord'
    BY <1>0, <2>1, <2>2 DEF OrderIsOnRecord
  <2>4. ASSUME NEW b \in Agents PROVE AgentOrderInv(b)'
    BY <1>0, <1>o, <2>1, <2>4 DEF AgentOrderInv, Own, MayAnswer
  <2> QED BY <2>3, <2>4
<1>7. CASE OrderAnswered(a)
  <2>1. /\ at' = [at EXCEPT ![a] = "answered"] /\ UNCHANGED <<round, rows, reached>>
        /\ \E x \in MayAnswer(Own(a)) :
             /\ answer' = [answer EXCEPT ![a] = x]
             /\ disowned' = IF x = "refusedLate" THEN disowned \union {Own(a)} ELSE disowned
    BY <1>7 DEF OrderAnswered, AgentMoves, Goes, Own
  <2>2. OrderIsOnRecord'
    BY <1>0, <2>1 DEF OrderIsOnRecord
  <2>3. ASSUME NEW b \in Agents PROVE AgentOrderInv(b)'
    BY <1>0, <1>o, <2>1, <2>3 DEF AgentOrderInv, Own, MayAnswer
  <2> QED BY <2>2, <2>3
<1>8. CASE SettleTrade(a)
  <2>1. /\ at[a] = "answered" /\ at' = [at EXCEPT ![a] = "asking"]
        /\ UNCHANGED <<answer, reached, disowned>>
        /\ rows' = [rows EXCEPT ![Own(a)] = ReadSettlement(answer[a])]
        /\ round' = [round EXCEPT ![a] = @ + 1]
    BY <1>8 DEF SettleTrade, AgentMoves, Goes, NextRound, Own
  <2>2. /\ ReadSettlement(answer[a]) # "none"
        /\ ReadSettlement(answer[a]) = "settled" => Own(a) \in reached
        /\ ReadSettlement(answer[a]) = "refused" => Own(a) \notin reached \/ Own(a) \in disowned
    BY <1>0, <1>o, <2>1 DEF AgentOrderInv, MayAnswer, ReadSettlement, Says, Refusal, Answers
  <2>3. OrderIsOnRecord'
    BY <1>0, <1>o, <2>1, <2>2 DEF OrderIsOnRecord
  <2>4. ASSUME NEW b \in Agents PROVE AgentOrderInv(b)'
    BY <1>0, <1>o, <2>1, <2>4, OwnOrders DEF AgentOrderInv, Own, MayAnswer
  <2> QED BY <2>3, <2>4
<1> QED BY <1>1, <1>2, <1>3, <1>4, <1>5, <1>6, <1>7, <1>8 DEF AgentStep

LEMMA OrderStep == OrderInv /\ [Next]_vars => OrderInv'
<1> SUFFICES ASSUME OrderInv, [Next]_vars PROVE OrderInv'
  OBVIOUS
<1>0. TypeInv /\ TypeInv' /\ TypeOK
  BY TypeStep DEF OrderInv, TypeInv
<1>1. CASE \E a \in Agents : AgentStep(a)
  BY <1>0, <1>1, OrderAgent DEF OrderInv
<1>2. CASE ToolsRefused \/ TeamCompletes \/ TeamStops
  <2>1. (\E s \in Ended : Stop(s)) /\ UNCHANGED trades
    BY <1>2 DEF ToolsRefused, TeamCompletes, TeamStops, Ended
  <2>2. \A a \in Agents : at'[a] \in {"done", "stopped"}
    BY <1>0, <2>1, StopType
  <2> QED BY <1>0, <2>1, <2>2, OrdersLeft DEF OrderInv
<1>3. CASE Cancel
  <2>1. UNCHANGED trades /\ UNCHANGED <<round, answer>>
    BY <1>3 DEF Cancel
  <2>2. CASE Stop("cancelled")
    <3>1. \A a \in Agents : at'[a] \in {"done", "stopped"}
      BY <1>0, <2>2, StopType DEF Ended
    <3> QED BY <1>0, <2>1, <3>1, OrdersLeft DEF OrderInv
  <2>3. CASE UNCHANGED at
    BY <1>0, <2>1, <2>3, OrdersLeft DEF OrderInv
  <2> QED BY <1>3, <2>2, <2>3 DEF Cancel, CutOff
<1>4. CASE Crash
  <2>1. UNCHANGED trades /\ \A a \in Agents : at'[a] \in {"done", "stopped"}
    BY <1>0, <1>4 DEF Crash
  <2> QED BY <1>0, <2>1, OrdersLeft DEF OrderInv
<1>5. CASE UNCHANGED <<at, round, answer, trades>>
  BY <1>0, <1>5, OrdersLeft DEF OrderInv
<1>6. CASE Next /\ ~(\E a \in Agents : AgentStep(a)) /\ ~ToolsRefused /\ ~TeamCompletes
           /\ ~TeamStops /\ ~Cancel /\ ~Crash
  <2>1. UNCHANGED <<at, round, answer, trades>>
    BY <1>6 DEF Next, TaskStep, CreateRun, CreateTask, MarkRunRunning, EnterTry, ToolsPlanned,
       FailRunningSteps, FinishRun, Publish, StatementFails, CutOff, FailUnfinishedRuns,
       Subscribe, ReadSnapshot, OpenStream, HearTheEnd, memory
  <2> QED BY <1>5, <2>1
<1>7. CASE UNCHANGED vars
  BY <1>5, <1>7 DEF vars, memory, trades
<1> QED BY <1>1, <1>2, <1>3, <1>4, <1>6, <1>7

(* Whatever happens between the row, the call and the answer, an order the *)
(* account took has a row; a row that says settled speaks of one it took,  *)
(* and one that says refused of one it did not take, or that the gateway   *)
(* itself refused after it was taken.                                      *)
THEOREM OrderCorrect == Spec => []OrderIsOnRecord
<1>1. OrderInv => OrderIsOnRecord
  BY DEF OrderInv
<1> QED BY <1>1, OrderInit, OrderStep, PTL DEF Spec

(***************************************************************************)
(* The ceilings.  A call under way has been allowed and not been counted;  *)
(* those under way at once are of agents none of which waits for another.  *)
(***************************************************************************)
Calling == {a \in Agents : at[a] = "calling"}
Placing == {a \in Agents : at[a] \in {"checked", "recorded"}}

SpentCeiling == Max({RunLimit + Parallel - 1, 0})
PlacedCeiling == Max({OrdersPerRun + Parallel - 1, 0})

OrderOfWork == \A a \in Agents : at[a] \notin {"waiting", "stopped"} =>
                 \A b \in Before[a] : at[b] = "done"

CeilingInv == /\ TypeInv /\ OrderOfWork
              /\ spent + Cardinality(Calling) <= SpentCeiling
              /\ placed + Cardinality(Placing) <= PlacedCeiling

(* Max of a number and zero.                                               *)
LEMMA MaxOfTwo ==
  ASSUME NEW x \in Int
  PROVE  Max({x, 0}) \in Int /\ Max({x, 0}) >= x /\ Max({x, 0}) >= 0
<1>1. \E y \in {x, 0} : \A z \in {x, 0} : y >= z
  OBVIOUS
<1> QED BY <1>1 DEF Max

(* No set of agents that do not wait for each other is larger than         *)
(* Parallel.                                                               *)
LEMMA Widest ==
  /\ Parallel \in Nat
  /\ \A s \in SUBSET Agents : (\A a, b \in s : a \notin Before[b]) => Cardinality(s) <= Parallel
<1> DEFINE Sets == {t \in SUBSET Agents : \A a, b \in t : a \notin Before[b]}
           Sizes == {Cardinality(s) : s \in Sets}
<1>1. \A s \in Sets : Cardinality(s) \in Nat /\ Cardinality(s) <= Cardinality(Agents)
  BY TeamAssumption, FS_Subset, FS_CardinalityType
<1>2. Cardinality(Agents) \in Nat
  BY TeamAssumption, FS_CardinalityType
<1>3. Sizes \in SUBSET Nat /\ Sizes # {} /\ \A n \in Sizes : n <= Cardinality(Agents)
  <2>1. {} \in Sets
    OBVIOUS
  <2> QED BY <1>1, <2>1
<1>4. Parallel = Max(Sizes)
  BY DEF Parallel
<1>5. Max(Sizes) \in Sizes /\ \A n \in Sizes : n <= Max(Sizes)
  <2> HIDE DEF Sizes
  <2> QED BY <1>2, <1>3, MaxOfNaturals
<1> QED BY <1>3, <1>4, <1>5

LEMMA Ceilings ==
  /\ SpentCeiling \in Int /\ SpentCeiling >= 0 /\ SpentCeiling >= RunLimit + Parallel - 1
  /\ PlacedCeiling \in Int /\ PlacedCeiling >= 0 /\ PlacedCeiling >= OrdersPerRun + Parallel - 1
<1>1. RunLimit + Parallel - 1 \in Int /\ OrdersPerRun + Parallel - 1 \in Int
  BY TeamAssumption, Widest
<1> QED BY <1>1, MaxOfTwo DEF SpentCeiling, PlacedCeiling

(* Who works at once waits for nobody who works.                           *)
LEMMA WorkersAreFew ==
  OrderOfWork => Cardinality(Calling) <= Parallel /\ Cardinality(Placing) <= Parallel
<1> SUFFICES ASSUME OrderOfWork
             PROVE  Cardinality(Calling) <= Parallel /\ Cardinality(Placing) <= Parallel
  OBVIOUS
<1>1. \A a, b \in Calling : a \notin Before[b]
  BY DEF OrderOfWork, Calling
<1>2. \A a, b \in Placing : a \notin Before[b]
  BY DEF OrderOfWork, Placing
<1>3. Calling \in SUBSET Agents /\ Placing \in SUBSET Agents
  BY DEF Calling, Placing
<1> QED BY <1>1, <1>2, <1>3, Widest

LEMMA Counts ==
  /\ IsFiniteSet(Calling) /\ Cardinality(Calling) \in Nat
  /\ IsFiniteSet(Placing) /\ Cardinality(Placing) \in Nat
<1>1. Calling \in SUBSET Agents /\ Placing \in SUBSET Agents
  BY DEF Calling, Placing
<1> QED BY <1>1, TeamAssumption, FS_Subset, FS_CardinalityType

(* Steps that begin nothing and count nothing keep both sums.              *)
LEMMA CeilingLeft ==
  ASSUME CeilingInv, UNCHANGED guards, Calling' \subseteq Calling, Placing' \subseteq Placing
  PROVE  /\ spent' + Cardinality(Calling)' <= SpentCeiling
         /\ placed' + Cardinality(Placing)' <= PlacedCeiling
<1>1. /\ Cardinality(Calling') <= Cardinality(Calling) /\ Cardinality(Calling') \in Nat
      /\ Cardinality(Placing') <= Cardinality(Placing) /\ Cardinality(Placing') \in Nat
  BY Counts, FS_Subset, FS_CardinalityType
<1>2. spent \in Nat /\ placed \in Nat
  BY DEF CeilingInv, TypeInv, TypeOK
<1> QED BY <1>1, <1>2, Counts, Ceilings DEF CeilingInv, guards

(* An agent begins when those before it are done, and done is done.        *)
LEMMA WorkLeft ==
  ASSUME CeilingInv,
         \A b \in Agents : at[b] = "done" => at'[b] = "done",
         \A b \in Agents : at'[b] \notin {"waiting", "stopped"} =>
                            at[b] \notin {"waiting", "stopped"} \/ \A c \in Before[b] : at[c] = "done"
  PROVE  OrderOfWork'
  BY TeamAssumption DEF CeilingInv, OrderOfWork

LEMMA CeilingInit == Init => CeilingInv
<1> SUFFICES ASSUME Init PROVE CeilingInv
  OBVIOUS
<1>1. TypeInv /\ OrderOfWork
  BY TypeInit DEF Init, OrderOfWork
<1>2. Calling = {} /\ Placing = {} /\ spent = 0 /\ placed = 0
  BY DEF Init, Calling, Placing
<1> QED BY <1>1, <1>2, FS_EmptySet, Ceilings DEF CeilingInv

(* The steps of an agent, one by one.                                      *)
LEMMA CeilingAgent ==
  ASSUME CeilingInv, NEW a \in Agents, AgentStep(a)
  PROVE  /\ OrderOfWork'
         /\ spent' + Cardinality(Calling)' <= SpentCeiling
         /\ placed' + Cardinality(Placing)' <= PlacedCeiling
<1>0. /\ at \in [Agents -> AgentAt] /\ spent \in Nat /\ placed \in Nat /\ TypeInv
      /\ spent + Cardinality(Calling) <= SpentCeiling
      /\ placed + Cardinality(Placing) <= PlacedCeiling
  BY DEF CeilingInv, TypeInv, TypeOK
<1>b. Cardinality(Calling) \in Nat /\ Cardinality(Placing) \in Nat
  BY Counts
<1>1. CASE StartStep(a)
  <2>1. /\ at[a] = "waiting" /\ at' = [at EXCEPT ![a] = "asking"] /\ UNCHANGED guards
        /\ \A b \in Before[a] : at[b] = "done"
    BY <1>1 DEF StartStep, AgentMoves, Goes
  <2>2. OrderOfWork'
    BY <1>0, <2>1, WorkLeft
  <2>3. Calling' \subseteq Calling /\ Placing' \subseteq Placing
    BY <1>0, <2>1 DEF Calling, Placing
  <2> QED BY <2>1, <2>2, <2>3, CeilingLeft
<1>2. CASE \/ Concludes(a) \/ FinishStep(a) \/ ReadsOnly(a)
           \/ RecordTrade(a) \/ OrderAnswered(a) \/ SettleTrade(a)
  <2>1. /\ \E p \in {<<"deciding", "concluding">>, <<"concluding", "done">>, <<"deciding", "asking">>,
                      <<"checked", "recorded">>, <<"ordering", "answered">>, <<"answered", "asking">>} :
               at[a] = p[1] /\ at' = [at EXCEPT ![a] = p[2]]
        /\ UNCHANGED guards
    BY <1>2 DEF Concludes, FinishStep, ReadsOnly, RecordTrade, OrderAnswered, SettleTrade,
       AgentMoves, Goes
  <2>2. OrderOfWork'
    BY <1>0, <2>1, WorkLeft
  <2>3. Calling' \subseteq Calling /\ Placing' \subseteq Placing
    BY <1>0, <2>1 DEF Calling, Placing
  <2> QED BY <2>1, <2>2, <2>3, CeilingLeft
<1>3. CASE CostLimitReached(a) \/ OrderLimitReached(a) \/ AgentFailed(a)
  <2>1. Stop("failed") /\ UNCHANGED guards
    BY <1>3 DEF CostLimitReached, OrderLimitReached, AgentFailed, Raises
  <2>2. /\ \A b \in Agents : at'[b] \in {"done", "stopped"}
        /\ \A b \in Agents : at'[b] = "done" <=> at[b] = "done"
    BY <1>0, <2>1 DEF Stop
  <2>3. OrderOfWork'
    BY <2>2, WorkLeft
  <2>4. Calling' \subseteq Calling /\ Placing' \subseteq Placing
    BY <2>2 DEF Calling, Placing
  <2> QED BY <2>1, <2>3, <2>4, CeilingLeft
<1>4. CASE CallModel(a)
  <2>1. at[a] = "asking" /\ at' = [at EXCEPT ![a] = "calling"] /\ UNCHANGED guards /\ spent < RunLimit
    BY <1>4 DEF CallModel, AgentMoves, Goes
  <2>2. OrderOfWork'
    BY <1>0, <2>1, WorkLeft
  <2>3. Placing' = Placing
    BY <1>0, <2>1 DEF Placing
  <2>4. Cardinality(Calling)' <= Parallel /\ Cardinality(Calling)' \in Nat
    <3>1. (Cardinality(Calling) <= Parallel)' /\ (Cardinality(Calling) \in Nat)'
      BY <2>2, WorkersAreFew, Counts, PTL
    <3>2. Parallel' = Parallel
      BY DEF Parallel
    <3> QED BY <3>1, <3>2
  <2> QED BY <1>0, <1>b, <2>1, <2>2, <2>3, <2>4, Ceilings, Widest, TeamAssumption DEF guards
<1>5. CASE ModelAnswers(a)
  <2>1. /\ at[a] = "calling" /\ UNCHANGED placed /\ spent' = spent + 1
        /\ \E to \in {"deciding", "breaking"} : at' = [at EXCEPT ![a] = to]
    BY <1>5 DEF ModelAnswers, AgentMoves, Goes
  <2>2. OrderOfWork'
    BY <1>0, <2>1, WorkLeft
  <2>3. Placing' = Placing /\ Calling' = Calling \ {a} /\ a \in Calling
    BY <1>0, <2>1 DEF Calling, Placing
  <2>4. Cardinality(Calling') = Cardinality(Calling) - 1
    BY <2>3, Counts, FS_RemoveElement
  <2> QED BY <1>0, <1>b, <2>1, <2>2, <2>3, <2>4, Ceilings
<1>6. CASE OrderAllowed(a)
  <2>1. at[a] = "deciding" /\ at' = [at EXCEPT ![a] = "checked"] /\ UNCHANGED guards /\ placed < OrdersPerRun
    BY <1>6 DEF OrderAllowed, MayPlace, AgentMoves, Goes
  <2>2. OrderOfWork'
    BY <1>0, <2>1, WorkLeft
  <2>3. Calling' = Calling
    BY <1>0, <2>1 DEF Calling
  <2>4. Cardinality(Placing)' <= Parallel /\ Cardinality(Placing)' \in Nat
    <3>1. (Cardinality(Placing) <= Parallel)' /\ (Cardinality(Placing) \in Nat)'
      BY <2>2, WorkersAreFew, Counts, PTL
    <3>2. Parallel' = Parallel
      BY DEF Parallel
    <3> QED BY <3>1, <3>2
  <2> QED BY <1>0, <1>b, <2>1, <2>2, <2>3, <2>4, Ceilings, Widest, TeamAssumption DEF guards
<1>7. ASSUME NEW taken \in BOOLEAN, SendOrder(a, taken)
      PROVE  /\ OrderOfWork'
             /\ spent' + Cardinality(Calling)' <= SpentCeiling
             /\ placed' + Cardinality(Placing)' <= PlacedCeiling
  <2>1. /\ at[a] = "recorded" /\ at' = [at EXCEPT ![a] = "ordering"]
        /\ UNCHANGED spent /\ placed' = placed + 1
    BY <1>7 DEF SendOrder, AgentMoves, Goes
  <2>2. OrderOfWork'
    BY <1>0, <2>1, WorkLeft
  <2>3. Calling' = Calling /\ Placing' = Placing \ {a} /\ a \in Placing
    BY <1>0, <2>1 DEF Calling, Placing
  <2>4. Cardinality(Placing') = Cardinality(Placing) - 1
    BY <2>3, Counts, FS_RemoveElement
  <2> QED BY <1>0, <1>b, <2>1, <2>2, <2>3, <2>4, Ceilings
<1> QED BY <1>1, <1>2, <1>3, <1>4, <1>5, <1>6, <1>7 DEF AgentStep

LEMMA CeilingStep == CeilingInv /\ [Next]_vars => CeilingInv'
<1> SUFFICES ASSUME CeilingInv, [Next]_vars PROVE CeilingInv'
  OBVIOUS
<1>0. TypeInv /\ TypeInv' /\ TypeOK /\ at \in [Agents -> AgentAt]
  BY TypeStep DEF CeilingInv, TypeInv, TypeOK
<1>c. SpentCeiling' = SpentCeiling /\ PlacedCeiling' = PlacedCeiling
  BY DEF SpentCeiling, PlacedCeiling, Parallel
<1>1. CASE \E a \in Agents : AgentStep(a)
  BY <1>0, <1>1, <1>c, CeilingAgent DEF CeilingInv
<1>2. ASSUME UNCHANGED guards,
             \A b \in Agents : at[b] = "done" <=> at'[b] = "done",
             (\A b \in Agents : at'[b] \in {"done", "stopped"}) \/ UNCHANGED at
      PROVE  CeilingInv'
  <2>1. OrderOfWork'
    BY <1>2, WorkLeft
  <2>2. Calling' \subseteq Calling /\ Placing' \subseteq Placing
    BY <1>2 DEF Calling, Placing
  <2> QED BY <1>0, <1>2, <1>c, <2>1, <2>2, CeilingLeft DEF CeilingInv
<1>3. CASE ToolsRefused \/ TeamCompletes \/ TeamStops \/ Cancel \/ Crash
  <2>1. /\ UNCHANGED guards
        /\ UNCHANGED at \/ at' = [a \in Agents |-> IF at[a] = "done" THEN "done" ELSE "stopped"]
    BY <1>3 DEF ToolsRefused, TeamCompletes, TeamStops, Cancel, CutOff, Crash, Stop, guards
  <2> QED BY <1>0, <1>2, <2>1
<1>4. CASE Next /\ ~(\E a \in Agents : AgentStep(a)) /\ ~ToolsRefused /\ ~TeamCompletes
           /\ ~TeamStops /\ ~Cancel /\ ~Crash
  <2>1. UNCHANGED <<at, guards>>
    BY <1>4 DEF Next, TaskStep, CreateRun, CreateTask, MarkRunRunning, EnterTry, ToolsPlanned,
       FailRunningSteps, FinishRun, Publish, StatementFails, CutOff, FailUnfinishedRuns,
       Subscribe, ReadSnapshot, OpenStream, HearTheEnd, memory, guards
  <2> QED BY <1>2, <2>1
<1>5. CASE UNCHANGED vars
  BY <1>2, <1>5 DEF vars, memory, guards
<1> QED BY <1>1, <1>3, <1>4, <1>5

(* A run passes each of its ceilings by less than the number of agents     *)
(* that work at once, and by no more.                                      *)
THEOREM CeilingCorrect == Spec => []CeilingOvershoot
<1>1. CeilingInv => CeilingOvershoot
  BY Counts, Ceilings DEF CeilingInv, TypeInv, TypeOK, CeilingOvershoot, SpentCeiling, PlacedCeiling
<1> QED BY <1>1, CeilingInit, CeilingStep, PTL DEF Spec

(***************************************************************************)
(* The run and its rows.  Where the task stands tells what the row of the  *)
(* run reads.                                                              *)
(***************************************************************************)
Working == {"marked", "planning", "team", "closing", "stepsClosed"}

StatusInv ==
  /\ task \in {"inserted", "created"} => status = "pending"
  /\ task \in Working => status = "running"
  /\ task = "publishing" => status \in Ended
  /\ task = "stepsClosed" => \A a \in Agents : steps[a] # "running"
  /\ task = "none" => viewer.at = "away"

RunInv == TypeInv /\ StatusInv /\ OpenRunIsWorked /\ ViewerHearsTheEnd

(* What an agent does leaves the run where it is, or stops the team.       *)
LEMMA AgentLeavesRun ==
  ASSUME NEW a \in Agents, AgentStep(a)
  PROVE  task = "team" /\ task' \in {"team", "closing"} /\ UNCHANGED <<status, viewer, excuse>>
  BY DEF AgentStep, StartStep, CallModel, CostLimitReached, ModelAnswers, Concludes, ReadsOnly,
     OrderAllowed, OrderLimitReached, RecordTrade, SendOrder, OrderAnswered, SettleTrade,
     FinishStep, AgentFailed, AgentMoves, Raises, Stop, trades

LEMMA RunInit == Init => RunInv
  BY TypeInit DEF Init, RunInv, StatusInv, Working, OpenRunIsWorked, ViewerHearsTheEnd, Open

LEMMA RunStep == RunInv /\ [Next]_vars => RunInv'
<1> SUFFICES ASSUME RunInv, [Next]_vars PROVE RunInv'
  OBVIOUS
<1>0. /\ TypeInv /\ TypeInv' /\ StatusInv /\ OpenRunIsWorked /\ ViewerHearsTheEnd
      /\ viewer \in [at : {"away", "reading", "releasing", "streaming", "told"}, queued : BOOLEAN]
      /\ ending \in Ended
  BY TypeStep DEF RunInv, TypeInv, TypeOK
<1> SUFFICES StatusInv' /\ OpenRunIsWorked' /\ ViewerHearsTheEnd'
  BY <1>0 DEF RunInv
<1> USE DEF StatusInv, OpenRunIsWorked, ViewerHearsTheEnd, Working, Open, Ended
<1>1. CASE \E a \in Agents : AgentStep(a)
  BY <1>0, <1>1, AgentLeavesRun
<1>2. CASE CreateRun \/ CreateTask \/ MarkRunRunning \/ EnterTry \/ ToolsPlanned
  BY <1>0, <1>2 DEF CreateRun, CreateTask, MarkRunRunning, EnterTry, ToolsPlanned
<1>3. CASE ToolsRefused \/ TeamCompletes \/ TeamStops
  BY <1>0, <1>3 DEF ToolsRefused, TeamCompletes, TeamStops, Stop
<1>4. CASE FailRunningSteps
  BY <1>0, <1>4 DEF FailRunningSteps
<1>5. CASE FinishRun
  BY <1>0, <1>5 DEF FinishRun
<1>6. CASE Publish
  <2>1. viewer'.at = viewer.at /\ viewer'.queued = (viewer.at # "away")
    BY <1>0, <1>6 DEF Publish
  <2> QED BY <1>0, <1>6, <2>1 DEF Publish
<1>7. CASE Cancel
  BY <1>0, <1>7 DEF Cancel, CutOff, LossAt, Stop
<1>8. CASE StatementFails
  BY <1>0, <1>8 DEF StatementFails, CutOff, LossAt
<1>9. CASE Crash
  BY <1>0, <1>9 DEF Crash
<1>10. CASE FailUnfinishedRuns
  BY <1>0, <1>10 DEF FailUnfinishedRuns
<1>11. CASE Subscribe \/ ReadSnapshot \/ OpenStream \/ HearTheEnd
  <2>1. UNCHANGED <<status, steps, task, excuse>>
    BY <1>11 DEF Subscribe, ReadSnapshot, OpenStream, HearTheEnd
  <2>2. task # "none"
    BY <1>0, <1>11 DEF Subscribe, ReadSnapshot, OpenStream, HearTheEnd
  <2>3. \/ viewer'.at \in {"reading", "told"}
        \/ status \in Open
        \/ viewer.at = "releasing" /\ viewer'.queued = viewer.queued
    BY <1>0, <1>11 DEF Subscribe, ReadSnapshot, OpenStream, HearTheEnd
  <2> QED BY <1>0, <2>1, <2>2, <2>3
<1>12. CASE UNCHANGED vars
  BY <1>0, <1>12 DEF vars
<1> QED BY <1>1, <1>2, <1>3, <1>4, <1>5, <1>6, <1>7, <1>8, <1>9, <1>10, <1>11, <1>12
        DEF Next, TaskStep

(* A run that reads open has a task that will end it, or its closing was   *)
(* cut off before the row of its end; interruptions of the team's work do  *)
(* not leave it so.                                                        *)
THEOREM WorkedCorrect == Spec => []OpenRunIsWorked
<1>1. RunInv => OpenRunIsWorked
  BY DEF RunInv
<1> QED BY <1>1, RunInit, RunStep, PTL DEF Spec

(* A viewer told that the run is open hears of its end, unless the closing *)
(* was cut off between the row of the end and its publication.             *)
THEOREM ViewerCorrect == Spec => []ViewerHearsTheEnd
<1>1. RunInv => ViewerHearsTheEnd
  BY DEF RunInv
<1> QED BY <1>1, RunInit, RunStep, PTL DEF Spec

(***************************************************************************)
(* The refinement: every step of the engine is a step of the abstract run  *)
(* or changes nothing of it.                                               *)
(***************************************************************************)
AtWork == {a \in Agents : steps[a] = "running"}

LEMMA LifecycleInit == Init => Lifecycle!Init
  BY DEF Init, Lifecycle!Init

LEMMA LifecycleStep == RunInv /\ [Next]_vars => [Lifecycle!Next]_(Lifecycle!vars)
<1> SUFFICES ASSUME RunInv, [Next]_vars
             PROVE  Lifecycle!Next \/ UNCHANGED <<status, AtWork>>
  BY DEF Lifecycle!vars, AtWork
<1>0. StatusInv /\ ending \in Ended /\ status \in Open \cup Ended \cup {"none"}
  BY DEF RunInv, TypeInv, TypeOK
<1> USE DEF Working, AtWork
<1>1. CASE UNCHANGED <<status, steps>>
  BY <1>1
<1>2. CASE CreateRun
  <2>1. Lifecycle!Create
    BY <1>2 DEF CreateRun, Lifecycle!Create
  <2> QED BY <2>1 DEF Lifecycle!Next
<1>3. CASE MarkRunRunning
  <2>1. Lifecycle!Begin
    BY <1>0, <1>3 DEF MarkRunRunning, StatusInv, Lifecycle!Begin
  <2> QED BY <2>1 DEF Lifecycle!Next
<1>4. CASE (\E a \in Agents : AgentStep(a)) \/ FailRunningSteps
  <2>1. task \in {"team", "closing"} /\ UNCHANGED status
    BY <1>4, AgentLeavesRun DEF FailRunningSteps
  <2>2. Lifecycle!Work
    BY <1>0, <2>1 DEF StatusInv, Lifecycle!Work
  <2> QED BY <2>2 DEF Lifecycle!Next
<1>5. CASE FinishRun
  <2>1. status = "running" /\ AtWork = {} /\ UNCHANGED steps /\ status' = ending
    BY <1>0, <1>5 DEF FinishRun, StatusInv, Open
  <2>2. Lifecycle!End
    BY <1>0, <2>1 DEF Lifecycle!End, Lifecycle!Open, Lifecycle!Ended, Ended
  <2> QED BY <2>2 DEF Lifecycle!Next
<1>6. CASE FailUnfinishedRuns
  <2>1. CASE status \in Open
    <3>1. AtWork' = {} /\ status' = "failed"
      BY <1>6, <2>1 DEF FailUnfinishedRuns, RunInv, TypeInv, TypeOK
    <3>2. Lifecycle!End
      BY <2>1, <3>1 DEF Lifecycle!End, Lifecycle!Open, Lifecycle!Ended, Open
    <3> QED BY <3>2 DEF Lifecycle!Next
  <2>2. CASE status \notin Open
    <3>1. status' = status /\ steps' = [a \in Agents |-> steps[a]]
      BY <1>6, <2>2 DEF FailUnfinishedRuns
    <3> QED BY <3>1
  <2> QED BY <2>1, <2>2
<1>7. CASE UNCHANGED vars
  BY <1>1, <1>7 DEF vars
<1>8. CASE Next /\ ~CreateRun /\ ~MarkRunRunning /\ ~(\E a \in Agents : AgentStep(a))
           /\ ~FailRunningSteps /\ ~FinishRun /\ ~FailUnfinishedRuns
  <2>1. UNCHANGED <<status, steps>>
    BY <1>8 DEF Next, TaskStep, CreateTask, EnterTry, ToolsRefused, ToolsPlanned, TeamCompletes,
       TeamStops, Publish, Cancel, StatementFails, Crash, Subscribe, ReadSnapshot, OpenStream, HearTheEnd
  <2> QED BY <1>1, <2>1
<1> QED BY <1>2, <1>3, <1>4, <1>5, <1>6, <1>7, <1>8

(* To its readers a run is what RunLifecycle says it is: it begins and     *)
(* ends once, and none of its agents reads as running when it has ended.   *)
THEOREM RefinementCorrect == Spec => ImplementsLifecycle
  BY LifecycleInit, RunInit, RunStep, LifecycleStep, PTL
  DEF Spec, ImplementsLifecycle, Lifecycle!Spec
=============================================================================

---------------------------- MODULE RunLifecycle ----------------------------
(***************************************************************************)
(* What a run of a team promises to those who read its rows: it is         *)
(* created once, works, ends once and for good, and nobody is said to work *)
(* in a run that has ended.  TeamRuns implements it; TeamClock sees        *)
(* nothing of a run but its status.                                        *)
(***************************************************************************)

CONSTANT Agents

VARIABLES status,      \* runs.status, "none" before the row is there
          working      \* the agents whose step reads "running"

vars == <<status, working>>

Open == {"pending", "running"}
Ended == {"completed", "failed", "cancelled"}

Init == status = "none" /\ working = {}

Create == /\ status = "none"
          /\ status' = "pending"
          /\ UNCHANGED working

Begin == /\ status = "pending"
         /\ status' = "running"
         /\ UNCHANGED working

(* Agents begin and finish their steps, in any order, while the run works.  *)
Work == /\ status = "running"
        /\ working' \in SUBSET Agents
        /\ UNCHANGED status

(* The end is one step for a reader: the run's and its agents'.             *)
End == /\ status \in Open
       /\ status' \in Ended
       /\ working' = {}
       /\ status' = "completed" => status = "running" /\ working = {}

Next == Create \/ Begin \/ Work \/ End

Spec == Init /\ [][Next]_vars
=============================================================================

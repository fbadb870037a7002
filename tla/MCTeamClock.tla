---------------------------- MODULE MCTeamClock ----------------------------
(* One schedule and one trigger.  A second run of the schedule may begin     *)
(* before the first is over; of the trigger one is kept at a time.           *)
EXTENDS TeamClock

MCKept == [s \in Source |-> IF s \in Schedule THEN 2 ELSE 1]
=============================================================================

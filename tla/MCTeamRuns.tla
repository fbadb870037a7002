----------------------------- MODULE MCTeamRuns -----------------------------
(* Two agents that work at once, and one that waits for both.               *)
EXTENDS TeamRuns

CONSTANTS analyst, sceptic, executor

Team == {analyst, sceptic, executor}
Edges == [a \in Team |-> IF a = executor THEN {analyst, sceptic} ELSE {}]
=============================================================================

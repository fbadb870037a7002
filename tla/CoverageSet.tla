---------------------------- MODULE CoverageSet -----------------------------
(***************************************************************************)
(* What the coverage of a pair means to those who plan by it: the moments  *)
(* the archive has looked at.  A look adds a stretch and loses nothing;    *)
(* only a deletion forgets.  CoverageRows implements it with merged rows,  *)
(* and CollectionJobs keeps coverage in this form, its slots the moments.  *)
(***************************************************************************)
EXTENDS Integers

CONSTANT Horizon

VARIABLE covered

Moment == 0 .. Horizon

Init == covered \in SUBSET Moment

Look(first, last) == covered' = covered \cup (first .. last)

Forget == covered' \subseteq covered

Next == Forget \/ \E first, last \in Moment : first <= last /\ Look(first, last)

Spec == Init /\ [][Next]_covered
=============================================================================

-------------------------- MODULE MCCollectionJobs --------------------------
(* CollectionJobs on a small archive whose provider holds nothing in the   *)
(* oldest slot.                                                            *)
EXTENDS CollectionJobs, TLC

(* The provider holds every candle of every slot but the oldest. *)
MCMarket == Pair \X (2..Depth) \X (1..PerSlot)

(* Workers are interchangeable and so are requests. *)
Symmetry == Permutations(Worker) \cup Permutations(Request)

=============================================================================

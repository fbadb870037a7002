----------------------------- MODULE MCFilmRoad -----------------------------
EXTENDS FilmRoad

CONSTANT a

(* A film asked about in two pieces. *)
MCLength == [f \in Films |-> 2]
=============================================================================

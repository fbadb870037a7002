---------------------------- MODULE CoverageRows ----------------------------
(***************************************************************************)
(* The rows of coverage_ranges of one pair (market_data/coverage.py) and   *)
(* the transactions that write them at the same time: record_coverage,     *)
(* which reads its neighbours and replaces them by their union under a     *)
(* lock of the pair, and the two that do not take that lock, the deletion  *)
(* of all rows and the clearing of the boundary found in the provider's    *)
(* history.                                                                *)
(*                                                                         *)
(* The database is PostgreSQL at READ COMMITTED: each statement sees what  *)
(* was committed when it began, waits for the rows others have locked, and *)
(* passes over those that are gone by then.                                *)
(***************************************************************************)
EXTENDS Integers, FiniteSetsExt

CONSTANTS Horizon,   \* the last moment
          Writer,    \* callers of record_coverage: jobs and fills
          Other,     \* callers of delete_all_coverage and clear_history_boundary
          NoMoment, NoOffer

Moment == 0 .. Horizon

Row == {r \in [from : Moment, to : Moment, ends : Moment \cup {NoMoment}] :
          r.from <= r.to /\ (r.ends # NoMoment => r.from <= r.ends /\ r.ends <= r.to)}

(* What the theorems have as their hypothesis: the names for nothing name   *)
(* nothing else.                                                            *)
Sensible == Horizon \in Nat /\ NoMoment \notin Int /\ NoOffer \notin Row

VARIABLES rows,      \* the table
          offer,     \* what each writer records, NoOffer if it is not in its transaction
          found,     \* the neighbours it has read and locked
          doing,     \* the statement each other is in: "nothing", "delete", "clear"
          seen       \* the rows that statement has to do with

vars == <<rows, offer, found, doing, seen>>

(* Overlapping or meeting end to end.                                       *)
TouchesOverlap(r, o) == r.from < o.to /\ r.to > o.from
Touches(r, o) == r.from <= o.to /\ r.to >= o.from

Touching(o) == {r \in rows : Touches(r, o)}

Init == /\ rows = {}
        /\ offer = [w \in Writer |-> NoOffer] /\ found = [w \in Writer |-> {}]
        /\ doing = [x \in Other |-> "nothing"] /\ seen = [x \in Other |-> {}]

-----------------------------------------------------------------------------
(* record_coverage, in one transaction.                                     *)

LockIsIgnored == TRUE
LockIsFree == \A w \in Writer : offer[w] = NoOffer

ReadNeighbours(w, o) ==
    /\ offer[w] = NoOffer /\ LockIsFree
    /\ offer' = [offer EXCEPT ![w] = o]
    /\ found' = [found EXCEPT ![w] = Touching(o)]
    /\ UNCHANGED <<rows, doing, seen>>

(* The deepest boundary any member of the union named.                      *)
Deepest(S) == LET named == {r.ends : r \in S} \ {NoMoment}
              IN  IF named = {} THEN NoMoment ELSE Min(named)

Merged(o, S) == [from |-> Min({r.from : r \in S \cup {o}}),
                 to   |-> Max({r.to : r \in S \cup {o}}),
                 ends |-> Deepest(S \cup {o})]

Finish(w) == /\ offer' = [offer EXCEPT ![w] = NoOffer]
             /\ found' = [found EXCEPT ![w] = {}]

(* Without neighbours nothing is deleted.  The row put in their place is a  *)
(* new one, which no statement begun before it sees.                        *)
Replace(w) ==
    LET gone == IF found[w] = {} THEN {} ELSE Touching(offer[w])
    IN  /\ offer[w] # NoOffer
        /\ rows' = (rows \ gone) \cup {Merged(offer[w], found[w])}
        /\ seen' = [x \in Other |-> seen[x] \ gone]
        /\ Finish(w)
        /\ UNCHANGED doing

(* A lost connection, or a deadlock the database resolves.                  *)
RollBack(w) == /\ offer[w] # NoOffer
               /\ Finish(w)
               /\ UNCHANGED <<rows, doing, seen>>

-----------------------------------------------------------------------------
(* The statements without the lock.                                         *)

Begin(x, what) == /\ doing[x] = "nothing"
                  /\ doing' = [doing EXCEPT ![x] = what]
                  /\ seen' = [seen EXCEPT ![x] =
                                IF what = "delete" THEN rows
                                ELSE {r \in rows : r.ends # NoMoment}]
                  /\ UNCHANGED <<rows, offer, found>>

RowsAreFree(x) == \A w \in Writer : found[w] \cap seen[x] = {}

DeleteAll(x) == /\ doing[x] = "delete" /\ RowsAreFree(x)
                /\ rows' = rows \ seen[x]
                /\ seen' = [y \in Other |-> seen[y] \ seen[x]]
                /\ doing' = [doing EXCEPT ![x] = "nothing"]
                /\ UNCHANGED <<offer, found>>

Cleared(r) == [r EXCEPT !.ends = NoMoment]

(* What a statement waits for and finds changed it sees as it now is: still *)
(* a row to delete, no longer one to clear.                                 *)
ClearBoundary(x) ==
    /\ doing[x] = "clear" /\ RowsAreFree(x)
    /\ rows' = (rows \ seen[x]) \cup {Cleared(r) : r \in seen[x]}
    /\ seen' = [y \in Other |->
                  (seen[y] \ seen[x]) \cup
                  IF doing[y] = "delete" THEN {Cleared(r) : r \in seen[x] \cap seen[y]} ELSE {}]
    /\ doing' = [doing EXCEPT ![x] = "nothing"]
    /\ UNCHANGED <<offer, found>>

Next == \/ \E w \in Writer : Replace(w) \/ RollBack(w) \/ \E o \in Row : ReadNeighbours(w, o)
        \/ \E x \in Other : \/ DeleteAll(x) \/ ClearBoundary(x)
                            \/ \E what \in {"delete", "clear"} : Begin(x, what)

Spec == Init /\ [][Next]_vars
-----------------------------------------------------------------------------
TypeOK == /\ rows \in SUBSET Row
          /\ offer \in [Writer -> Row \cup {NoOffer}]
          /\ found \in [Writer -> SUBSET Row]
          /\ doing \in [Other -> {"nothing", "delete", "clear"}]
          /\ seen \in [Other -> SUBSET Row]

(* Two rows never overlap and never meet: a lookup finds a moment in one   *)
(* row or in none, and a boundary is not shadowed by a neighbour that      *)
(* should have been merged with it.                                        *)
RowsApart == \A r, q \in rows : r # q => r.to < q.from \/ q.to < r.from

(* What the rows say the archive has looked at: a record that reads its    *)
(* neighbours and replaces them a moment later neither loses what they     *)
(* cover nor claims a moment nobody looked at.                             *)
Covered == UNION {r.from .. r.to : r \in rows}

Looks == INSTANCE CoverageSet WITH covered <- Covered
ImplementsLooks == Looks!Spec
=============================================================================

--------------------------- MODULE SideBySideProofs -------------------------
(***************************************************************************)
(* Proofs about the machines of MCSideBySide, each by its own              *)
(* specification and for any values of its constants.                      *)
(***************************************************************************)
EXTENDS MCSideBySide, FiniteSetTheorems, WellFoundedInduction, TLAPS

(***************************************************************************)
(* Naturals.                                                               *)
(***************************************************************************)
NatBelow == {p \in Nat \X Nat : p[1] < p[2]}

LEMMA NatBelowWellFounded == IsWellFoundedOn(NatBelow, Nat)
  BY NatLessThanWellFounded DEF OpToRel, NatBelow

(* Min gives the least member of a set of naturals.                        *)
LEMMA MinOfNaturals ==
  ASSUME NEW S \in SUBSET Nat, S # {}
  PROVE  Min(S) \in S /\ \A x \in S : Min(S) <= x
<1>1. IsWellFoundedOn(NatBelow, Nat)
  BY NatBelowWellFounded
<1>2. \E m \in S : \A x \in S : ~(<<x, m>> \in NatBelow)
  <2> HIDE DEF NatBelow
  <2> QED BY <1>1, WFMin, Zenon
<1>3. PICK m \in S : \A x \in S : ~(<<x, m>> \in NatBelow)
  BY <1>2
<1>4. \A x \in S : m <= x
  <2> SUFFICES ASSUME NEW x \in S, ~(m <= x) PROVE FALSE
    OBVIOUS
  <2>1. x \in Nat /\ m \in Nat /\ x < m
    OBVIOUS
  <2>2. <<x, m>> \in NatBelow
    BY <2>1 DEF NatBelow
  <2> QED BY <1>3, <2>2
<1> QED BY <1>4 DEF Min

(* Max gives the largest member of a bounded set of naturals.              *)
LEMMA MaxOfNaturals ==
  ASSUME NEW S \in SUBSET Nat, S # {}, NEW n \in Nat, \A x \in S : x <= n
  PROVE  Max(S) \in S /\ \A x \in S : x <= Max(S)
<1> DEFINE T == {n - x : x \in S}
<1>1. T \in SUBSET Nat /\ T # {}
  <2>1. \A x \in S : n - x \in Nat
    OBVIOUS
  <2> QED BY <2>1
<1>2. PICK t \in T : \A u \in T : <<u, t>> \notin NatBelow
  <2> HIDE DEF T
  <2> QED BY <1>1, NatBelowWellFounded, WFMin
<1>3. PICK m \in S : t = n - m
  BY <1>2
<1>4. \A x \in S : x <= m
  <2> SUFFICES ASSUME NEW x \in S, x > m PROVE FALSE
    OBVIOUS
  <2>1. n - x \in T /\ n - x < t /\ n - x \in Nat /\ t \in Nat
    BY <1>3
  <2> QED BY <2>1, <1>2 DEF NatBelow
<1> QED BY <1>3, <1>4 DEF Max

(***************************************************************************)
(* Sums.  The sum of the community modules goes through a set by a         *)
(* recursive function; what is true of every set is proved by looking at   *)
(* a least one it is false of.                                             *)
(***************************************************************************)
Pick(s) == CHOOSE x \in s : TRUE

(* i is the function the sum of f over S and its subsets is defined by.    *)
Adds(i, f, S) ==
  i = [s \in SUBSET S |-> IF s = {} THEN 0 ELSE f[Pick(s)] + i[s \ {Pick(s)}]]

Total(f, S) == (CHOOSE i : Adds(i, f, S))[S]

(* Of subsets of a finite set there is a least, unless there are none.     *)
LEMMA LeastSubset ==
  ASSUME NEW S, IsFiniteSet(S), NEW B \in SUBSET (SUBSET S), B # {}
  PROVE  \E s \in B : \A t \in B : t \subseteq s => t = s
<1> DEFINE N == {Cardinality(s) : s \in B}
<1>1. \A s \in SUBSET S : IsFiniteSet(s) /\ Cardinality(s) \in Nat
  BY FS_Subset, FS_CardinalityType
<1>2. N \in SUBSET Nat /\ N # {}
  BY <1>1
<1>3. PICK m \in N : \A n \in N : <<n, m>> \notin NatBelow
  <2> HIDE DEF N
  <2> QED BY <1>2, NatBelowWellFounded, WFMin, Zenon
<1>4. PICK s \in B : m = Cardinality(s)
  BY <1>3
<1>5. ASSUME NEW t \in B, t \subseteq s, t # s PROVE FALSE
  <2>1. Cardinality(t) < Cardinality(s)
    <3>1. IsFiniteSet(s)
      BY <1>1
    <3>2. Cardinality(t) <= Cardinality(s) /\ Cardinality(t) # Cardinality(s)
      BY <1>5, <3>1, FS_Subset, Zenon
    <3> QED BY <1>1, <3>2
  <2>2. <<Cardinality(t), m>> \in NatBelow
    BY <1>1, <1>4, <2>1 DEF NatBelow
  <2> QED BY <1>3, <2>2
<1> QED BY <1>5

(* A member of a set that has one, and the set without it.                 *)
LEMMA PickOne ==
  ASSUME NEW s, s # {}
  PROVE  Pick(s) \in s /\ s \ {Pick(s)} \subseteq s /\ s \ {Pick(s)} # s
<1>1. Pick(s) \in s
  BY DEF Pick
<1> QED BY <1>1

(* Two ways of adding agree on the sets they have in common.               *)
LEMMA AddsAgree ==
  ASSUME NEW S, IsFiniteSet(S), NEW T, NEW f, NEW i, NEW j, S \subseteq T,
         Adds(i, f, S), Adds(j, f, T)
  PROVE  \A s \in SUBSET S : i[s] = j[s]
<1> DEFINE B == {s \in SUBSET S : i[s] # j[s]}
<1>1. \A s \in SUBSET S : i[s] = IF s = {} THEN 0 ELSE f[Pick(s)] + i[s \ {Pick(s)}]
  BY Zenon DEF Adds
<1>2. \A s \in SUBSET T : j[s] = IF s = {} THEN 0 ELSE f[Pick(s)] + j[s \ {Pick(s)}]
  BY Zenon DEF Adds
<1>3. B = {}
  <2> SUFFICES ASSUME B # {} PROVE FALSE
    OBVIOUS
  <2>1. PICK s \in B : \A t \in B : t \subseteq s => t = s
    <3>1. B \in SUBSET (SUBSET S)
      OBVIOUS
    <3> HIDE DEF B
    <3> QED BY <3>1, LeastSubset
  <2>2. s \in SUBSET S /\ s \in SUBSET T /\ i[s] # j[s]
    BY <2>1
  <2>3. s # {}
    BY <1>1, <1>2, <2>2
  <2> DEFINE t == s \ {Pick(s)}
  <2>4. t \in SUBSET S /\ t \subseteq s /\ t # s
    BY <2>2, <2>3, PickOne
  <2>5. i[s] = f[Pick(s)] + i[t] /\ j[s] = f[Pick(s)] + j[t]
    BY <1>1, <1>2, <2>2, <2>3
  <2>6. i[t] = j[t]
    BY <2>1, <2>4
  <2> QED BY <2>2, <2>5, <2>6
<1> QED BY <1>3

(* There is a way of adding over a finite set.                             *)
LEMMA AddsExist ==
  ASSUME NEW S, IsFiniteSet(S), NEW f
  PROVE  \E i : Adds(i, f, S)
<1> DEFINE B == {s \in SUBSET S : ~\E i : Adds(i, f, s)}
<1>1. B = {}
  <2> SUFFICES ASSUME B # {} PROVE FALSE
    OBVIOUS
  <2>1. PICK s \in B : \A t \in B : t \subseteq s => t = s
    <3>1. B \in SUBSET (SUBSET S)
      OBVIOUS
    <3> HIDE DEF B
    <3> QED BY <3>1, LeastSubset
  <2>2. s \in SUBSET S /\ ~\E i : Adds(i, f, s)
    BY <2>1
  <2> DEFINE way(t) == CHOOSE i : Adds(i, f, t)
  <2>3. \A t \in SUBSET s : t # s => Adds(way(t), f, t)
    <3> SUFFICES ASSUME NEW t \in SUBSET s, t # s PROVE Adds(way(t), f, t)
      OBVIOUS
    <3>1. \E i : Adds(i, f, t)
      BY <2>1, <2>2
    <3> QED BY <3>1
  <2> HIDE DEF way
  <2> DEFINE h == [t \in SUBSET s |-> IF t = {} THEN 0
                      ELSE f[Pick(t)] + way(t \ {Pick(t)})[t \ {Pick(t)}]]
  <2>4. \A t \in SUBSET s : t # s => h[t] = way(t)[t]
    <3> SUFFICES ASSUME NEW t \in SUBSET s, t # s PROVE h[t] = way(t)[t]
      OBVIOUS
    <3>1. Adds(way(t), f, t)
      BY <2>3
    <3> DEFINE u == t \ {Pick(t)}
    <3>2. t = {} => way(t)[t] = 0
      BY <3>1, Zenon DEF Adds
    <3>3. t # {} => way(t)[t] = f[Pick(t)] + way(t)[u]
      BY <3>1, Zenon DEF Adds
    <3>4. ASSUME t # {} PROVE way(t)[u] = way(u)[u]
      <4>1. u \in SUBSET s /\ u # s /\ u \subseteq t /\ u \in SUBSET u
        BY <3>4, PickOne
      <4>2. Adds(way(u), f, u)
        BY <2>3, <4>1
      <4>3. IsFiniteSet(u)
        BY <2>2, <4>1, FS_Subset
      <4> HIDE DEF u
      <4> QED BY <3>1, <4>1, <4>2, <4>3, AddsAgree
    <3>5. t # {} => h[t] = f[Pick(t)] + way(u)[u]
      OBVIOUS
    <3>6. t = {} => h[t] = 0
      OBVIOUS
    <3> HIDE DEF h, u
    <3> QED BY <3>2, <3>3, <3>4, <3>5, <3>6
  <2>5. \A t \in SUBSET s : t # {} => h[t \ {Pick(t)}] = way(t \ {Pick(t)})[t \ {Pick(t)}]
    <3> SUFFICES ASSUME NEW t \in SUBSET s, t # {}
                 PROVE  h[t \ {Pick(t)}] = way(t \ {Pick(t)})[t \ {Pick(t)}]
      OBVIOUS
    <3>1. t \ {Pick(t)} \in SUBSET s /\ t \ {Pick(t)} # s
      BY PickOne
    <3> HIDE DEF h
    <3> QED BY <2>4, <3>1
  <2>6. \A t \in SUBSET s : h[t] = IF t = {} THEN 0 ELSE f[Pick(t)] + h[t \ {Pick(t)}]
    <3> SUFFICES ASSUME NEW t \in SUBSET s
                 PROVE  h[t] = IF t = {} THEN 0 ELSE f[Pick(t)] + h[t \ {Pick(t)}]
      OBVIOUS
    <3>1. h[t] = IF t = {} THEN 0 ELSE f[Pick(t)] + way(t \ {Pick(t)})[t \ {Pick(t)}]
      OBVIOUS
    <3> HIDE DEF h
    <3> QED BY <2>5, <3>1
  <2>7. h = [t \in SUBSET s |-> h[t]]
    OBVIOUS
  <2> HIDE DEF h
  <2>8. h = [t \in SUBSET s |-> IF t = {} THEN 0 ELSE f[Pick(t)] + h[t \ {Pick(t)}]]
    BY <2>6, <2>7
  <2>9. Adds(h, f, s)
    BY <2>8 DEF Adds
  <2> QED BY <2>2, <2>9
<1>2. S \in SUBSET S
  OBVIOUS
<1> QED BY <1>1, <1>2

(* The equation the sum is computed by.                                    *)
LEMMA TotalStep ==
  ASSUME NEW S, IsFiniteSet(S), NEW f
  PROVE  Total(f, S) = IF S = {} THEN 0 ELSE f[Pick(S)] + Total(f, S \ {Pick(S)})
<1> DEFINE i == CHOOSE i : Adds(i, f, S)
           u == S \ {Pick(S)}
           j == CHOOSE j : Adds(j, f, u)
<1>1. Adds(i, f, S)
  BY AddsExist
<1>2. IsFiniteSet(u) /\ u \subseteq S /\ u \in SUBSET u
  BY FS_Subset
<1>3. Adds(j, f, u)
  <2> HIDE DEF u
  <2> QED BY <1>2, AddsExist
<1>4. Total(f, S) = i[S] /\ Total(f, u) = j[u]
  BY DEF Total
<1> HIDE DEF i, j
<1>5. i[u] = j[u]
  <2> HIDE DEF u
  <2> QED BY <1>1, <1>2, <1>3, AddsAgree
<1>6. i[S] = IF S = {} THEN 0 ELSE f[Pick(S)] + i[u]
  BY <1>1, Zenon DEF Adds
<1> QED BY <1>4, <1>5, <1>6

(* A sum of integers is one.                                               *)
LEMMA TotalType ==
  ASSUME NEW S, IsFiniteSet(S), NEW f, \A x \in S : f[x] \in Int
  PROVE  \A s \in SUBSET S : Total(f, s) \in Int
<1> DEFINE B == {s \in SUBSET S : Total(f, s) \notin Int}
<1>1. B = {}
  <2> SUFFICES ASSUME B # {} PROVE FALSE
    OBVIOUS
  <2>1. PICK s \in B : \A t \in B : t \subseteq s => t = s
    <3>1. B \in SUBSET (SUBSET S)
      OBVIOUS
    <3> HIDE DEF B
    <3> QED BY <3>1, LeastSubset
  <2>2. s \in SUBSET S /\ IsFiniteSet(s) /\ Total(f, s) \notin Int
    BY <2>1, FS_Subset
  <2>3. Total(f, s) = IF s = {} THEN 0 ELSE f[Pick(s)] + Total(f, s \ {Pick(s)})
    BY <2>2, TotalStep
  <2>4. s # {}
    BY <2>2, <2>3
  <2>5. Total(f, s \ {Pick(s)}) \in Int /\ Pick(s) \in S
    BY <2>1, <2>2, <2>4, PickOne
  <2> QED BY <2>2, <2>3, <2>4, <2>5
<1> QED BY <1>1

(* Any member may be added last.                                           *)
LEMMA TotalTakes ==
  ASSUME NEW S, IsFiniteSet(S), NEW f, \A x \in S : f[x] \in Int
  PROVE  \A s \in SUBSET S : \A x \in s : Total(f, s) = f[x] + Total(f, s \ {x})
<1> DEFINE B == {s \in SUBSET S : ~\A x \in s : Total(f, s) = f[x] + Total(f, s \ {x})}
<1>1. B = {}
  <2> SUFFICES ASSUME B # {} PROVE FALSE
    OBVIOUS
  <2>1. PICK s \in B : \A t \in B : t \subseteq s => t = s
    <3>1. B \in SUBSET (SUBSET S)
      OBVIOUS
    <3> HIDE DEF B
    <3> QED BY <3>1, LeastSubset
  <2>2. s \in SUBSET S /\ IsFiniteSet(s)
    BY <2>1, FS_Subset
  <2>3. PICK x \in s : Total(f, s) # f[x] + Total(f, s \ {x})
    BY <2>1
  <2> DEFINE y == Pick(s)
  <2>4. y \in s
    BY <2>3, PickOne
  <2>5. Total(f, s) = f[y] + Total(f, s \ {y})
    BY <2>2, <2>3, TotalStep
  <2> HIDE DEF y
  <2>6. x # y
    BY <2>3, <2>5
  <2>7. s \ {y} \notin B /\ s \ {x} \notin B /\ s \ {y} \in SUBSET S /\ s \ {x} \in SUBSET S
    BY <2>1, <2>2, <2>3, <2>4
  <2>8. Total(f, s \ {y}) = f[x] + Total(f, (s \ {y}) \ {x})
    BY <2>6, <2>7
  <2>9. Total(f, s \ {x}) = f[y] + Total(f, (s \ {x}) \ {y})
    BY <2>4, <2>6, <2>7
  <2>10. (s \ {x}) \ {y} = (s \ {y}) \ {x}
    OBVIOUS
  <2>11. f[x] \in Int /\ f[y] \in Int /\ Total(f, (s \ {y}) \ {x}) \in Int
    BY <2>2, <2>4, TotalType
  <2> DEFINE rest == Total(f, (s \ {y}) \ {x})
             a == f[x]
             b == f[y]
  <2>12. Total(f, s) = b + (a + rest) /\ a + Total(f, s \ {x}) = a + (b + rest)
    BY <2>5, <2>8, <2>9, <2>10
  <2>13. a \in Int /\ b \in Int /\ rest \in Int
    BY <2>11
  <2> HIDE DEF a, b, rest
  <2>14. Total(f, s) = a + Total(f, s \ {x})
    BY <2>12, <2>13
  <2> QED BY <2>3, <2>14 DEF a
<1> QED BY <1>1

(* Functions that agree have the same sum.                                 *)
LEMMA TotalAgrees ==
  ASSUME NEW S, IsFiniteSet(S), NEW f, NEW g, \A x \in S : f[x] = g[x]
  PROVE  Total(f, S) = Total(g, S)
<1> DEFINE B == {s \in SUBSET S : Total(f, s) # Total(g, s)}
<1>1. B = {}
  <2> SUFFICES ASSUME B # {} PROVE FALSE
    OBVIOUS
  <2>1. PICK s \in B : \A t \in B : t \subseteq s => t = s
    <3>1. B \in SUBSET (SUBSET S)
      OBVIOUS
    <3> HIDE DEF B
    <3> QED BY <3>1, LeastSubset
  <2>2. s \in SUBSET S /\ IsFiniteSet(s) /\ Total(f, s) # Total(g, s)
    BY <2>1, FS_Subset
  <2>3. /\ Total(f, s) = IF s = {} THEN 0 ELSE f[Pick(s)] + Total(f, s \ {Pick(s)})
        /\ Total(g, s) = IF s = {} THEN 0 ELSE g[Pick(s)] + Total(g, s \ {Pick(s)})
    BY <2>2, TotalStep
  <2>4. s # {}
    BY <2>2, <2>3
  <2>5. Total(f, s \ {Pick(s)}) = Total(g, s \ {Pick(s)}) /\ Pick(s) \in S
    BY <2>1, <2>2, <2>4, PickOne
  <2> QED BY <2>2, <2>3, <2>4, <2>5
<1>2. S \in SUBSET S
  OBVIOUS
<1> QED BY <1>1, <1>2

(***************************************************************************)
(* The rows of the coverage, for any horizon, any number of writers and of *)
(* statements that come between: their types, that they never overlap or   *)
(* meet, and that they implement CoverageSet.                              *)
(***************************************************************************)

(* One writer at a time is past the lock, and until it replaces them its   *)
(* neighbours stay what it read, as they are locked.  A statement has to   *)
(* do only with rows that are there.                                       *)
OneWriter == \A w, v \in Writer : w # v => offer[w] = NoOffer \/ offer[v] = NoOffer

FoundInv == \A w \in Writer : found[w] = IF offer[w] = NoOffer THEN {} ELSE Touching(offer[w])

SeenInv == \A x \in Other : seen[x] \subseteq rows

Apart == \A r, q \in rows : r # q => ~Touches(r, q)

IInv == Sensible /\ TypeOK /\ Apart /\ OneWriter /\ FoundInv /\ SeenInv

(***************************************************************************)
(* The union of an offer and its neighbours                                *)
(***************************************************************************)

LEMMA RowFacts ==
  ASSUME Sensible, NEW r \in Row
  PROVE  /\ r.from \in Nat /\ r.to \in Nat /\ r.from <= r.to /\ r.to <= Horizon
         /\ r.from \in Moment /\ r.to \in Moment
         /\ r.ends \in Moment \cup {NoMoment}
         /\ r.ends # NoMoment => r.from <= r.ends /\ r.ends <= r.to
  BY DEF Sensible, Row, Moment

(* Its ends are those of members, and no member lies outside.              *)
LEMMA MergedEnds ==
  ASSUME Sensible, NEW o \in Row, NEW S \in SUBSET Row
  PROVE  LET m == Merged(o, S) IN
         /\ \E r \in S \cup {o} : m.from = r.from
         /\ \E r \in S \cup {o} : m.to = r.to
         /\ \A r \in S \cup {o} : m.from <= r.from /\ r.to <= m.to
<1> DEFINE F == {r.from : r \in S \cup {o}}
           T == {r.to : r \in S \cup {o}}
<1>1. F \in SUBSET Nat /\ F # {} /\ T \in SUBSET Nat /\ T # {} /\ \A t \in T : t <= Horizon
  BY RowFacts
<1>2. Min(F) \in F /\ \A x \in F : Min(F) <= x
  <2> HIDE DEF F
  <2> QED BY <1>1, MinOfNaturals
<1>3. Max(T) \in T /\ \A x \in T : x <= Max(T)
  <2> HIDE DEF T
  <2> QED BY <1>1, MaxOfNaturals DEF Sensible
<1>4. Merged(o, S).from = Min(F) /\ Merged(o, S).to = Max(T)
  BY DEF Merged
<1> QED BY <1>2, <1>3, <1>4

(* And it is a row: its boundary is one of a member, and so within.        *)
LEMMA MergedType ==
  ASSUME Sensible, NEW o \in Row, NEW S \in SUBSET Row
  PROVE  Merged(o, S) \in Row
<1> DEFINE m == Merged(o, S)
           named == {r.ends : r \in S \cup {o}} \ {NoMoment}
<1>1. m = [from |-> m.from, to |-> m.to, ends |-> Deepest(S \cup {o})]
  BY DEF Merged
<1>2. /\ \E r \in S \cup {o} : m.from = r.from
      /\ \E r \in S \cup {o} : m.to = r.to
      /\ \A r \in S \cup {o} : m.from <= r.from /\ r.to <= m.to
  BY MergedEnds
<1>3. m.from \in Moment /\ m.to \in Moment /\ m.from <= m.to
  <2> HIDE DEF m
  <2>1. m.from <= o.from /\ o.to <= m.to /\ o.from <= o.to
    BY <1>2, RowFacts
  <2>2. m.from \in Moment /\ m.to \in Moment
    BY <1>2, RowFacts
  <2> QED BY <2>1, <2>2, RowFacts DEF Moment
<1>4. CASE named = {}
  <2>1. Deepest(S \cup {o}) = NoMoment
    BY <1>4 DEF Deepest
  <2> QED BY <1>1, <1>3, <2>1 DEF Row
<1>5. CASE named # {}
  <2>1. named \in SUBSET Nat
    BY RowFacts DEF Moment
  <2>2. Min(named) \in named
    <3> HIDE DEF named
    <3> QED BY <1>5, <2>1, MinOfNaturals
  <2>3. Deepest(S \cup {o}) = Min(named)
    BY <1>5 DEF Deepest
  <2>4. PICK r \in S \cup {o} : r.ends = Min(named) /\ r.ends # NoMoment
    BY <2>2
  <2>5. /\ r.ends \in Moment /\ r.from <= r.ends /\ r.ends <= r.to
        /\ r.from \in Nat /\ r.to \in Nat
    BY <2>4, RowFacts
  <2>6. m.from <= r.ends /\ r.ends <= m.to
    <3> HIDE DEF m
    <3> QED BY <1>2, <1>3, <2>5 DEF Moment
  <2> QED BY <1>1, <1>3, <2>3, <2>4, <2>5, <2>6 DEF Row
<1> QED BY <1>4, <1>5

(* If all its neighbours touch the offer, it covers what they and the      *)
(* offer cover, and nothing between.                                       *)
LEMMA MergedCovers ==
  ASSUME Sensible, NEW o \in Row, NEW S \in SUBSET Row, \A r \in S : Touches(r, o)
  PROVE  LET m == Merged(o, S) IN
         m.from .. m.to = (o.from .. o.to) \cup UNION {r.from .. r.to : r \in S}
<1> DEFINE m == Merged(o, S)
<1>1. PICK a \in S \cup {o} : m.from = a.from
  BY MergedEnds
<1>2. PICK b \in S \cup {o} : m.to = b.to
  BY MergedEnds
<1>3. \A r \in S \cup {o} : m.from <= r.from /\ r.to <= m.to
  BY MergedEnds
<1>4. m.from \in Nat /\ m.to \in Nat
  BY <1>1, <1>2, RowFacts
<1> HIDE DEF m
<1>5. ASSUME NEW t \in m.from .. m.to
      PROVE  t \in o.from .. o.to \/ \E r \in S : t \in r.from .. r.to
  <2>1. CASE t < o.from
    <3>1. a \in S /\ a.to >= o.from
      BY <1>1, <1>4, <2>1, RowFacts DEF Touches
    <3> QED BY <1>1, <1>4, <2>1, <3>1, RowFacts
  <2>2. CASE t > o.to
    <3>1. b \in S /\ b.from <= o.to
      BY <1>2, <1>4, <2>2, RowFacts DEF Touches
    <3> QED BY <1>2, <1>4, <2>2, <3>1, RowFacts
  <2>3. CASE o.from <= t /\ t <= o.to
    BY <1>4, <2>3, RowFacts
  <2> QED BY <1>4, <2>1, <2>2, <2>3, RowFacts
<1>6. ASSUME NEW r \in S \cup {o}, NEW t \in r.from .. r.to PROVE t \in m.from .. m.to
  BY <1>3, <1>4, RowFacts
<1>7. m.from .. m.to = (o.from .. o.to) \cup UNION {r.from .. r.to : r \in S}
  BY <1>5, <1>6
<1> QED BY <1>7 DEF m

(* And a row that touches neither the offer nor a neighbour does not touch *)
(* the union.                                                              *)
LEMMA MergedApart ==
  ASSUME Sensible, NEW o \in Row, NEW S \in SUBSET Row, \A r \in S : Touches(r, o),
         NEW q \in Row, ~Touches(q, o), \A r \in S : ~Touches(q, r)
  PROVE  ~Touches(q, Merged(o, S)) /\ ~Touches(Merged(o, S), q)
<1> DEFINE m == Merged(o, S)
<1>1. PICK a \in S \cup {o} : m.from = a.from
  BY MergedEnds
<1>2. PICK b \in S \cup {o} : m.to = b.to
  BY MergedEnds
<1>3. m.from \in Nat /\ m.to \in Nat
  BY <1>1, <1>2, RowFacts
<1> HIDE DEF m
<1>4. ASSUME q.from <= m.to, q.to >= m.from PROVE FALSE
  <2>1. CASE q.to < o.from
    <3>1. a \in S /\ a.to >= o.from
      BY <1>1, <1>3, <1>4, <2>1, RowFacts DEF Touches
    <3>2. Touches(q, a)
      BY <1>1, <1>3, <1>4, <2>1, <3>1, RowFacts DEF Touches
    <3> QED BY <3>1, <3>2
  <2>2. CASE q.from > o.to
    <3>1. b \in S /\ b.from <= o.to
      BY <1>2, <1>3, <1>4, <2>2, RowFacts DEF Touches
    <3>2. Touches(q, b)
      BY <1>2, <1>3, <1>4, <2>2, <3>1, RowFacts DEF Touches
    <3> QED BY <3>1, <3>2
  <2> QED BY <2>1, <2>2, RowFacts DEF Touches
<1> QED BY <1>3, <1>4, RowFacts DEF Touches, m

(***************************************************************************)
(* The steps                                                               *)
(***************************************************************************)

(* What a writer replaces is what it has read, and what stays touches      *)
(* neither its offer nor its neighbours.                                   *)
LEMMA ReplaceFacts ==
  ASSUME IInv, NEW w \in Writer, Replace(w)
  PROVE  /\ offer[w] \in Row /\ found[w] \in SUBSET Row /\ found[w] \subseteq rows
         /\ \A r \in found[w] : Touches(r, offer[w])
         /\ \A r \in rows \ found[w] : ~Touches(r, offer[w])
         /\ rows' = (rows \ found[w]) \cup {Merged(offer[w], found[w])}
         /\ \A x \in Other : seen'[x] = seen[x] \ found[w]
<1>1. offer[w] \in Row /\ found[w] = Touching(offer[w])
  BY DEF IInv, TypeOK, FoundInv, Replace
<1>2. found[w] \in SUBSET Row /\ found[w] \subseteq rows
  BY <1>1 DEF IInv, TypeOK, Touching
<1>3. (IF found[w] = {} THEN {} ELSE Touching(offer[w])) = found[w]
  BY <1>1
<1> QED BY <1>1, <1>2, <1>3 DEF Replace, Touching

LEMMA InvInit == Sensible /\ Init => IInv
  BY DEF Init, IInv, TypeOK, Apart, OneWriter, FoundInv, SeenInv

LEMMA ReadKeeps ==
  ASSUME IInv, NEW w \in Writer, NEW o \in Row, ReadNeighbours(w, o)
  PROVE  IInv'
<1>1. offer' = [offer EXCEPT ![w] = o] /\ found' = [found EXCEPT ![w] = Touching(o)]
  BY DEF ReadNeighbours
<1>2. UNCHANGED <<rows, doing, seen>> /\ \A v \in Writer : offer[v] = NoOffer
  BY DEF ReadNeighbours, LockIsFree
<1>3. Touching(o) \in SUBSET Row
  BY DEF IInv, TypeOK, Touching
<1>4. TypeOK'
  BY <1>1, <1>2, <1>3 DEF IInv, TypeOK
<1>5. FoundInv'
  BY <1>1, <1>2 DEF IInv, Sensible, TypeOK, FoundInv, Touching
<1>6. OneWriter' /\ SeenInv' /\ Apart'
  BY <1>1, <1>2 DEF IInv, TypeOK, OneWriter, SeenInv, Apart
<1> QED BY <1>4, <1>5, <1>6 DEF IInv

LEMMA ReplaceKeeps ==
  ASSUME IInv, NEW w \in Writer, Replace(w)
  PROVE  IInv'
<1> DEFINE m == Merged(offer[w], found[w])
<1>1. /\ offer[w] \in Row /\ found[w] \in SUBSET Row /\ found[w] \subseteq rows
      /\ \A r \in found[w] : Touches(r, offer[w])
      /\ \A r \in rows \ found[w] : ~Touches(r, offer[w])
      /\ rows' = (rows \ found[w]) \cup {m}
      /\ \A x \in Other : seen'[x] = seen[x] \ found[w]
  BY ReplaceFacts
<1>2. /\ offer' = [offer EXCEPT ![w] = NoOffer] /\ found' = [found EXCEPT ![w] = {}]
      /\ UNCHANGED doing /\ offer[w] # NoOffer
      /\ \E gone : seen' = [x \in Other |-> seen[x] \ gone]
  BY DEF Replace, Finish
<1>3. m \in Row
  BY <1>1, MergedType DEF IInv
<1>4. TypeOK'
  BY <1>1, <1>2, <1>3 DEF IInv, TypeOK
<1>5. ASSUME NEW q \in rows \ found[w] PROVE ~Touches(q, m) /\ ~Touches(m, q)
  <2>1. q \in Row /\ ~Touches(q, offer[w])
    BY <1>1 DEF IInv, TypeOK
  <2>2. \A r \in found[w] : ~Touches(q, r)
    BY <1>1 DEF IInv, Apart
  <2> QED BY <1>1, <2>1, <2>2, MergedApart DEF IInv
<1>6. Apart'
  <2> HIDE DEF m
  <2> QED BY <1>1, <1>5 DEF IInv, Apart
<1>7. \A v \in Writer : offer'[v] = NoOffer /\ found'[v] = {}
  BY <1>2 DEF IInv, TypeOK, OneWriter, FoundInv
<1>8. OneWriter' /\ FoundInv'
  BY <1>7 DEF OneWriter, FoundInv
<1>9. SeenInv'
  BY <1>1 DEF IInv, SeenInv
<1> QED BY <1>4, <1>6, <1>8, <1>9 DEF IInv

LEMMA RollBackKeeps ==
  ASSUME IInv, NEW w \in Writer, RollBack(w)
  PROVE  IInv'
<1>1. /\ offer' = [offer EXCEPT ![w] = NoOffer] /\ found' = [found EXCEPT ![w] = {}]
      /\ UNCHANGED <<rows, doing, seen>>
  BY DEF RollBack, Finish
<1>2. TypeOK'
  BY <1>1 DEF IInv, TypeOK
<1>3. OneWriter' /\ SeenInv' /\ Apart'
  BY <1>1 DEF IInv, TypeOK, OneWriter, SeenInv, Apart
<1>4. FoundInv'
  BY <1>1 DEF IInv, TypeOK, FoundInv, Touching
<1> QED BY <1>2, <1>3, <1>4 DEF IInv

LEMMA BeginKeeps ==
  ASSUME IInv, NEW x \in Other, NEW what \in {"delete", "clear"}, Begin(x, what)
  PROVE  IInv'
<1>1. UNCHANGED <<rows, offer, found>> /\ doing' = [doing EXCEPT ![x] = what]
  BY DEF Begin
<1>2. \E S \in SUBSET rows : seen' = [seen EXCEPT ![x] = S]
  BY DEF Begin
<1>3. TypeOK' /\ SeenInv'
  BY <1>1, <1>2 DEF IInv, TypeOK, SeenInv
<1> QED BY <1>1, <1>3 DEF IInv, Apart, OneWriter, FoundInv, Touching

LEMMA DeleteKeeps ==
  ASSUME IInv, NEW x \in Other, DeleteAll(x)
  PROVE  IInv'
<1>1. /\ rows' = rows \ seen[x] /\ UNCHANGED <<offer, found>>
      /\ seen' = [y \in Other |-> seen[y] \ seen[x]]
      /\ doing' = [doing EXCEPT ![x] = "nothing"]
      /\ \A w \in Writer : found[w] \cap seen[x] = {}
  BY DEF DeleteAll, RowsAreFree
<1>2. TypeOK'
  BY <1>1 DEF IInv, TypeOK
<1>3. Apart' /\ OneWriter' /\ SeenInv'
  BY <1>1 DEF IInv, Apart, OneWriter, SeenInv
<1>4. FoundInv'
  BY <1>1 DEF IInv, FoundInv, Touching
<1> QED BY <1>2, <1>3, <1>4 DEF IInv

(* A row keeps its ends when its boundary is cleared.                      *)
LEMMA ClearedFacts ==
  ASSUME NEW r \in Row
  PROVE  /\ Cleared(r) \in Row /\ Cleared(r).from = r.from /\ Cleared(r).to = r.to
<1>1. r = [from |-> r.from, to |-> r.to, ends |-> r.ends]
  BY DEF Row
<1>2. Cleared(r) = [from |-> r.from, to |-> r.to, ends |-> NoMoment]
  BY <1>1 DEF Cleared
<1> QED BY <1>2 DEF Row

LEMMA ClearKeeps ==
  ASSUME IInv, NEW x \in Other, ClearBoundary(x)
  PROVE  IInv'
<1> DEFINE fresh(r) == IF r \in seen[x] THEN Cleared(r) ELSE r
<1>1. /\ rows' = (rows \ seen[x]) \cup {Cleared(r) : r \in seen[x]}
      /\ UNCHANGED <<offer, found>> /\ doing' = [doing EXCEPT ![x] = "nothing"]
      /\ \A w \in Writer : found[w] \cap seen[x] = {}
  BY DEF ClearBoundary, RowsAreFree
<1>2. seen' = [y \in Other |->
                (seen[y] \ seen[x]) \cup
                IF doing[y] = "delete" THEN {Cleared(r) : r \in seen[x] \cap seen[y]} ELSE {}]
  BY DEF ClearBoundary
<1>3. rows \in SUBSET Row /\ seen[x] \subseteq rows /\ seen \in [Other -> SUBSET Row]
  BY DEF IInv, TypeOK, SeenInv
<1>4. \A r \in rows : fresh(r) \in Row /\ fresh(r).from = r.from /\ fresh(r).to = r.to
  BY <1>3, ClearedFacts
<1>5. rows' = {fresh(r) : r \in rows}
  BY <1>1, <1>3
<1>6. TypeOK'
  <2>1. rows' \in SUBSET Row
    BY <1>4, <1>5
  <2>2. \A r \in seen[x] : Cleared(r) \in Row
    BY <1>3, ClearedFacts
  <2>3. seen' \in [Other -> SUBSET Row]
    BY <1>2, <1>3, <2>2
  <2> QED BY <1>1, <2>1, <2>3 DEF IInv, TypeOK
<1>7. Apart'
  <2> SUFFICES ASSUME NEW r \in rows, NEW q \in rows, fresh(r) # fresh(q)
               PROVE  ~Touches(fresh(r), fresh(q))
    BY <1>5 DEF Apart
  <2>1. r # q /\ ~Touches(r, q)
    BY DEF IInv, Apart
  <2> QED BY <1>4, <2>1 DEF Touches
<1>8. FoundInv'
  <2> SUFFICES ASSUME NEW w \in Writer, offer[w] # NoOffer
               PROVE  found[w] = {r \in rows' : Touches(r, offer[w])}
    BY <1>1 DEF IInv, FoundInv, Touching
  <2>1. found[w] = {r \in rows : Touches(r, offer[w])}
    BY DEF IInv, FoundInv, Touching
  <2>2. \A r \in rows : Touches(fresh(r), offer[w]) <=> Touches(r, offer[w])
    BY <1>4 DEF Touches
  <2>3. \A r \in rows : Touches(r, offer[w]) => fresh(r) = r
    BY <1>1, <2>1
  <2> HIDE DEF fresh
  <2> QED BY <1>5, <2>1, <2>2, <2>3
<1>9. OneWriter' /\ SeenInv'
  <2>1. OneWriter'
    BY <1>1 DEF IInv, OneWriter
  <2>2. \A y \in Other : seen[y] \subseteq rows
    BY DEF IInv, SeenInv
  <2>3. SeenInv'
    BY <1>1, <1>2, <2>2 DEF SeenInv
  <2> QED BY <2>1, <2>3
<1> QED BY <1>6, <1>7, <1>8, <1>9 DEF IInv

LEMMA InvStep == IInv /\ [Next]_vars => IInv'
<1> SUFFICES ASSUME IInv, [Next]_vars PROVE IInv'
  OBVIOUS
<1>1. CASE UNCHANGED vars
  BY <1>1 DEF vars, IInv, TypeOK, Apart, OneWriter, FoundInv, SeenInv, Touching
<1> QED BY <1>1, ReadKeeps, ReplaceKeeps, RollBackKeeps, BeginKeeps, DeleteKeeps, ClearKeeps DEF Next

(* Every variable keeps its type, and a row's boundary lies inside it.     *)
THEOREM TypeCorrect == Sensible /\ Spec => []TypeOK
<1>1. IInv => TypeOK
  BY DEF IInv
<1> QED BY <1>1, InvInit, InvStep, PTL DEF Spec

(* Whatever is recorded, deleted and cleared at the same time, the rows of *)
(* a pair never overlap and never meet.                                    *)
THEOREM RowsApartCorrect == Sensible /\ Spec => []RowsApart
<1>1. IInv => RowsApart
  <2> SUFFICES ASSUME IInv, NEW r \in rows, NEW q \in rows, r # q
               PROVE  r.to < q.from \/ q.to < r.from
    BY DEF RowsApart
  <2>1. Sensible /\ r \in Row /\ q \in Row /\ ~Touches(r, q)
    BY DEF IInv, TypeOK, Apart
  <2> QED BY <2>1, RowFacts DEF Touches
<1> QED BY <1>1, InvInit, InvStep, PTL DEF Spec

(***************************************************************************)
(* The refinement                                                          *)
(***************************************************************************)

LEMMA LooksStep == IInv /\ [Next]_vars => [Looks!Next]_Covered
<1> SUFFICES ASSUME IInv, [Next]_vars PROVE Looks!Next \/ UNCHANGED Covered
  OBVIOUS
<1>1. CASE UNCHANGED rows
  BY <1>1 DEF Covered
<1>2. ASSUME NEW w \in Writer, Replace(w) PROVE Looks!Next
  <2> DEFINE o == offer[w]
             m == Merged(o, found[w])
  <2>1. /\ o \in Row /\ found[w] \in SUBSET Row /\ found[w] \subseteq rows
        /\ \A r \in found[w] : Touches(r, o)
        /\ rows' = (rows \ found[w]) \cup {m}
    BY <1>2, ReplaceFacts
  <2>2. m.from .. m.to = (o.from .. o.to) \cup UNION {r.from .. r.to : r \in found[w]}
    BY <2>1, MergedCovers DEF IInv
  <2>3. \A t : t \in Covered' <=> t \in Covered \/ t \in o.from .. o.to
    <3> HIDE DEF m, o
    <3> SUFFICES ASSUME NEW t
                 PROVE  t \in Covered' <=> t \in Covered \/ t \in o.from .. o.to
      OBVIOUS
    <3>1. t \in Covered' <=> \E r \in rows' : t \in r.from .. r.to
      BY DEF Covered
    <3>2. t \in Covered <=> \E r \in rows : t \in r.from .. r.to
      BY DEF Covered
    <3>3. t \in m.from .. m.to <=> t \in o.from .. o.to \/ \E r \in found[w] : t \in r.from .. r.to
      BY <2>2
    <3>4. (\E r \in rows' : t \in r.from .. r.to) <=>
             (\E r \in rows \ found[w] : t \in r.from .. r.to) \/ t \in m.from .. m.to
      <4> DEFINE P(r) == t \in r.from .. r.to
      <4>1. \A r : r \in rows' <=> r \in rows \ found[w] \/ r = m
        BY <2>1
      <4>2. P(m) <=> t \in m.from .. m.to
        OBVIOUS
      <4> HIDE DEF P
      <4>3. (\E r \in rows' : P(r)) <=> (\E r \in rows \ found[w] : P(r)) \/ P(m)
        BY <4>1
      <4> QED BY <4>2, <4>3 DEF P
    <3>5. (\E r \in rows : t \in r.from .. r.to) <=>
             \/ \E r \in rows \ found[w] : t \in r.from .. r.to
             \/ \E r \in found[w] : t \in r.from .. r.to
      <4> DEFINE P(r) == t \in r.from .. r.to
      <4> HIDE DEF P
      <4>1. (\E r \in rows : P(r)) <=> (\E r \in rows \ found[w] : P(r)) \/ \E r \in found[w] : P(r)
        BY <2>1
      <4> QED BY <4>1 DEF P
    <3> QED BY <3>1, <3>2, <3>3, <3>4, <3>5
  <2>4. Covered' = Covered \cup (o.from .. o.to)
    <3> HIDE DEF o
    <3> QED BY <2>3
  <2>5. Looks!Look(o.from, o.to) /\ o.from <= o.to /\ o.from \in Looks!Moment /\ o.to \in Looks!Moment
    BY <2>1, <2>4, RowFacts DEF IInv, Looks!Look, Looks!Moment, Moment
  <2> QED BY <2>5 DEF Looks!Next
<1>3. ASSUME NEW x \in Other, DeleteAll(x) PROVE Looks!Next
  <2>1. rows' \subseteq rows
    BY <1>3 DEF DeleteAll
  <2>2. Covered' \subseteq Covered
    BY <2>1 DEF Covered
  <2> QED BY <2>2 DEF Looks!Next, Looks!Forget
<1>4. ASSUME NEW x \in Other, ClearBoundary(x) PROVE Looks!Next
  <2>1. rows' = (rows \ seen[x]) \cup {Cleared(r) : r \in seen[x]}
    BY <1>4 DEF ClearBoundary
  <2>2. \A r \in seen[x] : r \in rows /\ Cleared(r).from = r.from /\ Cleared(r).to = r.to
    BY ClearedFacts DEF IInv, SeenInv, TypeOK
  <2>3. Covered' \subseteq Covered
    BY <2>1, <2>2 DEF Covered
  <2> QED BY <2>3 DEF Looks!Next, Looks!Forget
<1>5. CASE \/ \E w \in Writer : RollBack(w) \/ \E o \in Row : ReadNeighbours(w, o)
           \/ \E x \in Other, what \in {"delete", "clear"} : Begin(x, what)
           \/ UNCHANGED vars
  BY <1>1, <1>5 DEF RollBack, ReadNeighbours, Begin, vars
<1> QED BY <1>2, <1>3, <1>4, <1>5 DEF Next

(* The rows say that the archive has looked at a moment exactly when       *)
(* somebody recorded so and no deletion has forgotten it since.            *)
THEOREM LooksCorrect == Sensible /\ Spec => ImplementsLooks
<1>1. Init => Looks!Init
  BY DEF Init, Covered, Looks!Init
<1> QED BY <1>1, InvInit, InvStep, LooksStep, PTL DEF Spec, ImplementsLooks, Looks!Spec

(***************************************************************************)
(* The rate gate, for any callers, limit and window.                       *)
(***************************************************************************)

(* What is needed for it: the times that are kept are the last slots given,*)
(* and the slots forgotten are older than the window.                      *)
Forgotten == Len(granted) - Len(times)

GateInv ==
  /\ GateIsSensible
  /\ now \in Nat /\ times \in Seq(Nat) /\ granted \in Seq(Nat)
  /\ Forgotten >= 0
  /\ \A i \in 1 .. Len(times) : times[i] = granted[Forgotten + i]
  /\ \A i \in 1 .. Forgotten : now - granted[i] >= Per
  /\ RateIsKept

(* Dropping old times keeps the invariant.                                 *)
LEMMA DropKeeps ==
  ASSUME GateInv, NEW k \in 0 .. Len(times), Drops(k)
  PROVE  /\ Kept(k) \in Seq(Nat) /\ Len(Kept(k)) = Len(times) - k
         /\ \A i \in 1 .. Len(Kept(k)) : Kept(k)[i] = granted[Forgotten + k + i]
         /\ \A i \in 1 .. Forgotten + k : now - granted[i] >= Per
<1>1. times \in Seq(Nat) /\ Len(times) \in Nat /\ Len(granted) \in Nat /\ Forgotten \in Nat
  BY DEF GateInv, Forgotten
<1>2. Kept(k) \in Seq(Nat) /\ Len(Kept(k)) = Len(times) - k
  BY <1>1 DEF Kept
<1>3. \A i \in 1 .. Len(Kept(k)) : Kept(k)[i] = times[k + i]
  BY <1>1, <1>2 DEF Kept
<1>4. ASSUME NEW i \in 1 .. Len(Kept(k)) PROVE Kept(k)[i] = granted[Forgotten + k + i]
  <2>1. k + i \in 1 .. Len(times)
    BY <1>1, <1>2
  <2>2. times[k + i] = granted[Forgotten + (k + i)]
    BY <2>1 DEF GateInv
  <2> QED BY <1>1, <1>3, <2>2
<1>5. ASSUME NEW i \in 1 .. Forgotten + k PROVE now - granted[i] >= Per
  <2>1. CASE i <= Forgotten
    BY <1>1, <2>1 DEF GateInv
  <2>2. CASE i > Forgotten
    <3>1. i - Forgotten \in 1 .. k /\ i - Forgotten \in 1 .. Len(times)
      BY <1>1, <2>2
    <3>2. times[i - Forgotten] = granted[Forgotten + (i - Forgotten)]
      BY <3>1 DEF GateInv
    <3>3. now - times[i - Forgotten] >= Per
      BY <3>1 DEF Drops
    <3> QED BY <1>1, <3>2, <3>3
  <2> QED BY <1>1, <2>1, <2>2
<1> QED BY <1>2, <1>4, <1>5

LEMMA InvAtInit == GateIsSensible /\ GateInit => GateInv
  BY DEF GateInit, GateInv, Forgotten, RateIsKept

LEMMA InvAtStep == GateInv /\ [GateNext]_gate => GateInv'
<1> SUFFICES ASSUME GateInv, [GateNext]_gate PROVE GateInv'
  OBVIOUS
<1>0. /\ now \in Nat /\ times \in Seq(Nat) /\ granted \in Seq(Nat)
      /\ Len(times) \in Nat /\ Len(granted) \in Nat /\ Forgotten \in Nat
      /\ Limit \in Nat /\ Limit > 0 /\ Per \in Nat
  BY DEF GateInv, Forgotten, GateIsSensible
<1>1. CASE TimePasses
  <2>0. PICK d \in 1 .. Per : now' = now + d
    BY <1>1 DEF TimePasses
  <2>1. UNCHANGED <<times, granted, Forgotten>> /\ now' \in Nat /\ now' > now
    BY <1>0, <1>1, <2>0 DEF TimePasses, Forgotten
  <2>2. ASSUME NEW i \in 1 .. Forgotten PROVE now' - granted[i] >= Per
    <3>1. now - granted[i] >= Per /\ granted[i] \in Nat
      BY <1>0 DEF GateInv, Forgotten
    <3> QED BY <1>0, <2>1, <3>1
  <2> QED BY <2>1, <2>2 DEF GateInv, RateIsKept, GateIsSensible
<1>2. ASSUME NEW c \in Caller, NEW k \in 0 .. Len(times), Sleep(c, k) PROVE GateInv'
  <2>1. Drops(k) /\ times' = Kept(k) /\ now' = now /\ granted' = granted
    BY <1>2 DEF Sleep
  <2>2. /\ Kept(k) \in Seq(Nat) /\ Len(Kept(k)) = Len(times) - k
        /\ \A i \in 1 .. Len(Kept(k)) : Kept(k)[i] = granted[Forgotten + k + i]
        /\ \A i \in 1 .. Forgotten + k : now - granted[i] >= Per
    BY <2>1, DropKeeps
  <2>3. Len(times') = Len(times) - k /\ Len(granted') = Len(granted)
    BY <2>1, <2>2
  <2>4. Forgotten' = Forgotten + k /\ Forgotten' >= 0
    BY <1>0, <2>3 DEF Forgotten
  <2>5. RateIsKept'
    BY <2>1 DEF GateInv, RateIsKept
  <2>6. times' \in Seq(Nat) /\ granted' \in Seq(Nat) /\ now' \in Nat
    BY <1>0, <2>1, <2>2
  <2>7. \A i \in 1 .. Len(times') : times'[i] = granted'[Forgotten' + i]
    BY <2>1, <2>2, <2>4
  <2>8. \A i \in 1 .. Forgotten' : now' - granted'[i] >= Per
    BY <2>1, <2>2, <2>4
  <2> QED BY <2>4, <2>5, <2>6, <2>7, <2>8 DEF GateInv
<1>3. ASSUME NEW c \in Caller, NEW k \in 0 .. Len(times), Grant(c, k) PROVE GateInv'
  <2>1. /\ Drops(k) /\ Len(Kept(k)) < Limit /\ now' = now
        /\ times' = Append(Kept(k), now) /\ granted' = Append(granted, now)
    BY <1>3 DEF Grant
  <2>2. /\ Kept(k) \in Seq(Nat) /\ Len(Kept(k)) = Len(times) - k
        /\ \A i \in 1 .. Len(Kept(k)) : Kept(k)[i] = granted[Forgotten + k + i]
        /\ \A i \in 1 .. Forgotten + k : now - granted[i] >= Per
    BY <2>1, DropKeeps
  <2>3. /\ times' \in Seq(Nat) /\ granted' \in Seq(Nat) /\ now' \in Nat
        /\ Len(times') = Len(Kept(k)) + 1 /\ Len(granted') = Len(granted) + 1
    BY <1>0, <2>1, <2>2
  <2>a. k \in Nat /\ Forgotten' = Forgotten + k /\ Forgotten' >= 0
        /\ Len(granted) = Forgotten + Len(times)
    BY <1>0, <2>2, <2>3 DEF Forgotten
  <2>4. /\ \A i \in 1 .. Len(granted) : granted'[i] = granted[i]
        /\ granted'[Len(granted) + 1] = now
    BY <1>0, <2>1
  <2>5. ASSUME NEW i \in 1 .. Len(times') PROVE times'[i] = granted'[Forgotten' + i]
    <3>1. CASE i <= Len(Kept(k))
      <4>1. times'[i] = Kept(k)[i]
        BY <2>1, <2>2, <3>1
      <4>2. Forgotten + k + i \in 1 .. Len(granted)
        BY <1>0, <2>2, <2>a, <3>1
      <4>3. Kept(k)[i] = granted[Forgotten + k + i]
        BY <1>0, <2>2, <3>1
      <4>4. granted'[Forgotten + k + i] = granted[Forgotten + k + i]
        BY <2>4, <4>2
      <4> QED BY <2>a, <4>1, <4>3, <4>4
    <3>2. CASE i = Len(Kept(k)) + 1
      <4>1. times'[i] = now
        BY <1>0, <2>1, <2>2, <3>2
      <4>2. Forgotten' + i = Len(granted) + 1
        BY <1>0, <2>2, <2>a, <3>2
      <4> QED BY <2>4, <4>1, <4>2
    <3>3. Len(Kept(k)) \in Nat /\ i \in 1 .. Len(Kept(k)) + 1
      BY <2>2, <2>3
    <3>4. i <= Len(Kept(k)) \/ i = Len(Kept(k)) + 1
      BY <3>3
    <3> QED BY <3>1, <3>2, <3>4
  <2>6. ASSUME NEW i \in 1 .. Forgotten' PROVE now' - granted'[i] >= Per
    <3>1. i \in 1 .. Forgotten + k /\ i \in 1 .. Len(granted)
      BY <1>0, <2>a
    <3>2. granted'[i] = granted[i] /\ now - granted[i] >= Per
      BY <2>2, <2>4, <3>1
    <3> QED BY <2>1, <3>2
  <2>7. ASSUME NEW i \in 1 .. Len(granted'), i + Limit <= Len(granted')
        PROVE  granted'[i + Limit] - granted'[i] >= Per
    <3>0. i \in Nat /\ i >= 1 /\ i + Limit <= Len(granted) + 1
      BY <1>0, <2>3, <2>7
    <3>1. i \in 1 .. Len(granted)
      BY <1>0, <3>0
    <3>2. granted'[i] = granted[i]
      BY <2>4, <3>1
    <3>3. CASE i + Limit <= Len(granted)
      <4>1. i + Limit \in 1 .. Len(granted)
        BY <1>0, <3>0, <3>3
      <4>2. granted[i + Limit] - granted[i] >= Per
        BY <3>1, <3>3 DEF GateInv, RateIsKept
      <4> QED BY <2>4, <3>2, <4>1, <4>2
    <3>4. CASE i + Limit = Len(granted) + 1
      <4>1. i \in 1 .. Forgotten + k
        BY <1>0, <2>1, <2>2, <2>a, <3>0, <3>4
      <4>2. now - granted[i] >= Per /\ granted'[i + Limit] = now
        BY <2>2, <2>4, <3>4, <4>1
      <4> QED BY <3>2, <4>2
    <3>5. i + Limit <= Len(granted) \/ i + Limit = Len(granted) + 1
      BY <1>0, <3>0
    <3> QED BY <3>3, <3>4, <3>5
  <2>8. RateIsKept'
    BY <2>7 DEF RateIsKept
  <2> QED BY <2>3, <2>5, <2>6, <2>8, <2>a DEF GateInv
<1>4. CASE UNCHANGED <<now, times, granted>>
  BY <1>4 DEF GateInv, Forgotten, RateIsKept
<1> QED BY <1>1, <1>2, <1>3, <1>4 DEF GateNext, Acquire, TakeLock, Wake, Cancelled, gate

(* However many callers, whatever the limit and the window.                *)
THEOREM RateCorrect == GateIsSensible /\ GateSpec => []RateIsKept
<1>1. GateInv => RateIsKept
  BY DEF GateInv
<1> QED BY <1>1, InvAtInit, InvAtStep, PTL DEF GateSpec

(***************************************************************************)
(* One pair's ingest task.  As long as nothing excuses a hole, what is     *)
(* stored and what is on its way are one stretch of the market each, and   *)
(* they meet: a fill reaches down to the first and up to the second.       *)
(***************************************************************************)

(* What the theorem asks of the constants: a pair that is tracked has      *)
(* begun to collect by the first period, as routers/pairs.py:96 refuses a  *)
(* later day, and the limits are numbers. Nothing relates them: a first    *)
(* fill may be smaller or larger than a request.                           *)
PairIsSensible ==
  /\ LastPeriod \in Nat /\ Market \subseteq Int
  /\ CollectFrom \in Int /\ CollectFrom <= 1
  /\ DefaultBars \in Nat /\ MaxBars \in Nat /\ Overlap \in Nat

(* The candles in a queue of messages; 0 is the report of a failure.       *)
Told(s) == {s[k] : k \in DOMAIN s} \ {0}

(* They come in the order of their periods.                                *)
Ascending(s) == \A a, b \in DOMAIN s : a < b /\ s[a] # 0 /\ s[b] # 0 => s[a] < s[b]

(* What the operations on the queue do to its candles and their order.     *)
LEMMA ToldEmpty == Told(<<>>) = {} /\ Ascending(<<>>) /\ <<>> \in Seq(Int)
BY DEF Told, Ascending

LEMMA ToldOne ==
  ASSUME NEW x \in Int
  PROVE  Told(<<x>>) = {x} \ {0} /\ Ascending(<<x>>) /\ <<x>> \in Seq(Int)
<1> /\ <<x>> \in Seq(Int) /\ DOMAIN <<x>> = {1} /\ <<x>>[1] = x
  OBVIOUS
<1> QED BY DEF Told, Ascending

LEMMA ToldAppend ==
  ASSUME NEW s \in Seq(Int), NEW x \in Int
  PROVE  /\ Append(s, x) \in Seq(Int)
         /\ Told(Append(s, x)) = Told(s) \cup ({x} \ {0})
         /\ Ascending(s) /\ (x = 0 \/ \A y \in Told(s) : y < x) => Ascending(Append(s, x))
<1> DEFINE t == Append(s, x)
<1>1. /\ t \in Seq(Int) /\ DOMAIN s = 1 .. Len(s) /\ DOMAIN t = 1 .. Len(s) + 1
      /\ Len(s) \in Nat /\ t[Len(s) + 1] = x /\ \A k \in 1 .. Len(s) : t[k] = s[k]
  OBVIOUS
<1> HIDE DEF t
<1>2. Told(t) = Told(s) \cup ({x} \ {0})
  BY <1>1, SMTT(20) DEF Told
<1>3. Ascending(s) /\ (x = 0 \/ \A y \in Told(s) : y < x) => Ascending(t)
  <2> SUFFICES ASSUME Ascending(s), x = 0 \/ \A y \in Told(s) : y < x,
                      NEW a \in DOMAIN t, NEW b \in DOMAIN t, a < b, t[a] # 0, t[b] # 0
               PROVE  t[a] < t[b]
    BY DEF Ascending
  <2>1. a \in 1 .. Len(s) /\ t[a] = s[a] /\ s[a] \in Told(s)
    BY <1>1 DEF Told
  <2>2. CASE b = Len(s) + 1
    BY <1>1, <2>1, <2>2
  <2>3. CASE b \in 1 .. Len(s)
    BY <1>1, <2>1, <2>3 DEF Ascending
  <2> QED BY <1>1, <2>2, <2>3
<1> QED BY <1>1, <1>2, <1>3 DEF t

LEMMA ToldTail ==
  ASSUME NEW s \in Seq(Int), s # <<>>
  PROVE  /\ Head(s) \in Int /\ Tail(s) \in Seq(Int)
         /\ Told(s) = Told(Tail(s)) \cup ({Head(s)} \ {0})
         /\ Ascending(s) => Ascending(Tail(s))
         /\ Ascending(s) /\ Head(s) # 0 => \A y \in Told(Tail(s)) : Head(s) < y
<1> DEFINE t == Tail(s)
           h == Head(s)
<1>1. /\ t \in Seq(Int) /\ h \in Int /\ h = s[1] /\ Len(s) \in Nat /\ Len(s) >= 1
      /\ DOMAIN s = 1 .. Len(s) /\ DOMAIN t = 1 .. Len(s) - 1
      /\ \A k \in 1 .. Len(s) - 1 : t[k] = s[k + 1]
  OBVIOUS
<1> HIDE DEF t, h
<1>a. ASSUME NEW j \in DOMAIN t PROVE j + 1 \in DOMAIN s /\ t[j] = s[j + 1]
  BY <1>1
<1>2. Told(s) = Told(t) \cup ({h} \ {0})
  <2>1. ASSUME NEW k \in DOMAIN s PROVE s[k] = h \/ \E j \in DOMAIN t : t[j] = s[k]
    <3>1. CASE k = 1
      BY <1>1, <3>1
    <3>2. CASE k # 1
      <4>1. k - 1 \in DOMAIN t /\ t[k - 1] = s[(k - 1) + 1] /\ (k - 1) + 1 = k
        BY <1>1, <3>2
      <4> QED BY <4>1
    <3> QED BY <3>1, <3>2
  <2>3. 1 \in DOMAIN s
    BY <1>1
  <2>4. ASSUME NEW y \in Told(s) PROVE y = h \/ y \in Told(t)
    BY <2>1 DEF Told
  <2>5. ASSUME NEW y \in Told(t) PROVE y \in Told(s)
    BY <1>a DEF Told
  <2>6. h # 0 => h \in Told(s)
    BY <1>1, <2>3 DEF Told
  <2>7. 0 \notin Told(s)
    BY DEF Told
  <2> QED BY <2>4, <2>5, <2>6, <2>7
<1>3. ASSUME Ascending(s) PROVE Ascending(t)
  <2> SUFFICES ASSUME NEW a \in DOMAIN t, NEW b \in DOMAIN t, a < b, t[a] # 0, t[b] # 0
               PROVE  t[a] < t[b]
    BY DEF Ascending
  <2>1. /\ a + 1 \in DOMAIN s /\ b + 1 \in DOMAIN s /\ a + 1 < b + 1
        /\ t[a] = s[a + 1] /\ t[b] = s[b + 1]
    <3>1. a \in Int /\ b \in Int
      BY <1>1
    <3> QED BY <1>a, <3>1
  <2>2. s[a + 1] # 0 /\ s[b + 1] # 0
    BY <2>1
  <2> DEFINE c == a + 1
             d == b + 1
  <2>3. c \in DOMAIN s /\ d \in DOMAIN s /\ c < d /\ s[c] # 0 /\ s[d] # 0
    BY <2>1, <2>2
  <2> HIDE DEF c, d
  <2>4. s[c] < s[d]
    BY <1>3, <2>3 DEF Ascending
  <2> QED BY <2>1, <2>4 DEF c, d
<1>4. ASSUME Ascending(s), h # 0, NEW y \in Told(t) PROVE h < y
  <2>1. PICK k \in DOMAIN t : t[k] = y /\ y # 0
    BY DEF Told
  <2>2. 1 \in DOMAIN s /\ k + 1 \in DOMAIN s /\ 1 < k + 1 /\ t[k] = s[k + 1]
    BY <1>1
  <2> QED BY <1>1, <1>4, <2>1, <2>2 DEF Ascending
<1> QED BY <1>1, <1>2, <1>3, <1>4 DEF t, h

LEMMA ToldStart ==
  ASSUME NEW s \in Seq(Int), NEW n \in 0 .. Len(s)
  PROVE  /\ SubSeq(s, 1, n) \in Seq(Int)
         /\ Told(SubSeq(s, 1, n)) \subseteq Told(s)
         /\ Ascending(s) =>
              /\ Ascending(SubSeq(s, 1, n))
              /\ \A y \in Told(SubSeq(s, 1, n)), z \in Told(s) \ Told(SubSeq(s, 1, n)) : y < z
<1> DEFINE t == SubSeq(s, 1, n)
<1>1. /\ t \in Seq(Int) /\ Len(s) \in Nat /\ n \in Nat /\ n <= Len(s)
      /\ DOMAIN s = 1 .. Len(s) /\ DOMAIN t = 1 .. n
      /\ \A k \in 1 .. n : t[k] = s[k]
  OBVIOUS
<1> HIDE DEF t
<1>2. Told(t) \subseteq Told(s)
  BY <1>1 DEF Told
<1>3. ASSUME Ascending(s) PROVE Ascending(t)
  BY <1>1, <1>3 DEF Ascending
<1>4. ASSUME Ascending(s), NEW y \in Told(t), NEW z \in Told(s) \ Told(t) PROVE y < z
  <2>1. PICK a \in DOMAIN t : t[a] = y /\ y # 0
    BY DEF Told
  <2>2. PICK b \in DOMAIN s : s[b] = z /\ z # 0
    BY DEF Told
  <2>3. b \notin DOMAIN t
    BY <1>1, <1>4, <2>2 DEF Told
  <2> QED BY <1>1, <1>4, <2>1, <2>2, <2>3 DEF Ascending
<1> QED BY <1>1, <1>2, <1>3, <1>4 DEF t

(* The part of PairIngest.TypeOK the rest needs.                           *)
PairTypes ==
  /\ period \in 0 .. LastPeriod
  /\ source \in [1 .. LastPeriod -> {"none", "stream", "history"}]
  /\ Pair!Stored \subseteq 1 .. period
  /\ pc \in {"measure", "ask", "write", "subscribe", "listen"}
  /\ nested \in BOOLEAN /\ link \in BOOLEAN
  /\ moment \in 0 .. period /\ heard \in 0 .. period /\ bars \in Int
  /\ page \subseteq 1 .. period
  /\ inbox \in Seq(0 .. period)

(* An instance of PairIngest has a Max and a Cardinality of its own.       *)
LEMMA NewestStored ==
  ASSUME PairTypes, PairIsSensible, Pair!Stored # {}
  PROVE  Pair!Latest \in Pair!Stored /\ \A k \in Pair!Stored : k <= Pair!Latest
<1>1. Pair!Latest = Max(Pair!Stored)
  BY DEF Pair!Latest, Pair!Max, Max
<1>2. period \in Nat /\ Pair!Stored \subseteq 1 .. period
  BY DEF PairTypes, PairIsSensible
<1>3. Pair!Stored \in SUBSET Nat /\ \A k \in Pair!Stored : k <= period
  BY <1>2
<1> HIDE DEF Pair!Stored
<1>4. Max(Pair!Stored) \in Pair!Stored /\ \A k \in Pair!Stored : k <= Max(Pair!Stored)
  BY <1>2, <1>3, MaxOfNaturals
<1> QED BY <1>1, <1>4

LEMMA SizeOfInstance == ASSUME NEW S PROVE Pair!Cardinality(S) = Cardinality(S)
  BY DEF Pair!Cardinality, Cardinality

LEMMA SmallerOfTwo ==
  ASSUME NEW a \in Int, NEW b \in Int
  PROVE  Pair!Min({a, b}) \in {a, b} /\ Pair!Min({a, b}) <= a /\ Pair!Min({a, b}) <= b
<1>1. \E m \in {a, b} : \A x \in {a, b} : m <= x
  <2>1. CASE a <= b
    BY <2>1
  <2>2. CASE b <= a
    BY <2>2
  <2> QED BY <2>1, <2>2
<1> QED BY <1>1 DEF Pair!Min

LEMMA LargerOfTwo ==
  ASSUME NEW a \in Int, NEW b \in Int
  PROVE  Pair!Max({a, b}) \in {a, b} /\ Pair!Max({a, b}) >= a /\ Pair!Max({a, b}) >= b
<1>1. \E m \in {a, b} : \A x \in {a, b} : m >= x
  <2>1. CASE a >= b
    BY <2>1
  <2>2. CASE b >= a
    BY <2>2
  <2> QED BY <2>1, <2>2
<1> QED BY <1>1 DEF Pair!Max

(* The types hold at first, and every step keeps them.                     *)
LEMMA PairTypesInit == PairIsSensible /\ Pair!Init => PairTypes
<1> SUFFICES ASSUME PairIsSensible, Pair!Init PROVE PairTypes
  OBVIOUS
<1>1. source = [i \in 1 .. LastPeriod |-> "none"]
  BY DEF Pair!Init, Pair!Period
<1>2. Pair!Stored = {}
  BY <1>1 DEF Pair!Stored, Pair!Period
<1>3. /\ period = 0 /\ pc = "measure" /\ nested = FALSE /\ link = FALSE
      /\ moment = 0 /\ heard = 0 /\ bars = 0 /\ page = {}
  BY DEF Pair!Init
<1>4. inbox \in Seq(0 .. period) /\ LastPeriod \in Nat
  BY DEF Pair!Init, PairIsSensible
<1>5. source \in [1 .. LastPeriod -> {"none", "stream", "history"}]
  BY <1>1
<1>6. Pair!Stored \subseteq 1 .. period
  BY <1>2
<1>7. period \in 0 .. LastPeriod /\ moment \in 0 .. period /\ heard \in 0 .. period
      /\ bars \in Int
  BY <1>3, <1>4
<1>8. page \subseteq 1 .. period
  BY <1>3
<1> QED BY <1>3, <1>4, <1>5, <1>6, <1>7, <1>8, Zenon DEF PairTypes

LEMMA PairTypesStep == PairIsSensible /\ PairTypes /\ Pair!Next => PairTypes'
<1> SUFFICES ASSUME PairIsSensible, PairTypes, Pair!Next PROVE PairTypes'
  OBVIOUS
<1>0. /\ period \in Nat /\ LastPeriod \in Nat /\ Overlap \in Nat /\ MaxBars \in Nat
      /\ DefaultBars \in Nat /\ CollectFrom \in Int
  BY DEF PairTypes, PairIsSensible
<1>s. ASSUME source' = source PROVE Pair!Stored' = Pair!Stored
  BY <1>s DEF Pair!Stored, Pair!Period
<1>1. CASE Pair!PeriodCloses
  <2>1. /\ period' = period + 1 /\ period < LastPeriod
        /\ source' = source /\ pc' = pc /\ nested' = nested /\ link' = link
        /\ moment' = moment /\ heard' = heard /\ bars' = bars /\ page' = page
        /\ inbox' = inbox \/ inbox' = Append(inbox, period + 1)
    BY <1>1 DEF Pair!PeriodCloses, Pair!fill
  <2>2. inbox \in Seq(0 .. period + 1)
    BY <1>0 DEF PairTypes
  <2>3. inbox' \in Seq(0 .. period')
    BY <1>0, <2>1, <2>2
  <2>s. Pair!Stored' = Pair!Stored
    BY <1>s, <2>1
  <2> QED BY <1>0, <2>s, <2>1, <2>3 DEF PairTypes
<1>2. ASSUME NEW raised \in BOOLEAN, Pair!FeedBreaks(raised) PROVE PairTypes'
  <2>1. /\ period' = period
        /\ source' = source /\ pc' = pc /\ nested' = nested /\ link' = link
        /\ moment' = moment /\ heard' = heard /\ bars' = bars /\ page' = page
        /\ inbox' = inbox \/ inbox' = Append(inbox, 0)
    BY <1>2 DEF Pair!FeedBreaks, Pair!fill
  <2>2. inbox' \in Seq(0 .. period)
    BY <1>0, <2>1, SMTT(20) DEF PairTypes
  <2>s. Pair!Stored' = Pair!Stored
    BY <1>s, <2>1
  <2> QED BY <1>0, <2>s, <2>1, <2>2 DEF PairTypes
<1>3. CASE Pair!FeedConnects
  <2>1. /\ period' = period
        /\ source' = source /\ pc' = pc /\ nested' = nested /\ link' = link
        /\ moment' = moment /\ heard' = heard /\ bars' = bars /\ page' = page
        /\ inbox' = inbox
    BY <1>3 DEF Pair!FeedConnects, Pair!fill
  <2>s. Pair!Stored' = Pair!Stored
    BY <1>s, <2>1
  <2> QED BY <1>0, <2>s, <2>1 DEF PairTypes
<1>4. CASE Pair!SocketDies
  <2>1. /\ period' = period
        /\ source' = source /\ pc' = pc /\ nested' = nested /\ link' = FALSE
        /\ moment' = moment /\ heard' = heard /\ bars' = bars /\ page' = page
        /\ \E n \in 0 .. Len(inbox) : inbox' = SubSeq(inbox, 1, n)
    BY <1>4 DEF Pair!SocketDies, Pair!fill
  <2>2. inbox' \in Seq(0 .. period)
    BY <1>0, <2>1 DEF PairTypes
  <2>s. Pair!Stored' = Pair!Stored
    BY <1>s, <2>1
  <2> QED BY <1>0, <2>s, <2>1, <2>2 DEF PairTypes
<1>5. CASE Pair!MeasureGap
  <2>1. /\ period' = period /\ source' = source /\ nested' = nested /\ link' = link
        /\ moment' = period /\ heard' = period /\ page' = page /\ inbox' = inbox
        /\ bars' = Pair!bars_to_close_gap /\ pc' \in {"listen", "subscribe", "ask"}
    BY <1>5 DEF Pair!MeasureGap, Pair!Leave
  <2>2. Pair!bars_to_close_gap \in Int
    <3>1. Pair!Stored # {} => Pair!Latest \in Int
      <4>1. Pair!Stored \subseteq Int
        BY <1>0 DEF PairTypes
      <4>2. Pair!Stored # {} => Pair!Latest \in Pair!Stored
        BY NewestStored
      <4> QED BY <4>1, <4>2
    <3>2. ASSUME NEW n \in Int PROVE Pair!Clamp(n) \in Int
      BY <1>0 DEF Pair!Clamp
    <3>3. Pair!Min({DefaultBars, Pair!Max({0, period - CollectFrom + 1})}) \in Int
      <4>1. period - CollectFrom + 1 \in Int
        BY <1>0
      <4>2. ASSUME NEW n \in Int PROVE Pair!Max({0, n}) \in Int
        <5>1. 0 \in Int
          OBVIOUS
        <5>2. Pair!Max({0, n}) \in {0, n}
          BY <5>1, LargerOfTwo, Zenon
        <5> QED BY <5>2
      <4>3. ASSUME NEW n \in Int PROVE Pair!Min({DefaultBars, n}) \in Int
        <5>1. DefaultBars \in Int
          BY <1>0
        <5>2. Pair!Min({DefaultBars, n}) \in {DefaultBars, n}
          BY <5>1, SmallerOfTwo, Zenon
        <5> QED BY <5>1, <5>2
      <4> QED BY <4>1, <4>2, <4>3
    <3> QED BY <1>0, <3>1, <3>2, <3>3 DEF Pair!bars_to_close_gap
  <2>s. Pair!Stored' = Pair!Stored
    BY <1>s, <2>1
  <2> QED BY <1>0, <2>s, <2>1, <2>2 DEF PairTypes
<1>6. ASSUME NEW running \in BOOLEAN, NEW n \in 0 .. MaxBars, Pair!Answer(running, n)
      PROVE  PairTypes'
  <2>1. /\ period' = period /\ source' = source /\ nested' = nested /\ link' = link
        /\ moment' = moment /\ heard' = period /\ bars' = bars /\ inbox' = inbox
        /\ pc' = "write" /\ page' \subseteq {i \in 1 .. LastPeriod : i <= period}
    BY <1>6 DEF Pair!Answer, Pair!Newest, Pair!Period
  <2>s. Pair!Stored' = Pair!Stored
    BY <1>s, <2>1
  <2> QED BY <1>0, <2>s, <2>1 DEF PairTypes
<1>7. CASE Pair!AnswerFails \/ Pair!SubscribeFails
  <2>1. /\ period' = period /\ source' = source /\ nested' = nested /\ link' = link
        /\ moment' = moment /\ heard' = heard /\ bars' = bars /\ page' = page
        /\ inbox' = inbox /\ pc' \in {"listen", "subscribe", "measure"}
    BY <1>7 DEF Pair!AnswerFails, Pair!SubscribeFails, Pair!Leave, Pair!fill
  <2>s. Pair!Stored' = Pair!Stored
    BY <1>s, <2>1
  <2> QED BY <1>0, <2>s, <2>1 DEF PairTypes
<1>8. CASE Pair!CommitPage
  <2>1. /\ period' = period /\ nested' = nested /\ link' = link
        /\ source' = [i \in 1 .. LastPeriod |-> IF i \in page THEN "history" ELSE source[i]]
        /\ moment' = moment /\ heard' = heard /\ bars' = bars /\ page' = {}
        /\ inbox' = inbox /\ pc' \in {"listen", "subscribe"}
    BY <1>8 DEF Pair!CommitPage, Pair!Leave, Pair!Period
  <2>2. Pair!Stored' \subseteq Pair!Stored \cup page
    BY <2>1 DEF Pair!Stored, Pair!Period
  <2> QED BY <1>0, <2>1, <2>2 DEF PairTypes
<1>9. ASSUME NEW handed \in BOOLEAN, Pair!Subscribe(handed) PROVE PairTypes'
  <2>1. /\ period' = period /\ source' = source /\ nested' = nested /\ link' = TRUE
        /\ moment' = moment /\ heard' = heard /\ bars' = bars /\ page' = page
        /\ inbox' = <<period>> \/ inbox' = <<>>
        /\ pc' = "listen"
    BY <1>9 DEF Pair!Subscribe, Pair!fill
  <2>2. inbox' \in Seq(0 .. period)
    <3>1. <<period>> \in Seq(0 .. period) /\ <<>> \in Seq(0 .. period)
      BY <1>0
    <3> QED BY <2>1, <3>1
  <2>s. Pair!Stored' = Pair!Stored
    BY <1>s, <2>1
  <2> QED BY <1>0, <2>s, <2>1, <2>2 DEF PairTypes
<1>10. CASE Pair!HearCandle
  <2>1. /\ period' = period /\ nested' = nested /\ link' = link
        /\ inbox # <<>> /\ Head(inbox) # 0
        /\ source' = [source EXCEPT ![Head(inbox)] = IF @ = "history" THEN @ ELSE "stream"]
        /\ moment' = moment /\ heard' = heard /\ bars' = bars /\ page' = page
        /\ inbox' = Tail(inbox) /\ pc' = pc
    BY <1>10 DEF Pair!HearCandle, Pair!StoreClosedCandle, Pair!fill
  <2>2. inbox' \in Seq(0 .. period) /\ Head(inbox) \in 1 .. period
    BY <1>0, <2>1 DEF PairTypes
  <2>3. source' \in [1 .. LastPeriod -> {"none", "stream", "history"}]
    BY <2>1 DEF PairTypes
  <2>4. Pair!Stored' \subseteq Pair!Stored \cup {Head(inbox)}
    BY <2>1 DEF Pair!Stored, Pair!Period, PairTypes
  <2> QED BY <1>0, <2>1, <2>2, <2>3, <2>4 DEF PairTypes
<1>11. CASE Pair!HearFailure
  <2>1. /\ period' = period /\ source' = source /\ nested' = TRUE /\ link' = link
        /\ moment' = moment /\ heard' = heard /\ bars' = bars /\ page' = page
        /\ inbox # <<>> /\ inbox' = Tail(inbox) /\ pc' = "measure"
    BY <1>11 DEF Pair!HearFailure, Pair!fill
  <2>2. inbox' \in Seq(0 .. period)
    BY <1>0, <2>1 DEF PairTypes
  <2>s. Pair!Stored' = Pair!Stored
    BY <1>s, <2>1
  <2> QED BY <1>0, <2>s, <2>1, <2>2 DEF PairTypes
<1>12. CASE Pair!ListenEnds \/ Pair!Interrupted
  <2>1. /\ period' = period /\ source' = source /\ nested' = FALSE /\ link' = FALSE
        /\ moment' = moment /\ heard' = heard /\ bars' = bars /\ page' = {}
        /\ pc' = "measure"
    BY <1>12 DEF Pair!ListenEnds, Pair!Interrupted, Pair!BackToTop
  <2>2. inbox' = <<>>
    BY <1>12 DEF Pair!ListenEnds, Pair!Interrupted, Pair!BackToTop
  <2>3. inbox' \in Seq(0 .. period)
    BY <2>2
  <2>s. Pair!Stored' = Pair!Stored
    BY <1>s, <2>1
  <2> QED BY <1>0, <2>s, <2>1, <2>3 DEF PairTypes
<1> QED BY <1>1, <1>2, <1>3, <1>4, <1>5, <1>6, <1>7, <1>8, <1>9, <1>10, <1>11, <1>12
        DEF Pair!Next, Pair!Task

(* What is stored or on its way.                                           *)
Known == Pair!Stored \cup Told(inbox)

(* Whatever a candle is known after, up to the last stored one, is stored. *)
(* This is the property; the rest is why a step cannot break it.           *)
NoGapBelow ==
  \A j \in Known, k \in Pair!Stored, m \in Market : j < m /\ m < k => m \in Pair!Stored

(* What is known ahead of a candle on its way, or ahead of now while the   *)
(* socket stands, has all that follows it known too: the queue has no gap  *)
(* and lacks nothing that closed.                                          *)
NoGapToCome ==
  \A j \in Known, m \in Market :
    j < m /\ ((\E k \in Told(inbox) : m < k) \/ (link /\ m <= period)) => m \in Known

(* Outside of a nested fill and of listening there is no queue.            *)
HungUp ==
  pc = "subscribe" \/ (pc \in {"measure", "ask", "write"} /\ ~nested)
    => ~link /\ inbox = <<>>

(* When a fill has left for the subscription, nothing is missing up to     *)
(* where it looked.                                                        *)
FilledUp ==
  pc = "subscribe" =>
    \A j \in Pair!Stored, m \in Market : j < m /\ m <= heard => m \in Pair!Stored

(* The request reaches back behind the last stored candle by the overlap,  *)
(* or the first fill of an archive behind whatever is already on its way.  *)
AsksEnough ==
  pc = "ask" =>
    /\ Pair!Stored # {} =>
         \E k \in Pair!Stored :
           (\A q \in Pair!Stored : q <= k) /\ bars >= moment - k + Overlap
    /\ Pair!Stored = {} /\ period = moment /\ Told(inbox) # {} =>
         bars >= moment - CollectFrom + 1

(* The page about to be written has no gap, reaches down to what is stored *)
(* or known, and up to where the queue takes over.                         *)
PageFills ==
  pc = "write" =>
    /\ page \subseteq Market /\ page \subseteq CollectFrom .. heard
    /\ Pair!Stored \subseteq 1 .. heard
    /\ \A j \in page, m \in Market : j < m /\ m <= heard => m \in page
    /\ \A m \in Market :
         /\ m >= 1 /\ m <= heard
         /\ Pair!Stored # {} /\ \A k \in Pair!Stored : k < m
         => m \in page
    /\ Pair!Stored = {} =>
         \A w \in Told(inbox), m \in Market : w < m /\ m <= heard => m \in page
    /\ \A m \in Market :
         heard < m /\ ((\E k \in Told(inbox) : m < k) \/ (link /\ m <= period)) => m \in Known

Orderly ==
  /\ Ascending(inbox) /\ Told(inbox) \subseteq Market
  /\ NoGapBelow /\ NoGapToCome /\ HungUp /\ FilledUp /\ AsksEnough /\ PageFills

(* All of it as long as nothing excuses a hole.                            *)
PairInv == excuse = {} => Orderly

PairFacts == PairIsSensible /\ PairTypes /\ PairInv

(* The facts of the types that every step below uses.                      *)
LEMMA InboxTypes ==
  ASSUME PairIsSensible, PairTypes
  PROVE  /\ inbox \in Seq(Int) /\ Told(inbox) \subseteq 1 .. period
         /\ period \in Nat /\ LastPeriod \in Nat /\ period <= LastPeriod
         /\ Market \subseteq Int /\ Pair!Stored \subseteq 1 .. period
         /\ heard \in 0 .. period /\ moment \in 0 .. period
<1>1. period \in Nat /\ LastPeriod \in Nat /\ Market \subseteq Int /\ period <= LastPeriod
  BY DEF PairTypes, PairIsSensible
<1>2. inbox \in Seq(0 .. period)
  BY DEF PairTypes
<1>3. inbox \in Seq(Int) /\ \A k \in DOMAIN inbox : inbox[k] \in 0 .. period
  BY <1>1, <1>2
<1>4. Told(inbox) \subseteq 1 .. period
  BY <1>1, <1>3 DEF Told
<1> QED BY <1>1, <1>3, <1>4 DEF PairTypes

(* Nothing is stored or known at first.                                    *)
LEMMA PairInvInit == PairIsSensible /\ Pair!Init => PairInv
<1> SUFFICES ASSUME PairIsSensible, Pair!Init PROVE Orderly
  BY DEF PairInv
<1>1. inbox = <<>> /\ pc = "measure" /\ ~link /\ nested = FALSE
  BY DEF Pair!Init
<1>2. Pair!Stored = {}
  BY DEF Pair!Stored, Pair!Period, Pair!Init
<1>3. Told(inbox) = {} /\ Ascending(inbox)
  BY <1>1, ToldEmpty
<1> QED BY <1>1, <1>2, <1>3
        DEF Orderly, Known, NoGapBelow, NoGapToCome, HungUp, FilledUp, AsksEnough, PageFills

(* A period closes while the task is anywhere: the queue grows at its end. *)
LEMMA ClosesKeeps ==
  PairIsSensible /\ PairTypes /\ PairInv /\ Pair!PeriodCloses => PairInv'
<1> SUFFICES ASSUME PairIsSensible, PairTypes, PairInv, Pair!PeriodCloses, excuse' = {}
             PROVE  Orderly'
  BY DEF PairInv
<1>1. /\ period' = period + 1 /\ pc' = pc /\ nested' = nested /\ link' = link
      /\ source' = source /\ moment' = moment /\ heard' = heard /\ bars' = bars /\ page' = page
  BY DEF Pair!PeriodCloses, Pair!fill
<1>2. excuse = {} /\ (period + 1 \in Market /\ link => feed = "connected")
  BY DEF Pair!PeriodCloses
<1>3. IF period + 1 \in Market /\ link
      THEN inbox' = Append(inbox, period + 1) ELSE inbox' = inbox
  BY <1>2 DEF Pair!PeriodCloses
<1>4. Pair!Stored' = Pair!Stored
  BY <1>1 DEF Pair!Stored, Pair!Period
<1>5. Orderly
  BY <1>2 DEF PairInv
<1> DEFINE i == period + 1
           W == IF i \in Market /\ link THEN Told(inbox) \cup {i} ELSE Told(inbox)
<1>6. Told(inbox') = W /\ Ascending(inbox')
  <2>1. \A y \in Told(inbox) : y < i
    BY InboxTypes
  <2>2. CASE i \in Market /\ link
    <3>1. Told(inbox') = Told(inbox) \cup ({i} \ {0}) /\ Ascending(inbox')
      BY <1>3, <1>5, <2>1, <2>2, InboxTypes, ToldAppend DEF Orderly
    <3> QED BY <2>2, <3>1, InboxTypes
  <2>3. CASE ~(i \in Market /\ link)
    BY <1>3, <1>5, <2>3 DEF Orderly
  <2> QED BY <2>2, <2>3
<1>7. Told(inbox) \subseteq W /\ W \subseteq Told(inbox) \cup {i}
      /\ (i \in Market /\ link <=> i \in W) /\ W \subseteq Market
  BY <1>5, InboxTypes DEF Orderly
<1> HIDE DEF W
<1>a. NoGapBelow'
  BY <1>1, <1>4, <1>5, <1>6, <1>7, InboxTypes DEF Orderly, NoGapBelow, Known
<1>b. NoGapToCome'
  BY <1>1, <1>4, <1>5, <1>6, <1>7, InboxTypes DEF Orderly, NoGapToCome, Known
<1>c. HungUp'
  BY <1>1, <1>3, <1>5 DEF Orderly, HungUp
<1>d. FilledUp'
  BY <1>1, <1>4, <1>5 DEF Orderly, FilledUp
<1>e. AsksEnough'
  BY <1>1, <1>4, <1>5, InboxTypes DEF Orderly, AsksEnough
<1>f. PageFills'
  BY <1>1, <1>4, <1>5, <1>6, <1>7, InboxTypes, SMTT(20) DEF Orderly, PageFills, Known
<1> QED BY <1>6, <1>7, <1>a, <1>b, <1>c, <1>d, <1>e, <1>f DEF Orderly

(* What the gateway says of its connection is no candle.                   *)
LEMMA FeedKeeps ==
  ASSUME NEW raised \in BOOLEAN
  PROVE  PairIsSensible /\ PairTypes /\ PairInv /\ (Pair!FeedBreaks(raised) \/ Pair!FeedConnects)
           => PairInv'
<1> SUFFICES ASSUME PairIsSensible, PairTypes, PairInv, excuse' = {},
                    Pair!FeedBreaks(raised) \/ Pair!FeedConnects
             PROVE  Orderly'
  BY DEF PairInv
<1>1. /\ period' = period /\ pc' = pc /\ nested' = nested /\ link' = link
      /\ source' = source /\ moment' = moment /\ heard' = heard /\ bars' = bars /\ page' = page
      /\ inbox' = inbox \/ (link /\ inbox' = Append(inbox, 0))
      /\ excuse = {}
  BY DEF Pair!FeedBreaks, Pair!FeedConnects, Pair!fill
<1>2. Pair!Stored' = Pair!Stored
  BY <1>1 DEF Pair!Stored, Pair!Period
<1>3. Orderly
  BY <1>1 DEF PairInv
<1>4. Told(inbox') = Told(inbox) /\ Ascending(inbox')
  <2>1. CASE inbox' = inbox
    BY <1>3, <2>1 DEF Orderly
  <2>2. CASE inbox' = Append(inbox, 0)
    <3>1. Told(Append(inbox, 0)) = Told(inbox) \cup ({0} \ {0}) /\ Ascending(Append(inbox, 0))
      BY <1>3, InboxTypes, ToldAppend DEF Orderly
    <3> QED BY <2>2, <3>1
  <2> QED BY <1>1, <2>1, <2>2
<1>a. NoGapBelow' /\ NoGapToCome'
  BY <1>1, <1>2, <1>3, <1>4 DEF Orderly, NoGapBelow, NoGapToCome, Known
<1>b. HungUp' /\ FilledUp'
  BY <1>1, <1>2, <1>3 DEF Orderly, HungUp, FilledUp
<1>c. AsksEnough'
  BY <1>1, <1>2, <1>3, <1>4 DEF Orderly, AsksEnough
<1>d. PageFills'
  BY <1>1, <1>2, <1>3, <1>4 DEF Orderly, PageFills, Known
<1> QED BY <1>3, <1>4, <1>a, <1>b, <1>c, <1>d DEF Orderly

(* A lost socket cuts the queue at its end.                                *)
LEMMA SocketDiesKeeps ==
  PairIsSensible /\ PairTypes /\ PairInv /\ Pair!SocketDies => PairInv'
<1> SUFFICES ASSUME PairIsSensible, PairTypes, PairInv, Pair!SocketDies, excuse' = {}
             PROVE  Orderly'
  BY DEF PairInv
<1>1. /\ period' = period /\ pc' = pc /\ nested' = nested /\ link /\ ~link'
      /\ source' = source /\ moment' = moment /\ heard' = heard /\ bars' = bars /\ page' = page
      /\ excuse = {} /\ \E n \in 0 .. Len(inbox) : inbox' = SubSeq(inbox, 1, n)
  BY DEF Pair!SocketDies, Pair!fill
<1>2. Pair!Stored' = Pair!Stored
  BY <1>1 DEF Pair!Stored, Pair!Period
<1>3. Orderly
  BY <1>1 DEF PairInv
<1>4. /\ Told(inbox') \subseteq Told(inbox) /\ Ascending(inbox')
      /\ \A y \in Told(inbox'), z \in Told(inbox) \ Told(inbox') : y < z
  BY <1>1, <1>3, InboxTypes, ToldStart DEF Orderly
<1>a. NoGapBelow'
  BY <1>1, <1>2, <1>3, <1>4 DEF Orderly, NoGapBelow, Known
<1>b. ASSUME NEW m \in Market, NEW k \in Told(inbox'), m < k, m \in Known PROVE m \in Known'
  BY <1>2, <1>4, <1>b, InboxTypes DEF Known
<1>c. NoGapToCome'
  BY <1>1, <1>2, <1>3, <1>4, <1>b DEF Orderly, NoGapToCome, Known
<1>d. HungUp' /\ FilledUp'
  BY <1>1, <1>2, <1>3 DEF Orderly, HungUp, FilledUp
<1>e. AsksEnough'
  BY <1>1, <1>2, <1>3, <1>4 DEF Orderly, AsksEnough
<1>f. PageFills'
  BY <1>1, <1>2, <1>3, <1>4, <1>b DEF Orderly, PageFills
<1> QED BY <1>3, <1>4, <1>a, <1>c, <1>d, <1>e, <1>f DEF Orderly

(* bars_to_close_gap asks for enough, unless FallsShort says it does not.  *)
LEMMA MeasureKeeps ==
  PairIsSensible /\ PairTypes /\ PairInv /\ Pair!MeasureGap => PairInv'
<1> SUFFICES ASSUME PairIsSensible, PairTypes, PairInv, Pair!MeasureGap, excuse' = {}
             PROVE  Orderly'
  BY DEF PairInv
<1>1. /\ pc = "measure" /\ period' = period /\ nested' = nested /\ link' = link
      /\ source' = source /\ moment' = period /\ heard' = period
      /\ bars' = Pair!bars_to_close_gap /\ inbox' = inbox
      /\ IF bars' = 0 THEN pc' = IF nested THEN "listen" ELSE "subscribe" ELSE pc' = "ask"
  BY DEF Pair!MeasureGap, Pair!Leave
<1>2. excuse = {} /\ ~Pair!FallsShort
  BY DEF Pair!MeasureGap
<1>3. Pair!Stored' = Pair!Stored
  BY <1>1 DEF Pair!Stored, Pair!Period
<1>4. Orderly
  BY <1>2 DEF PairInv
<1>5. /\ MaxBars \in Nat /\ Overlap \in Nat /\ CollectFrom \in Int
      /\ period \in Nat /\ Pair!Stored \subseteq 1 .. period /\ Market \subseteq Int
  BY InboxTypes DEF PairIsSensible
<1>6. Pair!Stored # {} =>
        /\ Pair!Latest \in Pair!Stored /\ \A q \in Pair!Stored : q <= Pair!Latest
        /\ Pair!bars_to_close_gap = IF period - Pair!Latest <= 0 THEN 0
                                    ELSE period - Pair!Latest + Overlap
  <2> SUFFICES ASSUME Pair!Stored # {}
               PROVE  /\ Pair!Latest \in Pair!Stored /\ \A q \in Pair!Stored : q <= Pair!Latest
                      /\ Pair!bars_to_close_gap = IF period - Pair!Latest <= 0 THEN 0
                                                  ELSE period - Pair!Latest + Overlap
    OBVIOUS
  <2>a. Pair!Latest \in Pair!Stored /\ \A q \in Pair!Stored : q <= Pair!Latest
    BY NewestStored
  <2>1. /\ Pair!Latest \in Pair!Stored /\ \A q \in Pair!Stored : q <= Pair!Latest
        /\ Pair!Latest \in Int
    BY <1>5, <2>a
  <2>2. period - Pair!Latest + Overlap <= MaxBars
    BY <1>2, <1>5, <2>1 DEF Pair!FallsShort
  <2>3. Pair!Clamp(period - Pair!Latest + Overlap) = period - Pair!Latest + Overlap
    BY <1>5, <2>1, <2>2 DEF Pair!Clamp
  <2> QED BY <2>1, <2>3 DEF Pair!bars_to_close_gap
<1>a. Ascending(inbox') /\ Told(inbox') \subseteq Market /\ NoGapBelow' /\ NoGapToCome'
  BY <1>1, <1>3, <1>4 DEF Orderly, NoGapBelow, NoGapToCome, Known
<1>b. HungUp'
  BY <1>1, <1>4 DEF Orderly, HungUp
<1>c. FilledUp'
  <2> SUFFICES ASSUME pc' = "subscribe", NEW j \in Pair!Stored, NEW m \in Market,
                      j < m, m <= period
               PROVE  m \in Pair!Stored
    BY <1>1, <1>3 DEF FilledUp
  <2>1. bars' = 0
    BY <1>1
  <2>2. Pair!Latest \in Pair!Stored /\ period <= Pair!Latest /\ Pair!Latest <= period
    <3>1. Pair!Latest \in Pair!Stored /\ Pair!Latest \in 1 .. period
      BY <1>5, <1>6
    <3>2. 0 = IF period - Pair!Latest <= 0 THEN 0 ELSE period - Pair!Latest + Overlap
      BY <1>1, <1>6, <2>1
    <3> QED BY <1>5, <3>1, <3>2
  <2>3. m = Pair!Latest \/ m < Pair!Latest
    BY <1>5, <2>2
  <2> QED BY <1>4, <2>2, <2>3 DEF Orderly, NoGapBelow, Known
<1>d. AsksEnough'
  <2> SUFFICES ASSUME pc' = "ask" PROVE AsksEnough'
    BY DEF AsksEnough
  <2>1. bars' # 0
    BY <1>1
  <2>2. Pair!Stored # {} => bars' >= moment' - Pair!Latest + Overlap
    <3> SUFFICES ASSUME Pair!Stored # {} PROVE bars' >= moment' - Pair!Latest + Overlap
      OBVIOUS
    <3>1. Pair!Latest \in 1 .. period
      BY <1>5, <1>6
    <3>2. bars' = IF period - Pair!Latest <= 0 THEN 0 ELSE period - Pair!Latest + Overlap
      BY <1>1, <1>6
    <3>3. bars' = period - Pair!Latest + Overlap
      BY <2>1, <3>2
    <3> QED BY <1>1, <1>5, <3>1, <3>3
  <2>3. Pair!Stored = {} /\ Told(inbox) # {} => bars' >= moment' - CollectFrom + 1
    <3>1. Pair!bars_to_close_gap \in Int
      BY <1>1, PairTypesStep DEF PairTypes, Pair!Next, Pair!Task
    <3> QED BY <1>1, <1>2, <1>5, <3>1 DEF Pair!FallsShort, Pair!Waiting, Told
  <2> QED BY <1>1, <1>3, <1>6, <2>2, <2>3 DEF AsksEnough
<1>e. PageFills'
  BY <1>1 DEF PageFills
<1> QED BY <1>a, <1>b, <1>c, <1>d, <1>e DEF Orderly

(* The candles an answer counts from period i on.                          *)
CandlesUpTo(newest, i) == {j \in Market : i <= j /\ j <= newest}

LEMMA CandlesBounded ==
  ASSUME Market \subseteq Int, NEW n \in Int, NEW i \in Int, i <= n + 1
  PROVE  /\ IsFiniteSet(CandlesUpTo(n, i)) /\ Cardinality(CandlesUpTo(n, i)) <= n - i + 1
         /\ Cardinality(CandlesUpTo(n, i)) \in Nat
<1>1. IsFiniteSet(i .. n) /\ Cardinality(i .. n) = n - i + 1
  <2>1. IsFiniteSet(i .. n) /\ Cardinality(i .. n) = IF i > n THEN 0 ELSE n - i + 1
    BY FS_Interval
  <2>2. i > n => n - i + 1 = 0
    OBVIOUS
  <2> QED BY <2>1, <2>2
<1>2. CandlesUpTo(n, i) \in SUBSET (i .. n)
  <2>1. \A j \in CandlesUpTo(n, i) : j \in Int /\ i <= j /\ j <= n
    BY DEF CandlesUpTo
  <2>2. \A j \in CandlesUpTo(n, i) : j \in i .. n
    BY <2>1
  <2> QED BY <2>2
<1>3. IsFiniteSet(CandlesUpTo(n, i)) /\ Cardinality(CandlesUpTo(n, i)) <= Cardinality(i .. n)
  BY <1>1, <1>2, FS_Subset
<1>4. Cardinality(CandlesUpTo(n, i)) \in Nat
  BY <1>3, FS_CardinalityType
<1> QED BY <1>1, <1>3, <1>4

(* An answer that was not slow reaches as far as the request was meant to. *)
LEMMA AnswerKeeps ==
  ASSUME NEW running \in BOOLEAN, NEW few \in 0 .. MaxBars
  PROVE  PairIsSensible /\ PairTypes /\ PairInv /\ Pair!Answer(running, few) => PairInv'
<1> SUFFICES ASSUME PairIsSensible, PairTypes, PairInv, Pair!Answer(running, few), excuse' = {}
             PROVE  Orderly'
  BY DEF PairInv
<1> DEFINE n == IF running THEN period + 1 ELSE period
<1>1. /\ pc = "ask" /\ period' = period /\ pc' = "write" /\ link' = link
      /\ source' = source /\ heard' = period /\ inbox' = inbox
  BY DEF Pair!Answer
<1>2. page' = {i \in (1 .. LastPeriod) \cap Market :
                 /\ i <= period /\ CollectFrom <= i
                 /\ Pair!Cardinality({j \in Market : i <= j /\ j <= n}) <= bars}
  <2>1. page' = Pair!Newest(bars, running)
    BY DEF Pair!Answer
  <2> QED BY <2>1 DEF Pair!Newest, Pair!Period
<1>3. page' = {i \in (1 .. LastPeriod) \cap Market :
                 i <= period /\ CollectFrom <= i /\ Cardinality(CandlesUpTo(n, i)) <= bars}
  BY <1>2, SizeOfInstance DEF CandlesUpTo
<1>4. excuse = {} /\ period < moment + (IF Pair!Stored = {} THEN 1 ELSE Overlap)
  <2>1. excuse = {} /\ ~(period >= moment + (IF Pair!Stored = {} THEN 1 ELSE Overlap))
    BY DEF Pair!Answer
  <2> QED BY <2>1, InboxTypes DEF PairIsSensible
<1>5. Pair!Stored' = Pair!Stored
  BY <1>1 DEF Pair!Stored, Pair!Period
<1>6. Orderly
  BY <1>4 DEF PairInv
<1>7. /\ period \in Nat /\ moment \in 0 .. period /\ period <= LastPeriod /\ LastPeriod \in Nat
      /\ Market \subseteq Int /\ n \in Int /\ period <= n /\ n <= period + 1
      /\ Pair!Stored \subseteq 1 .. period /\ Told(inbox) \subseteq 1 .. period
      /\ CollectFrom \in Int /\ CollectFrom <= 1 /\ Overlap \in Nat /\ bars \in Int
  BY InboxTypes DEF PairIsSensible, PairTypes
<1> HIDE DEF n
<1>8. ASSUME NEW m \in Market, 1 <= m, m <= period,
             Cardinality(CandlesUpTo(n, m)) <= bars
      PROVE  m \in page'
  BY <1>3, <1>7, <1>8
<1>9. ASSUME NEW m \in Market, 1 <= m, m <= period, period + 2 - m <= bars
      PROVE  m \in page'
  <2>1. Cardinality(CandlesUpTo(n, m)) <= n - m + 1 /\ Cardinality(CandlesUpTo(n, m)) \in Nat
    <3>1. m \in Int /\ m <= n + 1
      BY <1>7, <1>9
    <3> QED BY <1>7, <3>1, CandlesBounded
  <2> QED BY <1>7, <1>8, <1>9, <2>1
<1>a. page' \subseteq Market /\ page' \subseteq CollectFrom .. period
  BY <1>3, <1>7
<1>b. ASSUME NEW j \in page', NEW m \in Market, j < m, m <= period PROVE m \in page'
  <2>1. j \in 1 .. period /\ j \in Market /\ Cardinality(CandlesUpTo(n, j)) <= bars
    BY <1>3, <1>7
  <2>2. CandlesUpTo(n, m) \in SUBSET CandlesUpTo(n, j)
    <3>1. ASSUME NEW q \in CandlesUpTo(n, m) PROVE q \in CandlesUpTo(n, j)
      <4>1. q \in Market /\ m <= q /\ q <= n
        BY DEF CandlesUpTo
      <4>2. j <= q
        BY <1>7, <1>b, <2>1, <4>1
      <4> QED BY <4>1, <4>2 DEF CandlesUpTo
    <3> QED BY <3>1
  <2>3. IsFiniteSet(CandlesUpTo(n, j)) /\ Cardinality(CandlesUpTo(n, j)) \in Nat
    BY <1>7, <2>1, CandlesBounded
  <2>4. Cardinality(CandlesUpTo(n, m)) <= Cardinality(CandlesUpTo(n, j))
    BY <2>2, <2>3, FS_Subset
  <2>5. Cardinality(CandlesUpTo(n, m)) \in Nat
    BY <1>7, <1>b, <2>1, CandlesBounded
  <2>6. Cardinality(CandlesUpTo(n, m)) <= bars
    BY <1>7, <2>1, <2>3, <2>4, <2>5
  <2>7. 1 <= m
    BY <1>7, <1>b, <2>1
  <2> QED BY <1>8, <1>b, <2>6, <2>7
<1>c. ASSUME NEW m \in Market, 1 <= m, m <= period, Pair!Stored # {},
             \A k \in Pair!Stored : k < m
      PROVE  m \in page'
  <2>1. PICK k \in Pair!Stored : bars >= moment - k + Overlap
    BY <1>1, <1>6, <1>c DEF Orderly, AsksEnough
  <2>2. k \in Int /\ k + 1 <= m
    BY <1>7, <1>c
  <2>3. period + 1 <= moment + Overlap
    BY <1>4, <1>7, <1>c
  <2> QED BY <1>7, <1>9, <1>c, <2>1, <2>2, <2>3
<1>d. ASSUME Pair!Stored = {}, NEW w \in Told(inbox), NEW m \in Market, w < m, m <= period
      PROVE  m \in page'
  <2>1. period = moment
    BY <1>4, <1>7, <1>d
  <2>2. bars >= moment - CollectFrom + 1
    BY <1>1, <1>6, <1>d, <2>1 DEF Orderly, AsksEnough
  <2>3. w >= 1 /\ m >= 2
    BY <1>7, <1>d
  <2> QED BY <1>7, <1>9, <1>d, <2>1, <2>2, <2>3
<1>e. ASSUME NEW m \in Market, period < m
      PROVE  ~(\E k \in Told(inbox) : m < k) /\ ~(m <= period)
  BY <1>7, <1>e
<1>f. PageFills'
  BY <1>1, <1>5, <1>7, <1>a, <1>b, <1>c, <1>d, <1>e DEF PageFills
<1>g. /\ Ascending(inbox') /\ Told(inbox') \subseteq Market /\ NoGapBelow' /\ NoGapToCome'
      /\ FilledUp' /\ AsksEnough'
  BY <1>1, <1>5, <1>6 DEF Orderly, NoGapBelow, NoGapToCome, FilledUp, AsksEnough, Known
<1>h. HungUp'
  <2>1. nested' = nested
    BY DEF Pair!Answer
  <2> QED BY <1>1, <1>6, <2>1 DEF Orderly, HungUp
<1> QED BY <1>f, <1>g, <1>h DEF Orderly

(* The page joins what is stored to the queue.                             *)
LEMMA CommitKeeps ==
  PairIsSensible /\ PairTypes /\ PairInv /\ Pair!CommitPage => PairInv'
<1> SUFFICES ASSUME PairIsSensible, PairTypes, PairInv, Pair!CommitPage, excuse' = {}
             PROVE  Orderly'
  BY DEF PairInv
<1>1. /\ pc = "write" /\ period' = period /\ nested' = nested /\ link' = link
      /\ source' = [i \in 1 .. LastPeriod |-> IF i \in page THEN "history" ELSE source[i]]
      /\ heard' = heard /\ inbox' = inbox /\ excuse = {}
      /\ pc' = IF nested THEN "listen" ELSE "subscribe"
  BY DEF Pair!CommitPage, Pair!Leave, Pair!Period
<1>2. /\ period \in Nat /\ period <= LastPeriod /\ LastPeriod \in Nat /\ heard \in 0 .. period
      /\ Market \subseteq Int /\ Pair!Stored \subseteq 1 .. period
      /\ Told(inbox) \subseteq 1 .. period /\ page \subseteq 1 .. period
  BY InboxTypes DEF PairTypes
<1>3. Pair!Stored' = Pair!Stored \cup page
  <2>1. page \subseteq 1 .. LastPeriod
    BY <1>2
  <2> QED BY <1>1, <2>1 DEF Pair!Stored, Pair!Period
<1>4. Orderly
  BY <1>1 DEF PairInv
<1>5. /\ page \subseteq Market /\ page \subseteq CollectFrom .. heard
      /\ Pair!Stored \subseteq 1 .. heard
      /\ \A j \in page, m \in Market : j < m /\ m <= heard => m \in page
      /\ Pair!Stored = {} =>
           \A w \in Told(inbox), m \in Market : w < m /\ m <= heard => m \in page
      /\ \A m \in Market :
           heard < m /\ ((\E k \in Told(inbox) : m < k) \/ (link /\ m <= period)) => m \in Known
  BY <1>1, <1>4 DEF Orderly, PageFills
<1>6. ASSUME NEW m \in Market, 1 <= m, m <= heard, Pair!Stored # {},
             \A k \in Pair!Stored : k < m
      PROVE  m \in page
  BY <1>1, <1>4, <1>6 DEF Orderly, PageFills
<1>7. ASSUME NEW j \in Known, NEW m \in Market, j < m, m <= heard
      PROVE  m \in Pair!Stored \cup page
  <2>1. j \in 1 .. period /\ m \in Int /\ 1 <= m
    BY <1>2, <1>7 DEF Known
  <2>2. CASE Pair!Stored = {}
    BY <1>5, <1>7, <2>2 DEF Known
  <2>3. CASE Pair!Stored # {} /\ \A k \in Pair!Stored : k < m
    BY <1>6, <1>7, <2>1, <2>3
  <2>4. CASE \E k \in Pair!Stored : ~(k < m)
    <3>1. PICK k \in Pair!Stored : ~(k < m)
      BY <2>4
    <3>2. m = k \/ m < k
      BY <1>2, <2>1, <3>1
    <3> QED BY <1>4, <1>7, <3>1, <3>2 DEF Orderly, NoGapBelow
  <2> QED BY <2>2, <2>3, <2>4
<1>8. ASSUME NEW j \in page, NEW m \in Market, j < m, m <= heard
      PROVE  m \in Pair!Stored \cup page
  BY <1>5, <1>8
<1>a. NoGapBelow'
  <2> SUFFICES ASSUME NEW j \in Known \cup page, NEW k \in Pair!Stored \cup page,
                      NEW m \in Market, j < m, m < k
               PROVE  m \in Pair!Stored \cup page
    BY <1>1, <1>3 DEF NoGapBelow, Known
  <2>1. k \in Int /\ k <= heard /\ m \in Int /\ heard \in Int
    BY <1>2, <1>5
  <2>2. m <= heard
    BY <2>1
  <2> QED BY <1>7, <1>8, <2>2
<1>b. NoGapToCome'
  <2> SUFFICES ASSUME NEW j \in Known \cup page, NEW m \in Market, j < m,
                      (\E k \in Told(inbox) : m < k) \/ (link /\ m <= period)
               PROVE  m \in Known \cup page
    BY <1>1, <1>3 DEF NoGapToCome, Known
  <2>1. CASE m <= heard
    BY <1>7, <1>8, <2>1 DEF Known
  <2>2. CASE heard < m
    BY <1>5, <2>2
  <2> QED BY <1>2, <2>1, <2>2
<1>c. FilledUp'
  BY <1>1, <1>3, <1>7, <1>8 DEF FilledUp, Known
<1>d. HungUp'
  BY <1>1, <1>4 DEF Orderly, HungUp
<1>e. AsksEnough' /\ PageFills'
  BY <1>1 DEF AsksEnough, PageFills
<1> QED BY <1>1, <1>4, <1>a, <1>b, <1>c, <1>d, <1>e DEF Orderly

(* Nothing closed between the fill and the subscription, or it is handed.  *)
LEMMA SubscribeKeeps ==
  ASSUME NEW handed \in BOOLEAN
  PROVE  PairIsSensible /\ PairTypes /\ PairInv /\ Pair!Subscribe(handed) => PairInv'
<1> SUFFICES ASSUME PairIsSensible, PairTypes, PairInv, Pair!Subscribe(handed), excuse' = {}
             PROVE  Orderly'
  BY DEF PairInv
<1>1. /\ pc = "subscribe" /\ period' = period /\ link' = TRUE /\ pc' = "listen"
      /\ source' = source /\ heard' = heard
      /\ inbox' = IF handed THEN <<period>> ELSE <<>>
      /\ handed => period \in Market
  BY DEF Pair!Subscribe, Pair!fill
<1>2. excuse = {} /\ \A i \in Market : heard < i /\ i <= period => handed /\ i = period
  BY DEF Pair!Subscribe
<1>3. Pair!Stored' = Pair!Stored
  BY <1>1 DEF Pair!Stored, Pair!Period
<1>4. Orderly
  BY <1>2 DEF PairInv
<1>5. /\ period \in Nat /\ heard \in 0 .. period /\ Market \subseteq Int
      /\ Pair!Stored \subseteq 1 .. period
  BY InboxTypes
<1>6. Told(inbox') = (IF handed THEN {period} \ {0} ELSE {}) /\ Ascending(inbox')
  <2>1. CASE handed
    <3>1. inbox' = <<period>> /\ period \in Int
      BY <1>1, <1>5, <2>1
    <3>2. Told(<<period>>) = {period} \ {0} /\ Ascending(<<period>>)
      BY <3>1, ToldOne
    <3> QED BY <2>1, <3>1, <3>2
  <2>2. CASE ~handed
    BY <1>1, <2>2, ToldEmpty
  <2> QED BY <2>1, <2>2
<1>7. Told(inbox') \subseteq {period} /\ Told(inbox') \subseteq Market
      /\ (handed /\ period # 0 => period \in Told(inbox'))
  BY <1>1, <1>6
<1>8. \A j \in Pair!Stored, m \in Market : j < m /\ m <= heard => m \in Pair!Stored
  BY <1>1, <1>4 DEF Orderly, FilledUp
<1>a. NoGapBelow'
  <2> SUFFICES ASSUME NEW j \in Pair!Stored \cup {period}, NEW k \in Pair!Stored,
                      NEW m \in Market, j < m, m < k
               PROVE  m \in Pair!Stored
    BY <1>3, <1>7 DEF NoGapBelow, Known
  <2>1. j \in Pair!Stored
    BY <1>5
  <2> QED BY <1>4, <2>1 DEF Orderly, NoGapBelow, Known
<1>b. NoGapToCome'
  <2> SUFFICES ASSUME NEW j \in Pair!Stored \cup {period}, NEW m \in Market, j < m, m <= period
               PROVE  m \in Pair!Stored \cup Told(inbox')
    <3>1. \A m \in Market : (\E k \in Told(inbox') : m < k) => m <= period
      BY <1>5, <1>7
    <3> QED BY <1>1, <1>3, <1>7, <3>1 DEF NoGapToCome, Known
  <2>1. j \in Pair!Stored /\ m \in Int /\ m # 0
    BY <1>5
  <2>2. CASE m <= heard
    BY <1>8, <2>1, <2>2
  <2>3. CASE heard < m
    BY <1>2, <1>7, <2>1, <2>3
  <2> QED BY <1>5, <2>1, <2>2, <2>3
<1>c. HungUp' /\ FilledUp' /\ AsksEnough' /\ PageFills'
  BY <1>1 DEF HungUp, FilledUp, AsksEnough, PageFills
<1> QED BY <1>6, <1>7, <1>a, <1>b, <1>c DEF Orderly

(* The head of the queue is the next candle to store.                      *)
LEMMA HearKeeps ==
  PairIsSensible /\ PairTypes /\ PairInv /\ Pair!HearCandle => PairInv'
<1> SUFFICES ASSUME PairIsSensible, PairTypes, PairInv, Pair!HearCandle, excuse' = {}
             PROVE  Orderly'
  BY DEF PairInv
<1> DEFINE h == Head(inbox)
<1>1. /\ pc = "listen" /\ period' = period /\ link' = link /\ pc' = pc
      /\ inbox # <<>> /\ h # 0 /\ inbox' = Tail(inbox) /\ excuse = {}
      /\ source' = [source EXCEPT ![h] = IF @ = "history" THEN @ ELSE "stream"]
  BY DEF Pair!HearCandle, Pair!StoreClosedCandle
<1>2. /\ period \in Nat /\ period <= LastPeriod /\ LastPeriod \in Nat /\ Market \subseteq Int
      /\ Pair!Stored \subseteq 1 .. period /\ Told(inbox) \subseteq 1 .. period
  BY InboxTypes
<1>3. Orderly
  BY <1>1 DEF PairInv
<1>4. /\ Told(inbox) = Told(inbox') \cup {h} /\ h \in Int /\ Ascending(inbox')
      /\ \A y \in Told(inbox') : h < y
  <2>1. /\ h \in Int /\ Told(inbox) = Told(Tail(inbox)) \cup ({h} \ {0})
        /\ Ascending(Tail(inbox)) /\ \A y \in Told(Tail(inbox)) : h < y
    BY <1>1, <1>3, InboxTypes, ToldTail DEF Orderly
  <2> QED BY <1>1, <2>1
<1> HIDE DEF h
<1>5. Pair!Stored' = Pair!Stored \cup {h}
  <2>1. h \in 1 .. LastPeriod
    BY <1>2, <1>4
  <2>2. source \in [1 .. LastPeriod -> {"none", "stream", "history"}]
    BY DEF PairTypes
  <2> QED BY <1>1, <2>1, <2>2 DEF Pair!Stored, Pair!Period
<1>6. Known' = Known
  BY <1>4, <1>5 DEF Known
<1>a. NoGapBelow'
  <2> SUFFICES ASSUME NEW j \in Known, NEW k \in Pair!Stored \cup {h}, NEW m \in Market,
                      j < m, m < k
               PROVE  m \in Pair!Stored \cup {h}
    BY <1>5, <1>6 DEF NoGapBelow
  <2>1. CASE k \in Pair!Stored
    BY <1>3, <2>1 DEF Orderly, NoGapBelow
  <2>2. CASE k = h
    <3>1. m \in Known
      BY <1>3, <1>4, <2>2 DEF Orderly, NoGapToCome
    <3>2. m \notin Told(inbox')
      BY <1>2, <1>4, <2>2
    <3> QED BY <1>4, <3>1, <3>2 DEF Known
  <2> QED BY <2>1, <2>2
<1>b. NoGapToCome'
  BY <1>1, <1>3, <1>4, <1>6 DEF Orderly, NoGapToCome
<1>c. HungUp' /\ FilledUp' /\ AsksEnough' /\ PageFills'
  BY <1>1 DEF HungUp, FilledUp, AsksEnough, PageFills
<1> QED BY <1>3, <1>4, <1>a, <1>b, <1>c DEF Orderly

(* A failure that is reported, and a subscription that was refused, change *)
(* where the task is and nothing it knows.                                 *)
LEMMA FailureKeeps ==
  PairIsSensible /\ PairTypes /\ PairInv /\ (Pair!HearFailure \/ Pair!SubscribeFails) => PairInv'
<1> SUFFICES ASSUME PairIsSensible, PairTypes, PairInv, excuse' = {},
                    Pair!HearFailure \/ Pair!SubscribeFails
             PROVE  Orderly'
  BY DEF PairInv
<1>1. /\ period' = period /\ link' = link /\ source' = source /\ pc' = "measure" /\ excuse = {}
      /\ \/ nested' = TRUE /\ inbox # <<>> /\ Head(inbox) = 0 /\ inbox' = Tail(inbox)
         \/ pc = "subscribe" /\ inbox' = inbox
  BY DEF Pair!HearFailure, Pair!SubscribeFails, Pair!fill
<1>2. Pair!Stored' = Pair!Stored
  BY <1>1 DEF Pair!Stored, Pair!Period
<1>3. Orderly
  BY <1>1 DEF PairInv
<1>4. Told(inbox') = Told(inbox) /\ Ascending(inbox')
  <2>1. CASE inbox # <<>> /\ Head(inbox) = 0 /\ inbox' = Tail(inbox)
    BY <1>3, <2>1, InboxTypes, ToldTail, SMTT(20) DEF Orderly
  <2>2. CASE inbox' = inbox
    BY <1>3, <2>2 DEF Orderly
  <2> QED BY <1>1, <2>1, <2>2
<1>a. NoGapBelow' /\ NoGapToCome'
  BY <1>1, <1>2, <1>3, <1>4 DEF Orderly, NoGapBelow, NoGapToCome, Known
<1>b. HungUp' /\ FilledUp' /\ AsksEnough' /\ PageFills'
  BY <1>1, <1>3 DEF Orderly, HungUp, FilledUp, AsksEnough, PageFills
<1> QED BY <1>3, <1>4, <1>a, <1>b DEF Orderly

(* The way back to the top gives the queue up.                             *)
LEMMA EndKeeps ==
  PairIsSensible /\ PairTypes /\ PairInv /\ (Pair!ListenEnds \/ Pair!Interrupted) => PairInv'
<1> SUFFICES ASSUME PairIsSensible, PairTypes, PairInv, excuse' = {},
                    Pair!ListenEnds \/ Pair!Interrupted
             PROVE  Orderly'
  BY DEF PairInv
<1>1. /\ period' = period /\ link' = FALSE /\ source' = source /\ pc' = "measure" /\ excuse = {}
      /\ inbox' = <<>>
  BY DEF Pair!ListenEnds, Pair!Interrupted, Pair!BackToTop
<1>2. Pair!Stored' = Pair!Stored
  BY <1>1 DEF Pair!Stored, Pair!Period
<1>3. Orderly
  BY <1>1 DEF PairInv
<1>4. Told(inbox') = {} /\ Ascending(inbox')
  BY <1>1, ToldEmpty
<1>a. NoGapBelow' /\ NoGapToCome'
  BY <1>1, <1>2, <1>3, <1>4 DEF Orderly, NoGapBelow, NoGapToCome, Known
<1>b. HungUp' /\ FilledUp' /\ AsksEnough' /\ PageFills'
  BY <1>1 DEF HungUp, FilledUp, AsksEnough, PageFills
<1> QED BY <1>4, <1>a, <1>b DEF Orderly

(* Every step keeps the types and the invariant.                           *)
LEMMA PairInvStep ==
  PairIsSensible /\ PairTypes /\ PairInv /\ [Pair!Next]_(Pair!vars) => PairTypes' /\ PairInv'
<1> SUFFICES ASSUME PairIsSensible, PairTypes, PairInv, [Pair!Next]_(Pair!vars)
             PROVE  PairTypes' /\ PairInv'
  OBVIOUS
<1>1. CASE Pair!Next
  <2>1. PairTypes'
    BY <1>1, PairTypesStep
  <2>2. Pair!AnswerFails => excuse' # {}
    BY DEF Pair!AnswerFails
  <2>3. Pair!AnswerFails => PairInv'
    BY <2>2 DEF PairInv
  <2>4. PairInv'
    BY <1>1, <2>3, ClosesKeeps, FeedKeeps, SocketDiesKeeps, MeasureKeeps, AnswerKeeps,
       CommitKeeps, SubscribeKeeps, HearKeeps, FailureKeeps, EndKeeps
       DEF Pair!Next, Pair!Task
  <2> QED BY <2>1, <2>4
<1>2. CASE UNCHANGED Pair!vars
  <2>1. /\ period' = period /\ source' = source /\ pc' = pc /\ nested' = nested
        /\ moment' = moment /\ bars' = bars /\ page' = page /\ heard' = heard
        /\ link' = link /\ inbox' = inbox /\ excuse' = excuse
    BY <1>2 DEF Pair!vars, Pair!fill
  <2>2. Pair!Stored' = Pair!Stored
    BY <2>1 DEF Pair!Stored, Pair!Period
  <2>3. PairTypes'
    BY <2>1, <2>2 DEF PairTypes
  <2>4. PairInv'
    BY <2>1, <2>2 DEF PairInv, Orderly, NoGapBelow, NoGapToCome, HungUp, FilledUp, AsksEnough,
                     PageFills, Known
  <2> QED BY <2>3, <2>4
<1> QED BY <1>1, <1>2

(* Between two stored candles none is missing or on its way unless one of  *)
(* the named excuses happened (ingest/backfill.py, ingest/live.py), for    *)
(* any market, any default, request and overlap, and any number of periods *)
(* and faults.                                                             *)
THEOREM NoHoleIsUnexcused == PairIsSensible /\ Pair!Spec => []NoHoleUnexcused
<1>1. PairFacts => NoHoleUnexcused
  <2> SUFFICES ASSUME PairIsSensible, PairTypes, PairInv, excuse = {},
                      NEW i \in Market, NEW j \in Pair!Stored, NEW k \in Pair!Stored,
                      j < i, i < k
               PROVE  i \in Pair!Stored
    BY DEF PairFacts, NoHoleUnexcused, Pair!NoHoleUnexcused, Pair!HoleFree
  <2> QED BY DEF PairInv, Orderly, NoGapBelow, Known
<1>2. PairIsSensible /\ Pair!Init => PairFacts
  BY PairTypesInit, PairInvInit DEF PairFacts
<1>3. PairFacts /\ [Pair!Next]_(Pair!vars) => PairFacts'
  BY PairInvStep DEF PairFacts, PairIsSensible
<1> QED BY <1>1, <1>2, <1>3, PTL DEF Pair!Spec

(***************************************************************************)
(* The rooms of one pair.  As long as none was forgotten under somebody,   *)
(* there is one room, everybody is in it or in its queue, and its lock     *)
(* keeps a candle from being stored between a snapshot and its attachment. *)
(***************************************************************************)

(* Ingest is no subscriber.                                                *)
RoomsAreSensible == "ingest" \notin Clients /\ MaxRoom \in Nat /\ MaxCandle \in Nat

(* Who waits for a lock, or holds it; what asking and leaving do to that.  *)
InQueue(p, q) == \E i \in DOMAIN q : q[i] = p

LEMMA QueueAppend ==
  ASSUME NEW A, NEW q \in Seq(A), NEW x \in A
  PROVE  /\ Append(q, x) \in Seq(A) /\ Append(q, x) # <<>>
         /\ q # <<>> => Head(Append(q, x)) = Head(q)
         /\ InQueue(x, Append(q, x))
         /\ \A p : InQueue(p, q) => InQueue(p, Append(q, x))
<1> DEFINE t == Append(q, x)
<1>1. /\ t \in Seq(A) /\ t # <<>> /\ Len(q) \in Nat /\ DOMAIN q = 1 .. Len(q)
      /\ DOMAIN t = 1 .. Len(q) + 1 /\ t[Len(q) + 1] = x
      /\ \A i \in 1 .. Len(q) : t[i] = q[i]
  OBVIOUS
<1>4. q # <<>> => Head(t) = Head(q)
  <2> SUFFICES ASSUME q # <<>> PROVE Head(t) = Head(q)
    OBVIOUS
  <2>1. 1 \in 1 .. Len(q)
    OBVIOUS
  <2>2. t[1] = q[1]
    BY <1>1, <2>1
  <2>3. Head(t) = t[1] /\ Head(q) = q[1]
    BY <1>1
  <2> QED BY <2>2, <2>3
<1> HIDE DEF t
<1>2. InQueue(x, t)
  BY <1>1 DEF InQueue
<1>3. \A p : InQueue(p, q) => InQueue(p, t)
  BY <1>1 DEF InQueue
<1> QED BY <1>1, <1>2, <1>3, <1>4 DEF t

LEMMA QueueTail ==
  ASSUME NEW A, NEW q \in Seq(A), q # <<>>
  PROVE  /\ Tail(q) \in Seq(A) /\ Head(q) \in A
         /\ \A p : InQueue(p, q) => p = Head(q) \/ InQueue(p, Tail(q))
         /\ Len(q) <= 1 => Tail(q) = <<>>
<1> DEFINE t == Tail(q)
           h == Head(q)
<1>1. /\ t \in Seq(A) /\ h \in A /\ h = q[1] /\ Len(q) \in Nat /\ DOMAIN q = 1 .. Len(q)
      /\ DOMAIN t = 1 .. Len(q) - 1 /\ \A i \in 1 .. Len(q) - 1 : t[i] = q[i + 1]
      /\ Len(q) <= 1 => t = <<>>
  OBVIOUS
<1> HIDE DEF t, h
<1>2. ASSUME NEW p, NEW i \in DOMAIN q, q[i] = p, p # h PROVE InQueue(p, t)
  <2>1. i - 1 \in DOMAIN t /\ t[i - 1] = q[(i - 1) + 1] /\ (i - 1) + 1 = i
    BY <1>1, <1>2
  <2> QED BY <1>2, <2>1 DEF InQueue
<1>3. \A p : InQueue(p, q) => p = h \/ InQueue(p, t)
  BY <1>2 DEF InQueue
<1> QED BY <1>1, <1>3 DEF t, h

LEMMA QueueEmpty == \A p : ~InQueue(p, <<>>)
  BY DEF InQueue

(* What is so whether or not a room was split: who is anywhere is at a     *)
(* room; who reads a snapshot holds that room; what is sent is a candle.   *)
Placed ==
  /\ pub.at # "idle" => pub.room \in 1 .. MaxRoom
  /\ \A c \in Clients : client[c].at # "away" => client[c].room \in 1 .. MaxRoom

AttachersHold ==
  \A c \in Clients : client[c].at = "attaching" => Rooms!Holds(c, client[c].room)

SendsACandle == pub.at = "sending" => pub.candle \in stored

(* The candle that the publication under way wrote first, which nobody has *)
(* been sent yet; and what a subscriber of the room has been sent: all but *)
(* that candle and those that nobody published, and nothing unwritten.     *)
BeingSent == IF pub.at = "sending" /\ pub.fresh THEN {pub.candle} ELSE {}

Caught(c) ==
  stored \ (silent \cup BeingSent) \subseteq seenBy[c] /\ seenBy[c] \subseteq stored \ BeingSent

(* As long as no room was split: ingest is in the queue of the room under  *)
(* the key,                                                                *)
IngestInPlace ==
  /\ pub.at # "idle" => pub.room = hub /\ hub \in 1 .. MaxRoom /\ InQueue("ingest", lock[hub])
  /\ pub.at = "sending" => Rooms!Holds("ingest", hub)

(* and so is every handler that waits, reads or leaves; an attached one is *)
(* among the subscribers; one that has read its snapshot misses nothing,   *)
(* as no candle is published meanwhile.                                    *)
ClientsInPlace ==
  \A c \in Clients :
    /\ client[c].at \in {"joining", "attaching", "leaving"} =>
         client[c].room = hub /\ hub \in 1 .. MaxRoom /\ InQueue(c, lock[hub])
    /\ client[c].at = "in" => client[c].room = hub /\ hub \in 1 .. MaxRoom /\ c \in subs[hub]
    /\ client[c].at = "attaching" => Caught(c)

(* No other room has anybody,                                              *)
OthersEmpty == \A r \in 1 .. MaxRoom : r # hub => subs[r] = {} /\ lock[r] = <<>>

(* and the subscribers have all been sent what they should.                *)
SubscribersCaughtUp ==
  hub \in 1 .. MaxRoom =>
    \A c \in subs[hub] : client[c].at \in {"in", "leaving"} /\ Caught(c)

InOneRoom == IngestInPlace /\ ClientsInPlace /\ OthersEmpty /\ SubscribersCaughtUp /\ ~twice

RoomsFacts ==
  /\ RoomsAreSensible /\ Rooms!TypeOK /\ Placed /\ AttachersHold /\ SendsACandle
  /\ ~split => InOneRoom

(* The types of the machine, as the steps below use them.                  *)
LEMMA RoomTypes ==
  ASSUME RoomsFacts
  PROVE  /\ MaxRoom \in Nat /\ MaxCandle \in Nat /\ "ingest" \notin Clients
         /\ stored \subseteq 1 .. MaxCandle /\ silent \subseteq stored /\ hub \in 0 .. MaxRoom
         /\ subs \in [1 .. MaxRoom -> SUBSET Clients]
         /\ lock \in [1 .. MaxRoom -> Seq(Clients \cup {"ingest"})]
         /\ forming \in [1 .. MaxRoom -> BOOLEAN]
         /\ pub \in [at : {"idle", "waiting", "sending"}, room : 0 .. MaxRoom,
                     candle : (1 .. MaxCandle) \cup {0}, fresh : BOOLEAN]
         /\ client \in [Clients -> [at : {"away", "joining", "attaching", "in", "dead", "leaving"},
                                    room : 0 .. MaxRoom]]
         /\ seenBy \in [Clients -> SUBSET (1 .. MaxCandle)]
         /\ twice \in BOOLEAN /\ split \in BOOLEAN
<1>1. MaxRoom \in Nat /\ (1 .. MaxRoom) \cup {0} = 0 .. MaxRoom
  BY DEF RoomsFacts, RoomsAreSensible
<1> QED BY <1>1 DEF RoomsFacts, RoomsAreSensible, Rooms!TypeOK, Rooms!RoomIds, Rooms!NoRoom,
                    Rooms!Actors, Rooms!Ingest, Rooms!Candles

(* Nobody is anywhere at first.                                            *)
LEMMA RoomsInit == RoomsAreSensible /\ Rooms!Init => RoomsFacts
<1> SUFFICES ASSUME RoomsAreSensible, Rooms!Init PROVE RoomsFacts
  OBVIOUS
<1>1. /\ stored = {} /\ silent = {} /\ hub = 0
      /\ pub = [at |-> "idle", room |-> 0, candle |-> 0, fresh |-> FALSE]
      /\ subs = [r \in 1 .. MaxRoom |-> {}] /\ lock = [r \in 1 .. MaxRoom |-> <<>>]
      /\ forming = [r \in 1 .. MaxRoom |-> FALSE]
      /\ client = [c \in Clients |-> [at |-> "away", room |-> 0]]
      /\ seenBy = [c \in Clients |-> {}] /\ twice = FALSE /\ split = FALSE
  BY DEF Rooms!Init, Rooms!NoRoom, Rooms!RoomIds, Rooms!Idle
<1>2. Rooms!TypeOK
  <2>1. MaxCandle \in Nat /\ lock \in [1 .. MaxRoom -> Seq(Rooms!Actors)]
    BY <1>1 DEF RoomsAreSensible
  <2>2. client \in [Clients -> [at : {"away", "joining", "attaching", "in", "dead", "leaving"},
                               room : (1 .. MaxRoom) \cup {0}]]
    BY <1>1
  <2>3. subs \in [1 .. MaxRoom -> SUBSET Clients] /\ forming \in [1 .. MaxRoom -> BOOLEAN]
        /\ seenBy \in [Clients -> SUBSET (1 .. MaxCandle)]
    BY <1>1
  <2>4. pub \in [at : {"idle", "waiting", "sending"}, room : (1 .. MaxRoom) \cup {0},
                 candle : (1 .. MaxCandle) \cup {0}, fresh : BOOLEAN]
    BY <1>1
  <2>5. stored \subseteq 1 .. MaxCandle /\ silent \subseteq stored
    BY <1>1
  <2>6. hub \in (1 .. MaxRoom) \cup {0}
    BY <1>1
  <2>7. twice \in BOOLEAN /\ split \in BOOLEAN
    BY <1>1
  <2> QED BY <2>1, <2>2, <2>3, <2>4, <2>5, <2>6, <2>7
          DEF Rooms!TypeOK, Rooms!RoomIds, Rooms!NoRoom, Rooms!Candles
<1>3. hub \notin 1 .. MaxRoom
  BY <1>1
<1>4. InOneRoom
  BY <1>1, <1>3 DEF InOneRoom, IngestInPlace, ClientsInPlace, OthersEmpty, SubscribersCaughtUp
<1>5. Placed /\ AttachersHold /\ SendsACandle
  BY <1>1 DEF Placed, AttachersHold, SendsACandle
<1> QED BY <1>2, <1>4, <1>5 DEF RoomsFacts

(* A room that is made was nobody's.                                       *)
LEMMA TheRoomIsFree ==
  ASSUME NEW r, Rooms!TheRoom(r)
  PROVE  hub = r \/ (hub = 0 /\ subs[r] = {} /\ lock[r] = <<>>)
<1>1. CASE hub # 0
  BY <1>1, Zenon DEF Rooms!TheRoom, Rooms!NoRoom
<1>2. CASE hub = 0
  <2>1. Rooms!Unused(r)
    BY <1>2 DEF Rooms!TheRoom, Rooms!NoRoom
  <2> QED BY <1>2, <2>1 DEF Rooms!Unused
<1> QED BY <1>1, <1>2

(* Each step keeps the facts.                                              *)
LEMMA PublishKeeps == RoomsFacts /\ Rooms!Publish => RoomsFacts'
<1> SUFFICES ASSUME RoomsFacts, Rooms!Publish PROVE RoomsFacts'
  OBVIOUS
<1>1. PICK r \in 1 .. MaxRoom :
        /\ Rooms!TheRoom(r) /\ hub' = r /\ pub.at = "idle"
        /\ forming' = IF hub = r THEN forming ELSE [forming EXCEPT ![r] = FALSE]
        /\ lock' = [lock EXCEPT ![r] = Append(@, "ingest")]
        /\ pub' = [at |-> "waiting", room |-> r, candle |-> 0, fresh |-> FALSE]
  BY DEF Rooms!Publish, Rooms!Opens, Rooms!AsksForLock, Rooms!RoomIds, Rooms!Ingest, Rooms!Idle
<1>2. /\ stored' = stored /\ silent' = silent /\ subs' = subs /\ client' = client /\ seenBy' = seenBy
      /\ twice' = twice /\ split' = split
  BY DEF Rooms!Publish
<1>3. hub = r \/ (hub = 0 /\ subs[r] = {} /\ lock[r] = <<>>)
  BY <1>1, TheRoomIsFree
<1>4. /\ lock[r] \in Seq(Clients \cup {"ingest"})
      /\ lock'[r] = Append(lock[r], "ingest")
      /\ \A s \in 1 .. MaxRoom : s # r => lock'[s] = lock[s]
      /\ lock' \in [1 .. MaxRoom -> Seq(Clients \cup {"ingest"})]
      /\ forming' \in [1 .. MaxRoom -> BOOLEAN]
      /\ InQueue("ingest", lock'[r]) /\ \A p : InQueue(p, lock[r]) => InQueue(p, lock'[r])
      /\ lock[r] # <<>> => Head(lock'[r]) = Head(lock[r])
  <2>1. lock[r] \in Seq(Clients \cup {"ingest"})
    BY RoomTypes
  <2>2. lock'[r] = Append(lock[r], "ingest") /\ \A s \in 1 .. MaxRoom : s # r => lock'[s] = lock[s]
    BY <1>1, RoomTypes
  <2>3. lock'[r] \in Seq(Clients \cup {"ingest"})
    BY <2>1, <2>2, QueueAppend
  <2>4. lock' \in [1 .. MaxRoom -> Seq(Clients \cup {"ingest"})]
    BY <1>1, <2>2, <2>3, RoomTypes
  <2>5. forming' \in [1 .. MaxRoom -> BOOLEAN]
    BY <1>1, RoomTypes
  <2> QED BY <2>1, <2>2, <2>4, <2>5, QueueAppend
<1>5. Rooms!TypeOK'
  BY <1>1, <1>2, <1>4 DEF RoomsFacts, Rooms!TypeOK, Rooms!RoomIds, Rooms!NoRoom, Rooms!Actors,
                          Rooms!Ingest
<1>a. AttachersHold'
  BY <1>1, <1>2, <1>4 DEF RoomsFacts, Placed, AttachersHold, Rooms!Holds
<1>7. Placed' /\ SendsACandle'
  BY <1>1, <1>2 DEF RoomsFacts, Placed, SendsACandle
<1>6. ASSUME ~split PROVE InOneRoom'
  <2>1. InOneRoom
    BY <1>6 DEF RoomsFacts
  <2>2. IngestInPlace'
    BY <1>1, <1>4 DEF IngestInPlace
  <2>3. ClientsInPlace'
    <3>1. \A d \in Clients : Caught(d)' = Caught(d)
      BY <1>1, <1>2 DEF Caught, BeingSent
    <3> QED BY <1>1, <1>2, <1>3, <1>4, <2>1, <3>1, RoomTypes, SMTT(20)
            DEF InOneRoom, ClientsInPlace, Rooms!Holds
  <2>4. OthersEmpty'
    BY <1>1, <1>2, <1>3, <1>4, <2>1 DEF InOneRoom, OthersEmpty
  <2>5. SubscribersCaughtUp'
    BY <1>1, <1>2, <1>3, <2>1 DEF InOneRoom, SubscribersCaughtUp, Caught, BeingSent
  <2> QED BY <1>2, <2>1, <2>2, <2>3, <2>4, <2>5 DEF InOneRoom
<1> QED BY <1>2, <1>5, <1>6, <1>7, <1>a DEF RoomsFacts, RoomsAreSensible

(* The head of a queue leaves it.                                          *)
LEMMA ReleaseFacts ==
  ASSUME RoomsFacts, NEW r \in 1 .. MaxRoom, lock[r] # <<>>, Rooms!Releases(r)
  PROVE  /\ lock' \in [1 .. MaxRoom -> Seq(Clients \cup {"ingest"})]
         /\ \A s \in 1 .. MaxRoom : s # r => lock'[s] = lock[s]
         /\ \A p : InQueue(p, lock[r]) => p = Head(lock[r]) \/ InQueue(p, lock'[r])
         /\ Len(lock[r]) <= 1 => lock'[r] = <<>>
<1>1. lock[r] \in Seq(Clients \cup {"ingest"}) /\ lock' = [lock EXCEPT ![r] = Tail(@)]
  BY RoomTypes DEF Rooms!Releases
<1>2. lock'[r] = Tail(lock[r]) /\ \A s \in 1 .. MaxRoom : s # r => lock'[s] = lock[s]
  BY <1>1, RoomTypes
<1>3. lock'[r] \in Seq(Clients \cup {"ingest"})
  BY <1>1, <1>2, QueueTail
<1>4. lock' \in [1 .. MaxRoom -> Seq(Clients \cup {"ingest"})]
  BY <1>1, <1>2, <1>3, RoomTypes
<1> QED BY <1>1, <1>2, <1>4, QueueTail

(* The end of a publication that sent nothing.                             *)
LEMMA SendsNothingKeeps ==
  RoomsFacts /\ (Rooms!SendForming \/ Rooms!StoreFails) => RoomsFacts'
<1> SUFFICES ASSUME RoomsFacts, Rooms!SendForming \/ Rooms!StoreFails PROVE RoomsFacts'
  OBVIOUS
<1> DEFINE r == pub.room
<1>1. /\ pub.at # "idle" /\ lock[r] # <<>> /\ Head(lock[r]) = "ingest" /\ Rooms!Releases(r)
      /\ pub' = [at |-> "idle", room |-> 0, candle |-> 0, fresh |-> FALSE]
      /\ stored' = stored /\ silent' = silent \cup BeingSent /\ hub' = hub /\ subs' = subs /\ client' = client
      /\ seenBy' = seenBy /\ twice' = twice /\ split' = split
      /\ forming' = forming \/ forming' = [forming EXCEPT ![r] = TRUE]
  BY DEF Rooms!SendForming, Rooms!StoreFails, Rooms!Holds, Rooms!NoRoom, Rooms!Ingest, Rooms!Idle,
         BeingSent
<1>2. /\ forming' \in [1 .. MaxRoom -> BOOLEAN]
      /\ silent' \subseteq stored'
      /\ BeingSent' = {} /\ \A c \in Clients : Caught(c) => Caught(c)'
  <2>1. BeingSent' = {} /\ BeingSent \subseteq stored
    BY <1>1 DEF RoomsFacts, SendsACandle, BeingSent
  <2>2. \A c \in Clients : Caught(c) => Caught(c)'
    BY <1>1, <2>1 DEF Caught
  <2> QED BY <1>1, <2>1, <2>2, RoomTypes
<1>3. r \in 1 .. MaxRoom
  BY <1>1 DEF RoomsFacts, Placed
<1>4. RoomsFacts'
  <2>1. /\ lock' \in [1 .. MaxRoom -> Seq(Clients \cup {"ingest"})]
        /\ \A s \in 1 .. MaxRoom : s # r => lock'[s] = lock[s]
        /\ \A p : InQueue(p, lock[r]) => p = "ingest" \/ InQueue(p, lock'[r])
    BY <1>1, <1>3, ReleaseFacts
  <2>2. Rooms!TypeOK'
    BY <1>1, <1>2, <2>1 DEF RoomsFacts, Rooms!TypeOK, Rooms!RoomIds, Rooms!NoRoom, Rooms!Actors,
                            Rooms!Ingest
  <2>3. ASSUME ~split PROVE InOneRoom'
    <3>1. InOneRoom /\ r = hub
      BY <1>1, <2>3 DEF RoomsFacts, InOneRoom, IngestInPlace
    <3>2. IngestInPlace'
      BY <1>1 DEF IngestInPlace
    <3>3. ClientsInPlace'
      BY <1>1, <1>2, <2>1, <3>1, RoomTypes DEF InOneRoom, ClientsInPlace, Rooms!Holds
    <3>4. OthersEmpty' /\ SubscribersCaughtUp'
      BY <1>1, <1>2, <2>1, <3>1, RoomTypes DEF InOneRoom, OthersEmpty, SubscribersCaughtUp
    <3> QED BY <1>1, <3>1, <3>2, <3>3, <3>4 DEF InOneRoom
  <2>a. AttachersHold'
    <3> SUFFICES ASSUME NEW c \in Clients, client[c].at = "attaching"
               PROVE  Rooms!Holds(c, client[c].room)'
      BY <1>1 DEF AttachersHold
    <3>1. c # "ingest" /\ client[c].room \in 1 .. MaxRoom /\ Rooms!Holds(c, client[c].room)
      BY RoomTypes DEF RoomsFacts, Placed, AttachersHold
    <3>2. client[c].room # r
      BY <1>1, <3>1 DEF Rooms!Holds
    <3> QED BY <1>1, <2>1, <3>1, <3>2 DEF Rooms!Holds
  <2>4. Placed' /\ SendsACandle'
    BY <1>1 DEF RoomsFacts, Placed, SendsACandle
  <2> QED BY <1>1, <2>2, <2>3, <2>4, <2>a DEF RoomsFacts, RoomsAreSensible
<1> QED BY <1>4

(* Nobody has read a snapshot that is about to miss the candle: ingest has *)
(* the lock.                                                               *)
LEMMA StoreKeeps == RoomsFacts /\ Rooms!Store => RoomsFacts'
<1> SUFFICES ASSUME RoomsFacts, Rooms!Store PROVE RoomsFacts'
  OBVIOUS
<1>1. PICK n \in 1 .. MaxCandle :
        /\ stored' = stored \cup {n}
        /\ pub' = [pub EXCEPT !.at = "sending", !.candle = n, !.fresh = (n \notin stored)]
  BY DEF Rooms!Store, Rooms!Candles
<1>2. /\ pub.at = "waiting" /\ Rooms!Holds("ingest", pub.room)
      /\ silent' = silent /\ hub' = hub /\ subs' = subs /\ client' = client
      /\ forming' = forming /\ lock' = lock
      /\ seenBy' = seenBy /\ twice' = twice /\ split' = split
  BY DEF Rooms!Store, Rooms!Ingest
<1>3. pub' = [at |-> "sending", room |-> pub.room, candle |-> n, fresh |-> n \notin stored]
  BY <1>1, RoomTypes
<1>4. Rooms!TypeOK' /\ Placed' /\ SendsACandle'
  <2>1. /\ stored' \subseteq 1 .. MaxCandle /\ silent' \subseteq stored'
        /\ pub' \in [at : {"idle", "waiting", "sending"}, room : (1 .. MaxRoom) \cup {0},
                     candle : (1 .. MaxCandle) \cup {0}, fresh : BOOLEAN]
    <3>1. pub.room \in (1 .. MaxRoom) \cup {0}
      BY RoomTypes
    <3> QED BY <1>1, <1>2, <1>3, <3>1, RoomTypes
  <2> QED BY <1>1, <1>2, <1>3, <2>1
          DEF RoomsFacts, Placed, SendsACandle, Rooms!TypeOK, Rooms!RoomIds, Rooms!NoRoom,
              Rooms!Candles
<1>a. AttachersHold'
  BY <1>2 DEF RoomsFacts, AttachersHold, Rooms!Holds
<1>5. ASSUME ~split PROVE InOneRoom'
  <2>1. InOneRoom
    BY <1>5 DEF RoomsFacts
  <2>2. pub.room = hub
    BY <1>2, <2>1 DEF InOneRoom, IngestInPlace
  <2>3. IngestInPlace'
    BY <1>2, <1>3, <2>1, <2>2 DEF InOneRoom, IngestInPlace, Rooms!Holds
  <2>4. \A c \in Clients : client[c].at # "attaching"
    BY <1>2, <2>1, <2>2, RoomTypes
       DEF RoomsFacts, AttachersHold, InOneRoom, ClientsInPlace, Rooms!Holds
  <2>5. ClientsInPlace'
    BY <1>2, <2>1, <2>4 DEF InOneRoom, ClientsInPlace
  <2>6. \A c \in Clients : Caught(c) => Caught(c)'
    <3>1. BeingSent = {} /\ BeingSent' = IF n \notin stored THEN {n} ELSE {}
      BY <1>2, <1>3 DEF BeingSent
    <3> QED BY <1>1, <1>2, <3>1 DEF Caught
  <2>7. OthersEmpty' /\ SubscribersCaughtUp'
    BY <1>2, <2>1, <2>6, RoomTypes DEF InOneRoom, OthersEmpty, SubscribersCaughtUp
  <2> QED BY <1>2, <2>1, <2>3, <2>5, <2>7 DEF InOneRoom
<1> QED BY <1>2, <1>4, <1>5, <1>a DEF RoomsFacts, RoomsAreSensible

(* A candle that nobody publishes is not one that a subscriber is owed.    *)
LEMMA FillKeepsRooms == RoomsFacts /\ Rooms!Fill => RoomsFacts'
<1> SUFFICES ASSUME RoomsFacts, Rooms!Fill PROVE RoomsFacts'
  OBVIOUS
<1>1. PICK n \in (1 .. MaxCandle) \ stored :
        stored' = stored \cup {n} /\ silent' = silent \cup {n}
  BY DEF Rooms!Fill, Rooms!Candles
<1>2. /\ pub' = pub /\ hub' = hub /\ subs' = subs /\ client' = client
      /\ forming' = forming /\ lock' = lock
      /\ seenBy' = seenBy /\ twice' = twice /\ split' = split
  BY DEF Rooms!Fill
<1>3. Rooms!TypeOK'
  <2>1. stored' \subseteq 1 .. MaxCandle /\ silent' \subseteq stored'
    BY <1>1, RoomTypes
  <2> QED BY <1>2, <2>1 DEF RoomsFacts, Rooms!TypeOK, Rooms!Candles
<1>4. Placed' /\ SendsACandle' /\ AttachersHold'
  BY <1>1, <1>2 DEF RoomsFacts, Placed, SendsACandle, AttachersHold, Rooms!Holds
<1>5. ASSUME ~split PROVE InOneRoom'
  <2>1. InOneRoom
    BY <1>5 DEF RoomsFacts
  <2>2. \A c \in Clients : Caught(c) => Caught(c)'
    <3>1. BeingSent' = BeingSent /\ BeingSent \subseteq stored
      BY <1>2 DEF RoomsFacts, SendsACandle, BeingSent
    <3> QED BY <1>1, <1>2, <3>1 DEF Caught
  <2>3. IngestInPlace' /\ OthersEmpty'
    BY <1>2, <2>1 DEF InOneRoom, IngestInPlace, OthersEmpty, Rooms!Holds
  <2>4. ClientsInPlace'
    BY <1>2, <2>1, <2>2 DEF InOneRoom, ClientsInPlace
  <2>5. SubscribersCaughtUp'
    BY <1>2, <2>1, <2>2, RoomTypes DEF InOneRoom, SubscribersCaughtUp
  <2> QED BY <1>2, <2>1, <2>3, <2>4, <2>5 DEF InOneRoom
<1> QED BY <1>2, <1>3, <1>4, <1>5 DEF RoomsFacts, RoomsAreSensible

(* Whoever is still reached has everything, whoever failed is no           *)
(* subscriber, and what the others are not sent is the candle.             *)
LEMMA SendKeeps == RoomsFacts /\ Rooms!SendToAll => RoomsFacts'
<1> SUFFICES ASSUME RoomsFacts, Rooms!SendToAll PROVE RoomsFacts'
  OBVIOUS
<1> DEFINE r == pub.room
           n == pub.candle
<1>1. PICK gone \in SUBSET subs[r], unsent \in SUBSET subs[r] :
        /\ subs' = [subs EXCEPT ![r] = @ \ gone]
        /\ seenBy' = [c \in Clients |-> IF c \in subs[r] \ (gone \cup unsent)
                                        THEN seenBy[c] \cup {n} ELSE seenBy[c]]
        /\ twice' = (twice \/ (pub.fresh /\ \E c \in subs[r] \ (gone \cup unsent) :
                                               n \in seenBy[c]))
        /\ silent' = IF unsent \subseteq gone THEN silent \ {n} ELSE silent \cup {n}
        /\ forming' = [forming EXCEPT ![r] = FALSE]
        /\ client' = [c \in Clients |-> IF c \in gone /\ client[c].at = "in"
                                        THEN [client[c] EXCEPT !.at = "dead"] ELSE client[c]]
  BY DEF Rooms!SendToAll
<1>2. /\ pub.at = "sending" /\ lock[r] # <<>> /\ Head(lock[r]) = "ingest" /\ Rooms!Releases(r)
      /\ pub' = [at |-> "idle", room |-> 0, candle |-> 0, fresh |-> FALSE]
      /\ stored' = stored /\ hub' = hub /\ split' = split
  BY DEF Rooms!SendToAll, Rooms!Holds, Rooms!NoRoom, Rooms!Ingest, Rooms!Idle
<1>3. r \in 1 .. MaxRoom /\ n \in stored /\ n \in 1 .. MaxCandle
  BY <1>2, RoomTypes DEF RoomsFacts, Placed, SendsACandle
<1>4. /\ lock' \in [1 .. MaxRoom -> Seq(Clients \cup {"ingest"})]
      /\ \A s \in 1 .. MaxRoom : s # r => lock'[s] = lock[s]
      /\ \A p : InQueue(p, lock[r]) => p = "ingest" \/ InQueue(p, lock'[r])
  BY <1>2, <1>3, ReleaseFacts
<1>5. \A c \in Clients :
        /\ client'[c] \in [at : {"away", "joining", "attaching", "in", "dead", "leaving"},
                           room : 0 .. MaxRoom]
        /\ client'[c].room = client[c].room
        /\ client'[c].at = (IF c \in gone /\ client[c].at = "in" THEN "dead" ELSE client[c].at)
  BY <1>1, RoomTypes
<1>6. Rooms!TypeOK'
  <2>1. client' \in [Clients -> [at : {"away", "joining", "attaching", "in", "dead", "leaving"},
                                 room : (1 .. MaxRoom) \cup {0}]]
    <3>1. (1 .. MaxRoom) \cup {0} = 0 .. MaxRoom
      BY RoomTypes
    <3>2. DOMAIN client' = Clients /\ client' = [c \in Clients |-> client'[c]]
      BY <1>1
    <3> QED BY <1>5, <3>1, <3>2
  <2>2. subs' \in [1 .. MaxRoom -> SUBSET Clients] /\ forming' \in [1 .. MaxRoom -> BOOLEAN]
    BY <1>1, <1>3, RoomTypes
  <2>3. seenBy' \in [Clients -> SUBSET (1 .. MaxCandle)]
    BY <1>1, <1>3, RoomTypes
  <2>4. pub' \in [at : {"idle", "waiting", "sending"}, room : (1 .. MaxRoom) \cup {0},
                  candle : (1 .. MaxCandle) \cup {0}, fresh : BOOLEAN]
    BY <1>2
  <2>5. twice' \in BOOLEAN /\ silent' \subseteq stored'
    BY <1>1, <1>2, <1>3, RoomTypes
  <2> QED BY <1>2, <1>4, <2>1, <2>2, <2>3, <2>4, <2>5
          DEF RoomsFacts, Rooms!TypeOK, Rooms!RoomIds, Rooms!NoRoom, Rooms!Actors, Rooms!Ingest, Rooms!Candles
<1>7. Placed' /\ SendsACandle'
  BY <1>2, <1>5 DEF RoomsFacts, Placed, SendsACandle
<1>a. AttachersHold'
  <2> SUFFICES ASSUME NEW c \in Clients, client[c].at = "attaching"
             PROVE  Rooms!Holds(c, client[c].room)'
    BY <1>5 DEF AttachersHold
  <2>1. c # "ingest" /\ client[c].room \in 1 .. MaxRoom /\ Rooms!Holds(c, client[c].room)
    BY RoomTypes DEF RoomsFacts, Placed, AttachersHold
  <2>2. client[c].room # r
    BY <1>2, <2>1 DEF Rooms!Holds
  <2> QED BY <1>4, <1>5, <2>1, <2>2 DEF Rooms!Holds
<1>8. ASSUME ~split PROVE InOneRoom'
  <2>1. InOneRoom /\ r = hub
    BY <1>2, <1>8 DEF RoomsFacts, InOneRoom, IngestInPlace
  <2>2. IngestInPlace'
    BY <1>2 DEF IngestInPlace
  <2>3. \A c \in Clients : client[c].at # "attaching"
    BY <1>2, <2>1, RoomTypes
       DEF RoomsFacts, AttachersHold, InOneRoom, ClientsInPlace, Rooms!Holds
  <2>4. \A c \in subs[r] :
          /\ client[c].at \in {"in", "leaving"}
          /\ stored \ (silent \cup {n}) \subseteq seenBy[c] /\ seenBy[c] \subseteq stored
          /\ pub.fresh => n \notin seenBy[c]
          /\ ~pub.fresh => stored \ silent \subseteq seenBy[c]
    <3>1. BeingSent = IF pub.fresh THEN {n} ELSE {}
      BY <1>2 DEF BeingSent
    <3>2. \A c \in subs[r] : client[c].at \in {"in", "leaving"} /\ Caught(c)
      BY <1>3, <2>1 DEF InOneRoom, SubscribersCaughtUp
    <3> QED BY <3>1, <3>2 DEF Caught
  <2>6. subs[r] \subseteq Clients /\ subs'[r] = subs[r] \ gone
        /\ \A s \in 1 .. MaxRoom : s # r => subs'[s] = subs[s]
    BY <1>1, <1>3, RoomTypes
  <2>7. ClientsInPlace'
    <3> SUFFICES ASSUME NEW c \in Clients
                 PROVE  /\ client'[c].at \in {"joining", "leaving"} =>
                             /\ client'[c].room = hub /\ hub \in 1 .. MaxRoom
                             /\ InQueue(c, lock'[hub])
                        /\ client'[c].at = "in" =>
                             client'[c].room = hub /\ hub \in 1 .. MaxRoom /\ c \in subs'[hub]
                        /\ client'[c].at # "attaching"
      BY <1>2 DEF ClientsInPlace
    <3>1. c # "ingest"
      BY RoomTypes
    <3>2. client'[c].at = "in" => c \in subs[r] /\ c \notin gone
      BY <1>5, <2>1 DEF InOneRoom, ClientsInPlace
    <3> QED BY <1>4, <1>5, <2>1, <2>3, <2>6, <3>1, <3>2 DEF InOneRoom, ClientsInPlace
  <2>8. OthersEmpty'
    BY <1>2, <1>4, <2>1, <2>6 DEF InOneRoom, OthersEmpty
  <2>9. SubscribersCaughtUp'
    <3> SUFFICES ASSUME NEW c \in subs[r] \ gone
                 PROVE  client'[c].at \in {"in", "leaving"} /\ Caught(c)'
      BY <1>2, <2>1, <2>6 DEF SubscribersCaughtUp
    <3>1. c \in Clients /\ BeingSent' = {}
      BY <1>2, <2>6 DEF BeingSent
    <3>2. CASE c \in unsent
      <4>1. seenBy'[c] = seenBy[c] /\ silent' = silent \cup {n}
        BY <1>1, <3>1, <3>2
      <4> QED BY <1>2, <1>5, <2>4, <3>1, <4>1 DEF Caught
    <3>3. CASE c \notin unsent
      <4>1. seenBy'[c] = seenBy[c] \cup {n} /\ silent \ {n} \subseteq silent'
        BY <1>1, <3>1, <3>3
      <4> QED BY <1>2, <1>3, <1>5, <2>4, <3>1, <4>1 DEF Caught
    <3> QED BY <3>2, <3>3
  <2>10. ~twice'
    BY <1>1, <2>1, <2>4 DEF InOneRoom
  <2> QED BY <2>2, <2>7, <2>8, <2>9, <2>10 DEF InOneRoom
<1> QED BY <1>2, <1>6, <1>7, <1>8, <1>a DEF RoomsFacts, RoomsAreSensible

(* A handler that moves moves alone.                                       *)
LEMMA MoveFacts ==
  ASSUME RoomsFacts, NEW c \in Clients, NEW r \in 0 .. MaxRoom,
         NEW place \in {"away", "joining", "attaching", "in", "dead", "leaving"},
         Rooms!Moves(c, place, r)
  PROVE  /\ client' \in [Clients -> [at : {"away", "joining", "attaching", "in", "dead", "leaving"},
                                     room : 0 .. MaxRoom]]
         /\ client'[c].at = place /\ client'[c].room = r
         /\ \A d \in Clients : d # c => client'[d] = client[d]
<1>1. client' = [client EXCEPT ![c] = [at |-> place, room |-> r]]
  BY DEF Rooms!Moves
<1> QED BY <1>1, RoomTypes

(* It waits in the room under the key, which is now surely there.          *)
LEMMA SubscribeRoomKeeps ==
  ASSUME NEW c \in Clients
  PROVE  RoomsFacts /\ Rooms!Subscribe(c) => RoomsFacts'
<1> SUFFICES ASSUME RoomsFacts, Rooms!Subscribe(c) PROVE RoomsFacts'
  OBVIOUS
<1>1. PICK r \in 1 .. MaxRoom :
        /\ Rooms!TheRoom(r) /\ hub' = r /\ client[c].at = "away"
        /\ forming' = IF hub = r THEN forming ELSE [forming EXCEPT ![r] = FALSE]
        /\ lock' = [lock EXCEPT ![r] = Append(@, c)]
        /\ Rooms!Moves(c, "joining", r)
  BY DEF Rooms!Subscribe, Rooms!Opens, Rooms!AsksForLock, Rooms!RoomIds
<1>2. /\ stored' = stored /\ silent' = silent /\ subs' = subs /\ pub' = pub /\ seenBy' = seenBy
      /\ twice' = twice /\ split' = split
  BY DEF Rooms!Subscribe
<1>3. hub = r \/ (hub = 0 /\ subs[r] = {} /\ lock[r] = <<>>)
  BY <1>1, TheRoomIsFree
<1>4. /\ lock[r] \in Seq(Clients \cup {"ingest"})
      /\ lock'[r] = Append(lock[r], c)
      /\ \A s \in 1 .. MaxRoom : s # r => lock'[s] = lock[s]
      /\ lock' \in [1 .. MaxRoom -> Seq(Clients \cup {"ingest"})]
      /\ InQueue(c, lock'[r]) /\ \A p : InQueue(p, lock[r]) => InQueue(p, lock'[r])
      /\ lock[r] # <<>> => Head(lock'[r]) = Head(lock[r])
      /\ lock'[r] # <<>>
  <2>1. lock[r] \in Seq(Clients \cup {"ingest"})
    BY RoomTypes
  <2>2. lock'[r] = Append(lock[r], c) /\ \A s \in 1 .. MaxRoom : s # r => lock'[s] = lock[s]
    BY <1>1, RoomTypes
  <2>3. lock'[r] \in Seq(Clients \cup {"ingest"})
    BY <2>1, <2>2, QueueAppend
  <2>4. lock' \in [1 .. MaxRoom -> Seq(Clients \cup {"ingest"})]
    BY <1>1, <2>2, <2>3, RoomTypes
  <2> QED BY <2>1, <2>2, <2>4, QueueAppend
<1>5. /\ client' \in [Clients -> [at : {"away", "joining", "attaching", "in", "dead", "leaving"},
                                  room : 0 .. MaxRoom]]
      /\ client'[c].at = "joining" /\ client'[c].room = r
      /\ \A d \in Clients : d # c => client'[d] = client[d]
  <2>1. r \in 0 .. MaxRoom
    BY RoomTypes
  <2> QED BY <1>1, <2>1, MoveFacts
<1>6. Rooms!TypeOK'
  <2>1. hub' \in 0 .. MaxRoom
    BY <1>1, RoomTypes
  <2>2. forming' \in [1 .. MaxRoom -> BOOLEAN]
    BY <1>1, RoomTypes
  <2>3. (1 .. MaxRoom) \cup {0} = 0 .. MaxRoom
    BY RoomTypes
  <2> QED BY <1>2, <1>4, <1>5, <2>1, <2>2, <2>3, RoomTypes
          DEF Rooms!TypeOK, Rooms!RoomIds, Rooms!NoRoom, Rooms!Actors, Rooms!Ingest, Rooms!Candles
<1>7. Placed' /\ SendsACandle'
  BY <1>2, <1>5 DEF RoomsFacts, Placed, SendsACandle
<1>a. AttachersHold'
  BY <1>1, <1>2, <1>4, <1>5 DEF RoomsFacts, Placed, AttachersHold, Rooms!Holds
<1>8. ASSUME ~split PROVE InOneRoom'
  <2>1. InOneRoom
    BY <1>8 DEF RoomsFacts
  <2>2. IngestInPlace'
    BY <1>1, <1>2, <1>3, <1>4, <2>1, RoomTypes DEF InOneRoom, IngestInPlace, Rooms!Holds
  <2>3. ClientsInPlace'
    <3>1. ASSUME NEW d \in Clients, d # c, client[d].at \in {"joining", "attaching", "leaving", "in"}
          PROVE  hub = r /\ client'[d] = client[d]
      <4>1. hub \in 1 .. MaxRoom
        BY <2>1, <3>1 DEF InOneRoom, ClientsInPlace
      <4> QED BY <1>3, <1>5, <3>1, <4>1
    <3>2. \A d \in Clients : Caught(d)' = Caught(d)
      BY <1>2 DEF Caught, BeingSent
    <3>3. r \in 1 .. MaxRoom /\ hub' = r /\ ClientsInPlace
      BY <1>1, <2>1 DEF InOneRoom
    <3>4. /\ client'[c].at = "joining" /\ client'[c].room = hub' /\ hub' \in 1 .. MaxRoom
          /\ InQueue(c, lock'[hub'])
      BY <1>4, <1>5, <3>3
    <3>5. ASSUME NEW d \in Clients, d # c
          PROVE  /\ client'[d].at \in {"joining", "attaching", "leaving"} =>
                       /\ client'[d].room = hub' /\ hub' \in 1 .. MaxRoom
                       /\ InQueue(d, lock'[hub'])
                 /\ client'[d].at = "in" =>
                       client'[d].room = hub' /\ hub' \in 1 .. MaxRoom /\ d \in subs'[hub']
                 /\ client'[d].at = "attaching" => Caught(d)'
      <4>1. client'[d] = client[d] /\ subs' = subs
        BY <1>2, <1>5, <3>5
      <4>2. client[d].at \in {"joining", "attaching", "leaving", "in"} => hub = r
        BY <3>1, <3>5
      <4> QED BY <1>4, <3>2, <3>3, <3>5, <4>1, <4>2 DEF ClientsInPlace
    <3> QED BY <3>4, <3>5 DEF ClientsInPlace
  <2>4. OthersEmpty'
    BY <1>1, <1>2, <1>3, <1>4, <2>1 DEF InOneRoom, OthersEmpty
  <2>5. SubscribersCaughtUp'
    <3>1. subs[r] \subseteq Clients
      BY RoomTypes
    <3>2. \A d \in subs[r] : d # c
      BY <1>1, <1>3, <2>1 DEF InOneRoom, SubscribersCaughtUp
    <3> QED BY <1>1, <1>2, <1>3, <1>5, <2>1, <3>1, <3>2
            DEF InOneRoom, SubscribersCaughtUp, Caught, BeingSent
  <2> QED BY <1>2, <2>1, <2>2, <2>3, <2>4, <2>5 DEF InOneRoom
<1> QED BY <1>2, <1>6, <1>7, <1>8, <1>a DEF RoomsFacts, RoomsAreSensible

(* The snapshot has all that is stored.                                    *)
LEMMA ReadKeepsRooms ==
  ASSUME NEW c \in Clients
  PROVE  RoomsFacts /\ Rooms!ReadSettled(c) => RoomsFacts'
<1> SUFFICES ASSUME RoomsFacts, Rooms!ReadSettled(c) PROVE RoomsFacts'
  OBVIOUS
<1> DEFINE r == client[c].room
<1>1. /\ client[c].at = "joining" /\ Rooms!Holds(c, r)
      /\ seenBy' = [seenBy EXCEPT ![c] = stored]
      /\ Rooms!Moves(c, "attaching", r)
      /\ stored' = stored /\ silent' = silent /\ hub' = hub /\ subs' = subs /\ forming' = forming /\ lock' = lock
      /\ pub' = pub /\ twice' = twice /\ split' = split
  BY DEF Rooms!ReadSettled
<1>2. r \in 1 .. MaxRoom
  BY <1>1 DEF RoomsFacts, Placed
<1>3. /\ client' \in [Clients -> [at : {"away", "joining", "attaching", "in", "dead", "leaving"},
                                  room : 0 .. MaxRoom]]
      /\ client'[c].at = "attaching" /\ client'[c].room = r
      /\ \A d \in Clients : d # c => client'[d] = client[d]
  <2>1. r \in 0 .. MaxRoom
    BY RoomTypes
  <2> QED BY <1>1, <2>1, MoveFacts
<1>4. /\ seenBy' \in [Clients -> SUBSET (1 .. MaxCandle)]
      /\ seenBy'[c] = stored /\ \A d \in Clients : d # c => seenBy'[d] = seenBy[d]
  BY <1>1, RoomTypes
<1>5. Rooms!TypeOK'
  <2>1. (1 .. MaxRoom) \cup {0} = 0 .. MaxRoom
    BY RoomTypes
  <2> QED BY <1>1, <1>3, <1>4, <2>1, RoomTypes
          DEF Rooms!TypeOK, Rooms!RoomIds, Rooms!NoRoom, Rooms!Actors, Rooms!Ingest, Rooms!Candles
<1>6. Placed' /\ SendsACandle'
  BY <1>1, <1>2, <1>3 DEF RoomsFacts, Placed, SendsACandle
<1>a. AttachersHold'
  BY <1>1, <1>3 DEF RoomsFacts, AttachersHold, Rooms!Holds
<1>7. ASSUME ~split PROVE InOneRoom'
  <2>1. InOneRoom /\ r = hub
    BY <1>1, <1>7 DEF RoomsFacts, InOneRoom, ClientsInPlace
  <2>2. IngestInPlace' /\ OthersEmpty'
    BY <1>1, <2>1 DEF InOneRoom, IngestInPlace, OthersEmpty, Rooms!Holds
  <2>3. ClientsInPlace'
    <3>1. \A d \in Clients : d # c => client[d].at # "attaching"
      BY <1>1, <2>1 DEF RoomsFacts, AttachersHold, InOneRoom, ClientsInPlace, Rooms!Holds
    <3>2. Caught(c)'
      <4>1. pub.at # "sending" /\ BeingSent' = {}
        BY <1>1, <2>1, RoomTypes DEF InOneRoom, IngestInPlace, Rooms!Holds, BeingSent
      <4> QED BY <1>1, <1>4, <4>1 DEF Caught
    <3> QED BY <1>1, <1>3, <1>4, <2>1, <3>1, <3>2 DEF InOneRoom, ClientsInPlace, Rooms!Holds
  <2>4. SubscribersCaughtUp'
    <3>1. subs[hub] \subseteq Clients
      BY <1>2, <2>1, RoomTypes
    <3>2. \A d \in subs[hub] : d # c
      BY <1>1, <1>2, <2>1 DEF InOneRoom, SubscribersCaughtUp
    <3> QED BY <1>1, <1>3, <1>4, <2>1, <3>1, <3>2 DEF InOneRoom, SubscribersCaughtUp, Caught, BeingSent
  <2> QED BY <1>1, <2>1, <2>2, <2>3, <2>4 DEF InOneRoom
<1> QED BY <1>1, <1>5, <1>6, <1>7, <1>a DEF RoomsFacts, RoomsAreSensible

(* What is so of the queue of a room when a client leaves the head of it.  *)
LEMMA ClientReleases ==
  ASSUME RoomsFacts, NEW c \in Clients, client[c].room \in 1 .. MaxRoom,
         Rooms!Holds(c, client[c].room), Rooms!Releases(client[c].room),
         NEW r, r = client[c].room
  PROVE  /\ lock' \in [1 .. MaxRoom -> Seq(Clients \cup {"ingest"})]
         /\ \A s \in 1 .. MaxRoom : s # r => lock'[s] = lock[s]
         /\ \A p : InQueue(p, lock[r]) => p = c \/ InQueue(p, lock'[r])
         /\ Len(lock[r]) <= 1 => lock'[r] = <<>>
         /\ \A d \in Clients : d # c /\ client[d].at = "attaching" =>
              client[d].room # r /\ lock'[client[d].room] # <<>>
              /\ Head(lock'[client[d].room]) = d
<1>1. lock[r] # <<>> /\ Head(lock[r]) = c /\ Rooms!Releases(r) /\ r \in 1 .. MaxRoom
  BY DEF Rooms!Holds
<1>2. /\ lock' \in [1 .. MaxRoom -> Seq(Clients \cup {"ingest"})]
      /\ \A s \in 1 .. MaxRoom : s # r => lock'[s] = lock[s]
      /\ \A p : InQueue(p, lock[r]) => p = c \/ InQueue(p, lock'[r])
      /\ Len(lock[r]) <= 1 => lock'[r] = <<>>
  BY <1>1, ReleaseFacts
<1>3. ASSUME NEW d \in Clients, d # c, client[d].at = "attaching"
      PROVE  client[d].room # r /\ lock'[client[d].room] # <<>>
             /\ Head(lock'[client[d].room]) = d
  <2>1. /\ client[d].room \in 1 .. MaxRoom
        /\ lock[client[d].room] # <<>> /\ Head(lock[client[d].room]) = d
    BY <1>3 DEF RoomsFacts, Placed, AttachersHold, Rooms!Holds
  <2>2. client[d].room # r
    BY <1>1, <1>3, <2>1
  <2> QED BY <1>2, <2>1, <2>2
<1> QED BY <1>2, <1>3

(* It joins before it lets the lock go.                                    *)
LEMMA AttachKeeps ==
  ASSUME NEW c \in Clients
  PROVE  RoomsFacts /\ Rooms!Attach(c) => RoomsFacts'
<1> SUFFICES ASSUME RoomsFacts, Rooms!Attach(c) PROVE RoomsFacts'
  OBVIOUS
<1> DEFINE r == client[c].room
<1>1. /\ client[c].at = "attaching" /\ Rooms!Releases(r)
      /\ subs' = [subs EXCEPT ![r] = @ \cup {c}]
      /\ Rooms!Moves(c, "in", r)
      /\ stored' = stored /\ silent' = silent /\ hub' = hub /\ forming' = forming /\ pub' = pub /\ seenBy' = seenBy
      /\ twice' = twice /\ split' = split
  BY DEF Rooms!Attach
<1>2. r \in 1 .. MaxRoom /\ r \in 0 .. MaxRoom /\ Rooms!Holds(c, r)
  BY <1>1, RoomTypes DEF RoomsFacts, Placed, AttachersHold
<1>3. /\ client' \in [Clients -> [at : {"away", "joining", "attaching", "in", "dead", "leaving"},
                                  room : 0 .. MaxRoom]]
      /\ client'[c].at = "in" /\ client'[c].room = r
      /\ \A d \in Clients : d # c => client'[d] = client[d]
  BY <1>1, <1>2, MoveFacts
<1>4. /\ lock' \in [1 .. MaxRoom -> Seq(Clients \cup {"ingest"})]
      /\ \A s \in 1 .. MaxRoom : s # r => lock'[s] = lock[s]
      /\ \A p : InQueue(p, lock[r]) => p = c \/ InQueue(p, lock'[r])
      /\ \A d \in Clients : d # c /\ client[d].at = "attaching" =>
           client[d].room # r /\ lock'[client[d].room] # <<>>
           /\ Head(lock'[client[d].room]) = d
  BY <1>1, <1>2, ClientReleases
<1>5. /\ subs' \in [1 .. MaxRoom -> SUBSET Clients] /\ subs'[r] = subs[r] \cup {c}
      /\ subs[r] \subseteq Clients /\ \A s \in 1 .. MaxRoom : s # r => subs'[s] = subs[s]
  BY <1>1, <1>2, RoomTypes
<1>6. Rooms!TypeOK'
  <2>1. (1 .. MaxRoom) \cup {0} = 0 .. MaxRoom
    BY RoomTypes
  <2> QED BY <1>1, <1>3, <1>4, <1>5, <2>1, RoomTypes
          DEF Rooms!TypeOK, Rooms!RoomIds, Rooms!NoRoom, Rooms!Actors, Rooms!Ingest, Rooms!Candles
<1>7. Placed' /\ SendsACandle'
  BY <1>1, <1>2, <1>3 DEF RoomsFacts, Placed, SendsACandle
<1>8. AttachersHold'
  BY <1>3, <1>4 DEF AttachersHold, Rooms!Holds
<1>9. ASSUME ~split PROVE InOneRoom'
  <2>1. InOneRoom /\ r = hub /\ Caught(c)
    BY <1>1, <1>9 DEF RoomsFacts, InOneRoom, ClientsInPlace
  <2>2. c # "ingest" /\ pub.at # "sending"
    BY <1>2, <2>1, RoomTypes DEF InOneRoom, IngestInPlace, Rooms!Holds
  <2>3. IngestInPlace' /\ OthersEmpty'
    BY <1>1, <1>4, <1>5, <2>1, <2>2 DEF InOneRoom, IngestInPlace, OthersEmpty
  <2>4. ClientsInPlace'
    BY <1>1, <1>2, <1>3, <1>4, <1>5, <2>1 DEF InOneRoom, ClientsInPlace
  <2>5. SubscribersCaughtUp'
    <3>1. \A d \in Clients : Caught(d)' = Caught(d)
      BY <1>1 DEF Caught, BeingSent
    <3> QED BY <1>1, <1>3, <1>5, <2>1, <3>1 DEF InOneRoom, SubscribersCaughtUp
  <2> QED BY <1>1, <2>1, <2>3, <2>4, <2>5 DEF InOneRoom
<1> QED BY <1>1, <1>6, <1>7, <1>8, <1>9 DEF RoomsFacts, RoomsAreSensible

(* Or it goes as it came.                                                  *)
LEMMA AttachFailsKeeps ==
  ASSUME NEW c \in Clients
  PROVE  RoomsFacts /\ Rooms!AttachFails(c) => RoomsFacts'
<1> SUFFICES ASSUME RoomsFacts, Rooms!AttachFails(c) PROVE RoomsFacts'
  OBVIOUS
<1> DEFINE r == client[c].room
<1>1. /\ client[c].at = "attaching" /\ Rooms!Releases(r)
      /\ seenBy' = [seenBy EXCEPT ![c] = {}]
      /\ Rooms!Moves(c, "away", 0)
      /\ stored' = stored /\ silent' = silent /\ hub' = hub /\ subs' = subs /\ forming' = forming /\ pub' = pub
      /\ twice' = twice /\ split' = split
  BY DEF Rooms!AttachFails, Rooms!NoRoom
<1>2. r \in 1 .. MaxRoom /\ Rooms!Holds(c, r) /\ 0 \in 0 .. MaxRoom
  BY <1>1, RoomTypes DEF RoomsFacts, Placed, AttachersHold
<1>3. /\ client' \in [Clients -> [at : {"away", "joining", "attaching", "in", "dead", "leaving"},
                                  room : 0 .. MaxRoom]]
      /\ client'[c].at = "away"
      /\ \A d \in Clients : d # c => client'[d] = client[d]
  BY <1>1, <1>2, MoveFacts
<1>4. /\ lock' \in [1 .. MaxRoom -> Seq(Clients \cup {"ingest"})]
      /\ \A s \in 1 .. MaxRoom : s # r => lock'[s] = lock[s]
      /\ \A p : InQueue(p, lock[r]) => p = c \/ InQueue(p, lock'[r])
      /\ \A d \in Clients : d # c /\ client[d].at = "attaching" =>
           client[d].room # r /\ lock'[client[d].room] # <<>>
           /\ Head(lock'[client[d].room]) = d
  BY <1>1, <1>2, ClientReleases
<1>5. /\ seenBy' \in [Clients -> SUBSET (1 .. MaxCandle)]
      /\ \A d \in Clients : d # c => seenBy'[d] = seenBy[d]
  BY <1>1, RoomTypes
<1>6. Rooms!TypeOK'
  <2>1. (1 .. MaxRoom) \cup {0} = 0 .. MaxRoom
    BY RoomTypes
  <2> QED BY <1>1, <1>3, <1>4, <1>5, <2>1, RoomTypes
          DEF Rooms!TypeOK, Rooms!RoomIds, Rooms!NoRoom, Rooms!Actors, Rooms!Ingest, Rooms!Candles
<1>7. Placed' /\ SendsACandle'
  BY <1>1, <1>2, <1>3 DEF RoomsFacts, Placed, SendsACandle
<1>8. AttachersHold'
  BY <1>3, <1>4 DEF AttachersHold, Rooms!Holds
<1>9. ASSUME ~split PROVE InOneRoom'
  <2>1. InOneRoom /\ r = hub
    BY <1>1, <1>9 DEF RoomsFacts, InOneRoom, ClientsInPlace
  <2>2. c # "ingest" /\ pub.at # "sending"
    BY <1>2, <2>1, RoomTypes DEF InOneRoom, IngestInPlace, Rooms!Holds
  <2>3. IngestInPlace' /\ OthersEmpty'
    BY <1>1, <1>4, <2>1, <2>2 DEF InOneRoom, IngestInPlace, OthersEmpty
  <2>4. ClientsInPlace'
    BY <1>1, <1>2, <1>3, <1>4, <1>5, <2>1 DEF InOneRoom, ClientsInPlace
  <2>5. SubscribersCaughtUp'
    <3>1. subs[hub] \subseteq Clients
      BY <1>2, <2>1, RoomTypes
    <3>2. \A d \in subs[hub] : d # c
      BY <1>1, <1>2, <2>1 DEF InOneRoom, SubscribersCaughtUp
    <3> QED BY <1>1, <1>3, <1>5, <2>1, <3>1, <3>2 DEF InOneRoom, SubscribersCaughtUp, Caught, BeingSent
  <2> QED BY <1>1, <2>1, <2>3, <2>4, <2>5 DEF InOneRoom
<1> QED BY <1>1, <1>6, <1>7, <1>8, <1>9 DEF RoomsFacts, RoomsAreSensible

(* The client is out, and the room goes if nobody is left.                 *)
LEMMA GoneFacts ==
  ASSUME RoomsFacts, NEW c \in Clients, Rooms!Gone(c)
  PROVE  /\ client' \in [Clients -> [at : {"away", "joining", "attaching", "in", "dead", "leaving"},
                                     room : 0 .. MaxRoom]]
         /\ client'[c].at = "away"
         /\ \A d \in Clients : d # c => client'[d] = client[d]
         /\ seenBy' \in [Clients -> SUBSET (1 .. MaxCandle)]
         /\ \A d \in Clients : d # c => seenBy'[d] = seenBy[d]
<1>1. Rooms!Moves(c, "away", 0) /\ seenBy' = [seenBy EXCEPT ![c] = {}] /\ 0 \in 0 .. MaxRoom
  BY RoomTypes DEF Rooms!Gone, Rooms!NoRoom
<1> QED BY <1>1, MoveFacts, RoomTypes

LEMMA DiscardFacts ==
  ASSUME RoomsFacts, NEW c \in Clients, NEW r \in 1 .. MaxRoom, Rooms!Discard(c, r)
  PROVE  /\ subs' \in [1 .. MaxRoom -> SUBSET Clients] /\ subs'[r] = subs[r] \ {c}
         /\ subs[r] \subseteq Clients
         /\ \A s \in 1 .. MaxRoom : s # r => subs'[s] = subs[s]
         /\ hub' = hub \/ (hub' = 0 /\ subs[r] \subseteq {c} /\ Rooms!Empty(c, r))
         /\ split' \in BOOLEAN /\ hub' \in 0 .. MaxRoom
         /\ ~split' => ~split /\ (Rooms!Empty(c, r) => r = hub /\ Len(lock[r]) <= 1)
<1>1. /\ subs' = [subs EXCEPT ![r] = @ \ {c}]
      /\ hub' = IF Rooms!Empty(c, r) THEN 0 ELSE hub
      /\ split' = (split \/ (Rooms!Empty(c, r) /\ (r # hub \/ Len(lock[r]) > 1)))
  BY DEF Rooms!Discard, Rooms!NoRoom
<1>2. subs' \in [1 .. MaxRoom -> SUBSET Clients] /\ subs'[r] = subs[r] \ {c}
      /\ subs[r] \subseteq Clients /\ \A s \in 1 .. MaxRoom : s # r => subs'[s] = subs[s]
  BY <1>1, RoomTypes
<1>3. hub' = hub \/ (hub' = 0 /\ subs[r] \subseteq {c} /\ Rooms!Empty(c, r))
  BY <1>1 DEF Rooms!Empty
<1>4. hub' \in 0 .. MaxRoom
  BY <1>3, RoomTypes
<1>5. split' \in BOOLEAN
  BY <1>1
<1>6. Len(lock[r]) \in Nat
  <2>1. lock[r] \in Seq(Clients \cup {"ingest"})
    BY RoomTypes
  <2> QED BY <2>1
<1>7. ASSUME ~split' PROVE ~split /\ (Rooms!Empty(c, r) => r = hub /\ Len(lock[r]) <= 1)
  <2>1. ~split /\ (Rooms!Empty(c, r) => r = hub /\ ~(Len(lock[r]) > 1))
    BY <1>1, <1>7, Zenon
  <2> QED BY <1>6, <2>1
<1> QED BY <1>2, <1>3, <1>4, <1>5, <1>7

(* A client that leaves the one room leaves it whole, or empty.            *)
LEMMA OneRoomLeft ==
  ASSUME RoomsFacts, InOneRoom, ~split, NEW c \in Clients, hub \in 1 .. MaxRoom,
         Rooms!Discard(c, hub), Rooms!Gone(c), ~split',
         \A s \in 1 .. MaxRoom : s # hub => lock'[s] = lock[s],
         \A p : InQueue(p, lock[hub]) => p = c \/ InQueue(p, lock'[hub]),
         Len(lock[hub]) <= 1 => lock'[hub] = <<>>,
         pub.at # "sending" \/ (hub' = hub /\ lock' = lock),
         stored' = stored, silent' = silent, pub' = pub, twice' = twice
  PROVE  InOneRoom'
<1>1. /\ subs' \in [1 .. MaxRoom -> SUBSET Clients] /\ subs'[hub] = subs[hub] \ {c}
      /\ subs[hub] \subseteq Clients
      /\ \A s \in 1 .. MaxRoom : s # hub => subs'[s] = subs[s]
      /\ hub' = hub \/ (hub' = 0 /\ subs[hub] \subseteq {c} /\ Len(lock[hub]) <= 1)
  BY DiscardFacts
<1>2. /\ client'[c].at = "away" /\ \A d \in Clients : d # c => client'[d] = client[d]
      /\ \A d \in Clients : d # c => seenBy'[d] = seenBy[d]
  BY GoneFacts
<1>3. c # "ingest"
  BY RoomTypes
<1>4. CASE hub' = hub
  <2>1. IngestInPlace' /\ OthersEmpty'
    BY <1>1, <1>3, <1>4 DEF InOneRoom, IngestInPlace, OthersEmpty, Rooms!Holds
  <2>a. \A d \in Clients : d # c => client'[d] = client[d] /\ Caught(d)' = Caught(d)
    BY <1>2 DEF Caught, BeingSent
  <2>2. ClientsInPlace'
    BY <1>1, <1>2, <1>3, <1>4, <2>a DEF InOneRoom, ClientsInPlace
  <2>3. SubscribersCaughtUp'
    BY <1>1, <1>4, <2>a DEF InOneRoom, SubscribersCaughtUp
  <2> QED BY <2>1, <2>2, <2>3 DEF InOneRoom
<1>5. CASE hub' = 0
  <2>1. lock'[hub] = <<>> /\ subs'[hub] = {} /\ subs[hub] \subseteq {c}
    BY <1>1, <1>5
  <2>2. \A p : InQueue(p, lock[hub]) => p = c
    BY <2>1, QueueEmpty
  <2>3. pub.at = "idle"
    BY <1>3, <2>2, RoomTypes DEF InOneRoom, IngestInPlace
  <2>4. \A d \in Clients : client'[d].at \in {"away", "dead"}
    <3> SUFFICES ASSUME NEW d \in Clients, d # c PROVE client[d].at \in {"away", "dead"}
      BY <1>2
    <3>1. client[d].at \in {"away", "joining", "attaching", "in", "dead", "leaving"}
      BY RoomTypes
    <3>2. client[d].at \notin {"joining", "attaching", "leaving", "in"}
      BY <2>1, <2>2 DEF InOneRoom, ClientsInPlace
    <3> QED BY <3>1, <3>2
  <2>5. IngestInPlace' /\ ClientsInPlace'
    BY <2>3, <2>4 DEF IngestInPlace, ClientsInPlace
  <2>6. OthersEmpty' /\ SubscribersCaughtUp'
    BY <1>1, <1>5, <2>1 DEF InOneRoom, OthersEmpty, SubscribersCaughtUp
  <2> QED BY <2>5, <2>6 DEF InOneRoom
<1> QED BY <1>1, <1>4, <1>5

(* After waiting for the lock, or without a pause.                         *)
LEMMA UnsubscribeKeeps ==
  ASSUME NEW c \in Clients
  PROVE  RoomsFacts /\ Rooms!Unsubscribe(c) => RoomsFacts'
<1> SUFFICES ASSUME RoomsFacts, Rooms!Unsubscribe(c) PROVE RoomsFacts'
  OBVIOUS
<1> DEFINE r == client[c].room
<1>1. /\ client[c].at = "leaving" /\ Rooms!Holds(c, r) /\ Rooms!Discard(c, r)
      /\ Rooms!Releases(r) /\ Rooms!Gone(c)
      /\ stored' = stored /\ silent' = silent /\ forming' = forming /\ pub' = pub /\ twice' = twice
  BY DEF Rooms!Unsubscribe
<1>2. r \in 1 .. MaxRoom
  BY <1>1 DEF RoomsFacts, Placed
<1>3. /\ client' \in [Clients -> [at : {"away", "joining", "attaching", "in", "dead", "leaving"},
                                  room : 0 .. MaxRoom]]
      /\ client'[c].at = "away" /\ \A d \in Clients : d # c => client'[d] = client[d]
      /\ seenBy' \in [Clients -> SUBSET (1 .. MaxCandle)]
  BY <1>1, GoneFacts
<1>4. /\ lock' \in [1 .. MaxRoom -> Seq(Clients \cup {"ingest"})]
      /\ \A s \in 1 .. MaxRoom : s # r => lock'[s] = lock[s]
      /\ \A p : InQueue(p, lock[r]) => p = c \/ InQueue(p, lock'[r])
      /\ Len(lock[r]) <= 1 => lock'[r] = <<>>
      /\ \A d \in Clients : d # c /\ client[d].at = "attaching" =>
           client[d].room # r /\ lock'[client[d].room] # <<>>
           /\ Head(lock'[client[d].room]) = d
  BY <1>1, <1>2, ClientReleases
<1>5. /\ subs' \in [1 .. MaxRoom -> SUBSET Clients] /\ split' \in BOOLEAN /\ hub' \in 0 .. MaxRoom
      /\ ~split' => ~split
  BY <1>1, <1>2, DiscardFacts
<1>6. Rooms!TypeOK'
  <2>1. (1 .. MaxRoom) \cup {0} = 0 .. MaxRoom
    BY RoomTypes
  <2> QED BY <1>1, <1>3, <1>4, <1>5, <2>1, RoomTypes
          DEF Rooms!TypeOK, Rooms!RoomIds, Rooms!NoRoom, Rooms!Actors, Rooms!Ingest, Rooms!Candles
<1>7. Placed' /\ SendsACandle'
  BY <1>1, <1>3 DEF RoomsFacts, Placed, SendsACandle
<1>8. AttachersHold'
  BY <1>3, <1>4 DEF AttachersHold, Rooms!Holds
<1>9. ASSUME ~split' PROVE InOneRoom'
  <2>1. InOneRoom /\ ~split /\ r = hub
    BY <1>1, <1>5, <1>9 DEF RoomsFacts, InOneRoom, ClientsInPlace
  <2>2. pub.at # "sending"
    BY <1>1, <2>1, RoomTypes DEF InOneRoom, IngestInPlace, Rooms!Holds
  <2> QED BY <1>1, <1>2, <1>4, <1>9, <2>1, <2>2, OneRoomLeft
<1> QED BY <1>6, <1>7, <1>8, <1>9 DEF RoomsFacts, RoomsAreSensible

LEMMA LeaveKeeps ==
  ASSUME NEW c \in Clients
  PROVE  RoomsFacts /\ Rooms!Leave(c) => RoomsFacts'
<1> SUFFICES ASSUME RoomsFacts, Rooms!Leave(c) PROVE RoomsFacts'
  OBVIOUS
<1>0. /\ client[c].at \in {"in", "dead"}
      /\ stored' = stored /\ silent' = silent /\ forming' = forming /\ pub' = pub /\ twice' = twice
      /\ (1 .. MaxRoom) \cup {0} = 0 .. MaxRoom
  BY RoomTypes DEF Rooms!Leave
<1>1. CASE hub = 0 /\ Rooms!Gone(c) /\ UNCHANGED <<hub, subs, lock, split>>
  <2>0. hub' = hub /\ subs' = subs /\ lock' = lock /\ split' = split
    BY <1>1
  <2>1. /\ client' \in [Clients -> [at : {"away", "joining", "attaching", "in", "dead", "leaving"},
                                    room : 0 .. MaxRoom]]
        /\ client'[c].at = "away" /\ \A d \in Clients : d # c => client'[d] = client[d]
        /\ seenBy' \in [Clients -> SUBSET (1 .. MaxCandle)]
        /\ \A d \in Clients : d # c => seenBy'[d] = seenBy[d]
    BY <1>1, GoneFacts
  <2>2. Rooms!TypeOK'
    BY <1>0, <2>0, <2>1, RoomTypes
       DEF Rooms!TypeOK, Rooms!RoomIds, Rooms!NoRoom, Rooms!Actors, Rooms!Ingest, Rooms!Candles
  <2>3. Placed' /\ SendsACandle' /\ AttachersHold'
    BY <1>0, <2>0, <2>1 DEF RoomsFacts, Placed, SendsACandle, AttachersHold, Rooms!Holds
  <2>4. ASSUME ~split PROVE InOneRoom'
    <3>1. InOneRoom /\ hub \notin 1 .. MaxRoom
      BY <1>1, <2>4 DEF RoomsFacts
    <3>2. IngestInPlace' /\ OthersEmpty' /\ SubscribersCaughtUp'
      BY <1>0, <2>0, <3>1 DEF InOneRoom, IngestInPlace, OthersEmpty, SubscribersCaughtUp
    <3>3. ClientsInPlace'
      BY <2>0, <2>1, <3>1 DEF InOneRoom, ClientsInPlace
    <3> QED BY <1>0, <3>1, <3>2, <3>3 DEF InOneRoom
  <2> QED BY <2>0, <2>2, <2>3, <2>4 DEF RoomsFacts, RoomsAreSensible
<1>2. CASE hub # 0 /\ lock[hub] = <<>> /\ Rooms!Discard(c, hub) /\ Rooms!Gone(c) /\ UNCHANGED lock
  <2>0. hub \in 1 .. MaxRoom /\ lock' = lock
    BY <1>2, RoomTypes
  <2>1. /\ client' \in [Clients -> [at : {"away", "joining", "attaching", "in", "dead", "leaving"},
                                    room : 0 .. MaxRoom]]
        /\ client'[c].at = "away" /\ \A d \in Clients : d # c => client'[d] = client[d]
        /\ seenBy' \in [Clients -> SUBSET (1 .. MaxCandle)]
    BY <1>2, GoneFacts
  <2>2. /\ subs' \in [1 .. MaxRoom -> SUBSET Clients] /\ split' \in BOOLEAN
        /\ hub' \in 0 .. MaxRoom
        /\ ~split' => ~split
    BY <1>2, <2>0, DiscardFacts
  <2>3. Rooms!TypeOK'
    BY <1>0, <2>0, <2>1, <2>2, RoomTypes
       DEF Rooms!TypeOK, Rooms!RoomIds, Rooms!NoRoom, Rooms!Actors, Rooms!Ingest, Rooms!Candles
  <2>4. Placed' /\ SendsACandle' /\ AttachersHold'
    BY <1>0, <2>0, <2>1 DEF RoomsFacts, Placed, SendsACandle, AttachersHold, Rooms!Holds
  <2>5. ASSUME ~split' PROVE InOneRoom'
    <3>1. InOneRoom /\ ~split
      BY <2>2, <2>5 DEF RoomsFacts
    <3>2. pub.at # "sending"
      BY <1>2, <3>1 DEF InOneRoom, IngestInPlace, Rooms!Holds
    <3>3. \A p : InQueue(p, lock[hub]) => p = c \/ InQueue(p, lock'[hub])
      BY <2>0
    <3> QED BY <1>0, <1>2, <2>0, <2>5, <3>1, <3>2, <3>3, OneRoomLeft
  <2> QED BY <2>3, <2>4, <2>5 DEF RoomsFacts, RoomsAreSensible
<1>3. CASE /\ hub # 0 /\ lock[hub] # <<>> /\ Rooms!Moves(c, "leaving", hub)
           /\ Rooms!AsksForLock(c, hub) /\ UNCHANGED <<hub, subs, seenBy, split>>
  <2>0. /\ hub \in 1 .. MaxRoom /\ hub \in 0 .. MaxRoom /\ hub' = hub /\ subs' = subs
        /\ seenBy' = seenBy /\ split' = split /\ lock[hub] # <<>>
        /\ lock' = [lock EXCEPT ![hub] = Append(@, c)]
    BY <1>3, RoomTypes DEF Rooms!AsksForLock
  <2>1. /\ client' \in [Clients -> [at : {"away", "joining", "attaching", "in", "dead", "leaving"},
                                    room : 0 .. MaxRoom]]
        /\ client'[c].at = "leaving" /\ client'[c].room = hub
        /\ \A d \in Clients : d # c => client'[d] = client[d]
    BY <1>3, <2>0, MoveFacts
  <2>2. /\ lock' \in [1 .. MaxRoom -> Seq(Clients \cup {"ingest"})]
        /\ \A s \in 1 .. MaxRoom : s # hub => lock'[s] = lock[s]
        /\ InQueue(c, lock'[hub]) /\ \A p : InQueue(p, lock[hub]) => InQueue(p, lock'[hub])
        /\ Head(lock'[hub]) = Head(lock[hub]) /\ lock'[hub] # <<>>
    <3>1. lock[hub] \in Seq(Clients \cup {"ingest"})
      BY <2>0, RoomTypes
    <3>2. /\ lock'[hub] = Append(lock[hub], c)
          /\ \A s \in 1 .. MaxRoom : s # hub => lock'[s] = lock[s]
      BY <2>0, RoomTypes
    <3>3. lock'[hub] \in Seq(Clients \cup {"ingest"})
      BY <3>1, <3>2, QueueAppend
    <3>4. lock' \in [1 .. MaxRoom -> Seq(Clients \cup {"ingest"})]
      BY <2>0, <3>2, <3>3, RoomTypes
    <3> QED BY <2>0, <3>1, <3>2, <3>4, QueueAppend
  <2>3. Rooms!TypeOK'
    BY <1>0, <2>0, <2>1, <2>2, RoomTypes
       DEF Rooms!TypeOK, Rooms!RoomIds, Rooms!NoRoom, Rooms!Actors, Rooms!Ingest, Rooms!Candles
  <2>4. Placed' /\ SendsACandle'
    BY <1>0, <2>0, <2>1 DEF RoomsFacts, Placed, SendsACandle
  <2>5. AttachersHold'
    BY <2>0, <2>1, <2>2 DEF RoomsFacts, Placed, AttachersHold, Rooms!Holds
  <2>6. ASSUME ~split PROVE InOneRoom'
    <3>1. InOneRoom
      BY <2>6 DEF RoomsFacts
    <3>2. IngestInPlace' /\ OthersEmpty'
      BY <1>0, <2>0, <2>2, <3>1 DEF InOneRoom, IngestInPlace, OthersEmpty, Rooms!Holds
    <3>3. ClientsInPlace'
      <4>1. \A d \in Clients : Caught(d)' = Caught(d)
        BY <1>0, <2>0 DEF Caught, BeingSent
      <4> QED BY <1>0, <2>0, <2>1, <2>2, <3>1, <4>1 DEF InOneRoom, ClientsInPlace
    <3>4. SubscribersCaughtUp'
      <4>1. subs[hub] \subseteq Clients
        BY <2>0, RoomTypes
      <4> QED BY <1>0, <2>0, <2>1, <3>1, <4>1 DEF InOneRoom, SubscribersCaughtUp, Caught, BeingSent
    <3> QED BY <1>0, <3>1, <3>2, <3>3, <3>4 DEF InOneRoom
  <2> QED BY <2>0, <2>3, <2>4, <2>5, <2>6 DEF RoomsFacts, RoomsAreSensible
<1> QED BY <1>1, <1>2, <1>3 DEF Rooms!Leave, Rooms!NoRoom

(* So does every step.                                                     *)
LEMMA RoomsStep == RoomsFacts /\ [Rooms!Next]_(Rooms!vars) => RoomsFacts'
<1> SUFFICES ASSUME RoomsFacts, [Rooms!Next]_(Rooms!vars) PROVE RoomsFacts'
  OBVIOUS
<1>1. CASE Rooms!Next
  BY <1>1, PublishKeeps, SendsNothingKeeps, StoreKeeps, SendKeeps, FillKeepsRooms,
     SubscribeRoomKeeps, ReadKeepsRooms, AttachKeeps, AttachFailsKeeps, LeaveKeeps, UnsubscribeKeeps DEF Rooms!Next
<1>2. CASE UNCHANGED Rooms!vars
  <2>1. /\ stored' = stored /\ silent' = silent /\ hub' = hub /\ subs' = subs /\ forming' = forming /\ lock' = lock
        /\ pub' = pub /\ client' = client /\ seenBy' = seenBy /\ twice' = twice /\ split' = split
    BY <1>2 DEF Rooms!vars
  <2>2. Rooms!TypeOK'
    BY <2>1 DEF RoomsFacts, Rooms!TypeOK
  <2>3. Placed' /\ AttachersHold' /\ SendsACandle'
    BY <2>1 DEF RoomsFacts, Placed, AttachersHold, SendsACandle, Rooms!Holds
  <2>4. ~split => InOneRoom'
    BY <2>1 DEF RoomsFacts, InOneRoom, IngestInPlace, ClientsInPlace, OthersEmpty,
                SubscribersCaughtUp, Caught, BeingSent, Rooms!Holds
  <2> QED BY <2>1, <2>2, <2>3, <2>4 DEF RoomsFacts, RoomsAreSensible
<1> QED BY <1>1, <1>2

(* A subscriber is sent every candle in the archive from its snapshot on,  *)
(* but for those nobody published since they were written, and none twice  *)
(* by the publish that wrote it, until its room is forgotten while         *)
(* somebody waits for it (hub.py), for any subscribers, rooms and candles. *)
THEOREM OneRoomMissesNothing == RoomsAreSensible /\ Rooms!Spec => []OneRoomSeesEverything
<1>1. RoomsFacts => OneRoomSeesEverything
  <2> SUFFICES ASSUME RoomsFacts, ~split,
                      NEW c \in Clients, client[c].at = "in", NEW n \in stored \ silent
               PROVE  n \in seenBy[c] \/ (pub.at = "sending" /\ n = pub.candle)
    BY DEF RoomsFacts, InOneRoom, OneRoomSeesEverything, Rooms!OneRoomSeesEverything,
           Rooms!NothingFallsBetween, Rooms!SeesEverything
  <2>1. InOneRoom /\ hub \in 1 .. MaxRoom /\ c \in subs[hub]
    BY DEF RoomsFacts, InOneRoom, ClientsInPlace
  <2>2. Caught(c)
    BY <2>1 DEF InOneRoom, SubscribersCaughtUp
  <2> QED BY <2>2 DEF Caught, BeingSent
<1> QED BY <1>1, RoomsInit, RoomsStep, PTL DEF Rooms!Spec

(***************************************************************************)
(* The walk of a backtest.  What a stop promises: the position is guarded  *)
(* from its entry on, trailing only tightens the guard, and every way out  *)
(* at a level is at the guard or before it.                                *)
(***************************************************************************)

(* Prices, costs and lengths are numbers, in any amount and of any sign; a *)
(* stop there is none of is not a number.                                  *)
EngineIsSensible ==
  /\ Price \subseteq Int /\ Level \subseteq Int
  /\ DayLength \in Nat \ {0} /\ BarLength \in Nat \ {0} /\ Minutes \in Nat /\ Rollover \in Int
  /\ Spread \in Int /\ Slippage \in Int /\ LongRate \in Int /\ ShortRate \in Int
  /\ Capital \in Int /\ Parts \in Int
  /\ ExpiresBars \in Int /\ Nothing \notin Int

(* What the walk keeps.                                                    *)
Book == [realized : Int, day : Int, dayR : Int, broke : BOOLEAN]

Position ==
  [side : {1, -1}, entry : Int, price : Int, bar : Int, stop : Int \cup {Nothing},
   target : Int \cup {Nothing}, trailed : BOOLEAN, due : {Nothing, "when", "max_bars"},
   risk : Int \cup {Nothing}]

Trade ==
  [entry : Int, exit : Int, money : Int, r : Int, risk : Int \cup {Nothing}, nights : Int,
   reason : {"when", "max_bars", "out_of_capital", "stop", "trail", "target", "end_of_range"},
   jumped : BOOLEAN]

Entry ==
  {o \in [side : {1, -1}, kind : {"market", "stop", "limit"}, price : Level \cup {Nothing},
          expires : Int \cup {Nothing}] : o.kind # "market" => o.price \in Level}

(* The distance from the entry to the stop is what was risked, or less: a  *)
(* stop is on the right side of the entry and is moved one way only.       *)
Guarded(p) ==
  p.risk # Nothing =>
    p.risk > 0 /\ p.stop # Nothing /\ p.side * (p.stop - p.price) >= -p.risk

(* What the property says of one trade.                                    *)
Within(t) ==
  t.reason \in {"stop", "trail", "out_of_capital"} /\ t.risk # Nothing /\ ~t.jumped
    => t.money >= -(t.risk + Slippage + t.nights)

(* The inductive invariant: the types, a guarded position, and closed      *)
(* trades within their risk.                                               *)
EngineFacts ==
  /\ EngineIsSensible
  /\ minute \in Nat /\ bar \in Nat /\ stops \in BOOLEAN
  /\ book \in Book
  /\ order # Nothing => order \in Entry
  /\ pos # Nothing => pos \in Position /\ Guarded(pos) /\ candle \in [ends : Int, close : Int]
  /\ trades \in Seq(Trade) /\ \A k \in DOMAIN trades : Within(trades[k])

(* The nights are a whole number, and so is what they cost.                *)
LEMMA NightsCost ==
  ASSUME EngineIsSensible, NEW p \in Position, NEW instant \in Int
  PROVE  Engine!Financing(p, instant) \in Int
<1>1. Engine!Nights(p.entry, instant) \in Int
  <2>1. p.entry \in Int /\ DayLength \in Nat \ {0} /\ Rollover \in Int
    BY DEF Position, EngineIsSensible
  <2> DEFINE today == (p.entry \div DayLength) * DayLength + Rollover
             first == IF today <= p.entry THEN today + DayLength ELSE today
  <2>2. p.entry \div DayLength \in Int
    BY <2>1
  <2>3. today \in Int
    BY <2>1, <2>2
  <2>4. first \in Int
    BY <2>1, <2>3
  <2>5. Engine!Nights(p.entry, instant) =
          IF instant < first THEN 0 ELSE (instant - first) \div DayLength + 1
    BY DEF Engine!Nights
  <2> HIDE DEF first
  <2>6. instant - first \in Int
    BY <2>4
  <2>7. (instant - first) \div DayLength \in Int
    BY <2>1, <2>6
  <2> QED BY <2>5, <2>7
<1>2. NightRate[p.side] \in Int /\ p.price \in Int
  BY DEF NightRate, Position, EngineIsSensible
<1> DEFINE n == Engine!Nights(p.entry, instant)
           q == NightRate[p.side]
<1>3. Engine!Financing(p, instant) = n * q * p.price
  BY DEF Engine!Financing
<1> HIDE DEF n, q
<1> QED BY <1>1, <1>2, <1>3 DEF n, q

(* Nothing is open at first.                                               *)
LEMMA EngineStarts == EngineIsSensible /\ Engine!Init => EngineFacts
  BY DEF Engine!Init, EngineFacts, Book

(* The book stays one when a field of it is set,                           *)
LEMMA BookPuts ==
  ASSUME NEW b \in Book, NEW n \in Int, NEW q \in BOOLEAN
  PROVE  /\ [b EXCEPT !.realized = n] \in Book /\ [b EXCEPT !.day = n] \in Book
         /\ [b EXCEPT !.dayR = n] \in Book /\ [b EXCEPT !.broke = q] \in Book
<1>1. [b EXCEPT !.realized = n] \in Book
  BY DEF Book
<1>2. [b EXCEPT !.day = n] \in Book
  BY DEF Book
<1>3. [b EXCEPT !.dayR = n] \in Book
  BY DEF Book
<1>4. [b EXCEPT !.broke = q] \in Book
  BY DEF Book
<1> QED BY <1>1, <1>2, <1>3, <1>4

(* The book of a new day is a book.                                        *)
LEMMA NewDayKeeps ==
  ASSUME EngineIsSensible, NEW b \in Book, NEW instant \in Int
  PROVE  Engine!NewDay(b, instant) \in Book
<1>1. Engine!Day(instant) \in Int
  <2>1. DayLength \in Nat \ {0}
    BY DEF EngineIsSensible
  <2> QED BY <2>1 DEF Engine!Day
<1> DEFINE c == [b EXCEPT !.day = Engine!Day(instant)]
<1>2. c \in Book
  BY <1>1 DEF Book
<1> HIDE DEF c
<1>3. [c EXCEPT !.dayR = 0] \in Book
  BY <1>2 DEF Book
<1> USE DEF c
<1>4. [b EXCEPT !.day = Engine!Day(instant), !.dayR = 0] \in Book
  BY <1>3
<1> QED BY <1>4 DEF Engine!NewDay

(* A position that is closed no further than its risk and the slippage     *)
(* away makes a trade within its bound.                                    *)
LEMMA CloseFacts ==
  ASSUME EngineFacts, NEW p \in Position, NEW instant \in Int, NEW price \in Int,
         NEW reason \in {"when", "max_bars", "out_of_capital", "stop", "trail", "target",
                         "end_of_range"},
         NEW jumped \in BOOLEAN, NEW b \in Book, Engine!Close(p, instant, price, reason, jumped, b),
         Guarded(p),
         reason \in {"stop", "trail", "out_of_capital"} /\ p.risk # Nothing /\ ~jumped
           => p.side * (price - p.price) >= -(p.risk + Slippage)
  PROVE  /\ book' \in Book /\ pos' = Nothing
         /\ trades' \in Seq(Trade) /\ \A k \in DOMAIN trades' : Within(trades'[k])
<1> DEFINE f == Engine!Financing(p, instant)
           made == p.side * (price - p.price) - f
           r == IF p.risk = Nothing THEN 0 ELSE (made * Parts) \div p.risk
           t == [entry |-> p.entry, exit |-> instant, money |-> made, r |-> r, risk |-> p.risk,
                 nights |-> f, reason |-> reason, jumped |-> jumped]
           today == Engine!NewDay(b, instant)
<1>1. /\ pos' = Nothing /\ trades' = Append(trades, t)
      /\ book' = [today EXCEPT !.realized = @ + made, !.dayR = @ + r,
                               !.broke = @ \/ reason = "out_of_capital"
                                           \/ Capital + b.realized + made <= 0]
  BY DEF Engine!Close, Engine!Money, Engine!R
<1>2. f \in Int
  BY NightsCost DEF EngineFacts
<1>3. p.side \in {1, -1} /\ p.price \in Int /\ p.entry \in Int /\ p.risk \in Int \cup {Nothing}
  BY DEF Position
<1> HIDE DEF f
<1>4. p.side * (price - p.price) \in Int
  BY <1>3
<1>5. made \in Int
  BY <1>2, <1>4
<1>6. Parts \in Int /\ Capital \in Int /\ Slippage \in Int /\ DayLength \in Nat \ {0}
  BY DEF EngineFacts, EngineIsSensible
<1>7. reason \in {"stop", "trail", "out_of_capital"} /\ p.risk # Nothing /\ ~jumped
        => made >= -(p.risk + Slippage + f)
  <2> SUFFICES ASSUME reason \in {"stop", "trail", "out_of_capital"}, p.risk # Nothing, ~jumped
               PROVE  made >= -(p.risk + Slippage + f)
    OBVIOUS
  <2>1. p.risk \in Int /\ p.side * (price - p.price) >= -(p.risk + Slippage)
    BY <1>3
  <2> QED BY <1>2, <1>4, <1>6, <2>1
<1> HIDE DEF made
<1>8. r \in Int
  <2>1. made * Parts \in Int
    BY <1>5, <1>6
  <2>2. p.risk # Nothing => p.risk \in Nat \ {0}
    BY <1>3 DEF Guarded
  <2>3. p.risk # Nothing => (made * Parts) \div p.risk \in Int
    BY <2>1, <2>2
  <2> QED BY <2>3
<1> HIDE DEF r
<1>9. t \in Trade
  BY <1>2, <1>3, <1>5, <1>8 DEF Trade
<1>10. Within(t)
  BY <1>7 DEF Within
<1> HIDE DEF t
<1>11. trades' \in Seq(Trade) /\ \A k \in DOMAIN trades' : Within(trades'[k])
  <2>1. /\ trades \in Seq(Trade) /\ \A k \in DOMAIN trades : Within(trades[k])
    BY DEF EngineFacts
  <2>2. /\ trades' \in Seq(Trade) /\ Len(trades) \in Nat
        /\ DOMAIN trades = 1 .. Len(trades) /\ DOMAIN trades' = 1 .. Len(trades) + 1
        /\ trades'[Len(trades) + 1] = t /\ \A k \in 1 .. Len(trades) : trades'[k] = trades[k]
    BY <1>1, <1>9, <2>1
  <2>3. ASSUME NEW k \in DOMAIN trades' PROVE Within(trades'[k])
    <3>1. CASE k = Len(trades) + 1
      BY <1>10, <2>2, <3>1
    <3>2. CASE k \in 1 .. Len(trades)
      <4>1. trades'[k] = trades[k] /\ Within(trades[k])
        BY <2>1, <2>2, <3>2
      <4> QED BY <4>1
    <3> QED BY <2>2, <3>1, <3>2
  <2> QED BY <2>2, <2>3
<1>12. today \in Book
  BY NewDayKeeps DEF EngineFacts
<1> HIDE DEF today
<1>13. book' \in Book
  <2>1. (Capital + b.realized + made <= 0) \in BOOLEAN /\ (reason = "out_of_capital") \in BOOLEAN
    OBVIOUS
  <2> DEFINE n == today.realized + made
             m == today.dayR + r
             q == today.broke \/ reason = "out_of_capital" \/ Capital + b.realized + made <= 0
             b1 == [today EXCEPT !.realized = n]
             b2 == [b1 EXCEPT !.dayR = m]
  <2>2. n \in Int /\ m \in Int
    BY <1>5, <1>8, <1>12 DEF Book
  <2>3. q \in BOOLEAN
    BY Zenon
  <2>4. book' = [today EXCEPT !.realized = n, !.dayR = m, !.broke = q]
    BY <1>1
  <2> HIDE DEF n, m, q
  <2>5. b1 \in Book
    BY <1>12, <2>2, BookPuts
  <2>6. book' = [b2 EXCEPT !.broke = q]
    BY <2>4
  <2> HIDE DEF b1
  <2>7. b2 \in Book
    BY <2>2, <2>5, BookPuts
  <2> HIDE DEF b2
  <2> QED BY <2>3, <2>6, <2>7, BookPuts
<1> QED BY <1>1, <1>11, <1>13

(* What every way of going through a minute leaves.                        *)
Settled ==
  /\ book' \in Book /\ (pos' # Nothing => pos' \in Position /\ Guarded(pos'))
  /\ trades' \in Seq(Trade) /\ \A k \in DOMAIN trades' : Within(trades'[k])

(* The prices of both sides are numbers.                                   *)
LEMMA SidesOfACandle ==
  ASSUME EngineIsSensible, NEW c \in Engine!Candle, NEW side \in {1, -1}
  PROVE  /\ Engine!Entering(side, c).open \in Int /\ Engine!Leaving(side, c).open \in Int
         /\ Engine!Best(side, Engine!Entering(side, c)) \in Int
         /\ Engine!Worst(side, Engine!Entering(side, c)) \in Int
         /\ Engine!Best(side, Engine!Leaving(side, c)) \in Int
         /\ Engine!Worst(side, Engine!Leaving(side, c)) \in Int
<1>1. /\ c \in [open : Price, high : Price, low : Price, close : Price]
      /\ Price \subseteq Int /\ Spread \in Int
  BY DEF Engine!Candle, EngineIsSensible
<1>2. /\ c.open \in Int /\ c.high \in Int /\ c.low \in Int /\ c.close \in Int
      /\ DOMAIN c = {"open", "high", "low", "close"}
  BY <1>1
<1> DEFINE a == Engine!Ask(c)
<1>3. a.open \in Int /\ a.high \in Int /\ a.low \in Int
  BY <1>1, <1>2 DEF Engine!Ask
<1> HIDE DEF a
<1>4. /\ Engine!Entering(side, c) \in {a, c} /\ Engine!Leaving(side, c) \in {a, c}
  BY DEF Engine!Entering, Engine!Leaving, a
<1> QED BY <1>2, <1>3, <1>4 DEF Engine!Best, Engine!Worst

(* What a side leaves for: numbers, of which the worst is no better than   *)
(* any other.                                                              *)
LEMMA WorstOfACandle ==
  ASSUME EngineIsSensible, NEW c \in Engine!Candle, NEW side \in {1, -1}
  PROVE  /\ c.close \in Int
         /\ \A q \in {Engine!Leaving(side, c).open,
                      IF side = 1 THEN c.close ELSE c.close + Spread} :
              q \in Int /\ side * (q - Engine!Worst(side, Engine!Leaving(side, c))) >= 0
<1>1. /\ c \in [open : Price, high : Price, low : Price, close : Price]
      /\ Price \subseteq Int /\ Spread \in Int
      /\ c.low <= c.open /\ c.low <= c.close /\ c.open <= c.high /\ c.close <= c.high
  BY DEF Engine!Candle, EngineIsSensible
<1>2. /\ c.open \in Int /\ c.high \in Int /\ c.low \in Int /\ c.close \in Int
      /\ DOMAIN c = {"open", "high", "low", "close"}
  BY <1>1
<1> DEFINE a == Engine!Ask(c)
<1>3. a.open = c.open + Spread /\ a.high = c.high + Spread
  BY <1>1, <1>2 DEF Engine!Ask
<1> HIDE DEF a
<1>4. CASE side = 1
  <2>1. Engine!Leaving(side, c) = c /\ Engine!Worst(side, c) = c.low
    BY <1>4 DEF Engine!Leaving, Engine!Worst, Engine!Long
  <2> QED BY <1>1, <1>2, <1>4, <2>1
<1>5. CASE side = -1
  <2>1. Engine!Leaving(side, c) = a /\ Engine!Worst(side, a) = a.high
    BY <1>5 DEF Engine!Leaving, Engine!Worst, Engine!Long, a
  <2>2. \A q \in {a.open, c.close + Spread} : q \in Int /\ side * (q - a.high) >= 0
    BY <1>1, <1>2, <1>3, <1>5
  <2> QED BY <1>2, <1>5, <2>1, <2>2
<1> QED BY <1>4, <1>5

(* A floor is where the equity is used up.                                 *)
LEMMA FloorFacts ==
  ASSUME EngineFacts, NEW p \in Position, NEW instant \in Int
  PROVE  /\ Engine!Floor(p, instant) \in Int
         /\ Engine!Floor(p, instant)
              = p.price - p.side * ((Capital + book.realized) - Engine!Financing(p, instant))
<1>1. p.side \in {1, -1} /\ p.price \in Int
  BY DEF Position
<1>2. Capital \in Int /\ book.realized \in Int /\ EngineIsSensible
  BY DEF EngineFacts, EngineIsSensible, Book
<1>3. Engine!Financing(p, instant) \in Int
  BY <1>2, NightsCost
<1> DEFINE left == (Capital + book.realized) - Engine!Financing(p, instant)
<1>4. left \in Int
  BY <1>2, <1>3
<1>5. Engine!Floor(p, instant) = p.price - p.side * left
  <2>1. Engine!Equity = Capital + book.realized
    BY DEF Engine!Equity
  <2>2. Engine!Floor(p, instant) = p.price - p.side * (Engine!Equity - Engine!Financing(p, instant))
    BY DEF Engine!Floor
  <2>3. left = Engine!Equity - Engine!Financing(p, instant)
    BY <2>1
  <2> HIDE DEF left
  <2> QED BY <2>2, <2>3
<1> HIDE DEF left
<1>6. Engine!Floor(p, instant) \in Int
  BY <1>1, <1>4, <1>5
<1> QED BY <1>5, <1>6 DEF left

(* A level that is not jumped over is left at, with the slippage.          *)
LEMMA LevelFacts ==
  ASSUME EngineIsSensible, NEW p \in Position, NEW c \in Engine!Candle, NEW level \in Int
  PROVE  /\ Engine!Jumps(p, c, level) \in BOOLEAN
         /\ Engine!Jumps(p, c, level) = (p.side * (level - Engine!Leaving(p.side, c).open) >= 0)
         /\ Engine!LeavesAt(p, c, level) \in Int
         /\ ~Engine!Jumps(p, c, level)
              => Engine!LeavesAt(p, c, level) = level - p.side * Slippage
<1> DEFINE out == Engine!Leaving(p.side, c)
<1>1. Engine!Jumps(p, c, level) = (p.side * (level - out.open) >= 0)
  BY DEF Engine!Jumps, Engine!AtOrPast
<1>2. Engine!LeavesAt(p, c, level) =
        (IF Engine!Jumps(p, c, level) THEN out.open ELSE level) - p.side * Slippage
  BY DEF Engine!LeavesAt
<1>3. p.side \in {1, -1} /\ Slippage \in Int
  BY DEF Position, EngineIsSensible
<1>4. out.open \in Int
  BY <1>3, WorstOfACandle
<1>5. p.side * Slippage \in Int
  BY <1>3
<1> HIDE DEF out
<1>6. (p.side * (level - out.open) >= 0) \in BOOLEAN
  OBVIOUS
<1>7. Engine!Jumps(p, c, level) \in BOOLEAN
  BY <1>1, <1>6
<1> QED BY <1>1, <1>2, <1>4, <1>5, <1>7 DEF out

(* A minute that goes through a guarded position leaves by the stop, by    *)
(* the floor before the stop, by the target, or not at all: the floor is   *)
(* nearer than a stop that was not reached, or comes after it.             *)
LEMMA SettleFacts ==
  ASSUME EngineFacts, NEW p \in Position, Guarded(p), NEW c \in Engine!Candle, minute \in Int,
         NEW inside \in BOOLEAN, NEW b \in Book, Engine!Settle(p, c, inside, b)
  PROVE  Settled
<1> DEFINE side == p.side
           out == Engine!Leaving(side, c)
           floor == Engine!Floor(p, minute)
           worst == Engine!Worst(side, out)
           stopHit == p.stop # Nothing /\ Engine!AtOrPast(side, p.stop, worst)
           floorHit == Engine!AtOrPast(side, floor, worst)
           stopFirst == stopHit /\ Engine!ComesFirst(p, floor)
           targetHit == p.target # Nothing /\ Engine!AtOrPast(side, Engine!Best(side, out), p.target)
<1>1. \/ /\ floorHit /\ ~stopFirst
         /\ Engine!Close(p, minute, Engine!LeavesAt(p, c, floor), "out_of_capital",
                         Engine!Jumps(p, c, floor), b)
      \/ /\ stopHit /\ (floorHit => stopFirst)
         /\ Engine!Close(p, minute, Engine!LeavesAt(p, c, p.stop),
                         IF p.trailed THEN "trail" ELSE "stop", Engine!Jumps(p, c, p.stop), b)
      \/ /\ targetHit /\ ~inside /\ ~stopHit /\ ~floorHit
         /\ Engine!Close(p, minute,
                         IF Engine!AtOrPast(side, out.open, p.target) THEN out.open ELSE p.target,
                         "target", FALSE, b)
      \/ /\ ~stopHit /\ ~floorHit /\ ~(targetHit /\ ~inside)
         /\ pos' = p /\ book' = b /\ trades' = trades
  BY DEF Engine!Settle
<1>2. EngineIsSensible /\ Slippage \in Int /\ Capital \in Int /\ book.realized \in Int
  BY DEF EngineFacts, EngineIsSensible, Book
<1>3. /\ side \in {1, -1} /\ p.price \in Int
      /\ (p.stop # Nothing => p.stop \in Int) /\ (p.target # Nothing => p.target \in Int)
      /\ (p.risk # Nothing => p.risk \in Int) /\ p.trailed \in BOOLEAN
  BY DEF Position
<1>4. out.open \in Int /\ worst \in Int /\ Engine!Best(side, out) \in Int
  BY <1>2, <1>3, SidesOfACandle
<1>5. floor \in Int
  BY FloorFacts
<1>6. \A level \in Int : /\ Engine!Jumps(p, c, level) \in BOOLEAN
                         /\ Engine!LeavesAt(p, c, level) \in Int
                         /\ ~Engine!Jumps(p, c, level)
                              => Engine!LeavesAt(p, c, level) = level - side * Slippage
  BY <1>2, LevelFacts
<1>7. CASE /\ floorHit /\ ~stopFirst
           /\ Engine!Close(p, minute, Engine!LeavesAt(p, c, floor), "out_of_capital",
                           Engine!Jumps(p, c, floor), b)
  <2> DEFINE price == Engine!LeavesAt(p, c, floor)
             jumped == Engine!Jumps(p, c, floor)
  <2>1. price \in Int /\ jumped \in BOOLEAN /\ (~jumped => price = floor - side * Slippage)
    BY <1>5, <1>6
  <2>2. p.risk # Nothing => side * (floor - p.price) >= -p.risk
    <3> SUFFICES ASSUME p.risk # Nothing PROVE side * (floor - p.price) >= -p.risk
      OBVIOUS
    <3>1. p.stop # Nothing /\ p.stop \in Int /\ p.risk \in Int
          /\ side * (p.stop - p.price) >= -p.risk
      BY <1>3 DEF Guarded
    <3>2. side * (floor - worst) >= 0
      BY <1>7 DEF Engine!AtOrPast
    <3>3. \/ ~(side * (p.stop - worst) >= 0)
          \/ ~(side * (p.stop - floor) >= 0)
      BY <1>7, <3>1 DEF Engine!AtOrPast, Engine!ComesFirst
    <3>4. side = 1 \/ side = -1
      BY <1>3
    <3> HIDE DEF side, floor, worst
    <3>5. CASE side = 1
      BY <1>3, <1>4, <1>5, <3>1, <3>2, <3>3, <3>5
    <3>6. CASE side = -1
      BY <1>3, <1>4, <1>5, <3>1, <3>2, <3>3, <3>6
    <3> QED BY <3>4, <3>5, <3>6
  <2> HIDE DEF price, jumped
  <2>3. p.risk # Nothing /\ ~jumped => side * (price - p.price) >= -(p.risk + Slippage)
    <3> SUFFICES ASSUME p.risk # Nothing, ~jumped
                 PROVE  side * (price - p.price) >= -(p.risk + Slippage)
      OBVIOUS
    <3> HIDE DEF side, floor
    <3>1. price = floor - side * Slippage /\ side * (floor - p.price) >= -p.risk
          /\ p.risk \in Int /\ (side = 1 \/ side = -1)
      BY <1>3, <2>1, <2>2
    <3>2. CASE side = 1
      BY <1>2, <1>3, <1>5, <3>1, <3>2
    <3>3. CASE side = -1
      BY <1>2, <1>3, <1>5, <3>1, <3>3
    <3> QED BY <3>1, <3>2, <3>3
  <2>4. Engine!Close(p, minute, price, "out_of_capital", jumped, b)
    BY <1>7 DEF price, jumped
  <2> QED BY <2>1, <2>3, <2>4, CloseFacts DEF Settled
<1>8. CASE /\ stopHit /\ (floorHit => stopFirst)
           /\ Engine!Close(p, minute, Engine!LeavesAt(p, c, p.stop),
                           IF p.trailed THEN "trail" ELSE "stop", Engine!Jumps(p, c, p.stop), b)
  <2> DEFINE price == Engine!LeavesAt(p, c, p.stop)
             jumped == Engine!Jumps(p, c, p.stop)
             reason == IF p.trailed THEN "trail" ELSE "stop"
  <2>1. /\ p.stop \in Int /\ price \in Int /\ jumped \in BOOLEAN
        /\ ~jumped => price = p.stop - side * Slippage
    BY <1>3, <1>6, <1>8
  <2> HIDE DEF price, jumped
  <2>2. p.risk # Nothing /\ ~jumped => side * (price - p.price) >= -(p.risk + Slippage)
    <3> SUFFICES ASSUME p.risk # Nothing, ~jumped
                 PROVE  side * (price - p.price) >= -(p.risk + Slippage)
      OBVIOUS
    <3>1. price = p.stop - side * Slippage /\ side * (p.stop - p.price) >= -p.risk
          /\ p.risk \in Int /\ (side = 1 \/ side = -1)
      BY <1>3, <2>1 DEF Guarded
    <3> HIDE DEF side
    <3>2. CASE side = 1
      BY <1>2, <1>3, <2>1, <3>1, <3>2
    <3>3. CASE side = -1
      BY <1>2, <1>3, <2>1, <3>1, <3>3
    <3> QED BY <3>1, <3>2, <3>3
  <2>3. reason \in {"trail", "stop"}
    BY <1>3
  <2>4. Engine!Close(p, minute, price, reason, jumped, b)
    BY <1>8 DEF price, jumped
  <2> HIDE DEF reason
  <2> QED BY <2>1, <2>2, <2>3, <2>4, CloseFacts DEF Settled
<1>9. CASE /\ targetHit /\ ~inside /\ ~stopHit /\ ~floorHit
           /\ Engine!Close(p, minute,
                IF Engine!AtOrPast(side, out.open, p.target) THEN out.open ELSE p.target,
                "target", FALSE, b)
  <2> DEFINE price == IF Engine!AtOrPast(side, out.open, p.target) THEN out.open ELSE p.target
  <2>1. price \in Int
    BY <1>3, <1>4, <1>9
  <2>2. Engine!Close(p, minute, price, "target", FALSE, b)
    BY <1>9
  <2> HIDE DEF price
  <2> QED BY <2>1, <2>2, CloseFacts DEF Settled
<1>10. CASE pos' = p /\ book' = b /\ trades' = trades
  BY <1>10 DEF Settled, EngineFacts
<1> QED BY <1>1, <1>7, <1>8, <1>9, <1>10

(* A position opens guarded: its stop is under its price, or it has none.  *)
LEMMA OpenFacts ==
  ASSUME EngineFacts, NEW o \in Entry, NEW price \in Int, NEW stop \in Level \cup {Nothing},
         NEW target \in Level \cup {Nothing}, stop # Nothing => Engine!IsStop(o, price, stop)
  PROVE  Engine!Open(o, price, stop, target) \in Position
         /\ Guarded(Engine!Open(o, price, stop, target))
<1> DEFINE risk == IF stop = Nothing THEN Nothing ELSE o.side * (price - stop)
<1>1. Level \subseteq Int /\ minute \in Int /\ bar \in Int
  BY DEF EngineFacts, EngineIsSensible
<1>2. (o.side = 1 \/ o.side = -1) /\ o.side \in {1, -1}
  BY DEF Entry
<1>3. stop # Nothing => stop \in Int /\ risk \in Int /\ risk > 0 /\ o.side * (stop - price) >= -risk
  <2> SUFFICES ASSUME stop # Nothing
               PROVE  stop \in Int /\ risk \in Int /\ risk > 0 /\ o.side * (stop - price) >= -risk
    OBVIOUS
  <2>1. stop \in Int /\ risk = o.side * (price - stop) /\ o.side * (price - stop) > 0
    BY <1>1 DEF Engine!IsStop
  <2> HIDE DEF risk
  <2>2. CASE o.side = 1
    BY <2>1, <2>2
  <2>3. CASE o.side = -1
    BY <2>1, <2>3
  <2> QED BY <1>2, <2>2, <2>3
<1>4. stop = Nothing => risk = Nothing
  OBVIOUS
<1>5. /\ stop \in Int \cup {Nothing} /\ target \in Int \cup {Nothing}
      /\ risk \in Int \cup {Nothing}
  BY <1>1, <1>3, <1>4
<1> DEFINE p == [side |-> o.side, entry |-> minute, price |-> price, bar |-> bar,
                 stop |-> stop, target |-> target, trailed |-> FALSE, due |-> Nothing,
                 risk |-> risk]
<1>6. Engine!Open(o, price, stop, target) = p
  BY DEF Engine!Open
<1> HIDE DEF risk
<1>7. p \in Position
  BY <1>1, <1>2, <1>5 DEF Position
<1>8. Guarded(p)
  BY <1>3, <1>4 DEF Guarded
<1> QED BY <1>6, <1>7, <1>8

(* An order that fills fills at a number.                                  *)
LEMMA FillPriceFacts ==
  ASSUME EngineFacts, NEW o \in Entry, NEW c \in Engine!Candle,
         Engine!FillPrice(o, c) # Nothing
  PROVE  Engine!FillPrice(o, c) \in Int
<1> DEFINE in == Engine!Entering(o.side, c)
           worse == IF Engine!AtOrPast(o.side, in.open, o.price) THEN in.open ELSE o.price
           better == IF Engine!AtOrPast(o.side, in.open, o.price) THEN o.price ELSE in.open
<1>1. EngineIsSensible /\ Slippage \in Int /\ Level \subseteq Int
  BY DEF EngineFacts, EngineIsSensible
<1>2. o.side \in {1, -1} /\ o.kind \in {"market", "stop", "limit"}
      /\ (o.kind # "market" => o.price \in Int)
  BY <1>1 DEF Entry
<1>3. in.open \in Int
  BY <1>1, <1>2, SidesOfACandle
<1>4. o.kind # "market" => worse \in Int /\ better \in Int
  BY <1>2, <1>3
<1>5. o.side * Slippage \in Int
  BY <1>1, <1>2
<1>6. Engine!FillPrice(o, c) =
        CASE o.kind = "market" -> in.open + o.side * Slippage
          [] o.kind = "stop" /\ Engine!AtOrPast(o.side, Engine!Best(o.side, in), o.price)
                -> worse + o.side * Slippage
          [] o.kind = "limit" /\ Engine!AtOrPast(o.side, o.price, Engine!Worst(o.side, in)) -> better
          [] OTHER -> Nothing
  BY DEF Engine!FillPrice
<1> DEFINE cost == o.side * Slippage
<1> HIDE DEF in, worse, better, cost
<1>7. CASE o.kind = "market"
  BY <1>3, <1>5, <1>6, <1>7 DEF cost
<1>8. CASE o.kind = "stop"
  BY <1>4, <1>5, <1>6, <1>8 DEF cost
<1>9. CASE o.kind = "limit"
  BY <1>4, <1>6, <1>9
<1> QED BY <1>2, <1>7, <1>8, <1>9

(* So do the ways through a minute: an order that fills,                   *)
LEMMA FillKeeps ==
  ASSUME EngineFacts, NEW c \in Engine!Candle, Engine!Fill(c)
  PROVE  Settled /\ order' = Nothing
<1>1. order \in Entry /\ Engine!FillPrice(order, c) # Nothing /\ pos = Nothing /\ order' = Nothing
  BY DEF Engine!Fill, EngineFacts
<1> DEFINE price == Engine!FillPrice(order, c)
<1>2. price \in Int
  BY <1>1, FillPriceFacts
<1>3. PICK stop \in IF stops THEN Level \cup {Nothing} ELSE {Nothing},
           target \in Level \cup {Nothing} :
        \/ stops /\ ~Engine!IsStop(order, price, stop)
           /\ pos' = pos /\ book' = book /\ trades' = trades
        \/ (stops => Engine!IsStop(order, price, stop))
           /\ Engine!Settle(Engine!Open(order, price, stop, target), c, order.kind # "market",
                            Engine!NewDay(book, minute))
  BY DEF Engine!Fill
<1> HIDE DEF price
<1>4. CASE pos' = pos /\ book' = book /\ trades' = trades
  BY <1>1, <1>4 DEF Settled, EngineFacts
<1>5. CASE /\ stops => Engine!IsStop(order, price, stop)
           /\ Engine!Settle(Engine!Open(order, price, stop, target), c, order.kind # "market",
                            Engine!NewDay(book, minute))
  <2>1. stop \in Level \cup {Nothing} /\ (stop # Nothing => Engine!IsStop(order, price, stop))
    BY <1>3, <1>5
  <2> DEFINE p == Engine!Open(order, price, stop, target)
             b == Engine!NewDay(book, minute)
             inside == order.kind # "market"
  <2>2. p \in Position /\ Guarded(p)
    BY <1>1, <1>2, <2>1, OpenFacts
  <2>3. b \in Book /\ minute \in Int
    BY NewDayKeeps DEF EngineFacts
  <2>4. inside \in BOOLEAN /\ Engine!Settle(p, c, inside, b)
    BY <1>5
  <2> HIDE DEF p, b, inside
  <2>5. Settled
    BY <2>2, <2>3, <2>4, SettleFacts
  <2> QED BY <1>1, <2>5
<1> QED BY <1>1, <1>3, <1>4, <1>5

(* an exit that was decided,                                               *)
LEMMA ExitDueKeeps ==
  ASSUME EngineFacts, NEW c \in Engine!Candle, Engine!ExitDue(c)
  PROVE  Settled /\ order' = order
<1>1. pos # Nothing /\ pos \in Position /\ Guarded(pos) /\ order' = order /\ pos.due # Nothing
  BY DEF Engine!ExitDue, EngineFacts
<1> DEFINE open == Engine!Leaving(pos.side, c).open
           price == open - pos.side * Slippage
           jumped == Engine!Jumps(pos, c, Engine!Floor(pos, minute))
<1>2. Engine!Close(pos, minute, price, pos.due, jumped, book)
  BY DEF Engine!ExitDue
<1>3. EngineIsSensible /\ Slippage \in Int /\ minute \in Int /\ book \in Book
  BY DEF EngineFacts, EngineIsSensible
<1>4. pos.side \in {1, -1} /\ pos.due \in {"when", "max_bars"}
  BY <1>1 DEF Position
<1>5. open \in Int
  BY <1>3, <1>4, SidesOfACandle
<1>6. price \in Int
  <2> HIDE DEF open
  <2> QED BY <1>3, <1>4, <1>5
<1>7. jumped \in BOOLEAN
  <2>1. jumped = (pos.side * (Engine!Floor(pos, minute) - open) >= 0)
    BY DEF Engine!Jumps, Engine!AtOrPast
  <2> DEFINE far == pos.side * (Engine!Floor(pos, minute) - open)
  <2>2. jumped = (far >= 0)
    BY <2>1
  <2> HIDE DEF jumped, far
  <2>3. (far >= 0) \in BOOLEAN
    OBVIOUS
  <2> QED BY <2>2, <2>3
<1> HIDE DEF price, jumped
<1> DEFINE reason == pos.due
<1>8. reason \in {"when", "max_bars"} /\ Engine!Close(pos, minute, price, reason, jumped, book)
  BY <1>2, <1>4
<1> HIDE DEF reason
<1>9. Settled
  BY <1>1, <1>3, <1>6, <1>7, <1>8, CloseFacts DEF Settled
<1> QED BY <1>1, <1>9

(* a position that is held,                                                *)
LEMMA HoldKeeps ==
  ASSUME EngineFacts, NEW c \in Engine!Candle, Engine!Hold(c)
  PROVE  Settled /\ order' = order
<1>1. pos # Nothing /\ order' = order /\ Engine!Settle(pos, c, FALSE, book)
  BY DEF Engine!Hold
<1>2. pos \in Position /\ Guarded(pos) /\ book \in Book /\ minute \in Int
  BY <1>1 DEF EngineFacts
<1> QED BY <1>1, <1>2, SettleFacts

(* and nothing at all.                                                     *)
LEMMA NothingToFillKeeps ==
  ASSUME EngineFacts, NEW c, Engine!NothingToFill(c)
  PROVE  Settled /\ order' = order
<1>1. order' = order /\ pos' = pos /\ book' = book /\ trades' = trades
  BY DEF Engine!NothingToFill
<1> QED BY <1>1 DEF Settled, EngineFacts

(* Each step keeps the facts.                                              *)
LEMMA MinuteKeeps ==
  ASSUME EngineFacts, Engine!Minute
  PROVE  EngineFacts'
<1>1. PICK c \in Engine!Candle :
        /\ Engine!MinuteOver(c)
        /\ Engine!ExitDue(c) \/ Engine!Hold(c) \/ Engine!Fill(c) \/ Engine!NothingToFill(c)
  BY DEF Engine!Minute
<1>2. Settled /\ (order' = order \/ order' = Nothing)
  BY <1>1, ExitDueKeeps, HoldKeeps, FillKeeps, NothingToFillKeeps
<1>3. /\ minute' = minute + 1 /\ candle' = [ends |-> minute + 1, close |-> c.close]
      /\ stops' = stops /\ bar' = bar
  BY <1>1 DEF Engine!MinuteOver
<1>4. minute \in Nat /\ c.close \in Int
  BY DEF EngineFacts, EngineIsSensible, Engine!Candle
<1>5. minute' \in Nat /\ candle' \in [ends : Int, close : Int]
  BY <1>3, <1>4
<1>6. order' # Nothing => order' \in Entry
  BY <1>2 DEF EngineFacts
<1> QED BY <1>2, <1>3, <1>5, <1>6 DEF Settled, EngineFacts

(* Nobody traded, nothing changes.                                         *)
LEMMA QuietMinuteKeeps ==
  ASSUME EngineFacts, Engine!QuietMinute
  PROVE  EngineFacts'
<1>1. /\ minute' = minute + 1 /\ candle' = candle /\ stops' = stops /\ bar' = bar
      /\ order' = order /\ pos' = pos /\ book' = book /\ trades' = trades
  BY DEF Engine!QuietMinute
<1> QED BY <1>1 DEF EngineFacts

(* A stop that trails is nearer than the one before.                       *)
LEMMA TrailOnlyTightens ==
  ASSUME EngineFacts, pos # Nothing, NEW distance \in Level
  PROVE  Engine!Trailed(pos, distance) \in Position /\ Guarded(Engine!Trailed(pos, distance))
<1> DEFINE close == IF pos.side = 1 THEN candle.close ELSE candle.close + Spread
           stop == close - pos.side * distance
<1>1. /\ pos \in Position /\ Guarded(pos) /\ candle.close \in Int
      /\ distance \in Int /\ Spread \in Int
  BY DEF EngineFacts, EngineIsSensible
<1>2. /\ (pos.side = 1 \/ pos.side = -1) /\ pos.price \in Int
      /\ (pos.stop # Nothing => pos.stop \in Int) /\ (pos.risk # Nothing => pos.risk \in Int)
  BY <1>1 DEF Position
<1>3. stop \in Int
  BY <1>1, <1>2
<1> HIDE DEF close
<1> DEFINE p == [pos EXCEPT !.stop = stop, !.trailed = TRUE]
<1>4. \/ Engine!Trailed(pos, distance) = pos
      \/ /\ Engine!Trailed(pos, distance) = p
         /\ pos.stop # Nothing /\ pos.side * (stop - pos.stop) > 0
  BY DEF Engine!Trailed, Engine!Tightens, Engine!Long, close
<1> HIDE DEF stop
<1>5. CASE pos.stop # Nothing /\ pos.side * (stop - pos.stop) > 0
  <2> DEFINE q == [pos EXCEPT !.stop = stop]
  <2>1. q \in Position
    BY <1>1, <1>3 DEF Position
  <2> HIDE DEF q
  <2>2. [q EXCEPT !.trailed = TRUE] \in Position
    BY <2>1 DEF Position
  <2> USE DEF q
  <2>3. p \in Position
    BY <2>2
  <2>4. /\ p.stop = stop /\ p.risk = pos.risk /\ p.side = pos.side /\ p.price = pos.price
    BY <1>1 DEF Position
  <2> HIDE DEF p, q
  <2>5. Guarded(p)
    <3> SUFFICES ASSUME pos.risk # Nothing
                 PROVE  pos.risk > 0 /\ stop # Nothing /\ pos.side * (stop - pos.price) >= -pos.risk
      BY <2>4 DEF Guarded
    <3>1. /\ pos.risk > 0 /\ pos.side * (pos.stop - pos.price) >= -pos.risk
          /\ pos.risk \in Int /\ pos.stop \in Int /\ stop # Nothing
      BY <1>1, <1>2, <1>3, <1>5 DEF Guarded, EngineFacts, EngineIsSensible
    <3>2. CASE pos.side = 1
      BY <1>2, <1>3, <1>5, <3>1, <3>2
    <3>3. CASE pos.side = -1
      BY <1>2, <1>3, <1>5, <3>1, <3>3
    <3> QED BY <1>2, <3>2, <3>3
  <2> QED BY <1>1, <1>4, <2>3, <2>5
<1> QED BY <1>1, <1>4, <1>5

(* A decision moves the stop, marks an exit or places an order.            *)
LEMMA DecideKeeps ==
  ASSUME EngineFacts, Engine!Decide
  PROVE  EngineFacts'
<1>1. /\ book' = Engine!NewDay(book, minute) /\ bar' = bar + 1 /\ minute' = minute
      /\ stops' = stops /\ candle' = candle /\ trades' = trades
      /\ Engine!DecideOnPosition \/ Engine!DecideOnEntry
  BY DEF Engine!Decide
<1>2. book' \in Book /\ bar' \in Nat
  BY <1>1, NewDayKeeps DEF EngineFacts
<1>3. CASE Engine!DecideOnPosition
  <2>1. pos # Nothing /\ order' = order
    BY <1>3 DEF Engine!DecideOnPosition
  <2>2. PICK distance \in Level \ {0}, trails \in BOOLEAN, when \in BOOLEAN :
          LET p == IF trails THEN Engine!Trailed(pos, distance) ELSE pos
          IN  pos' = IF when THEN [p EXCEPT !.due = "when"]
                     ELSE IF bar - p.bar >= MaxHeld THEN [p EXCEPT !.due = "max_bars"]
                     ELSE p
    BY <1>3 DEF Engine!DecideOnPosition
  <2> DEFINE p == IF trails THEN Engine!Trailed(pos, distance) ELSE pos
  <2>3. p \in Position /\ Guarded(p)
    BY <2>1, TrailOnlyTightens DEF EngineFacts
  <2>4. pos' \in {[p EXCEPT !.due = "when"], [p EXCEPT !.due = "max_bars"], p}
    BY <2>2
  <2> HIDE DEF p
  <2>5. \A why \in {"when", "max_bars"} : [p EXCEPT !.due = why] \in Position
                                         /\ Guarded([p EXCEPT !.due = why])
    BY <2>3 DEF Position, Guarded
  <2>6. pos' \in Position /\ Guarded(pos')
    BY <2>3, <2>4, <2>5
  <2>7. candle' \in [ends : Int, close : Int]
    BY <1>1, <2>1 DEF EngineFacts
  <2> QED BY <1>1, <1>2, <2>1, <2>6, <2>7 DEF EngineFacts
<1>4. CASE Engine!DecideOnEntry
  <2> DEFINE kept == IF Engine!Expired(order) THEN Nothing ELSE order
  <2>1. /\ pos = Nothing /\ pos' = pos
        /\ order' \in IF kept # Nothing THEN {kept}
                      ELSE IF Engine!Blocked(Engine!NewDay(book, minute)) THEN {Nothing}
                      ELSE Engine!Orders \cup {Nothing}
    BY <1>4 DEF Engine!DecideOnEntry
  <2>2. \A o \in Engine!Orders : o \in Entry
    <3>1. bar + ExpiresBars \in Int
      BY DEF EngineFacts, EngineIsSensible
    <3> DEFINE e == bar + ExpiresBars
    <3>2. Engine!Orders = {o \in [side : {1, -1}, kind : {"market", "stop", "limit"},
                                 price : Level \cup {Nothing}, expires : {Nothing, e}] :
                             (o.price = Nothing) = (o.kind = "market")}
      BY DEF Engine!Orders, Engine!Long, Engine!Short
    <3> HIDE DEF e
    <3>3. e \in Int
      BY <3>1 DEF e
    <3> QED BY <3>2, <3>3 DEF Entry
  <2>3. order' # Nothing => order' \in Entry
    BY <2>1, <2>2 DEF EngineFacts
  <2>4. pos' = Nothing
    BY <2>1
  <2> QED BY <1>1, <1>2, <2>3, <2>4 DEF EngineFacts
<1> QED BY <1>1, <1>3, <1>4

(* The end of the range is no stop.                                        *)
LEMMA EndOfRangeKeeps ==
  ASSUME EngineFacts, Engine!EndOfRange
  PROVE  EngineFacts'
<1>1. pos # Nothing
  BY DEF Engine!EndOfRange
<1>2. /\ pos \in Position /\ Guarded(pos) /\ book \in Book /\ Spread \in Int
      /\ candle.ends \in Int /\ candle.close \in Int
  BY <1>1 DEF EngineFacts, EngineIsSensible
<1> DEFINE price == IF pos.side = Engine!Long THEN candle.close ELSE candle.close + Spread
           jumped == Engine!Nights(pos.entry, candle.ends) > Engine!Nights(pos.entry, candle.ends - 1)
<1>3. /\ Engine!Close(pos, candle.ends, price, "end_of_range", jumped, book)
      /\ minute' = minute /\ stops' = stops /\ bar' = bar /\ candle' = candle /\ order' = order
  BY DEF Engine!EndOfRange
<1>4. price \in Int
  BY <1>2
<1>5. jumped \in BOOLEAN
  OBVIOUS
<1> HIDE DEF price, jumped
<1> DEFINE ends == candle.ends
<1>6. ends \in Int /\ Engine!Close(pos, ends, price, "end_of_range", jumped, book)
  BY <1>2, <1>3
<1> HIDE DEF ends
<1>7. /\ book' \in Book /\ pos' = Nothing
      /\ trades' \in Seq(Trade) /\ \A k \in DOMAIN trades' : Within(trades'[k])
  BY <1>2, <1>4, <1>5, <1>6, CloseFacts
<1> QED BY <1>3, <1>7 DEF EngineFacts

(* So does every step.                                                     *)
LEMMA EngineStep == EngineFacts /\ [Engine!Next]_(Engine!vars) => EngineFacts'
<1>1. ASSUME EngineFacts, UNCHANGED Engine!vars PROVE EngineFacts'
  <2>1. /\ minute' = minute /\ candle' = candle /\ stops' = stops /\ bar' = bar
        /\ order' = order /\ pos' = pos /\ book' = book /\ trades' = trades
    BY <1>1 DEF Engine!vars
  <2> QED BY <1>1, <2>1 DEF EngineFacts
<1> QED BY <1>1, MinuteKeeps, QuietMinuteKeeps, DecideKeeps, EndOfRangeKeeps DEF Engine!Next

(* A position that leaves by its stop, or by the capital that was nearer,  *)
(* loses no more than it risked, its slippage and its nights, unless the   *)
(* price jumped over the level (engine.py): for any prices, stops, trails  *)
(* and costs, on both sides.                                               *)
THEOREM StopsBoundTheLoss == EngineIsSensible /\ Engine!Spec => []StopBoundsTheLoss
<1>1. EngineFacts => StopBoundsTheLoss
  <2> SUFFICES ASSUME EngineFacts PROVE StopBoundsTheLoss
    OBVIOUS
  <2>1. \A k \in DOMAIN trades : Within(trades[k])
    BY DEF EngineFacts
  <2> QED BY <2>1 DEF StopBoundsTheLoss, Engine!StopBoundsTheLoss, Within
<1> QED BY EngineStarts, EngineStep, <1>1, PTL DEF Engine!Spec

(***************************************************************************)
(* The account and the day of a backtest: what the trades made, summed,    *)
(* and what the book says of it.                                           *)
(***************************************************************************)

(* Division by a day's length is monotone.                                 *)
LEMMA DivMonotone ==
  ASSUME NEW d \in Nat \ {0}, NEW a \in Int, NEW b \in Int, a <= b
  PROVE  a \div d \in Int /\ b \div d \in Int /\ a \div d <= b \div d
<1> DEFINE q == a \div d
           r == b \div d
<1>1. q \in Int /\ r \in Int /\ d * q <= a /\ b < d * (r + 1)
  OBVIOUS
<1> HIDE DEF q, r
<1>2. ASSUME r + 1 <= q PROVE FALSE
  <2>1. d * (r + 1) <= d * q
    BY <1>1, <1>2
  <2> QED BY <1>1, <2>1
<1> QED BY <1>1, <1>2 DEF q, r

(* More nights are charged later.                                          *)
LEMMA NightsGrow ==
  ASSUME EngineIsSensible, NEW entered \in Int, NEW a \in Int, NEW b \in Int, a <= b
  PROVE  /\ Engine!Nights(entered, a) \in Int /\ Engine!Nights(entered, b) \in Int
         /\ Engine!Nights(entered, a) <= Engine!Nights(entered, b)
<1> DEFINE today == (entered \div DayLength) * DayLength + Rollover
           first == IF today <= entered THEN today + DayLength ELSE today
<1>1. DayLength \in Nat \ {0} /\ Rollover \in Int
  BY DEF EngineIsSensible
<1>2. first \in Int
  <2>1. entered \div DayLength \in Int
    BY <1>1
  <2> QED BY <1>1, <2>1
<1>3. /\ Engine!Nights(entered, a) = IF a < first THEN 0 ELSE (a - first) \div DayLength + 1
      /\ Engine!Nights(entered, b) = IF b < first THEN 0 ELSE (b - first) \div DayLength + 1
  BY DEF Engine!Nights
<1> HIDE DEF first
<1>4. /\ (a - first) \div DayLength \in Int /\ (b - first) \div DayLength \in Int
      /\ (a - first) \div DayLength <= (b - first) \div DayLength
  BY <1>1, <1>2, DivMonotone
<1>5. b >= first => (b - first) \div DayLength >= 0
  <2>1. b >= first => 0 \div DayLength <= (b - first) \div DayLength
    BY <1>1, <1>2, DivMonotone
  <2>2. 0 \div DayLength = 0
    BY <1>1
  <2> QED BY <2>1, <2>2
<1> QED BY <1>2, <1>3, <1>4, <1>5

(* The costs of a document and the capital of a run are what they may be   *)
(* (costs.py, runs.py): no slippage is less than none, there is some       *)
(* capital, and 1 R has some parts.                                        *)
AccountIsSensible ==
  EngineIsSensible /\ Slippage \in Nat /\ Capital \in Nat \ {0} /\ Parts \in Nat \ {0}

(* What the trades made, and what the first n of them made on one day.     *)
SumMoney(ts) == Total([j \in 1 .. Len(ts) |-> ts[j].money], 1 .. Len(ts))
OnDay(ts, n, d) == {j \in 1 .. n : ts[j].exit \div DayLength = d}
SumR(ts, n, d) == Total([j \in 1 .. n |-> ts[j].r], OnDay(ts, n, d))

(* They are the sums of the properties.                                    *)
LEMMA MoneySummed == Engine!MadeBy(Len(trades)) = SumMoney(trades)
  BY DEF Engine!MadeBy, Engine!MapThenSumSet, Engine!MapThenFoldSet, SumMoney, Total, Adds, Pick

(* The same of the R of a day.                                             *)
LEMMA DaySummed ==
  ASSUME NEW instant, NEW n
  PROVE  Engine!DayR(instant, n) = SumR(trades, n, instant \div DayLength)
BY DEF Engine!DayR, Engine!Day, Engine!MapThenSumSet, Engine!MapThenFoldSet, SumR, OnDay, Total,
       Adds, Pick

(* The members of a sequence of trades.                                    *)
LEMMA AnotherTrade ==
  ASSUME NEW ts \in Seq(Trade), NEW t \in Trade
  PROVE  /\ Append(ts, t) \in Seq(Trade) /\ Len(ts) \in Nat
         /\ Len(Append(ts, t)) = Len(ts) + 1 /\ Append(ts, t)[Len(ts) + 1] = t
         /\ \A j \in 1 .. Len(ts) : Append(ts, t)[j] = ts[j] /\ ts[j] \in Trade
         /\ DOMAIN ts = 1 .. Len(ts) /\ DOMAIN Append(ts, t) = 1 .. Len(ts) + 1
OBVIOUS

(* What a trade is made of.                                                *)
LEMMA TradeFields ==
  ASSUME NEW t \in Trade
  PROVE  t.money \in Int /\ t.r \in Int /\ t.exit \in Int /\ t.entry \in Int /\ t.jumped \in BOOLEAN
<1>1. t.money \in Int
  BY DEF Trade
<1>2. t.r \in Int
  BY DEF Trade
<1>3. t.exit \in Int
  BY DEF Trade
<1>4. t.entry \in Int
  BY DEF Trade
<1>5. t.jumped \in BOOLEAN
  BY DEF Trade
<1> QED BY <1>1, <1>2, <1>3, <1>4, <1>5

(* Of the trades of a day there are finitely many.                         *)
LEMMA OnDayFinite ==
  ASSUME NEW ts, NEW n \in Nat, NEW d
  PROVE  IsFiniteSet(OnDay(ts, n, d))
<1>1. IsFiniteSet(1 .. n)
  BY FS_Interval
<1>2. OnDay(ts, n, d) \subseteq 1 .. n
  BY DEF OnDay
<1> QED BY <1>1, <1>2, FS_Subset

(* The R of a day is a number.                                             *)
LEMMA SumRType ==
  ASSUME NEW ts \in Seq(Trade), NEW n \in 0 .. Len(ts), NEW d
  PROVE  SumR(ts, n, d) \in Int
<1> DEFINE f == [j \in 1 .. n |-> ts[j].r]
           S == OnDay(ts, n, d)
<1>1. IsFiniteSet(S) /\ S \in SUBSET S
  BY OnDayFinite
<1>2. \A x \in S : f[x] \in Int
  <2>1. \A x \in S : x \in 1 .. n /\ ts[x] \in Trade
    BY AnotherTrade DEF OnDay
  <2> QED BY <2>1, TradeFields
<1>3. SumR(ts, n, d) = Total(f, S)
  BY DEF SumR
<1> HIDE DEF f, S
<1> QED BY <1>1, <1>2, <1>3, TotalType

(* No trade, no sum.                                                       *)
LEMMA SumROfNone ==
  ASSUME NEW ts \in Seq(Trade), NEW n \in Nat, NEW d,
         \A j \in 1 .. n : ts[j].exit \div DayLength # d
  PROVE  SumR(ts, n, d) = 0
<1>1. OnDay(ts, n, d) = {}
  BY DEF OnDay
<1>2. IsFiniteSet({})
  BY FS_EmptySet
<1> QED BY <1>1, <1>2, TotalStep DEF SumR

(* A trade more adds what it made.                                         *)
LEMMA SumMoneyMore ==
  ASSUME NEW ts \in Seq(Trade), NEW t \in Trade
  PROVE  SumMoney(Append(ts, t)) = SumMoney(ts) + t.money
<1> DEFINE us == Append(ts, t)
           n == Len(ts)
           f == [j \in 1 .. n |-> ts[j].money]
           g == [j \in 1 .. n + 1 |-> us[j].money]
           S == 1 .. n
           T == 1 .. n + 1
<1>1. /\ n \in Nat /\ Len(us) = n + 1 /\ us[n + 1] = t
      /\ \A j \in S : us[j] = ts[j] /\ ts[j] \in Trade
  BY AnotherTrade
<1>2. SumMoney(us) = Total(g, T) /\ SumMoney(ts) = Total(f, S)
  BY <1>1 DEF SumMoney
<1>3. IsFiniteSet(S) /\ IsFiniteSet(T)
  <2>1. n \in Int /\ n + 1 \in Int
    BY <1>1
  <2> HIDE DEF n
  <2>2. IsFiniteSet(1 .. n)
    BY <2>1, FS_Interval
  <2>3. IsFiniteSet(1 .. n + 1)
    BY <2>1, FS_Interval
  <2> QED BY <2>2, <2>3
<1>4. T \ {n + 1} = S /\ n + 1 \in T /\ T \in SUBSET T /\ S \in SUBSET T
  BY <1>1
<1>5. \A j \in S : g[j] = f[j]
  BY <1>1
<1>6. g[n + 1] = t.money /\ \A j \in T : g[j] \in Int
  <2>1. \A j \in T : us[j] \in Trade
    BY <1>1
  <2>2. n + 1 \in T
    BY <1>1
  <2> HIDE DEF us
  <2> QED BY <1>1, <2>1, <2>2, TradeFields
<1> HIDE DEF us, f, g, S, T
<1>7. Total(g, T) = g[n + 1] + Total(g, S)
  <2> HIDE DEF n
  <2> QED BY <1>3, <1>4, <1>6, TotalTakes
<1>8. Total(g, S) = Total(f, S)
  BY <1>3, <1>5, TotalAgrees
<1>9. Total(g, S) \in Int /\ g[n + 1] \in Int
  BY <1>3, <1>4, <1>6, TotalType
<1> QED BY <1>2, <1>6, <1>7, <1>8, <1>9 DEF us

(* A trade more changes no sum over the trades before it.                  *)
LEMMA SumRBefore ==
  ASSUME NEW ts \in Seq(Trade), NEW t \in Trade, NEW n \in 0 .. Len(ts), NEW d
  PROVE  SumR(Append(ts, t), n, d) = SumR(ts, n, d)
<1> DEFINE us == Append(ts, t)
           f == [j \in 1 .. n |-> ts[j].r]
           g == [j \in 1 .. n |-> us[j].r]
           S == OnDay(ts, n, d)
<1>1. \A j \in 1 .. n : us[j] = ts[j]
  BY AnotherTrade
<1>2. OnDay(us, n, d) = S
  BY <1>1 DEF OnDay
<1>3. f = g
  BY <1>1
<1> QED BY <1>2, <1>3 DEF SumR

(* It adds its R to the day it was closed on.                              *)
LEMMA SumRMore ==
  ASSUME NEW ts \in Seq(Trade), NEW t \in Trade
  PROVE  /\ SumR(Append(ts, t), Len(ts) + 1, t.exit \div DayLength)
              = SumR(ts, Len(ts), t.exit \div DayLength) + t.r
<1> DEFINE us == Append(ts, t)
           n == Len(ts)
           d == t.exit \div DayLength
           f == [j \in 1 .. n |-> ts[j].r]
           g == [j \in 1 .. n + 1 |-> us[j].r]
           S == OnDay(ts, n, d)
           T == OnDay(us, n + 1, d)
<1>1. /\ n \in Nat /\ Len(us) = n + 1 /\ us[n + 1] = t
      /\ \A j \in 1 .. n : us[j] = ts[j] /\ ts[j] \in Trade
  BY AnotherTrade
<1>2. SumR(us, n + 1, d) = Total(g, T) /\ SumR(ts, n, d) = Total(f, S)
  BY DEF SumR
<1>3. IsFiniteSet(S) /\ IsFiniteSet(T)
  BY <1>1, OnDayFinite
<1>4. T \ {n + 1} = S /\ n + 1 \in T /\ T \in SUBSET T /\ S \in SUBSET T
  BY <1>1 DEF OnDay
<1>5. \A j \in S : g[j] = f[j]
  BY <1>1 DEF OnDay
<1>6. g[n + 1] = t.r /\ \A j \in T : g[j] \in Int
  <2>1. \A j \in T : j \in 1 .. n + 1 /\ us[j] \in Trade
    BY <1>1 DEF OnDay
  <2>2. n + 1 \in 1 .. n + 1
    BY <1>1
  <2> HIDE DEF us, T
  <2> QED BY <1>1, <2>1, <2>2, TradeFields
<1> HIDE DEF us, f, g, S, T
<1>7. Total(g, T) = g[n + 1] + Total(g, S)
  <2> HIDE DEF n
  <2> QED BY <1>3, <1>4, <1>6, TotalTakes
<1>8. Total(g, S) = Total(f, S)
  BY <1>3, <1>5, TotalAgrees
<1>9. Total(g, S) \in Int /\ g[n + 1] \in Int
  BY <1>3, <1>4, <1>6, TotalType
<1> QED BY <1>2, <1>6, <1>7, <1>8, <1>9 DEF us

(* What the trades made is a number.                                       *)
LEMMA SumMoneyType ==
  ASSUME NEW ts \in Seq(Trade)
  PROVE  SumMoney(ts) \in Int
<1> DEFINE f == [j \in 1 .. Len(ts) |-> ts[j].money]
           S == 1 .. Len(ts)
<1>1. IsFiniteSet(S) /\ S \in SUBSET S
  BY FS_Interval
<1>2. \A x \in S : f[x] \in Int
  <2>1. \A x \in S : ts[x] \in Trade
    BY AnotherTrade
  <2> QED BY <2>1, TradeFields
<1>3. SumMoney(ts) = Total(f, S)
  BY DEF SumMoney
<1> HIDE DEF f, S
<1> QED BY <1>1, <1>2, <1>3, TotalType

(* The book is to date at a moment: its day is no later, no trade was      *)
(* closed on a later one, and its R is what the day's trades made.         *)
ToDate(b, ts, instant) ==
  /\ b.day <= instant \div DayLength
  /\ \A k \in DOMAIN ts : ts[k].exit \div DayLength <= b.day
  /\ b.dayR = SumR(ts, Len(ts), b.day)

(* Every trade was opened on a day whose stop had not been reached.        *)
InTime(ts) == \A k \in DOMAIN ts : SumR(ts, k - 1, ts[k].entry \div DayLength) > DailyStop

(* The account has debts only for a last trade that jumped.                *)
InCredit(ts, made) == ts # <<>> => ts[Len(ts)].jumped \/ Capital + made >= -Slippage

(* At the close of the last candle the position is worth more than all the *)
(* account has lost with it.                                               *)
Solvent(p, c, made) ==
  p.side * ((IF p.side = 1 THEN c.close ELSE c.close + Spread) - p.price)
    - Engine!Financing(p, c.ends - 1) > -(Capital + made)

(* The inductive invariant.  A pending order is one of a day that may still *)
(* open a position; a decision is always that of the minute it is made in. *)
WalkFacts ==
  /\ EngineFacts /\ AccountIsSensible
  /\ book.realized = SumMoney(trades)
  /\ InTime(trades) /\ InCredit(trades, book.realized)
  /\ pos # Nothing => SumR(trades, Len(trades), pos.entry \div DayLength) > DailyStop
                      /\ Solvent(pos, candle, book.realized)
  /\ minute < Minutes => ToDate(book, trades, minute)
  /\ minute < Minutes /\ order # Nothing
       => pos = Nothing /\ (book.day = minute \div DayLength => book.dayR > DailyStop)

(* The day's stop is a loss: before its first trade no day has reached it. *)
LEMMA StopIsALoss ==
  ASSUME AccountIsSensible
  PROVE  DailyStop \in Int /\ DailyStop < 0
<1>1. Parts \in Nat \ {0}
  BY DEF AccountIsSensible
<1>2. (3 * Parts) \div 2 \in Int /\ (3 * Parts) \div 2 >= 1
  BY <1>1
<1> QED BY <1>2 DEF DailyStop

(* Nothing has been made, on the day before the first.                     *)
LEMMA WalkStarts == AccountIsSensible /\ Engine!Init => WalkFacts
<1> SUFFICES ASSUME AccountIsSensible, Engine!Init PROVE WalkFacts
  OBVIOUS
<1>1. EngineFacts
  BY EngineStarts DEF AccountIsSensible
<1>2. /\ trades = <<>> /\ pos = Nothing /\ order = Nothing /\ minute = 0
      /\ book = [realized |-> 0, day |-> -1, dayR |-> 0, broke |-> FALSE]
  BY DEF Engine!Init
<1>3. <<>> \in Seq(Trade) /\ Len(<<>>) = 0 /\ DOMAIN <<>> = {}
  OBVIOUS
<1>4. SumMoney(<<>>) = 0
  <2>1. 1 .. Len(<<>>) = {} /\ IsFiniteSet({})
    BY <1>3, FS_EmptySet
  <2> QED BY <2>1, TotalStep DEF SumMoney
<1>5. SumR(<<>>, 0, -1) = 0
  <2>1. \A j \in 1 .. 0 : <<>>[j].exit \div DayLength # -1
    OBVIOUS
  <2> QED BY <1>3, <2>1, SumROfNone
<1>6. 0 \div DayLength = 0
  BY DEF AccountIsSensible, EngineIsSensible
<1>7. ToDate(book, trades, minute)
  BY <1>2, <1>3, <1>5, <1>6 DEF ToDate
<1>8. InTime(trades) /\ InCredit(trades, book.realized)
  BY <1>2, <1>3 DEF InTime, InCredit
<1> QED BY <1>1, <1>2, <1>4, <1>7, <1>8 DEF WalkFacts

(* A new day begins with nothing made on it.                               *)
LEMMA NewDayToDate ==
  ASSUME EngineIsSensible, NEW b \in Book, NEW ts \in Seq(Trade), NEW instant \in Int
  PROVE  /\ Engine!NewDay(b, instant).day = instant \div DayLength
         /\ Engine!NewDay(b, instant).realized = b.realized
         /\ Engine!NewDay(b, instant).dayR = IF b.day = instant \div DayLength THEN b.dayR ELSE 0
         /\ ToDate(b, ts, instant) => ToDate(Engine!NewDay(b, instant), ts, instant)
<1> DEFINE d == instant \div DayLength
           c == [b EXCEPT !.day = d, !.dayR = 0]
<1>1. Engine!NewDay(b, instant) = IF b.day = d THEN b ELSE c
  BY DEF Engine!NewDay, Engine!Day
<1>2. d \in Int
  BY DEF EngineIsSensible
<1> HIDE DEF d
<1>3. c.day = d /\ c.realized = b.realized /\ c.dayR = 0
  BY DEF Book
<1>4. ToDate(b, ts, instant) /\ b.day # d => ToDate(c, ts, instant)
  <2> SUFFICES ASSUME ToDate(b, ts, instant), b.day # d PROVE ToDate(c, ts, instant)
    OBVIOUS
  <2>1. b.day <= d /\ \A k \in DOMAIN ts : ts[k].exit \div DayLength <= b.day
    BY DEF ToDate, d
  <2>2. b.day \in Int /\ b.day < d
    BY <1>2, <2>1 DEF Book
  <2>3. \A k \in DOMAIN ts : ts[k].exit \div DayLength \in Int
    <3>1. \A k \in DOMAIN ts : ts[k].exit \in Int
      BY TradeFields
    <3> QED BY <3>1 DEF EngineIsSensible
  <2>4. Len(ts) \in Nat /\ DOMAIN ts = 1 .. Len(ts)
    OBVIOUS
  <2> HIDE DEF c
  <2>5. \A k \in DOMAIN ts : ts[k].exit \div DayLength < d
    BY <1>2, <2>1, <2>2, <2>3
  <2>6. SumR(ts, Len(ts), d) = 0
    <3>1. \A k \in 1 .. Len(ts) : ts[k].exit \div DayLength # d
      BY <1>2, <2>3, <2>4, <2>5
    <3> QED BY <2>4, <3>1, SumROfNone
  <2>7. \A k \in DOMAIN ts : ts[k].exit \div DayLength <= d
    BY <1>2, <2>3, <2>5
  <2>8. d <= d
    BY <1>2
  <2> QED BY <1>3, <2>6, <2>7, <2>8 DEF ToDate, d
<1> HIDE DEF c
<1> QED BY <1>1, <1>3, <1>4 DEF d

(* A position p is closed at an instant: trade t is added, and the book    *)
(* counts it on the instant's day.                                         *)
Closed(t, p, instant, b) ==
  /\ t \in Trade /\ t.entry = p.entry /\ t.exit = instant
  /\ pos' = Nothing /\ trades' = Append(trades, t)
  /\ book'.realized = b.realized + t.money
  /\ book'.day = instant \div DayLength
  /\ book'.dayR = Engine!NewDay(b, instant).dayR + t.r

(* A close makes one trade, of what the price and the nights make of the   *)
(* position.                                                               *)
LEMMA CloseMakes ==
  ASSUME EngineIsSensible, NEW p \in Position, Guarded(p), NEW instant \in Int, NEW price \in Int,
         NEW reason \in {"when", "max_bars", "out_of_capital", "stop", "trail", "target",
                         "end_of_range"},
         NEW jumped \in BOOLEAN, NEW b \in Book, Engine!Close(p, instant, price, reason, jumped, b)
  PROVE  \E t : /\ Closed(t, p, instant, b) /\ t.jumped = jumped
                /\ t.money = p.side * (price - p.price) - Engine!Financing(p, instant)
<1> DEFINE f == Engine!Financing(p, instant)
           made == p.side * (price - p.price) - f
           r == IF p.risk = Nothing THEN 0 ELSE (made * Parts) \div p.risk
           t == [entry |-> p.entry, exit |-> instant, money |-> made, r |-> r, risk |-> p.risk,
                 nights |-> f, reason |-> reason, jumped |-> jumped]
           today == Engine!NewDay(b, instant)
<1>1. /\ pos' = Nothing /\ trades' = Append(trades, t)
      /\ book' = [today EXCEPT !.realized = @ + made, !.dayR = @ + r,
                               !.broke = @ \/ reason = "out_of_capital"
                                           \/ Capital + b.realized + made <= 0]
  BY DEF Engine!Close, Engine!Money, Engine!R
<1>2. f \in Int
  BY NightsCost
<1>3. p.side \in {1, -1} /\ p.price \in Int /\ p.entry \in Int /\ p.risk \in Int \cup {Nothing}
  BY DEF Position
<1> HIDE DEF f
<1>4. p.side * (price - p.price) \in Int
  BY <1>3
<1>5. made \in Int
  BY <1>2, <1>4
<1>6. Parts \in Int
  BY DEF EngineIsSensible
<1> HIDE DEF made
<1>7. r \in Int
  <2>1. made * Parts \in Int
    BY <1>5, <1>6
  <2>2. p.risk # Nothing => p.risk \in Nat \ {0}
    BY <1>3 DEF Guarded
  <2>3. p.risk # Nothing => (made * Parts) \div p.risk \in Int
    BY <2>1, <2>2
  <2> QED BY <2>3
<1> HIDE DEF r
<1>8. t \in Trade
  BY <1>2, <1>3, <1>5, <1>7 DEF Trade
<1>9. today \in Book
  BY NewDayKeeps
<1>10. today.realized = b.realized /\ today.day = instant \div DayLength
  <2>1. <<>> \in Seq(Trade)
    OBVIOUS
  <2> QED BY <2>1, NewDayToDate
<1> HIDE DEF today
<1>11. /\ book'.realized = today.realized + made /\ book'.day = today.day
       /\ book'.dayR = today.dayR + r
  BY <1>1, <1>9 DEF Book
<1>12. t.entry = p.entry /\ t.exit = instant /\ t.money = made /\ t.r = r /\ t.jumped = jumped
  OBVIOUS
<1> HIDE DEF t
<1>13. Closed(t, p, instant, b)
  BY <1>1, <1>8, <1>10, <1>11, <1>12 DEF Closed, today
<1> QED BY <1>12, <1>13 DEF made, f

(* What is left of the account after a close.                              *)
LEMMA ClosedKeeps ==
  ASSUME EngineFacts, NEW t, NEW p \in Position, NEW instant \in Int, NEW b \in Book,
         Closed(t, p, instant, b),
         b.realized = SumMoney(trades), InTime(trades),
         SumR(trades, Len(trades), p.entry \div DayLength) > DailyStop,
         t.jumped \/ Capital + book'.realized >= -Slippage
  PROVE  /\ book'.realized = SumMoney(trades')
         /\ InTime(trades') /\ InCredit(trades', book'.realized)
         /\ ToDate(b, trades, instant) => ToDate(book', trades', instant)
<1> DEFINE n == Len(trades)
           d == instant \div DayLength
<1>1. trades \in Seq(Trade) /\ t \in Trade /\ EngineIsSensible
  BY DEF EngineFacts, Closed
<1>2. /\ trades' = Append(trades, t) /\ t.exit = instant /\ t.entry = p.entry
      /\ book'.realized = b.realized + t.money /\ book'.day = d
      /\ book'.dayR = Engine!NewDay(b, instant).dayR + t.r
  BY DEF Closed
<1>3. /\ n \in Nat /\ Len(trades') = n + 1 /\ trades'[n + 1] = t
      /\ \A j \in 1 .. n : trades'[j] = trades[j] /\ trades[j] \in Trade
      /\ DOMAIN trades = 1 .. n /\ DOMAIN trades' = 1 .. n + 1
  BY <1>1, <1>2, AnotherTrade
<1>4. book'.realized = SumMoney(trades')
  BY <1>1, <1>2, SumMoneyMore
<1>5. InTime(trades')
  <2> SUFFICES ASSUME NEW k \in 1 .. n + 1
               PROVE  SumR(trades', k - 1, trades'[k].entry \div DayLength) > DailyStop
    BY <1>3 DEF InTime
  <2>1. k - 1 \in 0 .. n
    BY <1>3
  <2>2. \A e : SumR(trades', k - 1, e) = SumR(trades, k - 1, e)
    BY <1>1, <1>2, <2>1, SumRBefore
  <2>3. CASE k = n + 1
    <3>1. k - 1 = n /\ trades'[k].entry = p.entry
      BY <1>2, <1>3, <2>3
    <3> QED BY <2>2, <3>1
  <2>4. CASE k \in 1 .. n
    <3>1. trades'[k] = trades[k] /\ k \in DOMAIN trades
      BY <1>3, <2>4
    <3> QED BY <2>2, <3>1 DEF InTime
  <2> QED BY <1>3, <2>3, <2>4
<1>6. InCredit(trades', book'.realized)
  BY <1>3 DEF InCredit
<1>7. ASSUME ToDate(b, trades, instant) PROVE ToDate(book', trades', instant)
  <2> DEFINE today == Engine!NewDay(b, instant)
  <2>1. ToDate(today, trades, instant) /\ today.day = d
    BY <1>1, <1>7, NewDayToDate
  <2> HIDE DEF today
  <2>2. today.dayR = SumR(trades, n, d)
    BY <2>1 DEF ToDate
  <2>3. SumR(trades', n + 1, d) = SumR(trades, n, d) + t.r
    BY <1>1, <1>2, SumRMore
  <2>4. book'.dayR = SumR(trades', Len(trades'), book'.day)
    BY <1>2, <1>3, <2>2, <2>3 DEF today
  <2>5. d \in Int
    BY <1>1 DEF EngineIsSensible
  <2>6. \A k \in 1 .. n : trades[k].exit \div DayLength <= d
    BY <1>3, <2>1 DEF ToDate
  <2>7. ASSUME NEW k \in 1 .. n + 1 PROVE trades'[k].exit \div DayLength <= d
    <3>1. CASE k = n + 1
      <4>1. trades'[k].exit \div DayLength = d
        BY <1>2, <1>3, <3>1
      <4> HIDE DEF d
      <4> QED BY <2>5, <4>1
    <3>2. CASE k \in 1 .. n
      BY <1>3, <2>6, <3>2
    <3> QED BY <1>3, <3>1, <3>2
  <2>8. d <= d
    BY <2>5
  <2> HIDE DEF n
  <2> QED BY <1>2, <1>3, <2>4, <2>7, <2>8 DEF ToDate
<1> QED BY <1>4, <1>5, <1>6, <1>7

(* A close that is left at a price no further than the floor loses what    *)
(* there was, and the slippage.                                            *)
LEMMA AtTheFloor ==
  ASSUME NEW side \in {1, -1}, NEW price \in Int, NEW entry \in Int, NEW made \in Int,
         NEW cost \in Int, NEW slip \in Nat, NEW floor \in Int,
         floor = entry - side * (made - cost),
         side * (price - floor) >= -slip
  PROVE  side * (price - entry) - cost + made >= -slip
<1>1. CASE side = 1
  BY <1>1
<1>2. CASE side = -1
  BY <1>2
<1> QED BY <1>1, <1>2

(* A position that goes through a minute is closed, with no debt unless    *)
(* the price jumped, or is held and worth more than the account has lost.  *)
LEMMA SettleWalks ==
  ASSUME EngineFacts, AccountIsSensible, NEW p \in Position, Guarded(p), NEW c \in Engine!Candle,
         minute \in Int, NEW inside \in BOOLEAN, NEW b \in Book, b.realized = book.realized,
         Engine!Settle(p, c, inside, b)
  PROVE  \/ \E t : /\ Closed(t, p, minute, b)
                   /\ t.jumped \/ Capital + book'.realized >= -Slippage
         \/ /\ pos' = p /\ book' = b /\ trades' = trades
            /\ Solvent(p, [ends |-> minute + 1, close |-> c.close], book.realized)
<1> DEFINE side == p.side
           out == Engine!Leaving(side, c)
           floor == Engine!Floor(p, minute)
           worst == Engine!Worst(side, out)
           cost == Engine!Financing(p, minute)
           made == Capital + book.realized
           stopHit == p.stop # Nothing /\ Engine!AtOrPast(side, p.stop, worst)
           floorHit == Engine!AtOrPast(side, floor, worst)
           stopFirst == stopHit /\ Engine!ComesFirst(p, floor)
           targetHit == p.target # Nothing /\ Engine!AtOrPast(side, Engine!Best(side, out), p.target)
<1>1. \/ /\ floorHit /\ ~stopFirst
         /\ Engine!Close(p, minute, Engine!LeavesAt(p, c, floor), "out_of_capital",
                         Engine!Jumps(p, c, floor), b)
      \/ /\ stopHit /\ (floorHit => stopFirst)
         /\ Engine!Close(p, minute, Engine!LeavesAt(p, c, p.stop),
                         IF p.trailed THEN "trail" ELSE "stop", Engine!Jumps(p, c, p.stop), b)
      \/ /\ targetHit /\ ~inside /\ ~stopHit /\ ~floorHit
         /\ Engine!Close(p, minute,
                         IF Engine!AtOrPast(side, out.open, p.target) THEN out.open ELSE p.target,
                         "target", FALSE, b)
      \/ /\ ~stopHit /\ ~floorHit /\ ~(targetHit /\ ~inside)
         /\ pos' = p /\ book' = b /\ trades' = trades
  BY DEF Engine!Settle
<1>2. EngineIsSensible /\ Slippage \in Nat /\ Capital \in Int /\ book.realized \in Int
  BY DEF AccountIsSensible, EngineFacts, Book
<1>3. /\ side \in {1, -1} /\ p.price \in Int
      /\ (p.stop # Nothing => p.stop \in Int) /\ (p.target # Nothing => p.target \in Int)
      /\ p.trailed \in BOOLEAN
  BY DEF Position
<1>4. /\ out.open \in Int /\ worst \in Int /\ Engine!Best(side, out) \in Int
      /\ side * (out.open - worst) >= 0
  BY <1>2, <1>3, SidesOfACandle, WorstOfACandle
<1>5. floor \in Int /\ cost \in Int /\ made \in Int /\ floor = p.price - side * (made - cost)
  BY <1>2, FloorFacts, NightsCost
<1>6. floorHit = (side * (floor - worst) >= 0)
  BY DEF Engine!AtOrPast
<1>7. ASSUME NEW price \in Int, NEW jumped \in BOOLEAN,
             NEW reason \in {"when", "max_bars", "out_of_capital", "stop", "trail", "target",
                             "end_of_range"},
             Engine!Close(p, minute, price, reason, jumped, b),
             ~jumped => side * (price - floor) >= -Slippage
      PROVE  \E t : /\ Closed(t, p, minute, b)
                    /\ t.jumped \/ Capital + book'.realized >= -Slippage
  <2>1. PICK t : /\ Closed(t, p, minute, b) /\ t.jumped = jumped
                 /\ t.money = p.side * (price - p.price) - cost
    BY <1>2, <1>7, CloseMakes
  <2>2. book'.realized = book.realized + t.money /\ t \in Trade
    BY <2>1 DEF Closed
  <2> DEFINE lost == side * (price - p.price) - cost
  <2>3. ~jumped => lost + made >= -Slippage
    <3> HIDE DEF side, floor, cost, made
    <3> QED BY <1>2, <1>3, <1>5, <1>7, AtTheFloor
  <2>4. t.money = lost /\ lost \in Int
    BY <2>1, <2>2, TradeFields
  <2> HIDE DEF lost
  <2>5. ~jumped => Capital + book'.realized >= -Slippage
    BY <1>2, <2>2, <2>3, <2>4
  <2> QED BY <2>1, <2>5
<1>8. CASE /\ floorHit /\ ~stopFirst
           /\ Engine!Close(p, minute, Engine!LeavesAt(p, c, floor), "out_of_capital",
                           Engine!Jumps(p, c, floor), b)
  <2> DEFINE price == Engine!LeavesAt(p, c, floor)
             jumped == Engine!Jumps(p, c, floor)
  <2>1. price \in Int /\ jumped \in BOOLEAN /\ (~jumped => price = floor - side * Slippage)
    BY <1>2, <1>5, LevelFacts
  <2>2. Engine!Close(p, minute, price, "out_of_capital", jumped, b)
    BY <1>8
  <2> HIDE DEF price, jumped
  <2>3. ~jumped => side * (price - floor) >= -Slippage
    <3> HIDE DEF side, floor
    <3>1. CASE side = 1
      BY <1>2, <1>5, <2>1, <3>1
    <3>2. CASE side = -1
      BY <1>2, <1>5, <2>1, <3>2
    <3> QED BY <1>3, <3>1, <3>2
  <2> HIDE DEF floor, side
  <2> QED BY <1>7, <2>1, <2>2, <2>3
<1>9. CASE /\ stopHit /\ (floorHit => stopFirst)
           /\ Engine!Close(p, minute, Engine!LeavesAt(p, c, p.stop),
                           IF p.trailed THEN "trail" ELSE "stop", Engine!Jumps(p, c, p.stop), b)
  <2> DEFINE price == Engine!LeavesAt(p, c, p.stop)
             jumped == Engine!Jumps(p, c, p.stop)
             reason == IF p.trailed THEN "trail" ELSE "stop"
  <2>1. p.stop \in Int /\ side * (p.stop - worst) >= 0
    BY <1>3, <1>9 DEF Engine!AtOrPast
  <2>2. /\ price \in Int /\ jumped \in BOOLEAN
        /\ ~jumped => price = p.stop - side * Slippage
    BY <1>2, <2>1, LevelFacts
  <2>3. Engine!Close(p, minute, price, reason, jumped, b) /\ reason \in {"trail", "stop"}
    BY <1>3, <1>9
  <2>4. (side * (floor - worst) >= 0) => side * (p.stop - floor) >= 0
    BY <1>6, <1>9 DEF Engine!ComesFirst, Engine!AtOrPast
  <2> HIDE DEF price, jumped, reason
  <2>5. ~jumped => side * (price - floor) >= -Slippage
    <3> HIDE DEF side, floor, worst
    <3>1. CASE side = 1
      BY <1>2, <1>4, <1>5, <2>1, <2>2, <2>4, <3>1
    <3>2. CASE side = -1
      BY <1>2, <1>4, <1>5, <2>1, <2>2, <2>4, <3>2
    <3> QED BY <1>3, <3>1, <3>2
  <2> HIDE DEF floor, side
  <2> QED BY <1>7, <2>2, <2>3, <2>5
<1>10. CASE /\ targetHit /\ ~inside /\ ~stopHit /\ ~floorHit
            /\ Engine!Close(p, minute,
                 IF Engine!AtOrPast(side, out.open, p.target) THEN out.open ELSE p.target,
                 "target", FALSE, b)
  <2> DEFINE price == IF Engine!AtOrPast(side, out.open, p.target) THEN out.open ELSE p.target
  <2>1. price \in Int /\ p.target \in Int
    BY <1>3, <1>4, <1>10
  <2>2. Engine!Close(p, minute, price, "target", FALSE, b)
    BY <1>10
  <2>3. ~(side * (floor - worst) >= 0)
    BY <1>6, <1>10
  <2>4. price = IF side * (out.open - p.target) >= 0 THEN out.open ELSE p.target
    BY DEF Engine!AtOrPast
  <2> HIDE DEF price
  <2>5. side * (price - floor) >= -Slippage
    <3> HIDE DEF side, floor, worst, out
    <3>1. CASE side = 1
      BY <1>2, <1>4, <1>5, <2>1, <2>3, <2>4, <3>1
    <3>2. CASE side = -1
      BY <1>2, <1>4, <1>5, <2>1, <2>3, <2>4, <3>2
    <3> QED BY <1>3, <3>1, <3>2
  <2> HIDE DEF floor, side
  <2> QED BY <1>7, <2>1, <2>2, <2>5
<1>11. CASE /\ ~floorHit /\ pos' = p /\ book' = b /\ trades' = trades
  <2> DEFINE e == [ends |-> minute + 1, close |-> c.close]
             q == IF side = 1 THEN c.close ELSE c.close + Spread
  <2>1. q \in Int /\ side * (q - worst) >= 0
    BY <1>2, <1>3, WorstOfACandle
  <2>2. ~(side * (floor - worst) >= 0)
    BY <1>6, <1>11
  <2>3. side * (q - p.price) - cost > -made
    <3> HIDE DEF side, floor, worst, q, cost, made
    <3>1. CASE side = 1
      BY <1>3, <1>4, <1>5, <2>1, <2>2, <3>1
    <3>2. CASE side = -1
      BY <1>3, <1>4, <1>5, <2>1, <2>2, <3>2
    <3> QED BY <1>3, <3>1, <3>2
  <2>4. minute + 1 - 1 = minute
    OBVIOUS
  <2>5. e.close = c.close /\ e.ends - 1 = minute
    BY <2>4
  <2> HIDE DEF e
  <2>6. Solvent(p, e, book.realized)
    BY <2>3, <2>5 DEF Solvent
  <2> QED BY <1>11, <2>6 DEF e
<1> QED BY <1>1, <1>8, <1>9, <1>10, <1>11

(* A minute leaves the account, the day and the position as they should be. *)
MinuteLeaves(c) ==
  /\ book'.realized = SumMoney(trades')
  /\ InTime(trades') /\ InCredit(trades', book'.realized)
  /\ pos' # Nothing => /\ SumR(trades', Len(trades'), pos'.entry \div DayLength) > DailyStop
                       /\ Solvent(pos', [ends |-> minute + 1, close |-> c.close], book'.realized)
  /\ ToDate(book', trades', minute)

(* What was closed, or held, in a minute.                                  *)
LEMMA PositionLeaves ==
  ASSUME WalkFacts, minute < Minutes, NEW c \in Engine!Candle, NEW p \in Position, NEW b \in Book,
         b \in {book, Engine!NewDay(book, minute)},
         SumR(trades, Len(trades), p.entry \div DayLength) > DailyStop,
         \/ \E t : /\ Closed(t, p, minute, b)
                   /\ t.jumped \/ Capital + book'.realized >= -Slippage
         \/ /\ pos' = p /\ book' = b /\ trades' = trades
            /\ Solvent(p, [ends |-> minute + 1, close |-> c.close], book.realized)
  PROVE  MinuteLeaves(c)
<1>1. /\ EngineFacts /\ EngineIsSensible /\ book \in Book /\ trades \in Seq(Trade) /\ minute \in Int
      /\ ToDate(book, trades, minute) /\ book.realized = SumMoney(trades)
      /\ InTime(trades) /\ InCredit(trades, book.realized)
  BY DEF WalkFacts, EngineFacts
<1>2. ToDate(b, trades, minute) /\ b.realized = book.realized
  BY <1>1, NewDayToDate
<1>3. CASE \E t : /\ Closed(t, p, minute, b)
                  /\ t.jumped \/ Capital + book'.realized >= -Slippage
  <2>1. PICK t : Closed(t, p, minute, b) /\ (t.jumped \/ Capital + book'.realized >= -Slippage)
    BY <1>3
  <2>2. pos' = Nothing
    BY <2>1 DEF Closed
  <2>3. /\ book'.realized = SumMoney(trades')
        /\ InTime(trades') /\ InCredit(trades', book'.realized)
        /\ ToDate(book', trades', minute)
    BY <1>1, <1>2, <2>1, ClosedKeeps
  <2> QED BY <2>2, <2>3 DEF MinuteLeaves
<1>4. CASE /\ pos' = p /\ book' = b /\ trades' = trades
           /\ Solvent(p, [ends |-> minute + 1, close |-> c.close], book.realized)
  <2>1. book'.realized = book.realized
    BY <1>2, <1>4
  <2> QED BY <1>1, <1>2, <1>4, <2>1 DEF MinuteLeaves
<1> QED BY <1>3, <1>4

(* A position that is held through the minute leaves them so,              *)
LEMMA HoldLeaves ==
  ASSUME WalkFacts, minute < Minutes, NEW c \in Engine!Candle, Engine!Hold(c)
  PROVE  MinuteLeaves(c)
<1>1. pos # Nothing /\ Engine!Settle(pos, c, FALSE, book)
  BY DEF Engine!Hold
<1>2. /\ EngineFacts /\ AccountIsSensible /\ book \in Book /\ minute \in Int
      /\ pos \in Position /\ Guarded(pos)
      /\ SumR(trades, Len(trades), pos.entry \div DayLength) > DailyStop
  BY <1>1 DEF WalkFacts, EngineFacts
<1>3. \/ \E t : /\ Closed(t, pos, minute, book)
                /\ t.jumped \/ Capital + book'.realized >= -Slippage
      \/ /\ pos' = pos /\ book' = book /\ trades' = trades
         /\ Solvent(pos, [ends |-> minute + 1, close |-> c.close], book.realized)
  BY <1>1, <1>2, SettleWalks
<1> QED BY <1>2, <1>3, PositionLeaves

(* What an exit that was decided makes of a position.                      *)
LEMMA ExitWalks ==
  ASSUME EngineFacts, AccountIsSensible, NEW p \in Position, Guarded(p), NEW c \in Engine!Candle,
         minute \in Int, NEW why \in {"when", "max_bars"},
         Engine!Close(p, minute, Engine!Leaving(p.side, c).open - p.side * Slippage, why,
                      Engine!Jumps(p, c, Engine!Floor(p, minute)), book)
  PROVE  \E t : /\ Closed(t, p, minute, book)
                /\ t.jumped \/ Capital + book'.realized >= -Slippage
<1> DEFINE side == p.side
           open == Engine!Leaving(side, c).open
           floor == Engine!Floor(p, minute)
           price == open - side * Slippage
           jumped == Engine!Jumps(p, c, floor)
           cost == Engine!Financing(p, minute)
           made == Capital + book.realized
<1>1. /\ EngineIsSensible /\ Slippage \in Nat /\ Capital \in Int /\ book.realized \in Int
      /\ book \in Book
  BY DEF AccountIsSensible, EngineFacts, Book
<1>2. side \in {1, -1} /\ p.price \in Int
  BY DEF Position
<1>3. open \in Int
  BY <1>1, <1>2, WorstOfACandle
<1>4. floor \in Int /\ cost \in Int /\ made \in Int /\ floor = p.price - side * (made - cost)
  BY <1>1, FloorFacts, NightsCost
<1>5. jumped \in BOOLEAN /\ jumped = (side * (floor - open) >= 0)
  BY <1>1, <1>4, LevelFacts
<1>6. price = open - side * Slippage
  OBVIOUS
<1>12. Engine!Close(p, minute, price, why, jumped, book)
  OBVIOUS
<1> HIDE DEF price, jumped
<1>13. ~jumped => ~(side * (floor - open) >= 0)
  BY <1>5
<1>7. price \in Int /\ (~jumped => side * (price - floor) >= -Slippage)
  <2> HIDE DEF side, floor, open
  <2>1. CASE side = 1
    BY <1>1, <1>3, <1>4, <1>6, <1>13, <2>1
  <2>2. CASE side = -1
    BY <1>1, <1>3, <1>4, <1>6, <1>13, <2>2
  <2> QED BY <1>2, <2>1, <2>2
<1>8. PICK t : /\ Closed(t, p, minute, book) /\ t.jumped = jumped
               /\ t.money = p.side * (price - p.price) - cost
  <2>1. why \in {"when", "max_bars", "out_of_capital", "stop", "trail", "target", "end_of_range"}
    OBVIOUS
  <2>2. EngineIsSensible /\ book \in Book /\ jumped \in BOOLEAN /\ price \in Int
    BY <1>1, <1>5, <1>7
  <2> HIDE DEF open, floor, side, made
  <2>3. \E t : /\ Closed(t, p, minute, book) /\ t.jumped = jumped
               /\ t.money = p.side * (price - p.price) - Engine!Financing(p, minute)
    BY <1>12, <2>1, <2>2, CloseMakes
  <2> QED BY <2>3
<1>9. book'.realized = book.realized + t.money /\ t.money \in Int
  BY <1>8, TradeFields DEF Closed
<1>10. ~jumped => side * (price - p.price) - cost + made >= -Slippage
  <2> HIDE DEF side, floor, cost, made
  <2> QED BY <1>1, <1>2, <1>4, <1>7, AtTheFloor
<1> DEFINE lost == side * (price - p.price) - cost
<1>11. t.money = lost /\ (~jumped => lost + made >= -Slippage)
  BY <1>8, <1>10
<1> HIDE DEF lost
<1>14. t.jumped \/ Capital + book'.realized >= -Slippage
  BY <1>1, <1>8, <1>9, <1>11
<1> QED BY <1>8, <1>14

(* and one whose exit was due.                                             *)
LEMMA ExitDueLeaves ==
  ASSUME WalkFacts, minute < Minutes, NEW c \in Engine!Candle, Engine!ExitDue(c)
  PROVE  MinuteLeaves(c)
<1>1. pos # Nothing /\ pos.due # Nothing
  BY DEF Engine!ExitDue
<1>2. /\ EngineFacts /\ AccountIsSensible /\ book \in Book /\ minute \in Int
      /\ pos \in Position /\ Guarded(pos)
      /\ SumR(trades, Len(trades), pos.entry \div DayLength) > DailyStop
  BY <1>1 DEF WalkFacts, EngineFacts
<1> DEFINE why == pos.due
<1>3. Engine!Close(pos, minute, Engine!Leaving(pos.side, c).open - pos.side * Slippage, why,
                   Engine!Jumps(pos, c, Engine!Floor(pos, minute)), book)
  BY DEF Engine!ExitDue
<1>4. why \in {"when", "max_bars"}
  BY <1>1, <1>2 DEF Position
<1> HIDE DEF why
<1>5. \E t : /\ Closed(t, pos, minute, book)
             /\ t.jumped \/ Capital + book'.realized >= -Slippage
  BY <1>2, <1>3, <1>4, ExitWalks
<1> QED BY <1>2, <1>5, PositionLeaves

(* An order fills on a day whose stop has not been reached, even if it was *)
(* given on an earlier one.                                                *)
LEMMA FillLeaves ==
  ASSUME WalkFacts, minute < Minutes, NEW c \in Engine!Candle, Engine!Fill(c)
  PROVE  MinuteLeaves(c)
<1>1. /\ order # Nothing /\ pos = Nothing /\ Engine!FillPrice(order, c) # Nothing
  BY DEF Engine!Fill
<1>2. /\ EngineFacts /\ EngineIsSensible /\ AccountIsSensible /\ book \in Book /\ minute \in Int
      /\ trades \in Seq(Trade) /\ order \in Entry
      /\ ToDate(book, trades, minute) /\ book.realized = SumMoney(trades)
      /\ InTime(trades) /\ InCredit(trades, book.realized)
      /\ book.day = minute \div DayLength => book.dayR > DailyStop
  BY <1>1 DEF WalkFacts, EngineFacts
<1> DEFINE price == Engine!FillPrice(order, c)
           b == Engine!NewDay(book, minute)
<1>3. price \in Int
  BY <1>1, <1>2, FillPriceFacts
<1>4. PICK stop \in IF stops THEN Level \cup {Nothing} ELSE {Nothing},
           target \in Level \cup {Nothing} :
        \/ stops /\ ~Engine!IsStop(order, price, stop)
           /\ pos' = pos /\ book' = book /\ trades' = trades
        \/ (stops => Engine!IsStop(order, price, stop))
           /\ Engine!Settle(Engine!Open(order, price, stop, target), c, order.kind # "market",
                            Engine!NewDay(book, minute))
  BY DEF Engine!Fill
<1> HIDE DEF price
<1>5. CASE pos' = pos /\ book' = book /\ trades' = trades
  BY <1>1, <1>2, <1>5 DEF MinuteLeaves
<1>6. CASE /\ stops => Engine!IsStop(order, price, stop)
           /\ Engine!Settle(Engine!Open(order, price, stop, target), c, order.kind # "market",
                            Engine!NewDay(book, minute))
  <2>1. stop \in Level \cup {Nothing} /\ (stop # Nothing => Engine!IsStop(order, price, stop))
    BY <1>4, <1>6
  <2> DEFINE p == Engine!Open(order, price, stop, target)
             inside == order.kind # "market"
  <2>2. p \in Position /\ Guarded(p)
    BY <1>2, <1>3, <2>1, OpenFacts
  <2>3. p.entry = minute
    BY DEF Engine!Open
  <2>4. /\ b \in Book /\ b.realized = book.realized /\ ToDate(b, trades, minute)
        /\ b.day = minute \div DayLength
        /\ b.dayR = IF book.day = minute \div DayLength THEN book.dayR ELSE 0
    BY <1>2, NewDayKeeps, NewDayToDate
  <2>5. inside \in BOOLEAN /\ Engine!Settle(p, c, inside, b)
    BY <1>6
  <2> HIDE DEF p, b, inside
  <2>6. SumR(trades, Len(trades), p.entry \div DayLength) > DailyStop
    <3>1. b.dayR > DailyStop
      BY <1>2, <2>4, StopIsALoss
    <3> QED BY <2>3, <2>4, <3>1 DEF ToDate
  <2>7. \/ \E t : /\ Closed(t, p, minute, b)
                  /\ t.jumped \/ Capital + book'.realized >= -Slippage
        \/ /\ pos' = p /\ book' = b /\ trades' = trades
           /\ Solvent(p, [ends |-> minute + 1, close |-> c.close], book.realized)
    BY <1>2, <2>2, <2>4, <2>5, SettleWalks
  <2>8. b \in {book, Engine!NewDay(book, minute)}
    BY DEF b
  <2> QED BY <2>2, <2>4, <2>6, <2>7, <2>8, PositionLeaves
<1> QED BY <1>4, <1>5, <1>6

(* Without a position or an order that fills, nothing changes.             *)
LEMMA NothingToFillLeaves ==
  ASSUME WalkFacts, minute < Minutes, NEW c, Engine!NothingToFill(c)
  PROVE  MinuteLeaves(c) /\ pos' = Nothing /\ book' = book
<1>1. pos = Nothing /\ order' = order /\ pos' = pos /\ book' = book /\ trades' = trades
  BY DEF Engine!NothingToFill
<1> QED BY <1>1 DEF MinuteLeaves, WalkFacts

(* The day after is no earlier.                                            *)
LEMMA NextMinute ==
  ASSUME EngineIsSensible, NEW b \in Book, NEW ts, NEW instant \in Int
  PROVE  /\ ToDate(b, ts, instant) => ToDate(b, ts, instant + 1)
         /\ ToDate(b, ts, instant) /\ b.day = (instant + 1) \div DayLength
              => b.day = instant \div DayLength
<1>1. /\ instant \div DayLength \in Int /\ (instant + 1) \div DayLength \in Int
      /\ instant \div DayLength <= (instant + 1) \div DayLength
  BY DivMonotone DEF EngineIsSensible
<1>2. b.day \in Int
  BY DEF Book
<1> DEFINE d == instant \div DayLength
           e == (instant + 1) \div DayLength
<1>3. d \in Int /\ e \in Int /\ d <= e
  BY <1>1
<1> HIDE DEF d, e
<1>4. b.day <= d => b.day <= e
  BY <1>2, <1>3
<1>5. b.day <= d /\ b.day = e => b.day = d
  BY <1>2, <1>3
<1> QED BY <1>4, <1>5 DEF ToDate, d, e

(* Each step keeps the facts: a minute,                                    *)
LEMMA MinuteWalks ==
  ASSUME WalkFacts, Engine!Minute
  PROVE  WalkFacts'
<1>1. PICK c \in Engine!Candle :
        /\ Engine!MinuteOver(c)
        /\ Engine!ExitDue(c) \/ Engine!Hold(c) \/ Engine!Fill(c) \/ Engine!NothingToFill(c)
  BY DEF Engine!Minute
<1>2. /\ minute < Minutes /\ minute \in Int /\ EngineFacts /\ EngineIsSensible
      /\ AccountIsSensible /\ book \in Book
  BY DEF Engine!Minute, WalkFacts, EngineFacts
<1>3. EngineFacts'
  BY <1>2, MinuteKeeps
<1>4. minute' = minute + 1 /\ candle' = [ends |-> minute + 1, close |-> c.close]
  BY <1>1 DEF Engine!MinuteOver
<1>5. MinuteLeaves(c)
  BY <1>1, <1>2, ExitDueLeaves, HoldLeaves, FillLeaves, NothingToFillLeaves
<1>6. order' # Nothing => pos = Nothing /\ pos' = Nothing /\ book' = book /\ order' = order
  <2>1. CASE Engine!ExitDue(c) \/ Engine!Hold(c)
    <3>1. pos # Nothing /\ order' = order
      BY <2>1 DEF Engine!ExitDue, Engine!Hold
    <3>2. order = Nothing
      BY <1>2, <3>1 DEF WalkFacts
    <3> QED BY <3>1, <3>2
  <2>2. CASE Engine!Fill(c)
    BY <2>2 DEF Engine!Fill
  <2>3. CASE Engine!NothingToFill(c)
    BY <2>3 DEF Engine!NothingToFill
  <2> QED BY <1>1, <2>1, <2>2, <2>3
<1>7. book' \in Book
  BY <1>3 DEF EngineFacts
<1>8. ToDate(book', trades', minute')
  BY <1>2, <1>4, <1>5, <1>7, NextMinute DEF MinuteLeaves
<1>9. order' # Nothing => pos' = Nothing /\ (book'.day = minute' \div DayLength => book'.dayR > DailyStop)
  <2> SUFFICES ASSUME order' # Nothing, book'.day = minute' \div DayLength
               PROVE  book'.dayR > DailyStop
    BY <1>6
  <2>1. book' = book /\ order # Nothing /\ ToDate(book, trades, minute)
    BY <1>2, <1>6 DEF WalkFacts
  <2>2. book.day = minute \div DayLength
    BY <1>2, <1>4, <2>1, NextMinute
  <2> QED BY <1>2, <2>1, <2>2 DEF WalkFacts
<1>10. AccountIsSensible'
  BY <1>2 DEF AccountIsSensible, EngineIsSensible
<1> QED BY <1>3, <1>4, <1>5, <1>8, <1>9, <1>10 DEF WalkFacts, MinuteLeaves

(* a minute nobody traded in,                                              *)
LEMMA QuietWalks ==
  ASSUME WalkFacts, Engine!QuietMinute
  PROVE  WalkFacts'
<1>1. /\ minute' = minute + 1 /\ candle' = candle
      /\ order' = order /\ pos' = pos /\ book' = book /\ trades' = trades /\ minute < Minutes
  BY DEF Engine!QuietMinute
<1>2. /\ EngineFacts /\ EngineIsSensible /\ AccountIsSensible /\ book \in Book /\ minute \in Int
      /\ ToDate(book, trades, minute)
  BY <1>1 DEF WalkFacts, EngineFacts
<1>3. EngineFacts'
  BY <1>2, QuietMinuteKeeps
<1>4. /\ ToDate(book, trades, minute + 1)
      /\ book.day = (minute + 1) \div DayLength => book.day = minute \div DayLength
  BY <1>2, NextMinute
<1>5. AccountIsSensible'
  BY <1>2 DEF AccountIsSensible, EngineIsSensible
<1> QED BY <1>1, <1>3, <1>4, <1>5 DEF WalkFacts

(* What trails is the stop only.                                           *)
LEMMA TrailedKeeps ==
  ASSUME pos \in Position, NEW distance
  PROVE  /\ Engine!Trailed(pos, distance).side = pos.side
         /\ Engine!Trailed(pos, distance).price = pos.price
         /\ Engine!Trailed(pos, distance).entry = pos.entry
<1> DEFINE close == IF pos.side = Engine!Long THEN candle.close ELSE candle.close + Spread
           stop == close - pos.side * distance
           p == [pos EXCEPT !.stop = stop, !.trailed = TRUE]
<1>1. Engine!Trailed(pos, distance) = pos \/ Engine!Trailed(pos, distance) = p
  BY DEF Engine!Trailed
<1> HIDE DEF stop
<1>2. p.side = pos.side /\ p.price = pos.price /\ p.entry = pos.entry
  BY DEF Position
<1> QED BY <1>1, <1>2

(* a decision,                                                             *)
LEMMA DecideWalks ==
  ASSUME WalkFacts, Engine!Decide
  PROVE  WalkFacts'
<1>1. /\ book' = Engine!NewDay(book, minute) /\ minute' = minute
      /\ candle' = candle /\ trades' = trades
      /\ Engine!DecideOnPosition \/ Engine!DecideOnEntry
  BY DEF Engine!Decide
<1>2. /\ EngineFacts /\ EngineIsSensible /\ AccountIsSensible /\ book \in Book /\ minute \in Int
      /\ trades \in Seq(Trade)
  BY DEF WalkFacts, EngineFacts
<1>3. EngineFacts'
  BY <1>2, DecideKeeps
<1>4. AccountIsSensible'
  BY <1>2 DEF AccountIsSensible, EngineIsSensible
<1>5. /\ book'.day = minute \div DayLength /\ book'.realized = book.realized
      /\ book'.dayR = IF book.day = minute \div DayLength THEN book.dayR ELSE 0
      /\ ToDate(book, trades, minute) => ToDate(book', trades, minute)
  BY <1>1, <1>2, NewDayToDate
<1>6. /\ book'.realized = SumMoney(trades') /\ InTime(trades') /\ InCredit(trades', book'.realized)
      /\ (minute' < Minutes => ToDate(book', trades', minute'))
  BY <1>1, <1>5 DEF WalkFacts
<1>7. CASE Engine!DecideOnPosition
  <2>1. pos # Nothing /\ order' = order
    BY <1>7 DEF Engine!DecideOnPosition
  <2>2. PICK distance \in Level \ {0}, trails \in BOOLEAN, when \in BOOLEAN :
          LET p == IF trails THEN Engine!Trailed(pos, distance) ELSE pos
          IN  pos' = IF when THEN [p EXCEPT !.due = "when"]
                     ELSE IF bar - p.bar >= MaxHeld THEN [p EXCEPT !.due = "max_bars"]
                     ELSE p
    BY <1>7 DEF Engine!DecideOnPosition
  <2> DEFINE p == IF trails THEN Engine!Trailed(pos, distance) ELSE pos
  <2>3. pos \in Position
    BY <1>2, <2>1 DEF EngineFacts
  <2>4. p \in Position
    BY <1>2, <2>1, <2>3, TrailOnlyTightens
  <2>5. p.side = pos.side /\ p.price = pos.price /\ p.entry = pos.entry
    BY <2>3, TrailedKeeps
  <2>6. pos' \in {[p EXCEPT !.due = "when"], [p EXCEPT !.due = "max_bars"], p}
    BY <2>2
  <2> HIDE DEF p
  <2>7. pos'.side = p.side /\ pos'.price = p.price /\ pos'.entry = p.entry
    BY <2>4, <2>6 DEF Position
  <2>8. /\ SumR(trades, Len(trades), pos.entry \div DayLength) > DailyStop
        /\ Solvent(pos, candle, book.realized)
    BY <2>1 DEF WalkFacts
  <2>9. pos'.side = pos.side /\ pos'.price = pos.price /\ pos'.entry = pos.entry
    BY <2>5, <2>7
  <2>10. Solvent(pos', candle', book'.realized)
    <3>1. Engine!Financing(pos', candle.ends - 1) = Engine!Financing(pos, candle.ends - 1)
      BY <2>9 DEF Engine!Financing
    <3> QED BY <1>1, <1>5, <2>8, <2>9, <3>1 DEF Solvent
  <2>11. minute < Minutes => order = Nothing
    BY <2>1 DEF WalkFacts
  <2> QED BY <1>1, <1>3, <1>4, <1>6, <2>1, <2>8, <2>9, <2>10, <2>11 DEF WalkFacts
<1>8. CASE Engine!DecideOnEntry
  <2> DEFINE kept == IF Engine!Expired(order) THEN Nothing ELSE order
  <2>1. /\ pos = Nothing /\ pos' = pos
        /\ order' \in IF kept # Nothing THEN {kept}
                      ELSE IF Engine!Blocked(Engine!NewDay(book, minute)) THEN {Nothing}
                      ELSE Engine!Orders \cup {Nothing}
    BY <1>8 DEF Engine!DecideOnEntry
  <2>2. order' # Nothing /\ minute < Minutes => book'.dayR > DailyStop
    <3> SUFFICES ASSUME order' # Nothing, minute < Minutes PROVE book'.dayR > DailyStop
      OBVIOUS
    <3>1. CASE kept # Nothing
      <4>1. order # Nothing
        BY <3>1
      <4>2. book.day = minute \div DayLength => book.dayR > DailyStop
        BY <4>1 DEF WalkFacts
      <4> QED BY <1>2, <1>5, <4>2, StopIsALoss
    <3>2. CASE kept = Nothing
      <4>1. ~Engine!Blocked(book')
        BY <1>1, <2>1, <3>2
      <4>2. ~(book'.dayR <= DailyStop)
        BY <4>1 DEF Engine!Blocked
      <4>3. book'.dayR \in Int /\ DailyStop \in Int
        BY <1>2, <1>3, StopIsALoss DEF EngineFacts, Book
      <4> QED BY <4>2, <4>3
    <3> QED BY <3>1, <3>2
  <2>3. pos' = Nothing
    BY <2>1
  <2> QED BY <1>1, <1>3, <1>4, <1>6, <2>2, <2>3 DEF WalkFacts
<1> QED BY <1>1, <1>7, <1>8

(* What the end of the range leaves of a position.                         *)
LEMMA EndWalks ==
  ASSUME EngineFacts, AccountIsSensible, NEW p \in Position, Guarded(p), NEW ends \in Int,
         NEW close \in Int, Solvent(p, [ends |-> ends, close |-> close], book.realized),
         Engine!Close(p, ends, IF p.side = 1 THEN close ELSE close + Spread, "end_of_range",
                      Engine!Nights(p.entry, ends) > Engine!Nights(p.entry, ends - 1), book)
  PROVE  \E t : /\ Closed(t, p, ends, book)
                /\ t.jumped \/ Capital + book'.realized >= -Slippage
<1> DEFINE side == p.side
           price == IF side = 1 THEN close ELSE close + Spread
           jumped == Engine!Nights(p.entry, ends) > Engine!Nights(p.entry, ends - 1)
           cost == Engine!Financing(p, ends)
           before_it == Engine!Financing(p, ends - 1)
           made == Capital + book.realized
<1>1. /\ EngineIsSensible /\ Slippage \in Nat /\ Capital \in Int /\ book.realized \in Int
      /\ book \in Book /\ Spread \in Int
  BY DEF AccountIsSensible, EngineIsSensible, EngineFacts, Book
<1>2. side \in {1, -1} /\ p.price \in Int /\ p.entry \in Int
  BY DEF Position
<1>3. price \in Int
  BY <1>1
<1>4. cost \in Int /\ before_it \in Int /\ made \in Int
  BY <1>1, NightsCost
<1>5. ~jumped => cost = before_it
  <2>1. /\ Engine!Nights(p.entry, ends - 1) \in Int /\ Engine!Nights(p.entry, ends) \in Int
        /\ Engine!Nights(p.entry, ends - 1) <= Engine!Nights(p.entry, ends)
    <3>1. ends - 1 \in Int /\ ends - 1 <= ends
      OBVIOUS
    <3> QED BY <1>1, <1>2, <3>1, NightsGrow
  <2>2. ~jumped => Engine!Nights(p.entry, ends - 1) = Engine!Nights(p.entry, ends)
    BY <2>1
  <2> QED BY <2>2 DEF Engine!Financing
<1>6. side * (price - p.price) - before_it > -made
  BY DEF Solvent
<1>7. Engine!Close(p, ends, price, "end_of_range", jumped, book) /\ jumped \in BOOLEAN
  OBVIOUS
<1> HIDE DEF price, jumped
<1>8. PICK t : /\ Closed(t, p, ends, book) /\ t.jumped = jumped
               /\ t.money = p.side * (price - p.price) - cost
  BY <1>1, <1>3, <1>7, CloseMakes
<1>9. book'.realized = book.realized + t.money /\ t.money \in Int
  BY <1>8, TradeFields DEF Closed
<1> DEFINE moved == side * (price - p.price)
<1>10. moved \in Int /\ t.money = moved - cost /\ moved - before_it > -made
  BY <1>2, <1>3, <1>6, <1>8
<1> HIDE DEF moved, cost, before_it
<1>11. t.jumped \/ Capital + book'.realized >= -Slippage
  BY <1>1, <1>4, <1>5, <1>8, <1>9, <1>10
<1> QED BY <1>8, <1>11

(* and the end.                                                            *)
LEMMA EndOfRangeWalks ==
  ASSUME WalkFacts, Engine!EndOfRange
  PROVE  WalkFacts'
<1>1. pos # Nothing /\ minute = Minutes
  BY DEF Engine!EndOfRange
<1>2. /\ EngineFacts /\ AccountIsSensible /\ EngineIsSensible /\ book \in Book
      /\ pos \in Position /\ Guarded(pos) /\ candle \in [ends : Int, close : Int]
      /\ SumR(trades, Len(trades), pos.entry \div DayLength) > DailyStop
      /\ Solvent(pos, candle, book.realized)
      /\ book.realized = SumMoney(trades) /\ InTime(trades)
  BY <1>1 DEF WalkFacts, EngineFacts
<1>3. EngineFacts'
  BY <1>2, EndOfRangeKeeps
<1> DEFINE ends == candle.ends
           close == candle.close
<1>4. ends \in Int /\ close \in Int /\ candle = [ends |-> ends, close |-> close]
  BY <1>2
<1>5. /\ Engine!Close(pos, ends, IF pos.side = 1 THEN close ELSE close + Spread, "end_of_range",
                      Engine!Nights(pos.entry, ends) > Engine!Nights(pos.entry, ends - 1), book)
      /\ minute' = minute
  BY DEF Engine!EndOfRange, Engine!Long
<1> HIDE DEF ends, close
<1>6. PICK t : Closed(t, pos, ends, book) /\ (t.jumped \/ Capital + book'.realized >= -Slippage)
  BY <1>2, <1>4, <1>5, EndWalks
<1>7. /\ book'.realized = SumMoney(trades')
      /\ InTime(trades') /\ InCredit(trades', book'.realized)
  BY <1>2, <1>4, <1>6, ClosedKeeps
<1>8. pos' = Nothing
  BY <1>6 DEF Closed
<1>9. ~(minute' < Minutes)
  BY <1>1, <1>5 DEF AccountIsSensible, EngineIsSensible, WalkFacts
<1>10. AccountIsSensible'
  BY <1>2 DEF AccountIsSensible, EngineIsSensible
<1> QED BY <1>3, <1>7, <1>8, <1>9, <1>10 DEF WalkFacts

(* Every step keeps them.                                                  *)
LEMMA WalkStep == WalkFacts /\ [Engine!Next]_(Engine!vars) => WalkFacts'
<1>1. ASSUME WalkFacts, UNCHANGED Engine!vars PROVE WalkFacts'
  <2>1. /\ minute' = minute /\ candle' = candle /\ stops' = stops /\ bar' = bar
        /\ order' = order /\ pos' = pos /\ book' = book /\ trades' = trades
    BY <1>1 DEF Engine!vars
  <2>2. EngineFacts'
    BY <1>1, EngineStep DEF WalkFacts
  <2>3. AccountIsSensible'
    BY <1>1 DEF WalkFacts, AccountIsSensible, EngineIsSensible
  <2> QED BY <1>1, <2>1, <2>2, <2>3 DEF WalkFacts
<1> QED BY <1>1, MinuteWalks, QuietWalks, DecideWalks, EndOfRangeWalks DEF Engine!Next

(* No position is opened on a day whose stop has been reached, by an order *)
(* of that day or of an earlier one, whichever day the trades that reached *)
(* it were opened on (engine.py): for any prices, costs, capital and parts *)
(* of 1 R.                                                                 *)
THEOREM TheDayStopHolds == AccountIsSensible /\ Engine!Spec => []DayStopHolds
<1>1. WalkFacts => DayStopHolds
  <2> SUFFICES ASSUME WalkFacts PROVE DayStopHolds
    OBVIOUS
  <2>1. ASSUME NEW k \in DOMAIN trades
        PROVE  Engine!DayR(trades[k].entry, k - 1) > DailyStop
    BY DaySummed DEF WalkFacts, InTime
  <2>2. pos # Nothing => Engine!DayR(pos.entry, Len(trades)) > DailyStop
    BY DaySummed DEF WalkFacts
  <2> QED BY <2>1, <2>2 DEF DayStopHolds, Engine!DayStopHolds
<1> QED BY WalkStarts, WalkStep, <1>1, PTL DEF Engine!Spec

(* An account is in debt by more than the slippage only after a price that *)
(* jumped over the level its last position was closed at (engine.py).      *)
THEOREM DebtNeedsAJump == AccountIsSensible /\ Engine!Spec => []NoDebtWithoutAJump
<1>1. WalkFacts => NoDebtWithoutAJump
  <2> SUFFICES ASSUME WalkFacts, Capital + Engine!MadeBy(Len(trades)) < -Slippage
               PROVE  trades[Len(trades)].jumped
    BY DEF NoDebtWithoutAJump, Engine!NoDebtWithoutAJump
  <2>1. /\ Engine!MadeBy(Len(trades)) = book.realized /\ book.realized \in Int
        /\ Capital \in Nat /\ Slippage \in Nat
    BY MoneySummed DEF WalkFacts, EngineFacts, AccountIsSensible, Book
  <2>2. trades # <<>>
    <3> SUFFICES ASSUME trades = <<>> PROVE FALSE
      OBVIOUS
    <3>1. 1 .. Len(<<>>) = {} /\ IsFiniteSet({})
      BY FS_EmptySet
    <3>2. SumMoney(<<>>) = 0
      BY <3>1, TotalStep DEF SumMoney
    <3>3. book.realized = 0
      BY <3>2 DEF WalkFacts
    <3> QED BY <2>1, <3>3
  <2>3. InCredit(trades, book.realized)
    BY DEF WalkFacts
  <2> QED BY <2>1, <2>2, <2>3 DEF InCredit
<1> QED BY WalkStarts, WalkStep, <1>1, PTL DEF Engine!Spec

(***************************************************************************)
(* A deep read of the history.  Pages join where they share a candle, so   *)
(* that what is held has no gap: it is all there is from the cursor on.    *)
(***************************************************************************)

(* No moment is none.                                                      *)
HistoryIsSensible == Last \in Nat /\ PageMax \in Nat /\ NoMoment \notin Int

(* Halves of whole numbers.                                                *)
LEMMA Halves ==
  ASSUME NEW x \in Int
  PROVE  x \div 2 \in Int /\ 2 * (x \div 2) <= x /\ x <= 2 * (x \div 2) + 1
OBVIOUS

(* The start of a period, which is two ticks.                              *)
Even(m) == \E p \in Nat : m = p * 2

(* As many periods at most start after one moment and up to another.       *)
LEMMA PeriodsWithin ==
  ASSUME NEW S, \A m \in S : m \in Nat /\ Even(m), NEW a \in Int, NEW b \in Int, a <= b,
         \A m \in S : a < m /\ m <= b
  PROVE  IsFiniteSet(S) /\ Cardinality(S) <= b \div 2 - a \div 2
<1> DEFINE low == a \div 2 + 1
           high == b \div 2
           T == low .. high
           f == [m \in S |-> m \div 2]
<1>1. low \in Int /\ high \in Int /\ low <= high + 1
  BY Halves
<1>2. \A m \in S : m \div 2 \in T /\ 2 * (m \div 2) = m
  <2> SUFFICES ASSUME NEW m \in S PROVE m \div 2 \in T /\ 2 * (m \div 2) = m
    OBVIOUS
  <2>1. PICK p \in Nat : m = p * 2
    BY DEF Even
  <2>2. m \in Int /\ a < m /\ m <= b /\ m \div 2 \in Int /\ m \div 2 = p
    BY <2>1
  <2> QED BY <2>1, <2>2, Halves
<1> HIDE DEF low, high
<1>3. IsFiniteSet(T) /\ Cardinality(T) = high - low + 1
  BY <1>1, FS_Interval
<1> HIDE DEF T
<1>4. f \in Injection(S, T)
  BY <1>2 DEF Injection, IsInjective
<1> HIDE DEF f
<1>5. IsFiniteSet(S) /\ Cardinality(S) <= Cardinality(T)
  BY <1>3, <1>4, FS_Injection
<1> QED BY <1>3, <1>5 DEF low, high

(* The instance has the operators of the library under its own name.       *)
LEMMA HistorySizes == ASSUME NEW S PROVE History!Cardinality(S) = Cardinality(S)
  BY DEF History!Cardinality, Cardinality

(* The oldest of some candles is one of them.                              *)
LEMMA HistoryMin ==
  ASSUME NEW S \in SUBSET Nat, S # {}
  PROVE  History!Min(S) \in S /\ \A x \in S : History!Min(S) <= x
<1>1. History!Min(S) = Min(S)
  BY DEF History!Min, Min
<1> QED BY <1>1, MinOfNaturals

(* The newest n of some candles are all of them if they are fewer than n.  *)
LEMMA NewestOfFew ==
  ASSUME NEW S \in SUBSET Nat, NEW top \in Nat, \A x \in S : x <= top, NEW n \in Nat,
         Cardinality(History!Newest(n, S)) < n
  PROVE  History!Newest(n, S) = S
<1> DEFINE N == History!Newest(n, S)
           D == S \ N
<1>1. IsFiniteSet(S)
  BY FS_BoundedSetOfNaturals
<1>2. N = {m \in S : Cardinality({q \in S : q > m}) < n}
  BY HistorySizes DEF History!Newest
<1>3. N \subseteq S /\ IsFiniteSet(N) /\ Cardinality(N) \in Nat
  <2>1. N \in SUBSET S
    BY <1>2
  <2> HIDE DEF N
  <2> QED BY <1>1, <2>1, FS_Subset, FS_CardinalityType
<1> HIDE DEF N
<1>4. SUFFICES ASSUME D # {} PROVE FALSE
  BY <1>3 DEF N
<1>5. PICK m \in D : \A x \in D : x <= m
  <2>1. D \in SUBSET Nat /\ \A x \in D : x <= top
    OBVIOUS
  <2> HIDE DEF D
  <2> QED BY <1>4, <2>1, MaxOfNaturals
<1> DEFINE U == {q \in S : q > m}
<1>6. U \in SUBSET N
  <2> SUFFICES ASSUME NEW q \in U PROVE q \in N
    OBVIOUS
  <2>1. q \in S /\ q > m /\ q \in Nat /\ m \in Nat
    OBVIOUS
  <2>2. q \notin D
    BY <1>5, <2>1
  <2> QED BY <2>1, <2>2
<1>7. Cardinality(U) \in Nat /\ Cardinality(U) <= Cardinality(N)
  <2> HIDE DEF U
  <2> QED BY <1>3, <1>6, FS_Subset, FS_CardinalityType
<1>8. ~(Cardinality(U) < n)
  <2>1. m \in S /\ m \notin N
    OBVIOUS
  <2> QED BY <1>2, <2>1
<1> HIDE DEF U
<1> QED BY <1>3, <1>7, <1>8 DEF N

(* What is so while it pages, once a page was collected: the cursor is the *)
(* oldest candle held, newer than the floor, and between it and the newer  *)
(* edge every candle is held; each request but the first counted one       *)
(* twice.                                                                  *)
Paged ==
  LET c == cursor
  IN  /\ c \in got /\ after < c /\ \A m \in got : c <= m
      /\ requests # 0
      /\ before # NoMoment =>
           got = {m \in market : c <= m /\ m <= before} /\ held = Cardinality(got) + requests - 1

(* How a read may end: at the oldest candle there is,                      *)
AllThereIs == \E c \in got : after < c /\ \A m \in market : c <= m

(* or with every candle asked for.                                         *)
AllAskedFor == \A m \in market : after < m /\ m < before => m \in got

(* The inductive invariant.                                                *)
HistoryFacts ==
  /\ HistoryIsSensible
  /\ market \subseteq History!Starts /\ got \subseteq market
  /\ after \in Nat /\ barsAsked \in Nat /\ requests \in Nat /\ held \in Nat
  /\ before # NoMoment =>
       /\ before \in Nat /\ after < before
       /\ barsAsked = History!periods_between(after, before)
       /\ \A m \in got : m <= before
  /\ reading \in {"paging", "done", "failed"}
  /\ reading = "paging" =>
       /\ ~history_ended
       /\ IF cursor = NoMoment THEN got = {} /\ held = 0 /\ requests = 0 ELSE Paged
  /\ reading = "done" /\ history_ended /\ ~reached_floor /\ History!OpenOften => AllThereIs
  /\ reading = "done" /\ before # NoMoment /\ got # {} /\ History!OpenOften =>
       requests # 0 /\ (AllAskedFor \/ (Paged /\ held >= barsAsked))

(* The starts of periods.                                                  *)
LEMMA MarketFacts ==
  ASSUME HistoryIsSensible, NEW S \in SUBSET History!Starts
  PROVE  /\ S \subseteq Nat /\ IsFiniteSet(S) /\ Cardinality(S) \in Nat
         /\ \A m \in S : m \in Nat /\ m <= 2 * Last /\ Even(m)
<1>1. \A m \in S : m \in Nat /\ m <= 2 * Last /\ Even(m)
  BY DEF History!Starts, History!Period, HistoryIsSensible, Even
<1>2. IsFiniteSet(S)
  <2> DEFINE top == 2 * Last
  <2>1. top \in Nat /\ S \in SUBSET Nat /\ \A m \in S : m <= top
    BY <1>1 DEF HistoryIsSensible
  <2> HIDE DEF top
  <2> QED BY <2>1, FS_BoundedSetOfNaturals
<1> QED BY <1>1, <1>2, FS_CardinalityType

(* A window is a whole number of ticks.                                    *)
LEMMA WindowIsWhole ==
  ASSUME HistoryFacts
  PROVE  History!window \in Int
<1> DEFINE size == History!Min({PageMax, barsAsked})
<1>1. size \in Nat
  <2>1. {PageMax, barsAsked} \in SUBSET Nat
    BY DEF HistoryFacts, HistoryIsSensible
  <2> QED BY <2>1, HistoryMin
<1>2. History!window = (size - 1) * 2
  BY DEF History!window, History!page_size, History!Period
<1> HIDE DEF size
<1> QED BY <1>1, <1>2

(* Nothing is held at first.                                               *)
LEMMA HistoryStarts == HistoryIsSensible /\ History!Init => HistoryFacts
<1> SUFFICES ASSUME HistoryIsSensible, History!Init PROVE HistoryFacts
  OBVIOUS
<1>1. History!Now \in Nat
  BY DEF History!Now, History!Period, HistoryIsSensible
<1>2. /\ market \subseteq History!Starts /\ after \in 0 .. History!Now - 1
      /\ \/ /\ before \in after + 1 .. History!Now
            /\ barsAsked = History!periods_between(after, before)
         \/ before = NoMoment /\ barsAsked \in 1 .. Last
      /\ reading = "paging" /\ held = 0 /\ got = {} /\ cursor = NoMoment /\ requests = 0
      /\ ~history_ended
  BY DEF History!Init
<1>3. after \in Nat
  BY <1>1, <1>2
<1>4. before # NoMoment => /\ before \in Nat /\ after < before
                           /\ barsAsked = History!periods_between(after, before)
  BY <1>1, <1>2, <1>3
<1>5. barsAsked \in Nat
  <2>1. CASE before = NoMoment
    <3>1. before \notin Int
      BY <2>1 DEF HistoryIsSensible
    <3>2. ~(before \in after + 1 .. History!Now)
      BY <1>1, <1>3, <3>1
    <3> QED BY <1>2, <3>2 DEF HistoryIsSensible
  <2>2. CASE before # NoMoment
    <3> DEFINE x == before - after + 1
    <3>1. x \in Nat /\ barsAsked = x \div 2
      BY <1>4, <1>3, <2>2 DEF History!periods_between, History!Period
    <3> HIDE DEF x
    <3> QED BY <3>1
  <2> QED BY <2>1, <2>2
<1> QED BY <1>2, <1>3, <1>4, <1>5 DEF HistoryFacts

(* A page is the part of the market its window meets.                      *)
LEMMA PageFacts ==
  ASSUME HistoryFacts, reading = "paging"
  PROVE  /\ History!fetch_page \in SUBSET market /\ History!fetch_page \in SUBSET Nat
         /\ IsFiniteSet(History!fetch_page) /\ Cardinality(History!fetch_page) \in Nat
         /\ History!fetch_page # {} =>
              /\ History!Min(History!fetch_page) \in History!fetch_page
              /\ \A m \in History!fetch_page : History!Min(History!fetch_page) <= m
         /\ History!edge # NoMoment =>
              /\ History!edge \in Nat /\ after < History!edge
              /\ \A m \in market : m \in History!fetch_page <=>
                   History!edge - History!window <= m /\ after <= m /\ m <= History!edge
<1> DEFINE some == History!fetch_page
           e == History!edge
<1>1. market \in SUBSET History!Starts /\ HistoryIsSensible /\ after \in Nat
  BY DEF HistoryFacts
<1>2. market \subseteq Nat
  BY <1>1, MarketFacts
<1>3. some \in SUBSET market
  BY DEF History!fetch_page, History!Newest
<1>4. /\ some \in SUBSET Nat /\ IsFiniteSet(some) /\ Cardinality(some) \in Nat
  <2> HIDE DEF some
  <2>1. some \in SUBSET History!Starts
    BY <1>1, <1>3
  <2> QED BY <1>1, <2>1, MarketFacts
<1>5. some # {} => History!Min(some) \in some /\ \A m \in some : History!Min(some) <= m
  <2> HIDE DEF some
  <2> QED BY <1>4, HistoryMin
<1>6. e # NoMoment => e \in Nat /\ after < e
  <2>1. CASE cursor = NoMoment
    BY <2>1 DEF History!edge, HistoryFacts
  <2>2. CASE cursor # NoMoment
    <3>1. Paged
      BY <2>2 DEF HistoryFacts
    <3>2. cursor \in market /\ after < cursor
      BY <3>1 DEF Paged, HistoryFacts
    <3> QED BY <1>2, <2>2, <3>2 DEF History!edge
  <2> QED BY <2>1, <2>2
<1>7. ASSUME e # NoMoment
      PROVE  \A m \in market : m \in some <=> e - History!window <= m /\ after <= m /\ m <= e
  <2> DEFINE w == e - History!window
  <2>1. w \in Int
    BY <1>6, <1>7, WindowIsWhole
  <2>2. some = {m \in market : History!Max({w, after}) <= m /\ m <= e}
    BY <1>7 DEF History!fetch_page
  <2> HIDE DEF some, e, w
  <2>3. /\ History!Max({w, after}) \in {w, after}
        /\ History!Max({w, after}) >= w /\ History!Max({w, after}) >= after
    <3>1. History!Max({w, after}) = Pair!Max({w, after})
      BY DEF History!Max, Pair!Max
    <3> QED BY <1>1, <2>1, <3>1, LargerOfTwo
  <2> SUFFICES ASSUME NEW m \in market
               PROVE  m \in some <=> w <= m /\ after <= m /\ m <= e
    BY DEF w
  <2>4. m \in Int
    BY <1>2
  <2>5. History!Max({w, after}) <= m <=> w <= m /\ after <= m
    BY <1>1, <2>1, <2>3, <2>4
  <2> QED BY <2>2, <2>5
<1> QED BY <1>3, <1>4, <1>5, <1>6, <1>7

(* A page down to the floor leaves nothing of what was asked for, as it    *)
(* begins where the page before ended.                                     *)
LEMMA PageToFloorKeeps ==
  ASSUME HistoryFacts, History!PageToFloor
  PROVE  HistoryFacts'
<1> DEFINE some == History!fetch_page
<1>1. /\ reading = "paging" /\ some # {} /\ History!Min(some) <= after
      /\ held' = held + Cardinality(some) /\ got' = got \cup some /\ requests' = requests + 1
      /\ reached_floor' = TRUE /\ reading' = "done"
      /\ market' = market /\ barsAsked' = barsAsked /\ before' = before /\ after' = after
  BY HistorySizes DEF History!PageToFloor, History!Ask, History!Collected, History!Done,
                      History!asked
<1>2. /\ some \in SUBSET market /\ Cardinality(some) \in Nat /\ History!Min(some) \in some
      /\ History!edge # NoMoment =>
              /\ History!edge \in Nat /\ after < History!edge
              /\ \A m \in market : m \in some <=>
                   History!edge - History!window <= m /\ after <= m /\ m <= History!edge
  BY <1>1, PageFacts
<1> HIDE DEF some
<1>3. /\ market \subseteq History!Starts /\ got \subseteq market /\ HistoryIsSensible
      /\ market \in SUBSET History!Starts
      /\ after \in Nat /\ barsAsked \in Nat /\ requests \in Nat /\ held \in Nat
  BY DEF HistoryFacts
<1>4. market \subseteq Nat
  BY <1>3, MarketFacts
<1>5. got' \subseteq market /\ requests' \in Nat /\ held' \in Nat /\ requests' # 0
  BY <1>1, <1>2, <1>3
<1>6. ASSUME before # NoMoment
      PROVE  (\A m \in got' : m <= before) /\ \A m \in market : after < m /\ m < before => m \in got'
  <2>1. before \in Nat /\ \A m \in got : m <= before
    BY <1>6 DEF HistoryFacts
  <2>2. /\ History!edge \in Nat /\ History!edge <= before
        /\ \A m \in market : History!edge < m /\ m <= before => m \in got
    <3>1. CASE cursor = NoMoment
      BY <1>2, <1>3, <1>4, <1>6, <2>1, <3>1 DEF History!edge
    <3>2. CASE cursor # NoMoment
      <4>1. Paged
        BY <1>1, <3>2 DEF HistoryFacts
      <4> QED BY <1>3, <1>4, <1>6, <2>1, <3>2, <4>1 DEF Paged, History!edge
    <3> QED BY <3>1, <3>2
  <2>3. History!edge # NoMoment
    BY <1>3, <2>2 DEF HistoryIsSensible
  <2>4. \A m \in some : m <= before
    BY <1>2, <1>4, <2>1, <2>2, <2>3
  <2>5. History!window \in Int /\ History!edge - History!window <= after
    <3>1. History!window \in Int
      BY WindowIsWhole
    <3>2. History!edge - History!window <= History!Min(some)
      BY <1>2, <2>3
    <3>3. History!Min(some) \in Nat
      BY <1>2, <1>4
    <3> QED BY <1>1, <1>3, <2>2, <3>1, <3>2, <3>3
  <2>6. ASSUME NEW m \in market, after < m, m < before
        PROVE  m \in got'
    <3>1. m \in Nat
      BY <1>4
    <3>2. CASE m <= History!edge
      BY <1>1, <1>2, <1>3, <2>2, <2>3, <2>5, <2>6, <3>1, <3>2
    <3>3. CASE History!edge < m
      BY <1>1, <2>1, <2>2, <2>6, <3>1, <3>3
    <3> QED BY <2>2, <3>1, <3>2, <3>3
  <2> QED BY <1>1, <2>1, <2>4, <2>6
<1>7. ~(reading' = "done" /\ history_ended' /\ ~reached_floor')
  BY <1>1
<1>8. before' # NoMoment =>
       /\ before' \in Nat /\ after' < before'
       /\ barsAsked' = History!periods_between(after, before)'
       /\ \A m \in got' : m <= before'
  BY <1>1, <1>6 DEF HistoryFacts, History!periods_between
<1>9. before' # NoMoment => AllAskedFor'
  BY <1>1, <1>6 DEF AllAskedFor
<1>10. /\ market' \subseteq History!Starts' /\ got' \subseteq market'
       /\ after' \in Nat /\ barsAsked' \in Nat /\ reading' = "done"
  BY <1>1, <1>3, <1>5
<1> QED BY <1>3, <1>5, <1>7, <1>8, <1>9, <1>10 DEF HistoryFacts

(* A window that shows nothing older than the cursor shows that nothing is *)
(* there: down to the floor, or at all, in a market that is open often     *)
(* enough.                                                                 *)
LEMMA NoOlderFacts ==
  ASSUME HistoryFacts, reading = "paging", cursor # NoMoment,
         \A m \in History!fetch_page : cursor <= m
  PROVE  /\ \A m \in market : after <= m /\ cursor - History!window <= m => cursor <= m
         /\ (after < cursor - History!window /\ History!OpenOften) => \A m \in market : cursor <= m
<1>1. Paged /\ cursor \in market /\ cursor \in Nat /\ after \in Nat /\ market \subseteq Nat
  <2>1. Paged /\ HistoryIsSensible /\ market \in SUBSET History!Starts /\ got \subseteq market
        /\ after \in Nat
    BY DEF HistoryFacts
  <2>2. market \subseteq Nat
    BY <2>1, MarketFacts
  <2> QED BY <2>1, <2>2 DEF Paged
<1>2. History!edge = cursor /\ History!window \in Int
  BY WindowIsWhole DEF History!edge
<1>3. \A m \in market : m \in History!fetch_page <=>
         cursor - History!window <= m /\ after <= m /\ m <= cursor
  BY <1>2, PageFacts
<1>4. ASSUME NEW m \in market, after <= m, cursor - History!window <= m
      PROVE  cursor <= m
  <2>1. m \in Nat
    BY <1>1
  <2>2. CASE m <= cursor
    BY <1>3, <1>4, <2>2
  <2> QED BY <1>1, <2>1, <2>2
<1>5. ASSUME after < cursor - History!window, History!OpenOften
      PROVE  \A m \in market : cursor <= m
  <2>1. cursor = History!Min(market) \/ \E q \in market : q < cursor /\ cursor - q <= History!window
    BY <1>1, <1>5 DEF History!OpenOften
  <2>2. ~ \E q \in market : q < cursor /\ cursor - q <= History!window
    <3> SUFFICES ASSUME NEW q \in market, q < cursor, cursor - q <= History!window PROVE FALSE
      OBVIOUS
    <3>1. q \in Nat
      BY <1>1
    <3>2. cursor - History!window <= q /\ after <= q
      BY <1>1, <1>2, <1>5, <3>1
    <3> QED BY <1>1, <1>4, <3>1, <3>2
  <2>3. cursor = History!Min(market)
    BY <2>1, <2>2
  <2>4. \A x \in market : History!Min(market) <= x
    BY <1>1, HistoryMin
  <2> QED BY <2>3, <2>4
<1> QED BY <1>4, <1>5

(* The end of what there is, or of what was asked for.                     *)
LEMMA NothingOlderKeeps ==
  ASSUME HistoryFacts, History!NothingOlder
  PROVE  HistoryFacts'
<1> DEFINE some == History!fetch_page
<1>1. /\ reading = "paging" /\ (some # {} => ~History!IsOlder(some))
      /\ held' = held + Cardinality(some) /\ got' = got \cup some /\ requests' = requests + 1
      /\ reached_floor' = History!on_the_floor /\ reading' = "done"
      /\ history_ended' => ~History!on_the_floor /\ got' # {}
      /\ cursor' = cursor
      /\ market' = market /\ barsAsked' = barsAsked /\ before' = before /\ after' = after
  BY HistorySizes DEF History!NothingOlder, History!Ask, History!Collected, History!Done,
                      History!asked
<1>2. /\ some \in SUBSET market /\ Cardinality(some) \in Nat
      /\ some # {} => History!Min(some) \in some /\ \A m \in some : History!Min(some) <= m
      /\ History!edge # NoMoment => \A m \in some : m <= History!edge
  BY <1>1, PageFacts
<1> HIDE DEF some
<1>3. /\ market \subseteq History!Starts /\ got \subseteq market /\ HistoryIsSensible
      /\ market \in SUBSET History!Starts
      /\ after \in Nat /\ barsAsked \in Nat /\ requests \in Nat /\ held \in Nat
  BY DEF HistoryFacts
<1>4. market \subseteq Nat
  BY <1>3, MarketFacts
<1>5. /\ got' \subseteq market' /\ requests' \in Nat /\ held' \in Nat /\ requests' # 0
      /\ market' \subseteq History!Starts'
      /\ after' \in Nat /\ barsAsked' \in Nat /\ reading' = "done"
  BY <1>1, <1>2, <1>3
<1>6. CASE cursor = NoMoment
  <2>1. some = {} /\ got' = {}
    BY <1>1, <1>6 DEF History!IsOlder, HistoryFacts
  <2>2. before' # NoMoment =>
          /\ before' \in Nat /\ after' < before'
          /\ barsAsked' = History!periods_between(after, before)'
    BY <1>1 DEF HistoryFacts, History!periods_between
  <2>3. ~history_ended'
    BY <1>1, <2>1
  <2> QED BY <1>3, <1>5, <2>1, <2>2, <2>3 DEF HistoryFacts
<1>7. CASE cursor # NoMoment
  <2>1. Paged /\ cursor \in market /\ cursor \in Nat
    BY <1>1, <1>3, <1>4, <1>7 DEF HistoryFacts, Paged
  <2>2. \A m \in some : cursor <= m
    <3> SUFFICES ASSUME NEW m \in some PROVE cursor <= m
      OBVIOUS
    <3>1. ~(History!Min(some) < cursor) /\ History!Min(some) \in Nat /\ History!Min(some) <= m
          /\ m \in Nat
      BY <1>1, <1>2, <1>4, <1>7 DEF History!IsOlder
    <3> QED BY <2>1, <3>1
  <2>3. /\ \A m \in market : after <= m /\ cursor - History!window <= m => cursor <= m
        /\ (after < cursor - History!window /\ History!OpenOften) => \A m \in market : cursor <= m
    <3>1. \A m \in History!fetch_page : cursor <= m
      BY <2>2 DEF some
    <3> QED BY <1>1, <1>7, <3>1, NoOlderFacts
  <2>4. History!on_the_floor <=> cursor - History!window <= after
    BY <1>7 DEF History!on_the_floor, History!edge
  <2>5. History!edge = cursor /\ History!window \in Int
    BY <1>7, WindowIsWhole DEF History!edge
  <2>6. History!OpenOften' => History!OpenOften
    <3>1. History!window' = History!window
      BY <1>1 DEF History!window, History!page_size
    <3> QED BY <1>1, <3>1 DEF History!OpenOften
  <2>7. reading' = "done" /\ history_ended' /\ ~reached_floor' /\ History!OpenOften' => AllThereIs'
    <3> SUFFICES ASSUME ~History!on_the_floor, History!OpenOften PROVE AllThereIs'
      BY <1>1, <2>6
    <3>1. \A m \in market : cursor <= m
      BY <1>3, <2>1, <2>3, <2>4, <2>5
    <3>2. cursor \in got' /\ after < cursor
      BY <1>1, <2>1 DEF Paged
    <3> QED BY <1>1, <3>1, <3>2 DEF AllThereIs
  <2>8. ASSUME before # NoMoment
        PROVE  /\ before \in Nat /\ \A m \in got' : m <= before
               /\ History!OpenOften => \A m \in market : after < m /\ m < before => m \in got'
    <3>1. /\ before \in Nat /\ got = {m \in market : cursor <= m /\ m <= before}
      BY <2>1, <2>8 DEF HistoryFacts, Paged
    <3>2. \A m \in got' : m <= before
      <4>1. cursor <= before
        BY <2>1, <3>1 DEF Paged
      <4>2. \A m \in some : m <= cursor /\ m \in Nat
        BY <1>2, <1>4, <2>5, <1>7
      <4> QED BY <1>1, <2>1, <3>1, <4>1, <4>2
    <3>3. ASSUME History!OpenOften, NEW m \in market, after < m, m < before
          PROVE  m \in got'
      <4>1. m \in Nat
        BY <1>4
      <4>2. cursor <= m
        BY <1>3, <2>1, <2>3, <2>5, <3>3, <4>1
      <4> QED BY <1>1, <3>1, <3>3, <4>1, <4>2
    <3> QED BY <3>1, <3>2, <3>3
  <2>9. before' # NoMoment =>
          /\ before' \in Nat /\ after' < before'
          /\ barsAsked' = History!periods_between(after, before)'
          /\ \A m \in got' : m <= before'
    BY <1>1, <2>8 DEF HistoryFacts, History!periods_between
  <2>10. before' # NoMoment /\ History!OpenOften' => AllAskedFor'
    BY <1>1, <2>6, <2>8 DEF AllAskedFor
  <2> QED BY <1>3, <1>5, <2>7, <2>9, <2>10 DEF HistoryFacts
<1> QED BY <1>6, <1>7

(* A page shares one candle with the pages before.                         *)
LEMMA PageOnTheWayKeeps ==
  ASSUME HistoryFacts, History!PageOnTheWay
  PROVE  HistoryFacts'
<1> DEFINE some == History!fetch_page
           low == History!Min(some)
<1>1. /\ reading = "paging" /\ some # {} /\ low > after /\ History!IsOlder(some)
      /\ held' = held + Cardinality(some) /\ got' = got \cup some /\ requests' = requests + 1
      /\ cursor' = low /\ reading' = reading /\ history_ended' = history_ended
      /\ market' = market /\ barsAsked' = barsAsked /\ before' = before /\ after' = after
  BY HistorySizes DEF History!PageOnTheWay, History!Ask, History!Collected, History!asked,
                      History!NextCursor
<1>2. /\ some \in SUBSET market /\ some \in SUBSET Nat
      /\ IsFiniteSet(some) /\ Cardinality(some) \in Nat
      /\ low \in some /\ \A m \in some : low <= m
      /\ History!edge # NoMoment =>
           /\ History!edge \in Nat /\ after < History!edge
           /\ \A m \in market : m \in some <=>
                History!edge - History!window <= m /\ after <= m /\ m <= History!edge
  BY <1>1, PageFacts
<1>3. low \in Nat
  BY <1>2
<1>4. History!IsOlder(some) => cursor = NoMoment \/ low < cursor
  BY DEF History!IsOlder
<1> HIDE DEF some, low
<1>5. /\ market \subseteq History!Starts /\ got \subseteq market /\ HistoryIsSensible
      /\ market \in SUBSET History!Starts /\ got \in SUBSET History!Starts
      /\ after \in Nat /\ barsAsked \in Nat /\ requests \in Nat /\ held \in Nat
      /\ History!window \in Int
  BY WindowIsWhole DEF HistoryFacts
<1>6. market \subseteq Nat /\ IsFiniteSet(got) /\ Cardinality(got) \in Nat
  BY <1>5, MarketFacts
<1>7. /\ got' \subseteq market' /\ requests' \in Nat /\ held' \in Nat /\ requests' # 0
      /\ market' \subseteq History!Starts' /\ after' \in Nat /\ barsAsked' \in Nat
      /\ reading' = "paging" /\ ~history_ended'
  BY <1>1, <1>2, <1>5 DEF HistoryFacts
<1>8. cursor' # NoMoment
  BY <1>1, <1>3, <1>5 DEF HistoryIsSensible
<1>9. before # NoMoment =>
          /\ before \in Nat /\ after < before
          /\ barsAsked = History!periods_between(after, before)
  BY DEF HistoryFacts
<1>10. CASE cursor = NoMoment
  <2>1. got = {} /\ held = 0 /\ requests = 0 /\ got' = some
    BY <1>1, <1>10 DEF HistoryFacts
  <2>2. ASSUME before # NoMoment
        PROVE  /\ got' = {m \in market : low <= m /\ m <= before}
               /\ held' = Cardinality(got') + requests' - 1
               /\ \A m \in got' : m <= before
    <3>1. History!edge = before /\ before \in Nat
      BY <1>9, <1>10, <2>2 DEF History!edge
    <3>2. before - History!window <= low /\ after <= low
      BY <1>2, <2>2, <3>1
    <3>3. ASSUME NEW m \in market PROVE m \in some <=> low <= m /\ m <= before
      <4>1. m \in Nat
        BY <1>6
      <4>2. low <= m => before - History!window <= m /\ after <= m
        BY <1>3, <1>5, <3>1, <3>2, <4>1
      <4> QED BY <1>2, <2>2, <3>1, <4>2
    <3>4. some = {m \in market : low <= m /\ m <= before}
      BY <1>2, <3>3
    <3> QED BY <1>1, <1>2, <2>1, <3>4
  <2>3. Paged'
    BY <1>1, <1>2, <1>7, <2>1, <2>2 DEF Paged
  <2>4. before' # NoMoment =>
          /\ before' \in Nat /\ after' < before'
          /\ barsAsked' = History!periods_between(after, before)'
          /\ \A m \in got' : m <= before'
    BY <1>1, <1>9, <2>2 DEF History!periods_between
  <2> QED BY <1>5, <1>7, <1>8, <2>3, <2>4 DEF HistoryFacts
<1>11. CASE cursor # NoMoment
  <2>1. Paged /\ cursor \in got /\ cursor \in market /\ cursor \in Nat /\ low < cursor
    <3>1. Paged
      BY <1>1, <1>11 DEF HistoryFacts
    <3> QED BY <1>1, <1>4, <1>5, <1>6, <1>11, <3>1 DEF Paged
  <2>2. History!edge = cursor
    BY <1>11 DEF History!edge
  <2>3. cursor - History!window <= low /\ after <= low
    BY <1>2, <1>11, <2>2
  <2>4. cursor \in some
    <3>1. cursor - History!window <= cursor /\ after <= cursor
      BY <1>3, <1>5, <2>1, <2>3
    <3> QED BY <1>2, <1>11, <2>1, <2>2, <3>1
  <2>5. \A m \in some : m <= cursor /\ m \in Nat
    BY <1>2, <1>11, <2>2
  <2>6. \A m \in got : cursor <= m /\ m \in Nat
    BY <1>5, <1>6, <2>1 DEF Paged
  <2>7. got \cap some = {cursor}
    <3>1. \A m \in got \cap some : m = cursor
      BY <2>1, <2>5, <2>6
    <3> QED BY <2>1, <2>4, <3>1
  <2>8. Cardinality(got') = Cardinality(got) + Cardinality(some) - 1
    <3>1. Cardinality(got \cup some) =
            Cardinality(got) + Cardinality(some) - Cardinality(got \cap some)
      BY <1>2, <1>6, FS_Union
    <3>2. Cardinality(got \cap some) = 1
      BY <2>7, FS_Singleton
    <3> QED BY <1>1, <3>1, <3>2
  <2>9. \A m \in got' : low <= m
    <3>1. \A m \in got : low <= m
      BY <1>3, <2>1, <2>6
    <3> QED BY <1>1, <1>2, <3>1
  <2>10. ASSUME before # NoMoment
         PROVE  /\ got' = {m \in market : low <= m /\ m <= before}
                /\ held' = Cardinality(got') + requests' - 1
                /\ \A m \in got' : m <= before
    <3>1. /\ got = {m \in market : cursor <= m /\ m <= before}
          /\ held = Cardinality(got) + requests - 1 /\ before \in Nat
      BY <1>9, <2>1, <2>10 DEF Paged
    <3>2. cursor <= before
      BY <2>1, <3>1
    <3>3. ASSUME NEW m \in market
          PROVE  m \in got' <=> low <= m /\ m <= before
      <4>1. m \in Nat
        BY <1>6
      <4>2. m \in some <=> cursor - History!window <= m /\ after <= m /\ m <= cursor
        BY <1>2, <1>11, <2>2
      <4>3. low <= m => cursor - History!window <= m /\ after <= m
        BY <1>3, <1>5, <2>1, <2>3, <4>1
      <4>4. m \in some => low <= m
        BY <1>2
      <4>5. m \in got <=> cursor <= m /\ m <= before
        BY <3>1
      <4>6. m \in got' <=> m \in got \/ m \in some
        BY <1>1
      <4> QED BY <1>3, <2>1, <3>1, <3>2, <4>1, <4>2, <4>3, <4>4, <4>5, <4>6
    <3>4. got' = {m \in market : low <= m /\ m <= before}
      BY <1>1, <1>7, <3>3
    <3>5. held' = Cardinality(got') + requests' - 1
      BY <1>1, <1>2, <1>5, <1>6, <2>8, <3>1
    <3> QED BY <3>4, <3>5
  <2>11. Paged'
    BY <1>1, <1>2, <1>7, <2>9, <2>10 DEF Paged
  <2>12. before' # NoMoment =>
          /\ before' \in Nat /\ after' < before'
          /\ barsAsked' = History!periods_between(after, before)'
          /\ \A m \in got' : m <= before'
    BY <1>1, <1>9, <2>10 DEF History!periods_between
  <2> QED BY <1>5, <1>7, <1>8, <2>11, <2>12 DEF HistoryFacts
<1> QED BY <1>10, <1>11

(* Each step keeps the facts; no window lies beyond the floor.             *)
LEMMA HistoryStep == HistoryFacts /\ [History!Next]_(History!vars) => HistoryFacts'
<1>1. ASSUME HistoryFacts, History!StopBeforeFloor PROVE HistoryFacts'
  <2>1. reading = "paging" /\ History!edge # NoMoment /\ after >= History!edge
    BY <1>1 DEF History!StopBeforeFloor
  <2>2. History!edge \in Nat /\ after < History!edge /\ after \in Nat
    BY <1>1, <2>1, PageFacts DEF HistoryFacts
  <2> QED BY <2>1, <2>2
<1>2. ASSUME HistoryFacts, History!Enough PROVE HistoryFacts'
  <2>1. /\ reading = "paging" /\ held >= barsAsked /\ reading' = "done"
        /\ market' = market /\ barsAsked' = barsAsked /\ before' = before /\ after' = after
        /\ held' = held /\ got' = got /\ cursor' = cursor /\ requests' = requests
        /\ reached_floor' = reached_floor /\ history_ended' = history_ended
    BY <1>2 DEF History!Enough, History!Done, History!asked
  <2>2. ~history_ended' /\ (got # {} => Paged)
    BY <1>2, <2>1 DEF HistoryFacts
  <2>3. got' # {} => Paged' /\ held' >= barsAsked' /\ requests' # 0
    BY <2>1, <2>2 DEF Paged
  <2>4. before' # NoMoment =>
          /\ before' \in Nat /\ after' < before'
          /\ barsAsked' = History!periods_between(after, before)'
          /\ \A m \in got' : m <= before'
    BY <1>2, <2>1 DEF HistoryFacts, History!periods_between
  <2>5. /\ HistoryIsSensible /\ market' \subseteq History!Starts' /\ got' \subseteq market'
        /\ after' \in Nat /\ barsAsked' \in Nat /\ requests' \in Nat /\ held' \in Nat
    BY <1>2, <2>1 DEF HistoryFacts
  <2> QED BY <2>1, <2>2, <2>3, <2>4, <2>5 DEF HistoryFacts
<1>3. ASSUME HistoryFacts, History!Fails PROVE HistoryFacts'
  <2>1. /\ reading' = "failed"
        /\ market' = market /\ barsAsked' = barsAsked /\ before' = before /\ after' = after
        /\ held' = held /\ got' = got /\ requests' = requests
    BY <1>3 DEF History!Fails, History!asked
  <2>2. before' # NoMoment =>
          /\ before' \in Nat /\ after' < before'
          /\ barsAsked' = History!periods_between(after, before)'
          /\ \A m \in got' : m <= before'
    BY <1>3, <2>1 DEF HistoryFacts, History!periods_between
  <2> QED BY <1>3, <2>1, <2>2 DEF HistoryFacts
<1>4. ASSUME HistoryFacts, UNCHANGED History!vars PROVE HistoryFacts'
  <2>1. /\ reading' = reading /\ cursor' = cursor
        /\ market' = market /\ barsAsked' = barsAsked /\ before' = before /\ after' = after
        /\ held' = held /\ got' = got /\ requests' = requests
        /\ reached_floor' = reached_floor /\ history_ended' = history_ended
    BY <1>4 DEF History!vars, History!asked
  <2>2. Paged' <=> Paged
    BY <2>1 DEF Paged
  <2>3. AllThereIs' <=> AllThereIs
    BY <2>1 DEF AllThereIs
  <2>4. AllAskedFor' <=> AllAskedFor
    BY <2>1 DEF AllAskedFor
  <2>5. History!OpenOften' <=> History!OpenOften
    <3>1. History!window' = History!window
      BY <2>1 DEF History!window, History!page_size
    <3> QED BY <2>1, <3>1 DEF History!OpenOften
  <2>6. History!periods_between(after, before)' = History!periods_between(after, before)
    BY <2>1 DEF History!periods_between
  <2> QED BY <1>4, <2>1, <2>2, <2>3, <2>4, <2>5, <2>6 DEF HistoryFacts
<1> QED BY <1>1, <1>2, <1>3, <1>4, PageToFloorKeeps, PageOnTheWayKeeps, NothingOlderKeeps
        DEF History!Next

(* An answer of fewer candles than asked for is all that is held.          *)
LEMMA AnswerHolds ==
  ASSUME HistoryFacts, NEW G, G = {m \in got : m >= after}
  PROVE  /\ History!answer = History!Newest(barsAsked, G) /\ G \in SUBSET History!Starts
         /\ \A m \in G : m \in Nat /\ Even(m)
         /\ Cardinality(History!answer) < barsAsked => History!answer = G
<1>1. HistoryIsSensible /\ G \in SUBSET History!Starts /\ barsAsked \in Nat
  BY DEF HistoryFacts
<1>2. History!answer = History!Newest(barsAsked, G)
  BY DEF History!answer
<1>3. \A m \in G : m \in Nat /\ m <= 2 * Last /\ Even(m)
  BY <1>1, MarketFacts
<1> DEFINE top == 2 * Last
<1>4. top \in Nat /\ (\A m \in G : m <= top) /\ G \in SUBSET Nat
  BY <1>1, <1>3 DEF HistoryIsSensible
<1> HIDE DEF top
<1>5. Cardinality(History!answer) < barsAsked => History!answer = G
  BY <1>1, <1>2, <1>4, NewestOfFew
<1> QED BY <1>1, <1>2, <1>3, <1>5

(* History is said to have ended only where it has (history.py), for any   *)
(* market that is open often enough, any depth and any page.               *)
THEOREM TheEndIsTheEnd == HistoryIsSensible /\ History!Spec => []EndIsTheEnd
<1>1. HistoryFacts => EndIsTheEnd
  <2> SUFFICES ASSUME HistoryFacts, reading = "done", History!says_ended, History!OpenOften
               PROVE  \A m \in market : \E a \in History!answer : a <= m
    BY DEF EndIsTheEnd, History!EndIsTheEnd
  <2> DEFINE G == {m \in got : m >= after}
  <2>1. history_ended /\ ~reached_floor /\ Cardinality(History!answer) < barsAsked
    BY HistorySizes DEF History!says_ended
  <2>2. PICK c \in got : after < c /\ \A m \in market : c <= m
    BY <2>1 DEF HistoryFacts, AllThereIs
  <2>3. History!answer = G
    BY <2>1, AnswerHolds
  <2>4. c \in G
    <3>1. market \in SUBSET History!Starts /\ HistoryIsSensible /\ got \subseteq market /\ after \in Nat
      BY DEF HistoryFacts
    <3>2. c \in Nat
      BY <3>1, MarketFacts
    <3> QED BY <2>2, <3>1, <3>2
  <2> QED BY <2>2, <2>3, <2>4
<1> QED BY HistoryStarts, HistoryStep, <1>1, PTL DEF History!Spec

(* No candle of the chunk is dropped from the answer once it is held: the  *)
(* newest that are kept are as many as there are periods.                  *)
LEMMA NoneGotIsMissed ==
  ASSUME HistoryFacts, before # NoMoment, NEW m \in got, after < m, m < before
  PROVE  m \in History!answer
<1> DEFINE G == {q \in got : q >= after}
           U == {q \in G : q > m}
<1>1. /\ HistoryIsSensible /\ market \in SUBSET History!Starts /\ got \subseteq market
      /\ after \in Nat /\ before \in Nat /\ after < before /\ \A q \in got : q <= before
      /\ barsAsked = (before - after + 1) \div 2
  BY DEF HistoryFacts, History!periods_between, History!Period
<1>2. m \in Nat /\ Even(m) /\ m \in G
  BY <1>1, MarketFacts
<1>3. \A q \in G : q \in Nat /\ Even(q) /\ q <= before
  BY <1>1, AnswerHolds
<1>4. Cardinality(U) <= before \div 2 - m \div 2
  <2>1. \A q \in U : q \in Nat /\ Even(q) /\ m < q /\ q <= before
    BY <1>3
  <2>2. m \in Int /\ before \in Int /\ m <= before
    BY <1>1, <1>2
  <2> HIDE DEF U
  <2> QED BY <2>1, <2>2, PeriodsWithin
<1>5. Cardinality(U) \in Nat
  <2>1. U \in SUBSET History!Starts
    BY <1>1
  <2> HIDE DEF U
  <2> QED BY <1>1, <2>1, MarketFacts
<1>6. before \div 2 - m \div 2 < barsAsked
  <2>1. PICK p \in Nat : m = p * 2
    BY <1>2 DEF Even
  <2>2. m \div 2 = p
    BY <2>1
  <2> DEFINE x == before - after + 1
             h == before \div 2
             b == x \div 2
  <2>3. x \in Int /\ x >= before - 2 * p + 2
    BY <1>1, <1>2, <2>1
  <2>4. h \in Int /\ 2 * h <= before /\ before <= 2 * h + 1
    BY <1>1, Halves
  <2>5. b = barsAsked
    BY <1>1
  <2> HIDE DEF x, h
  <2>6. b \in Int /\ 2 * b <= x /\ x <= 2 * b + 1
    BY <2>3, Halves
  <2> HIDE DEF b
  <2>7. h - p < b
    BY <1>1, <2>1, <2>3, <2>4, <2>6
  <2> QED BY <2>2, <2>5, <2>7 DEF h
<1>7. Cardinality(U) < barsAsked
  <2> HIDE DEF U
  <2>1. before \div 2 - m \div 2 \in Int /\ barsAsked \in Nat
    BY <1>1, <1>2, Halves DEF HistoryFacts
  <2> QED BY <1>4, <1>5, <1>6, <2>1
<1>8. History!answer = {g \in G : Cardinality({q \in G : q > g}) < barsAsked}
  <2>1. History!answer = History!Newest(barsAsked, G)
    BY AnswerHolds
  <2> HIDE DEF G
  <2> QED BY <2>1, HistorySizes DEF History!Newest
<1> QED BY <1>2, <1>7, <1>8

(* What a chunk lacks of the market is less than its requests (history.py, *)
(* jobs/runner.py): the number asked for covers all that is between the    *)
(* edges, and each page after the first counts one candle twice.           *)
THEOREM ChunkLacksNoMore == HistoryIsSensible /\ History!Spec => []ChunkLacksTheShared
<1>1. HistoryFacts => ChunkLacksTheShared
  <2> SUFFICES ASSUME HistoryFacts, reading = "done", before # NoMoment, got # {},
                      History!OpenOften
               PROVE  Cardinality(History!Missed) < requests
    BY HistorySizes DEF ChunkLacksTheShared, History!ChunkLacksTheShared
  <2> DEFINE missed == History!Missed
  <2>1. missed = {m \in market : after < m /\ m < before} \ History!answer
    BY DEF History!Missed
  <2>2. /\ HistoryIsSensible /\ market \in SUBSET History!Starts /\ got \subseteq market
        /\ after \in Nat /\ before \in Nat /\ after < before /\ requests \in Nat \ {0}
        /\ barsAsked \in Nat /\ barsAsked = (before - after + 1) \div 2
        /\ got \in SUBSET History!Starts
    BY DEF HistoryFacts, History!periods_between, History!Period
  <2>3. \A m \in missed : m \notin got
    BY <2>1, NoneGotIsMissed
  <2>4. CASE AllAskedFor
    <3>1. missed = {}
      BY <2>1, <2>3, <2>4 DEF AllAskedFor
    <3> QED BY <2>2, <3>1, FS_EmptySet
  <2>5. CASE Paged /\ held >= barsAsked
    <3>1. /\ got = {m \in market : cursor <= m /\ m <= before} /\ after < cursor
          /\ held = Cardinality(got) + requests - 1 /\ cursor \in got
      BY <2>5 DEF Paged
    <3>2. missed \in SUBSET market /\ missed \in SUBSET History!Starts
      BY <2>1, <2>2
    <3> HIDE DEF missed
    <3>3. market \subseteq Nat /\ \A m \in market : Even(m) /\ m \in Nat
      BY <2>2, MarketFacts
    <3>4. /\ IsFiniteSet(missed) /\ IsFiniteSet(got)
          /\ Cardinality(missed) \in Nat /\ Cardinality(got) \in Nat
      BY <2>2, <3>2, MarketFacts
    <3> DEFINE all == missed \cup got
    <3>5. \A m \in all : m \in Nat /\ Even(m) /\ after < m /\ m <= before
      <4>1. \A m \in missed : after < m /\ m <= before
        BY <2>1, <2>2, <3>2, <3>3
      <4>2. \A m \in got : after < m /\ m <= before
        BY <2>2, <3>1, <3>3
      <4> QED BY <2>2, <3>2, <3>3, <4>1, <4>2
    <3>6. Cardinality(all) = Cardinality(missed) + Cardinality(got)
      <4>1. missed \cap got = {}
        BY <2>3
      <4>2. Cardinality(missed \cap got) = 0
        BY <4>1, FS_EmptySet
      <4>3. Cardinality(missed \cup got) =
              Cardinality(missed) + Cardinality(got) - Cardinality(missed \cap got)
        BY <3>4, FS_Union
      <4> QED BY <3>4, <4>2, <4>3
    <3> HIDE DEF all
    <3>7. Cardinality(all) <= before \div 2 - after \div 2
      BY <2>2, <3>5, PeriodsWithin, SMTT(20)
    <3>8. before \div 2 - after \div 2 <= barsAsked
      <4> DEFINE x == before - after + 1
                 h == before \div 2
                 l == after \div 2
                 b == x \div 2
      <4>1. x \in Int /\ x = before - after + 1
        BY <2>2
      <4>2. h \in Int /\ 2 * h <= before /\ l \in Int /\ after <= 2 * l + 1
        BY <2>2, Halves
      <4>3. b = barsAsked
        BY <2>2
      <4> HIDE DEF x, h, l
      <4>4. b \in Int /\ x <= 2 * b + 1
        BY <4>1, Halves
      <4> HIDE DEF b
      <4>5. h - l <= b
        BY <2>2, <4>1, <4>2, <4>4
      <4> QED BY <4>3, <4>5 DEF h, l
    <3>9. before \div 2 - after \div 2 \in Int
      BY <2>2, Halves
    <3>10. Cardinality(missed) + Cardinality(got) <= barsAsked
      BY <2>2, <3>4, <3>6, <3>7, <3>8, <3>9
    <3> QED BY <2>2, <2>5, <3>1, <3>4, <3>10 DEF missed
  <2> QED BY <2>4, <2>5 DEF HistoryFacts
<1> QED BY HistoryStarts, HistoryStep, <1>1, PTL DEF History!Spec
=============================================================================

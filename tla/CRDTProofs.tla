---------------------------- MODULE CRDTProofs ----------------------------
(***************************************************************************)
(* Facts about the vector clocks and the merge of CRDT/crdt.go, for every  *)
(* set of nodes and every clock.                                           *)
(***************************************************************************)
EXTENDS CRDT, TLAPS

(* The entries of a clock are naturals. *)
LEMMA ClockShape ==
  ASSUME NEW c, IsClock(c)
  PROVE  /\ DOMAIN c \subseteq Node
         /\ c = [n \in DOMAIN c |-> c[n]]
         /\ \A n \in DOMAIN c : c[n] \in Nat
BY DEF IsClock

(* Any function from nodes to naturals is a clock. *)
LEMMA ClockIntro ==
  ASSUME NEW c, DOMAIN c \subseteq Node, c = [n \in DOMAIN c |-> c[n]],
         \A n \in DOMAIN c : c[n] \in Nat
  PROVE  IsClock(c)
BY DEF IsClock

(* Two clocks with the same entries are the same clock. *)
LEMMA ClockExt ==
  ASSUME NEW a, IsClock(a), NEW b, IsClock(b), DOMAIN a = DOMAIN b,
         \A n \in DOMAIN a : a[n] = b[n]
  PROVE  a = b
BY ClockShape

LEMMA EmptyClockType == IsClock(EmptyClock)
BY ClockIntro DEF EmptyClock

(* Merge of crdt.go returns a clock, and its entries are the maxima. *)
LEMMA MergeClockType ==
  ASSUME NEW a, IsClock(a), NEW b, IsClock(b)
  PROVE  IsClock(MergeClock(a, b))
<1> DEFINE m == MergeClock(a, b)
<1>1. DOMAIN m \subseteq Node
  BY ClockShape DEF MergeClock
<1>2. m = [n \in DOMAIN m |-> m[n]]
  BY DEF MergeClock
<1>3. \A n \in DOMAIN m : m[n] \in Nat
  BY ClockShape DEF MergeClock
<1> QED
  BY <1>1, <1>2, <1>3, ClockIntro

LEMMA IncrementType ==
  ASSUME NEW c, IsClock(c), NEW n \in Node
  PROVE  IsClock(Increment(c, n))
<1> DEFINE i == Increment(c, n)
<1>1. DOMAIN i \subseteq Node
  BY ClockShape DEF Increment
<1>2. i = [m \in DOMAIN i |-> i[m]]
  BY DEF Increment
<1>3. \A m \in DOMAIN i : i[m] \in Nat
  BY ClockShape DEF Increment
<1> QED
  BY <1>1, <1>2, <1>3, ClockIntro

(* Leq is a partial order on clocks. *)
LEMMA LeqTransitive ==
  ASSUME NEW a, IsClock(a), NEW b, IsClock(b), NEW c, IsClock(c), Leq(a, b), Leq(b, c)
  PROVE  Leq(a, c)
<1> SUFFICES ASSUME NEW n \in DOMAIN a
             PROVE  n \in DOMAIN c /\ a[n] <= c[n]
  BY DEF Leq
<1>1. n \in DOMAIN b /\ n \in DOMAIN c /\ a[n] <= b[n] /\ b[n] <= c[n]
  BY DEF Leq
<1>2. a[n] \in Nat /\ b[n] \in Nat /\ c[n] \in Nat
  BY <1>1, ClockShape
<1> QED
  BY <1>1, <1>2

LEMMA LeqReflexive ==
  ASSUME NEW a, IsClock(a)
  PROVE  Leq(a, a)
BY ClockShape DEF Leq

LEMMA LeqAntisymmetric ==
  ASSUME NEW a, IsClock(a), NEW b, IsClock(b), Leq(a, b), Leq(b, a)
  PROVE  a = b
<1>1. DOMAIN a = DOMAIN b
  BY DEF Leq
<1>2. ASSUME NEW n \in DOMAIN a PROVE a[n] = b[n]
  BY <1>1, ClockShape DEF Leq
<1> QED
  BY <1>1, <1>2, ClockExt

(* A clock is behind another one exactly when it is not above it. *)
LEMMA BehindIsNotLeq ==
  ASSUME NEW a, IsClock(a), NEW b, IsClock(b)
  PROVE  Behind(a, b) <=> ~Leq(b, a)
<1>1. ASSUME NEW n \in DOMAIN a, NEW m \in DOMAIN b PROVE a[n] \in Nat /\ b[m] \in Nat
  BY ClockShape
<1> QED
  BY <1>1 DEF Behind, Leq

(* Compare is the strict causal order (crdt.go, VectorClock.Compare).      *)
LEMMA CompareCausal ==
  ASSUME NEW a, IsClock(a), NEW b, IsClock(b)
  PROVE  /\ Compare(a, b) = 1  <=> Leq(b, a) /\ a # b
         /\ Compare(a, b) = -1 <=> Leq(a, b) /\ a # b
<1>1. CASE Leq(a, b) /\ Leq(b, a)
  <2>1. a = b
    BY <1>1, LeqAntisymmetric
  <2>2. ~Behind(a, b) /\ ~Behind(b, a)
    BY <1>1, BehindIsNotLeq
  <2> QED
    BY <2>1, <2>2 DEF Compare
<1>2. CASE Leq(a, b) /\ ~Leq(b, a)
  <2>1. Behind(a, b) /\ ~Behind(b, a)
    BY <1>2, BehindIsNotLeq
  <2> QED
    BY <1>2, <2>1, LeqReflexive DEF Compare
<1>3. CASE ~Leq(a, b) /\ Leq(b, a)
  <2>1. ~Behind(a, b) /\ Behind(b, a)
    BY <1>3, BehindIsNotLeq
  <2> QED
    BY <1>3, <2>1, LeqReflexive DEF Compare
<1>4. CASE ~Leq(a, b) /\ ~Leq(b, a)
  <2>1. Behind(a, b) /\ Behind(b, a)
    BY <1>4, BehindIsNotLeq
  <2> QED
    BY <1>4, <2>1 DEF Compare
<1> QED
  BY <1>1, <1>2, <1>3, <1>4

(* The merge of two clocks is above both of them. *)
LEMMA MergeAbove ==
  ASSUME NEW a, IsClock(a), NEW b, IsClock(b)
  PROVE  Leq(a, MergeClock(a, b)) /\ Leq(b, MergeClock(a, b))
<1>1. ASSUME NEW n \in DOMAIN a PROVE a[n] \in Nat
  BY ClockShape
<1>2. ASSUME NEW n \in DOMAIN b PROVE b[n] \in Nat
  BY ClockShape
<1> QED
  BY <1>1, <1>2 DEF Leq, MergeClock

(* It is below every clock that is above both of them. *)
LEMMA MergeLeast ==
  ASSUME NEW a, NEW b, NEW c, Leq(a, c), Leq(b, c)
  PROVE  Leq(MergeClock(a, b), c)
BY DEF Leq, MergeClock

LEMMA PruneType ==
  ASSUME NEW c, IsClock(c), NEW active
  PROVE  IsClock(Prune(c, active))
<1> DEFINE p == Prune(c, active)
<1>1. DOMAIN p \subseteq Node
  BY ClockShape DEF Prune
<1>2. p = [n \in DOMAIN p |-> p[n]]
  BY DEF Prune
<1>3. \A n \in DOMAIN p : p[n] \in Nat
  BY ClockShape DEF Prune
<1> QED
  BY <1>1, <1>2, <1>3, ClockIntro

(* The entries of a merged clock are the maxima. *)
LEMMA MergeCount ==
  ASSUME NEW a, IsClock(a), NEW b, IsClock(b), NEW m
  PROVE  /\ Count(MergeClock(a, b), m) \in {Count(a, m), Count(b, m)}
         /\ Count(a, m) <= Count(MergeClock(a, b), m)
         /\ Count(b, m) <= Count(MergeClock(a, b), m)
         /\ Count(a, m) \in Nat /\ Count(b, m) \in Nat
<1>1. \A n \in DOMAIN a : a[n] \in Nat
  BY ClockShape
<1>2. \A n \in DOMAIN b : b[n] \in Nat
  BY ClockShape
<1> QED
  BY <1>1, <1>2 DEF Count, MergeClock

LEMMA CountNat ==
  ASSUME NEW a, IsClock(a), NEW m
  PROVE  Count(a, m) \in Nat
BY ClockShape DEF Count

LEMMA IncrementCount ==
  ASSUME NEW a, IsClock(a), NEW n \in Node
  PROVE  /\ Count(Increment(a, n), n) = Count(a, n) + 1
         /\ \A m \in Node : m # n => Count(Increment(a, n), m) = Count(a, m)
         /\ Leq(a, Increment(a, n))
         /\ a # Increment(a, n)
<1>1. \A m \in DOMAIN a : a[m] \in Nat
  BY ClockShape
<1> DEFINE i == Increment(a, n)
<1>2. DOMAIN i = DOMAIN a \cup {n} /\ \A m \in DOMAIN a : m # n => i[m] = a[m]
  BY DEF Increment
<1>3. i[n] = Count(a, n) + 1
  BY <1>1 DEF Increment, Count
<1> HIDE DEF i
<1>4. Count(i, n) = Count(a, n) + 1 /\ \A m \in Node : m # n => Count(i, m) = Count(a, m)
  BY <1>2, <1>3 DEF Count
<1>5. Leq(a, i)
  BY <1>1, <1>2, <1>3 DEF Leq, Count
<1>6. a # i
  BY <1>4, CountNat
<1> QED
  BY <1>4, <1>5, <1>6 DEF i

(* To merge a clock with a later one gives the later one. *)
LEMMA MergeLater ==
  ASSUME NEW a, IsClock(a), NEW b, IsClock(b), Leq(a, b)
  PROVE  MergeClock(a, b) = b
<1>1. IsClock(MergeClock(a, b))
  BY MergeClockType
<1>2. Leq(MergeClock(a, b), b)
  BY MergeLeast, LeqReflexive
<1>3. Leq(b, MergeClock(a, b))
  BY MergeAbove
<1> QED
  BY <1>1, <1>2, <1>3, LeqAntisymmetric

-----------------------------------------------------------------------------
(* Merging the entries of sets (LWWSet.Merge) *)

(* A merged map has an entry for the elements of both, and no others.      *)
LEMMA MergedDomain ==
  ASSUME NEW ours, NEW theirs, NEW r \in MergeEntries(ours, theirs)
  PROVE  DOMAIN r = DOMAIN ours \cup DOMAIN theirs
BY DEF MergeEntries

(* Each entry is that of one side. *)
LEMMA MergedEntry ==
  ASSUME NEW ours, NEW theirs, NEW r \in MergeEntries(ours, theirs)
  PROVE  \A e \in DOMAIN r : \/ e \in DOMAIN ours /\ r[e] = ours[e]
                             \/ e \in DOMAIN theirs /\ r[e] = theirs[e]
BY DEF MergeEntries

(* It is a map. *)
LEMMA MergedIsFunction ==
  ASSUME NEW ours, NEW theirs, NEW r, r \in MergeEntries(ours, theirs)
  PROVE  r = [e \in DOMAIN r |-> r[e]]
BY DEF MergeEntries

(* Of two ordered timestamps the later one is the only winner. *)
LEMMA LaterWins ==
  ASSUME NEW a, IsClock(a), NEW b, IsClock(b)
  PROVE  /\ Leq(a, b) => Winners(a, b) = {b}
         /\ Leq(b, a) => Winners(a, b) = {a}
<1>1. CASE a = b
  <2>1. Compare(b, a) # 1 /\ Compare(b, a) # -1
    BY <1>1, CompareCausal
  <2>2. \E x : x \in extractNodeID(a)
    BY DEF extractNodeID
  <2>3. \A x, y : deterministicMerge(a, b, x, y) = a
    BY <1>1 DEF deterministicMerge
  <2> QED
    BY <1>1, <2>1, <2>2, <2>3 DEF Winners
<1>2. CASE a # b
  <2>1. Leq(a, b) => Compare(b, a) = 1
    BY <1>2, CompareCausal
  <2>2. Leq(b, a) => Compare(b, a) = -1
    BY <1>2, CompareCausal
  <2> QED
    BY <2>1, <2>2 DEF Winners
<1> QED
  BY <1>1, <1>2

(* The merged map keeps the later of two ordered entries. *)
LEMMA MergedLater ==
  ASSUME NEW ours, NEW theirs, NEW r \in MergeEntries(ours, theirs),
         NEW e \in DOMAIN ours \cap DOMAIN theirs,
         IsClock(ours[e]), IsClock(theirs[e])
  PROVE  /\ Leq(ours[e], theirs[e]) => r[e] = theirs[e]
         /\ Leq(theirs[e], ours[e]) => r[e] = ours[e]
<1>1. ASSUME Leq(ours[e], theirs[e]) PROVE r[e] = theirs[e]
  <2>1. Winners(ours[e], theirs[e]) = {theirs[e]}
    BY <1>1, LaterWins
  <2> QED
    BY <2>1 DEF MergeEntries
<1>2. ASSUME Leq(theirs[e], ours[e]) PROVE r[e] = ours[e]
  <2>1. Winners(ours[e], theirs[e]) = {ours[e]}
    BY <1>2, LaterWins
  <2> QED
    BY <2>1 DEF MergeEntries
<1> QED
  BY <1>1, <1>2
=============================================================================

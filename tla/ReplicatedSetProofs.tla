------------------------ MODULE ReplicatedSetProofs ------------------------
(***************************************************************************)
(* Proofs about ReplicatedSet, for any nodes, elements and histories.      *)
(***************************************************************************)
EXTENDS ReplicatedSet, CRDTProofs, SequenceTheorems

(* Appending an operation to a history. *)
LEMMA AppendFacts ==
  ASSUME NEW q, Len(q) \in Nat, q = [k \in 1 .. Len(q) |-> q[k]], NEW x
  PROVE  /\ Len(Append(q, x)) = Len(q) + 1
         /\ Append(q, x) = [k \in 1 .. Len(q) + 1 |-> Append(q, x)[k]]
         /\ \A k \in 1 .. Len(q) : Append(q, x)[k] = q[k]
         /\ Append(q, x)[Len(q) + 1] = x
<1> DEFINE S == {q[k] : k \in 1 .. Len(q)} \cup {x}
<1>1. q \in Seq(S)
  BY IsASeq
<1>2. x \in S
  OBVIOUS
<1> HIDE DEF S
<1>3. Append(q, x) \in Seq(S)
  BY <1>1, <1>2
<1>4. Append(q, x) = [k \in 1 .. Len(Append(q, x)) |-> Append(q, x)[k]]
  BY <1>3, LenProperties
<1> QED
  BY <1>1, <1>2, <1>4, AppendProperties

-----------------------------------------------------------------------------
(* The inductive invariant, one state s at a time against the history h.   *)

IsIssued(s, h) == \A m \in Node : Count(s.Timestamp, m) <= Len(h[m])

Sound(s, h) == /\ IsLWWSet(s)
               /\ IsIssued(s, h)
               /\ IsClosed(s, h)
               /\ Reflects(s, h, s.Adds, TRUE)
               /\ Reflects(s, h, s.Removes, FALSE)

HistoryOK(h) == /\ h = [n \in Node |-> h[n]]
                /\ \A n \in Node : /\ h[n] = [k \in 1 .. Len(h[n]) |-> h[n][k]]
                                   /\ Len(h[n]) \in Nat
                                   /\ \A k \in 1 .. Len(h[n]) : IsOp(h[n][k])

\* h2 is h with more operations at the end of some nodes' histories.
Extends(h2, h) == \A m \in Node : /\ Len(h[m]) <= Len(h2[m])
                                  /\ \A k \in 1 .. Len(h[m]) : h2[m][k] = h[m][k]

(* The operations that a state knows of are in the history. *)
LEMMA KnownIssued ==
  ASSUME NEW h, NEW s, HistoryOK(h), IsLWWSet(s), IsIssued(s, h),
         NEW m \in Node, NEW k \in Known(s, m)
  PROVE  k \in 1 .. Len(h[m]) /\ IsOp(h[m][k])
<1>1. Count(s.Timestamp, m) \in Nat
  BY CountNat DEF IsLWWSet
<1>2. Len(h[m]) \in Nat /\ Count(s.Timestamp, m) <= Len(h[m])
  BY DEF HistoryOK, IsIssued
<1>3. k \in 1 .. Len(h[m])
  BY <1>1, <1>2 DEF Known
<1> QED
  BY <1>3 DEF HistoryOK

(* New operations do not disturb what an old state knows. *)
LEMMA SoundExtends ==
  ASSUME NEW h, NEW h2, HistoryOK(h), HistoryOK(h2), Extends(h2, h),
         NEW s, Sound(s, h)
  PROVE  Sound(s, h2)
<1>1. \A m \in Node : \A k \in Known(s, m) : h2[m][k] = h[m][k]
  BY KnownIssued DEF Extends, Sound
<1>2. IsIssued(s, h2)
  <2> SUFFICES ASSUME NEW m \in Node PROVE Count(s.Timestamp, m) <= Len(h2[m])
    BY DEF IsIssued
  <2>1. Count(s.Timestamp, m) \in Nat
    BY CountNat DEF IsLWWSet, Sound
  <2>2. Len(h[m]) \in Nat /\ Len(h2[m]) \in Nat
    BY DEF HistoryOK
  <2> QED
    BY <2>1, <2>2 DEF IsIssued, Sound, Extends
<1>3. IsClosed(s, h2)
  BY <1>1 DEF IsClosed, Sound
<1>4. Reflects(s, h2, s.Adds, TRUE) /\ Reflects(s, h2, s.Removes, FALSE)
  BY <1>1 DEF Reflects, Sound
<1> QED
  BY <1>2, <1>3, <1>4 DEF Sound

(* The fields of a merged set. *)
LEMMA MergedFields ==
  ASSUME NEW s, IsLWWSet(s), NEW o, IsLWWSet(o), NEW r \in Merge(s, o)
  PROVE  /\ r.Adds \in MergeEntries(s.Adds, o.Adds)
         /\ r.Removes \in MergeEntries(s.Removes, o.Removes)
         /\ r.Timestamp = MergeClock(s.Timestamp, o.Timestamp)
         /\ r = [type |-> "lwwset", Key |-> Key, Adds |-> r.Adds,
                 Removes |-> r.Removes, Timestamp |-> r.Timestamp]
<1>1. s.type = "lwwset" /\ o.type = "lwwset" /\ s.Key = Key /\ o.Key = Key
  BY DEF IsLWWSet
<1>2. r \in MergeLWWSet(s, o)
  BY <1>1 DEF Merge
<1>3. PICK adds \in MergeEntries(s.Adds, o.Adds),
           removes \in MergeEntries(s.Removes, o.Removes) :
        r = [type |-> "lwwset", Key |-> s.Key, Adds |-> adds, Removes |-> removes,
             Timestamp |-> MergeClock(s.Timestamp, o.Timestamp)]
  BY <1>2 DEF MergeLWWSet
<1> QED
  BY <1>1, <1>3

(* What the merged state knows, one of the two knew. *)
LEMMA MergedKnown ==
  ASSUME NEW s, IsLWWSet(s), NEW o, IsLWWSet(o), NEW r \in Merge(s, o), NEW m
  PROVE  Known(r, m) = Known(s, m) \cup Known(o, m)
<1>1. IsClock(s.Timestamp) /\ IsClock(o.Timestamp)
  BY DEF IsLWWSet
<1>2. Count(r.Timestamp, m) = Count(MergeClock(s.Timestamp, o.Timestamp), m)
  BY MergedFields
<1> QED
  BY <1>1, <1>2, MergeCount DEF Known

LEMMA MergedEntriesType ==
  ASSUME NEW ours, IsEntries(ours), NEW theirs, IsEntries(theirs),
         NEW r \in MergeEntries(ours, theirs)
  PROVE  IsEntries(r)
<1>1. DOMAIN r = DOMAIN ours \cup DOMAIN theirs
  BY MergedDomain
<1>3. \A e \in DOMAIN r : \/ e \in DOMAIN ours /\ r[e] = ours[e]
                          \/ e \in DOMAIN theirs /\ r[e] = theirs[e]
  BY MergedEntry
<1>2. r = [e \in DOMAIN r |-> r[e]]
  BY MergedIsFunction
<1> QED
  BY <1>1, <1>2, <1>3 DEF IsEntries

LEMMA MergedType ==
  ASSUME NEW s, IsLWWSet(s), NEW o, IsLWWSet(o), NEW r \in Merge(s, o)
  PROVE  IsLWWSet(r)
<1>1. IsClock(r.Timestamp)
  BY MergedFields, MergeClockType DEF IsLWWSet
<1>2. IsEntries(r.Adds) /\ IsEntries(r.Removes)
  BY MergedFields, MergedEntriesType DEF IsLWWSet
<1> QED
  BY <1>1, <1>2, MergedFields DEF IsLWWSet

(* Merging the entries of two states that each reflect what they know      *)
(* reflects what they know together.                                       *)
LEMMA MergedReflects ==
  ASSUME NEW h, NEW s, NEW o, NEW r, NEW isAdd,
         \A m \in Node : Known(r, m) = Known(s, m) \cup Known(o, m),
         NEW ours, NEW theirs, NEW both \in MergeEntries(ours, theirs),
         Reflects(s, h, ours, isAdd), Reflects(o, h, theirs, isAdd)
  PROVE  Reflects(r, h, both, isAdd)
<1>1. ASSUME NEW e \in DOMAIN both
      PROVE  \E m \in Node : \E k \in Known(r, m) :
               h[m][k].isAdd = isAdd /\ h[m][k].element = e /\ h[m][k].TS = both[e]
  <2>1. CASE e \in DOMAIN ours /\ both[e] = ours[e]
    BY <2>1 DEF Reflects
  <2>2. CASE e \in DOMAIN theirs /\ both[e] = theirs[e]
    BY <2>2 DEF Reflects
  <2>3. \/ e \in DOMAIN ours /\ both[e] = ours[e]
        \/ e \in DOMAIN theirs /\ both[e] = theirs[e]
    BY MergedEntry
  <2> QED
    BY <2>1, <2>2, <2>3
<1>2. ASSUME NEW m \in Node, NEW k \in Known(r, m), h[m][k].isAdd = isAdd
      PROVE  h[m][k].element \in DOMAIN both
  <2>1. DOMAIN both = DOMAIN ours \cup DOMAIN theirs
    BY MergedDomain
  <2> QED
    BY <1>2, <2>1 DEF Reflects
<1> QED
  BY <1>1, <1>2 DEF Reflects

(* LWWSet.Merge preserves the invariant. *)
LEMMA SoundMerge ==
  ASSUME NEW h, HistoryOK(h), NEW s, Sound(s, h), NEW o, Sound(o, h),
         NEW r \in Merge(s, o)
  PROVE  Sound(r, h)
<1>1. IsLWWSet(s) /\ IsLWWSet(o) /\ IsLWWSet(r)
  BY MergedType DEF Sound
<1>2. IsClock(s.Timestamp) /\ IsClock(o.Timestamp) /\ IsClock(r.Timestamp)
  BY <1>1 DEF IsLWWSet
<1>3. r.Timestamp = MergeClock(s.Timestamp, o.Timestamp)
  BY <1>1, MergedFields
<1>4. \A m \in Node : Known(r, m) = Known(s, m) \cup Known(o, m)
  BY <1>1, MergedKnown
<1>5. IsIssued(r, h)
  <2> SUFFICES ASSUME NEW m \in Node PROVE Count(r.Timestamp, m) <= Len(h[m])
    BY DEF IsIssued
  <2>1. Count(s.Timestamp, m) <= Len(h[m]) /\ Count(o.Timestamp, m) <= Len(h[m])
    BY DEF IsIssued, Sound
  <2>2. Count(r.Timestamp, m) \in {Count(s.Timestamp, m), Count(o.Timestamp, m)}
    BY <1>2, <1>3, MergeCount
  <2> QED
    BY <2>1, <2>2
<1>6. IsClosed(r, h)
  <2> SUFFICES ASSUME NEW m \in Node, NEW k \in Known(r, m)
               PROVE  Leq(h[m][k].TS, r.Timestamp)
    BY DEF IsClosed
  <2>1. k \in Known(s, m) \/ k \in Known(o, m)
    BY <1>4
  <2>2. IsClock(h[m][k].TS)
    BY <2>1, KnownIssued DEF Sound, IsOp
  <2>3. Leq(h[m][k].TS, s.Timestamp) \/ Leq(h[m][k].TS, o.Timestamp)
    BY <2>1 DEF Sound, IsClosed
  <2>4. Leq(s.Timestamp, r.Timestamp) /\ Leq(o.Timestamp, r.Timestamp)
    BY <1>2, <1>3, MergeAbove
  <2> QED
    BY <1>2, <2>2, <2>3, <2>4, LeqTransitive
<1>7. Reflects(r, h, r.Adds, TRUE)
  BY <1>1, <1>4, MergedFields, MergedReflects DEF Sound
<1>8. Reflects(r, h, r.Removes, FALSE)
  BY <1>1, <1>4, MergedFields, MergedReflects DEF Sound
<1> QED
  BY <1>1, <1>5, <1>6, <1>7, <1>8 DEF Sound

(* The fields of a set after LWWAdd or LWWRemove without a timestamp. *)
LEMMA UpdatedFields ==
  ASSUME NEW s, IsLWWSet(s), NEW n \in Node, NEW e \in Element, NEW isAdd \in BOOLEAN,
         NEW r, r = applySetOp(s, n, e, isAdd, EmptyClock)
  PROVE  /\ r = [type |-> "lwwset", Key |-> Key, Adds |-> r.Adds,
                 Removes |-> r.Removes, Timestamp |-> r.Timestamp]
         /\ r.Adds = IF isAdd THEN Put(s.Adds, e, FreshStamp(s, n)) ELSE s.Adds
         /\ r.Removes = IF isAdd THEN s.Removes ELSE Put(s.Removes, e, FreshStamp(s, n))
         /\ r.Timestamp = FreshStamp(s, n)
<1> DEFINE stamp == FreshStamp(s, n)
<1>1. IsClock(s.Timestamp)
  BY DEF IsLWWSet
<1>2. MergeClock(s.Timestamp, stamp) = stamp
  BY <1>1, MergeLater, IncrementType, IncrementCount DEF FreshStamp
<1>3. DOMAIN EmptyClock = {}
  BY DEF EmptyClock
<1>4. r = [s EXCEPT !.Adds      = IF isAdd THEN Put(@, e, stamp) ELSE @,
                    !.Removes   = IF isAdd THEN @ ELSE Put(@, e, stamp),
                    !.Timestamp = MergeClock(@, stamp)]
  BY <1>3 DEF applySetOp
<1>5. s \in [type : {"lwwset"}, Key : {Key}, Adds : {s.Adds},
            Removes : {s.Removes}, Timestamp : {s.Timestamp}]
  BY DEF IsLWWSet
<1>6. r.Timestamp = stamp
  BY <1>2, <1>4, <1>5
<1> QED
  BY <1>4, <1>5, <1>6

LEMMA PutEntries ==
  ASSUME NEW f, IsEntries(f), NEW e \in Element, NEW c, IsClock(c)
  PROVE  IsEntries(Put(f, e, c))
<1> DEFINE g == Put(f, e, c)
<1>1. DOMAIN g = DOMAIN f \cup {e} /\ g = [y \in DOMAIN g |-> g[y]]
  BY DEF Put
<1>2. \A y \in DOMAIN g : IsClock(g[y])
  BY DEF Put, IsEntries
<1> QED
  BY <1>1, <1>2 DEF IsEntries

\* h2 is the history h with one more operation of node n.
Appended(h2, h, n, op) == /\ h2 = [m \in Node |-> h2[m]]
                          /\ h2[n] = Append(h[n], op)
                          /\ \A m \in Node : m # n => h2[m] = h[m]

LEMMA HistoryGrows ==
  ASSUME NEW h, HistoryOK(h), NEW n \in Node, NEW op, IsOp(op),
         NEW h2, Appended(h2, h, n, op)
  PROVE  /\ HistoryOK(h2) /\ Extends(h2, h)
         /\ Len(h2[n]) = Len(h[n]) + 1 /\ h2[n][Len(h[n]) + 1] = op
<1>2. h2[n] = Append(h[n], op) /\ \A m \in Node : m # n => h2[m] = h[m]
  BY DEF Appended
<1>3. Len(h[n]) \in Nat /\ h[n] = [k \in 1 .. Len(h[n]) |-> h[n][k]]
  BY DEF HistoryOK
<1>4. /\ Len(h2[n]) = Len(h[n]) + 1
      /\ \A k \in 1 .. Len(h[n]) : h2[n][k] = h[n][k]
      /\ h2[n][Len(h[n]) + 1] = op
  BY <1>2, <1>3, AppendFacts
<1>9. h2[n] = [k \in 1 .. Len(h2[n]) |-> h2[n][k]]
  BY <1>2, <1>3, <1>4, AppendFacts
<1>5. Extends(h2, h)
  <2> SUFFICES ASSUME NEW m \in Node
               PROVE  /\ Len(h[m]) <= Len(h2[m])
                      /\ \A k \in 1 .. Len(h[m]) : h2[m][k] = h[m][k]
    BY DEF Extends
  <2>1. CASE m = n
    <3>1. Len(h[n]) \in Nat
      BY <1>3
    <3> QED
      BY <1>4, <2>1, <3>1
  <2>2. CASE m # n
    BY <1>2, <2>2 DEF HistoryOK
  <2> QED
    BY <2>1, <2>2
<1>6. h2 = [m \in Node |-> h2[m]]
  BY DEF Appended
<1>7. \A k \in 1 .. Len(h2[n]) : IsOp(h2[n][k])
  <2> SUFFICES ASSUME NEW k \in 1 .. Len(h2[n]) PROVE IsOp(h2[n][k])
    OBVIOUS
  <2>1. k \in 1 .. Len(h[n]) \/ k = Len(h[n]) + 1
    BY <1>3, <1>4
  <2> QED
    BY <1>4, <2>1 DEF HistoryOK
<1>8. \A m \in Node : /\ h2[m] = [k \in 1 .. Len(h2[m]) |-> h2[m][k]]
                      /\ Len(h2[m]) \in Nat
                      /\ \A k \in 1 .. Len(h2[m]) : IsOp(h2[m][k])
  <2> SUFFICES ASSUME NEW m \in Node
               PROVE  /\ h2[m] = [k \in 1 .. Len(h2[m]) |-> h2[m][k]]
                      /\ Len(h2[m]) \in Nat
                      /\ \A k \in 1 .. Len(h2[m]) : IsOp(h2[m][k])
    OBVIOUS
  <2>1. CASE m = n
    <3>1. Len(h2[n]) \in Nat
      BY <1>3, <1>4
    <3> QED
      BY <1>7, <1>9, <2>1, <3>1
  <2>2. CASE m # n
    BY <1>2, <2>2 DEF HistoryOK
  <2> QED
    BY <2>1, <2>2
<1> QED
  BY <1>2, <1>4, <1>5, <1>6, <1>8 DEF HistoryOK

(* LWWAdd and LWWRemove preserve the invariant. *)
LEMMA SoundUpdate ==
  ASSUME NEW h, HistoryOK(h), NEW s, Sound(s, h), NEW n \in Node, NEW e \in Element,
         NEW isAdd \in BOOLEAN, Count(s.Timestamp, n) = Len(h[n]),
         NEW op, op = [element |-> e, isAdd |-> isAdd, TS |-> FreshStamp(s, n)],
         NEW h2, Appended(h2, h, n, op),
         NEW r, r = applySetOp(s, n, e, isAdd, EmptyClock)
  PROVE  HistoryOK(h2) /\ Extends(h2, h) /\ Sound(r, h2)
         /\ Count(r.Timestamp, n) = Len(h2[n])
<1> DEFINE stamp == FreshStamp(s, n)
           K     == Len(h[n]) + 1
<1>1. IsLWWSet(s) /\ IsClock(s.Timestamp) /\ Len(h[n]) \in Nat
  BY DEF Sound, IsLWWSet, HistoryOK
<1>2. IsClock(stamp)
  BY <1>1, IncrementType DEF FreshStamp
<1>3. IsOp(op) /\ op.element = e /\ op.isAdd = isAdd /\ op.TS = stamp
  BY <1>2 DEF IsOp
<1>4. /\ HistoryOK(h2) /\ Extends(h2, h)
      /\ Len(h2[n]) = K /\ h2[n][K] = op
      /\ \A m \in Node : m # n => h2[m] = h[m]
  BY <1>3, HistoryGrows DEF Appended
<1>5. Sound(s, h2)
  BY <1>4, SoundExtends
<1>6. /\ r.Adds = IF isAdd THEN Put(s.Adds, e, stamp) ELSE s.Adds
      /\ r.Removes = IF isAdd THEN s.Removes ELSE Put(s.Removes, e, stamp)
      /\ r.Timestamp = stamp
  BY <1>1, UpdatedFields
<1>7. IsLWWSet(r)
  <2>1. IsEntries(r.Adds) /\ IsEntries(r.Removes)
    BY <1>2, <1>6, PutEntries DEF Sound, IsLWWSet
  <2> QED
    BY <1>1, <1>2, <1>6, <2>1, UpdatedFields DEF IsLWWSet
<1>8. /\ Count(stamp, n) = K
      /\ \A m \in Node : m # n => Count(stamp, m) = Count(s.Timestamp, m)
      /\ Leq(s.Timestamp, stamp)
  BY <1>1, IncrementCount DEF FreshStamp
<1>9. \A m \in Node : \A k \in Known(r, m) : k \in Known(s, m) \/ (m = n /\ k = K)
  <2> SUFFICES ASSUME NEW m \in Node, NEW k \in Known(r, m)
               PROVE  k \in Known(s, m) \/ (m = n /\ k = K)
    OBVIOUS
  <2>1. CASE m = n
    BY <1>1, <1>6, <1>8, <2>1 DEF Known
  <2>2. CASE m # n
    BY <1>6, <1>8, <2>2 DEF Known
  <2> QED
    BY <2>1, <2>2
<1>10. (\A m \in Node : Known(s, m) \subseteq Known(r, m)) /\ K \in Known(r, n)
  <2>1. K \in Known(r, n) /\ Known(s, n) \subseteq Known(r, n)
    BY <1>1, <1>6, <1>8 DEF Known
  <2>2. \A m \in Node : m # n => Known(s, m) = Known(r, m)
    BY <1>6, <1>8 DEF Known
  <2> QED
    BY <2>1, <2>2
<1>11. IsIssued(r, h2)
  <2> SUFFICES ASSUME NEW m \in Node PROVE Count(r.Timestamp, m) <= Len(h2[m])
    BY DEF IsIssued
  <2>1. CASE m = n
    BY <1>1, <1>4, <1>6, <1>8, <2>1
  <2>2. CASE m # n
    BY <1>4, <1>6, <1>8, <2>2 DEF Sound, IsIssued
  <2> QED
    BY <2>1, <2>2
<1>12. IsClosed(r, h2)
  <2> SUFFICES ASSUME NEW m \in Node, NEW k \in Known(r, m)
               PROVE  Leq(h2[m][k].TS, stamp)
    BY <1>6 DEF IsClosed
  <2>1. CASE k \in Known(s, m)
    <3>1. Leq(h2[m][k].TS, s.Timestamp)
      BY <1>5, <2>1 DEF Sound, IsClosed
    <3>2. IsClock(h2[m][k].TS)
      BY <1>4, <1>5, <2>1, KnownIssued DEF Sound, IsOp
    <3> QED
      BY <1>1, <1>2, <1>8, <3>1, <3>2, LeqTransitive
  <2>2. CASE m = n /\ k = K
    BY <1>2, <1>3, <1>4, <2>2, LeqReflexive
  <2> QED
    BY <1>9, <2>1, <2>2
<1>13. ASSUME NEW old, NEW kind \in BOOLEAN, Reflects(s, h2, old, kind),
              NEW new, new = IF kind <=> isAdd THEN Put(old, e, stamp) ELSE old
       PROVE  Reflects(r, h2, new, kind)
  <2>1. CASE kind <=> isAdd
    <3>1. DOMAIN new = DOMAIN old \cup {e} /\ new[e] = stamp
          /\ \A y \in DOMAIN old : y # e => new[y] = old[y]
      BY <1>13, <2>1 DEF Put
    <3>2. kind = isAdd
      BY <2>1
    <3>3. ASSUME NEW y \in DOMAIN new
          PROVE  \E m \in Node : \E k \in Known(r, m) :
                   h2[m][k].isAdd = kind /\ h2[m][k].element = y /\ h2[m][k].TS = new[y]
      <4>1. CASE y = e
        BY <1>3, <1>4, <1>10, <3>1, <3>2, <4>1
      <4>2. CASE y # e
        <5>1. y \in DOMAIN old /\ new[y] = old[y]
          BY <3>1, <4>2
        <5>2. PICK m \in Node : \E k \in Known(s, m) :
                h2[m][k].isAdd = kind /\ h2[m][k].element = y /\ h2[m][k].TS = old[y]
          BY <1>13, <5>1 DEF Reflects
        <5> QED
          BY <1>10, <5>1, <5>2
      <4> QED
        BY <4>1, <4>2
    <3>4. ASSUME NEW m \in Node, NEW k \in Known(r, m), h2[m][k].isAdd = kind
          PROVE  h2[m][k].element \in DOMAIN new
      BY <1>3, <1>4, <1>9, <1>13, <3>1, <3>4 DEF Reflects
    <3> QED
      BY <3>3, <3>4 DEF Reflects
  <2>2. CASE ~(kind <=> isAdd)
    <3>1. new = old
      BY <1>13, <2>2
    <3>2. ASSUME NEW m \in Node, NEW k \in Known(r, m), h2[m][k].isAdd = kind
          PROVE  k \in Known(s, m)
      BY <1>3, <1>4, <1>9, <2>2, <3>2
    <3>3. ASSUME NEW y \in DOMAIN new
          PROVE  \E m \in Node : \E k \in Known(r, m) :
                   h2[m][k].isAdd = kind /\ h2[m][k].element = y /\ h2[m][k].TS = new[y]
      <4>1. PICK m \in Node : \E k \in Known(s, m) :
              h2[m][k].isAdd = kind /\ h2[m][k].element = y /\ h2[m][k].TS = old[y]
        BY <1>13, <3>1 DEF Reflects
      <4> QED
        BY <1>10, <3>1, <4>1
    <3>4. ASSUME NEW m \in Node, NEW k \in Known(r, m), h2[m][k].isAdd = kind
          PROVE  h2[m][k].element \in DOMAIN new
      BY <1>13, <3>1, <3>2, <3>4 DEF Reflects
    <3> QED
      BY <3>3, <3>4 DEF Reflects
  <2> QED
    BY <2>1, <2>2
<1>14. Reflects(r, h2, r.Adds, TRUE)
  <2>1. r.Adds = IF TRUE <=> isAdd THEN Put(s.Adds, e, stamp) ELSE s.Adds
    BY <1>6
  <2> QED
    BY <1>5, <1>13, <2>1 DEF Sound
<1>15. Reflects(r, h2, r.Removes, FALSE)
  <2>1. r.Removes = IF FALSE <=> isAdd THEN Put(s.Removes, e, stamp) ELSE s.Removes
    BY <1>6
  <2> QED
    BY <1>5, <1>13, <2>1 DEF Sound
<1> QED
  BY <1>4, <1>6, <1>7, <1>8, <1>11, <1>12, <1>14, <1>15 DEF Sound

-----------------------------------------------------------------------------
(* The invariant of the specification. *)

IInv == /\ set = [n \in Node |-> set[n]]
        /\ HistoryOK(hist)
        /\ \A n \in Node : Sound(set[n], hist) /\ Count(set[n].Timestamp, n) = Len(hist[n])
        /\ \A m \in msgs : /\ m = [from |-> m.from, state |-> m.state]
                           /\ m.from \in Node
                           /\ Sound(m.state, hist)

LEMMA InitIInv == Init => IInv
<1> SUFFICES ASSUME Init PROVE IInv
  OBVIOUS
<1> DEFINE s == NewLWWSet(Key)
<1>1. /\ s = [type |-> "lwwset", Key |-> Key, Adds |-> EmptyClock,
              Removes |-> EmptyClock, Timestamp |-> EmptyClock]
      /\ s.Adds = EmptyClock /\ s.Removes = EmptyClock /\ s.Timestamp = EmptyClock
  BY DEF NewLWWSet
<1> HIDE DEF s
<1>2. DOMAIN EmptyClock = {} /\ EmptyClock = [e \in {} |-> EmptyClock[e]]
  BY DEF EmptyClock
<1>3. IsLWWSet(s)
  <2>1. IsEntries(EmptyClock)
    BY <1>2 DEF IsEntries
  <2> QED
    BY <1>1, <2>1, EmptyClockType DEF IsLWWSet
<1>4. \A m \in Node : Count(s.Timestamp, m) = 0 /\ Known(s, m) = {}
  BY <1>1, <1>2 DEF Count, Known
<1>5. \A n \in Node : hist[n] = <<>> /\ Len(hist[n]) = 0
  BY DEF Init
<1>6. HistoryOK(hist)
  BY DEF Init, HistoryOK
<1>7. Sound(s, hist)
  BY <1>1, <1>2, <1>3, <1>4, <1>5 DEF Sound, IsIssued, IsClosed, Reflects
<1>8. set = [n \in Node |-> s] /\ msgs = {}
  BY DEF Init, s
<1> QED
  BY <1>4, <1>5, <1>6, <1>7, <1>8 DEF IInv

(* One operation of a node. *)
LEMMA UpdateIInv ==
  ASSUME IInv, NEW n \in Node, NEW e \in Element, NEW isAdd \in BOOLEAN, Update(n, e, isAdd)
  PROVE  /\ IInv'
         /\ Extends(hist', hist)
         /\ LET op == [element |-> e, isAdd |-> isAdd, TS |-> FreshStamp(set[n], n)]
            IN  IsOp(op) /\ Appended(hist', hist, n, op)
<1> DEFINE op == [element |-> e, isAdd |-> isAdd, TS |-> FreshStamp(set[n], n)]
           r  == applySetOp(set[n], n, e, isAdd, EmptyClock)
<1>1. set = [m \in Node |-> set[m]] /\ hist = [m \in Node |-> hist[m]]
  BY DEF IInv, HistoryOK
<1>2. /\ set' = [set EXCEPT ![n] = r]
      /\ hist' = [hist EXCEPT ![n] = Append(@, op)]
      /\ msgs' = msgs
  BY DEF Update
<1> HIDE DEF op, r
<1>3. Appended(hist', hist, n, op)
  BY <1>1, <1>2 DEF Appended
<1>4. /\ Sound(set[n], hist) /\ Count(set[n].Timestamp, n) = Len(hist[n])
      /\ HistoryOK(hist)
  BY DEF IInv
<1>5. /\ HistoryOK(hist') /\ Extends(hist', hist) /\ Sound(r, hist')
      /\ Count(r.Timestamp, n) = Len(hist'[n])
  BY <1>3, <1>4, SoundUpdate DEF op, r
<1>6. /\ set' = [m \in Node |-> set'[m]] /\ set'[n] = r
      /\ \A m \in Node : m # n => set'[m] = set[m] /\ hist'[m] = hist[m]
  BY <1>1, <1>2
<1>7. \A m \in Node : Sound(set'[m], hist') /\ Count(set'[m].Timestamp, m) = Len(hist'[m])
  <2> SUFFICES ASSUME NEW m \in Node
               PROVE  Sound(set'[m], hist') /\ Count(set'[m].Timestamp, m) = Len(hist'[m])
    OBVIOUS
  <2>1. CASE m = n
    BY <1>5, <1>6, <2>1
  <2>2. CASE m # n
    <3>1. Sound(set[m], hist) /\ Count(set[m].Timestamp, m) = Len(hist[m])
      BY DEF IInv
    <3> QED
      BY <1>4, <1>5, <1>6, <2>2, <3>1, SoundExtends
  <2> QED
    BY <2>1, <2>2
<1>8. \A m \in msgs : Sound(m.state, hist')
  BY <1>4, <1>5, SoundExtends DEF IInv
<1>9. IInv'
  BY <1>2, <1>5, <1>6, <1>7, <1>8 DEF IInv
<1>10. IsOp(op)
  <2>1. IsClock(FreshStamp(set[n], n))
    BY <1>4, IncrementType DEF Sound, IsLWWSet, FreshStamp
  <2> QED
    BY <2>1 DEF op, IsOp
<1> QED
  BY <1>3, <1>5, <1>9, <1>10 DEF op

(* The export of a node's state. *)
LEMMA ExportIInv ==
  ASSUME IInv, NEW n \in Node, GetAllCRDTs(n)
  PROVE  IInv'
<1> DEFINE msg == [from |-> n, state |-> set[n]]
<1>1. msg.from = n /\ msg.state = set[n] /\ msg = [from |-> msg.from, state |-> msg.state]
  OBVIOUS
<1>2. set' = set /\ hist' = hist /\ msgs' = msgs \cup {msg}
  BY DEF GetAllCRDTs
<1> HIDE DEF msg
<1> QED
  BY <1>1, <1>2 DEF IInv

(* The merge of another node's state. *)
LEMMA ApplyIInv ==
  ASSUME IInv, NEW n \in Node, NEW remote \in msgs, ApplyMerged(n, remote)
  PROVE  IInv'
<1>1. PICK merged \in Merge(set[n], remote.state) : set' = [set EXCEPT ![n] = merged]
  BY DEF ApplyMerged
<1>2. set = [m \in Node |-> set[m]]
  BY DEF IInv
<1>3. hist' = hist /\ msgs' = msgs
  BY DEF ApplyMerged
<1>4. HistoryOK(hist) /\ Sound(set[n], hist) /\ Sound(remote.state, hist)
  BY DEF IInv
<1>5. Sound(merged, hist)
  BY <1>4, SoundMerge
<1>6. Count(merged.Timestamp, n) = Len(hist[n])
  <2>1. IsLWWSet(set[n]) /\ IsLWWSet(remote.state)
    BY <1>4 DEF Sound
  <2>2. IsClock(set[n].Timestamp) /\ IsClock(remote.state.Timestamp)
    BY <2>1 DEF IsLWWSet
  <2>3. merged.Timestamp = MergeClock(set[n].Timestamp, remote.state.Timestamp)
    BY <2>1, MergedFields
  <2>4. Count(set[n].Timestamp, n) = Len(hist[n])
    BY DEF IInv
  <2>5. Count(remote.state.Timestamp, n) <= Len(hist[n])
    BY <1>4 DEF Sound, IsIssued
  <2> QED
    BY <2>2, <2>3, <2>4, <2>5, MergeCount
<1>7. /\ set' = [m \in Node |-> set'[m]] /\ set'[n] = merged
      /\ \A m \in Node : m # n => set'[m] = set[m]
  BY <1>1, <1>2
<1>8. \A m \in Node : Sound(set'[m], hist) /\ Count(set'[m].Timestamp, m) = Len(hist[m])
  BY <1>5, <1>6, <1>7 DEF IInv
<1> QED
  BY <1>3, <1>7, <1>8 DEF IInv

LEMMA InvariantIInv == Spec => []IInv
<1>1. IInv /\ [Next]_vars => IInv'
  <2> SUFFICES ASSUME IInv, [Next]_vars PROVE IInv'
    OBVIOUS
  <2>1. ASSUME NEW n \in Node, NEW e \in Element, LWWAdd(n, e) PROVE IInv'
    BY <2>1, UpdateIInv DEF LWWAdd
  <2>2. ASSUME NEW n \in Node, NEW e \in Element, LWWRemove(n, e) PROVE IInv'
    BY <2>2, UpdateIInv DEF LWWRemove
  <2>3. ASSUME NEW n \in Node, GetAllCRDTs(n) PROVE IInv'
    BY <2>3, ExportIInv
  <2>4. ASSUME NEW n \in Node, NEW remote \in msgs, ApplyMerged(n, remote) PROVE IInv'
    BY <2>4, ApplyIInv
  <2>5. CASE UNCHANGED vars
    BY <2>5 DEF vars, IInv
  <2> QED
    BY <2>1, <2>2, <2>3, <2>4, <2>5 DEF Next
<1> QED
  BY <1>1, InitIInv, PTL DEF Spec

(* Every object in an engine, and every exported one, stays a well-formed  *)
(* last-writer-wins set.                                                   *)
THEOREM TypeCorrect == Spec => []TypeOK
<1>1. IInv => TypeOK
  BY DEF IInv, TypeOK, States, Sound, HistoryOK
<1> QED
  BY <1>1, InvariantIInv, PTL

(* No state claims an operation that was not issued, and no node forgets   *)
(* one of its own, so every timestamp that applySetOp hands out is new.    *)
THEOREM TimestampsCorrect == Spec => []TimestampsIssued
<1>1. IInv => TimestampsIssued
  BY DEF IInv, TimestampsIssued, States, Sound, IsIssued
<1> QED
  BY <1>1, InvariantIInv, PTL

(* Merging keeps timestamps causally closed. *)
THEOREM ClosureCorrect == Spec => []CausallyClosed
<1>1. IInv => CausallyClosed
  BY DEF IInv, CausallyClosed, States, Sound
<1> QED
  BY <1>1, InvariantIInv, PTL

(* A state has entries for exactly the elements of the operations that its *)
(* timestamp covers: merging in any order drops and invents no element.    *)
THEOREM KnowledgeCorrect == Spec => []KnowledgeComplete
<1>1. IInv => KnowledgeComplete
  BY DEF IInv, KnowledgeComplete, States, Sound
<1> QED
  BY <1>1, InvariantIInv, PTL

(* An entry is covered by the timestamp of its set. *)
LEMMA EntriesCovered ==
  ASSUME NEW h, HistoryOK(h), NEW s, Sound(s, h)
  PROVE  /\ \A e \in DOMAIN s.Adds : IsClock(s.Adds[e]) /\ Leq(s.Adds[e], s.Timestamp)
         /\ \A e \in DOMAIN s.Removes : IsClock(s.Removes[e]) /\ Leq(s.Removes[e], s.Timestamp)
<1>1. IsClosed(s, h) /\ Reflects(s, h, s.Adds, TRUE) /\ Reflects(s, h, s.Removes, FALSE)
  BY DEF Sound
<1>2. \A e \in DOMAIN s.Adds : Leq(s.Adds[e], s.Timestamp)
  BY <1>1 DEF IsClosed, Reflects
<1>3. \A e \in DOMAIN s.Removes : Leq(s.Removes[e], s.Timestamp)
  BY <1>1 DEF IsClosed, Reflects
<1> QED
  BY <1>2, <1>3 DEF Sound, IsLWWSet, IsEntries

(* A fresh timestamp is later than every entry of the set. *)
LEMMA FreshIsLater ==
  ASSUME NEW s, IsLWWSet(s), NEW n \in Node, NEW c, IsClock(c), Leq(c, s.Timestamp)
  PROVE  /\ Compare(FreshStamp(s, n), c) = 1
         /\ Compare(c, FreshStamp(s, n)) = -1
<1> DEFINE f == FreshStamp(s, n)
<1>1. IsClock(s.Timestamp)
  BY DEF IsLWWSet
<1>2. IsClock(f) /\ Leq(s.Timestamp, f) /\ s.Timestamp # f
  BY <1>1, IncrementType, IncrementCount DEF FreshStamp
<1> HIDE DEF f
<1>3. Leq(c, f)
  BY <1>1, <1>2, LeqTransitive
<1>4. c # f
  BY <1>1, <1>2, LeqAntisymmetric
<1> QED
  BY <1>2, <1>3, <1>4, CompareCausal DEF f

LEMMA UpdatedEntries ==
  ASSUME NEW s, IsLWWSet(s), NEW n \in Node, NEW e \in Element, NEW isAdd \in BOOLEAN,
         NEW r, r = applySetOp(s, n, e, isAdd, EmptyClock)
  PROVE  /\ isAdd => /\ r.Adds = Put(s.Adds, e, FreshStamp(s, n))
                     /\ r.Removes = s.Removes
         /\ ~isAdd => /\ r.Adds = s.Adds
                      /\ r.Removes = Put(s.Removes, e, FreshStamp(s, n))
<1>1. /\ r.Adds = IF isAdd THEN Put(s.Adds, e, FreshStamp(s, n)) ELSE s.Adds
      /\ r.Removes = IF isAdd THEN s.Removes ELSE Put(s.Removes, e, FreshStamp(s, n))
  BY UpdatedFields
<1> QED
  BY <1>1

LEMMA UpdateVisible ==
  ASSUME IInv, NEW n \in Node, NEW e \in Element, NEW isAdd \in BOOLEAN, Update(n, e, isAdd)
  PROVE  isAdd <=> e \in GetElements(set'[n])
<1> DEFINE stamp == FreshStamp(set[n], n)
<1>1. IsLWWSet(set[n]) /\ Sound(set[n], hist) /\ HistoryOK(hist)
  BY DEF IInv, Sound
<1>2. set'[n] = applySetOp(set[n], n, e, isAdd, EmptyClock)
  BY DEF Update, IInv
<1>5. /\ isAdd => /\ set'[n].Adds = Put(set[n].Adds, e, stamp)
                  /\ set'[n].Removes = set[n].Removes
      /\ ~isAdd => /\ set'[n].Adds = set[n].Adds
                   /\ set'[n].Removes = Put(set[n].Removes, e, stamp)
  BY <1>1, <1>2, UpdatedEntries
<1>3. CASE isAdd
  <2>1. set'[n].Adds = Put(set[n].Adds, e, stamp) /\ set'[n].Removes = set[n].Removes
    BY <1>3, <1>5
  <2>2. e \in DOMAIN set'[n].Adds /\ set'[n].Adds[e] = stamp
    BY <2>1 DEF Put
  <2>3. e \in DOMAIN set[n].Removes => Compare(stamp, set[n].Removes[e]) = 1
    BY <1>1, EntriesCovered, FreshIsLater
  <2> QED
    BY <1>3, <2>1, <2>2, <2>3 DEF GetElements, Contains
<1>4. CASE ~isAdd
  <2>1. set'[n].Adds = set[n].Adds /\ set'[n].Removes = Put(set[n].Removes, e, stamp)
    BY <1>4, <1>5
  <2>2. e \in DOMAIN set'[n].Removes /\ set'[n].Removes[e] = stamp
    BY <2>1 DEF Put
  <2>3. e \in DOMAIN set[n].Adds => Compare(set[n].Adds[e], stamp) = -1
    BY <1>1, EntriesCovered, FreshIsLater
  <2> QED
    BY <1>4, <2>1, <2>2, <2>3 DEF GetElements, Contains
<1> QED
  BY <1>3, <1>4

(* After its own LWWAdd a node has the element, after its own LWWRemove it *)
(* has not, whatever it has merged before.                                 *)
THEOREM OwnOperationsCorrect == Spec => OwnOperationsVisible
<1>1. IInv => LocalOpWins
  BY UpdateVisible DEF LocalOpWins, LWWAdd, LWWRemove
<1> QED
  BY <1>1, InvariantIInv, PTL DEF OwnOperationsVisible

-----------------------------------------------------------------------------
(***************************************************************************)
(* The elements of one writer converge: two entries for such an element    *)
(* are ordered, so that the tie-breaker of LWWSet.Merge, which spoils      *)
(* convergence in general, is never asked about it.                        *)
(***************************************************************************)

Owned(h) == \A m \in Node : \A k \in 1 .. Len(h[m]) : m \in Writer[h[m][k].element]

\* The operations of a node are ordered.
Chain(h) == \A m \in Node : \A j, k \in 1 .. Len(h[m]) :
              j <= k => Leq(h[m][j].TS, h[m][k].TS)

\* The entry of an element of one writer is at least as late as every
\* operation known on it.
Latest(s, h) == \A m \in Node : \A k \in Known(s, m) :
                  h[m][k].element \in SingleWriter =>
                    Leq(h[m][k].TS, EntryOf(s, h[m][k]))

(* Two entries for the same element are by the same writer, hence ordered. *)
LEMMA EntriesOrdered ==
  ASSUME NEW h, HistoryOK(h), Owned(h), Chain(h),
         NEW s, Sound(s, h), NEW o, Sound(o, h), NEW isAdd,
         NEW ours, Reflects(s, h, ours, isAdd), NEW theirs, Reflects(o, h, theirs, isAdd),
         NEW e \in DOMAIN ours \cap DOMAIN theirs, e \in SingleWriter
  PROVE  Leq(ours[e], theirs[e]) \/ Leq(theirs[e], ours[e])
<1>1. PICK m1 \in Node : \E k \in Known(s, m1) : h[m1][k].element = e /\ h[m1][k].TS = ours[e]
  BY DEF Reflects
<1>2. PICK k1 \in Known(s, m1) : h[m1][k1].element = e /\ h[m1][k1].TS = ours[e]
  BY <1>1
<1>3. PICK m2 \in Node : \E k \in Known(o, m2) : h[m2][k].element = e /\ h[m2][k].TS = theirs[e]
  BY DEF Reflects
<1>4. PICK k2 \in Known(o, m2) : h[m2][k2].element = e /\ h[m2][k2].TS = theirs[e]
  BY <1>3
<1>5. k1 \in 1 .. Len(h[m1]) /\ IsOp(h[m1][k1])
  BY KnownIssued DEF Sound
<1>6. k2 \in 1 .. Len(h[m2]) /\ IsOp(h[m2][k2])
  BY KnownIssued DEF Sound
<1>7. e \in Element /\ m1 \in Writer[e] /\ m2 \in Writer[e]
  BY <1>2, <1>4, <1>5, <1>6 DEF Owned, IsOp
<1>8. m1 = m2
  BY <1>7 DEF SingleWriter
<1>9. k1 <= k2 \/ k2 <= k1
  BY <1>5, <1>6
<1> QED
  BY <1>2, <1>4, <1>5, <1>6, <1>8, <1>9 DEF Chain

(* A merged map keeps what is later than c on either side. *)
LEMMA MergedStaysLate ==
  ASSUME NEW ours, IsEntries(ours), NEW theirs, IsEntries(theirs),
         NEW both \in MergeEntries(ours, theirs), NEW e, NEW c, IsClock(c),
         e \in DOMAIN ours /\ e \in DOMAIN theirs
           => Leq(ours[e], theirs[e]) \/ Leq(theirs[e], ours[e]),
         \/ e \in DOMAIN ours /\ Leq(c, ours[e])
         \/ e \in DOMAIN theirs /\ Leq(c, theirs[e])
  PROVE  Leq(c, both[e])
<1>1. e \in DOMAIN both
  <2>1. DOMAIN both = DOMAIN ours \cup DOMAIN theirs
    BY MergedDomain
  <2> QED
    BY <2>1
<1>2. CASE e \in DOMAIN ours /\ e \in DOMAIN theirs
  <2>1. IsClock(ours[e]) /\ IsClock(theirs[e])
    BY <1>2 DEF IsEntries
  <2>2. CASE Leq(ours[e], theirs[e])
    <3>1. both[e] = theirs[e]
      BY <1>2, <2>1, <2>2, MergedLater
    <3> QED
      BY <2>1, <2>2, <3>1, LeqTransitive
  <2>3. CASE Leq(theirs[e], ours[e])
    <3>1. both[e] = ours[e]
      BY <1>2, <2>1, <2>3, MergedLater
    <3> QED
      BY <2>1, <2>3, <3>1, LeqTransitive
  <2> QED
    BY <1>2, <2>2, <2>3
<1>3. CASE ~(e \in DOMAIN ours /\ e \in DOMAIN theirs)
  BY <1>1, <1>3, MergedEntry
<1> QED
  BY <1>2, <1>3

LEMMA LatestMerge ==
  ASSUME NEW h, HistoryOK(h), Owned(h), Chain(h),
         NEW s, Sound(s, h), Latest(s, h), NEW o, Sound(o, h), Latest(o, h),
         NEW r \in Merge(s, o)
  PROVE  Latest(r, h)
<1> SUFFICES ASSUME NEW m \in Node, NEW k \in Known(r, m),
                    h[m][k].element \in SingleWriter
             PROVE  Leq(h[m][k].TS, EntryOf(r, h[m][k]))
  BY DEF Latest
<1> DEFINE e == h[m][k].element
           c == h[m][k].TS
<1>1. /\ IsLWWSet(s) /\ IsLWWSet(o)
      /\ IsEntries(s.Adds) /\ IsEntries(o.Adds) /\ IsEntries(s.Removes) /\ IsEntries(o.Removes)
  BY DEF Sound, IsLWWSet
<1>2. r.Adds \in MergeEntries(s.Adds, o.Adds) /\ r.Removes \in MergeEntries(s.Removes, o.Removes)
  BY <1>1, MergedFields
<1>3. k \in Known(s, m) \/ k \in Known(o, m)
  BY <1>1, MergedKnown
<1>4. IsClock(c) /\ h[m][k].isAdd \in BOOLEAN
  BY <1>3, KnownIssued DEF Sound, IsOp
<1>5. /\ Reflects(s, h, s.Adds, TRUE) /\ Reflects(o, h, o.Adds, TRUE)
      /\ Reflects(s, h, s.Removes, FALSE) /\ Reflects(o, h, o.Removes, FALSE)
  BY DEF Sound
<1>6. \/ k \in Known(s, m) /\ Leq(c, EntryOf(s, h[m][k]))
      \/ k \in Known(o, m) /\ Leq(c, EntryOf(o, h[m][k]))
  BY <1>3 DEF Latest
<1>7. CASE h[m][k].isAdd = TRUE
  <2>1. \/ e \in DOMAIN s.Adds /\ Leq(c, s.Adds[e])
        \/ e \in DOMAIN o.Adds /\ Leq(c, o.Adds[e])
    BY <1>5, <1>6, <1>7 DEF EntryOf, Reflects
  <2>2. e \in DOMAIN s.Adds /\ e \in DOMAIN o.Adds
          => Leq(s.Adds[e], o.Adds[e]) \/ Leq(o.Adds[e], s.Adds[e])
    BY <1>5, EntriesOrdered
  <2>3. Leq(c, r.Adds[e])
    <3> HIDE DEF e, c
    <3> QED
      BY <1>1, <1>2, <1>4, <2>1, <2>2, MergedStaysLate
  <2> QED
    BY <1>7, <2>3 DEF EntryOf
<1>8. CASE h[m][k].isAdd = FALSE
  <2>1. \/ e \in DOMAIN s.Removes /\ Leq(c, s.Removes[e])
        \/ e \in DOMAIN o.Removes /\ Leq(c, o.Removes[e])
    BY <1>5, <1>6, <1>8 DEF EntryOf, Reflects
  <2>2. e \in DOMAIN s.Removes /\ e \in DOMAIN o.Removes
          => Leq(s.Removes[e], o.Removes[e]) \/ Leq(o.Removes[e], s.Removes[e])
    BY <1>5, EntriesOrdered
  <2>3. Leq(c, r.Removes[e])
    <3> HIDE DEF e, c
    <3> QED
      BY <1>1, <1>2, <1>4, <2>1, <2>2, MergedStaysLate
  <2> QED
    BY <1>8, <2>3 DEF EntryOf
<1> QED
  BY <1>4, <1>7, <1>8

LEMMA LatestExtends ==
  ASSUME NEW h, NEW h2, HistoryOK(h), Extends(h2, h), NEW s, Sound(s, h), Latest(s, h)
  PROVE  Latest(s, h2)
<1>1. \A m \in Node : \A k \in Known(s, m) : h2[m][k] = h[m][k]
  BY KnownIssued DEF Extends, Sound
<1> QED
  BY <1>1 DEF Latest

(* LWWAdd and LWWRemove: the new operation is later than all that the node *)
(* knows, its own operations and the other entries for the element alike.  *)
LEMMA LatestUpdate ==
  ASSUME NEW h, HistoryOK(h), Owned(h), Chain(h), NEW s, Sound(s, h), Latest(s, h),
         NEW n \in Node, NEW e \in Element, n \in Writer[e],
         NEW isAdd \in BOOLEAN, Count(s.Timestamp, n) = Len(h[n]),
         NEW op, op = [element |-> e, isAdd |-> isAdd, TS |-> FreshStamp(s, n)],
         NEW h2, Appended(h2, h, n, op),
         NEW r, r = applySetOp(s, n, e, isAdd, EmptyClock)
  PROVE  Owned(h2) /\ Chain(h2) /\ Latest(r, h2)
<1> DEFINE stamp == FreshStamp(s, n)
           K     == Len(h[n]) + 1
<1>1. IsLWWSet(s) /\ IsClock(s.Timestamp) /\ Len(h[n]) \in Nat
  BY DEF Sound, IsLWWSet, HistoryOK
<1>2. IsClock(stamp) /\ Leq(s.Timestamp, stamp)
  BY <1>1, IncrementType, IncrementCount DEF FreshStamp
<1>3. IsOp(op) /\ op.element = e /\ op.isAdd = isAdd /\ op.TS = stamp
  BY <1>2 DEF IsOp
<1>4. /\ HistoryOK(h2) /\ Extends(h2, h)
      /\ Len(h2[n]) = K /\ h2[n][K] = op
      /\ \A m \in Node : m # n => h2[m] = h[m]
  BY <1>3, HistoryGrows DEF Appended
<1>5. \A m \in Node : \A k \in 1 .. Len(h2[m]) :
        \/ k \in 1 .. Len(h[m]) /\ h2[m][k] = h[m][k]
        \/ m = n /\ k = K
  <2> SUFFICES ASSUME NEW m \in Node, NEW k \in 1 .. Len(h2[m])
               PROVE  \/ k \in 1 .. Len(h[m]) /\ h2[m][k] = h[m][k]
                      \/ m = n /\ k = K
    OBVIOUS
  <2>1. k \in 1 .. Len(h[m]) \/ (m = n /\ k = K)
    BY <1>1, <1>4
  <2> QED
    BY <1>4, <2>1 DEF Extends
<1>6. Owned(h2)
  BY <1>3, <1>4, <1>5 DEF Owned
<1>7. \A m \in Node : \A k \in Known(s, m) :
        h2[m][k] = h[m][k] /\ IsOp(h[m][k]) /\ Leq(h[m][k].TS, stamp)
  <2> SUFFICES ASSUME NEW m \in Node, NEW k \in Known(s, m)
               PROVE  h2[m][k] = h[m][k] /\ IsOp(h[m][k]) /\ Leq(h[m][k].TS, stamp)
    OBVIOUS
  <2>1. k \in 1 .. Len(h[m]) /\ IsOp(h[m][k])
    BY KnownIssued DEF Sound
  <2>2. Leq(h[m][k].TS, s.Timestamp)
    BY DEF Sound, IsClosed
  <2>3. Leq(h[m][k].TS, stamp)
    BY <1>1, <1>2, <2>1, <2>2, LeqTransitive DEF IsOp
  <2> QED
    BY <1>4, <2>1, <2>3 DEF Extends
<1>8. Chain(h2)
  <2> SUFFICES ASSUME NEW m \in Node, NEW j \in 1 .. Len(h2[m]), NEW k \in 1 .. Len(h2[m]),
                      j <= k
               PROVE  Leq(h2[m][j].TS, h2[m][k].TS)
    BY DEF Chain
  <2>1. CASE m # n
    BY <1>4, <2>1 DEF Chain
  <2>2. CASE m = n /\ k \in 1 .. Len(h[n])
    <3>1. j \in 1 .. Len(h[n])
      BY <1>1, <2>2
    <3>2. h2[n][j] = h[n][j] /\ h2[n][k] = h[n][k]
      BY <1>4, <2>2, <3>1 DEF Extends
    <3> QED
      BY <2>2, <3>1, <3>2 DEF Chain
  <2>3. CASE m = n /\ k = K
    <3>1. CASE j = K
      BY <1>2, <1>3, <1>4, <2>3, <3>1, LeqReflexive
    <3>2. CASE j # K
      <4>1. j \in Known(s, n)
        BY <1>1, <1>4, <2>3, <3>2 DEF Known
      <4> QED
        BY <1>3, <1>4, <1>7, <2>3, <4>1
    <3> QED
      BY <3>1, <3>2
  <2> QED
    BY <1>5, <2>1, <2>2, <2>3
<1>9. /\ isAdd => r.Adds = Put(s.Adds, e, stamp) /\ r.Removes = s.Removes
      /\ ~isAdd => r.Adds = s.Adds /\ r.Removes = Put(s.Removes, e, stamp)
  BY <1>1, UpdatedEntries
<1>10. \A m \in Node : \A k \in Known(r, m) : k \in Known(s, m) \/ (m = n /\ k = K)
  <2> SUFFICES ASSUME NEW m \in Node, NEW k \in Known(r, m)
               PROVE  k \in Known(s, m) \/ (m = n /\ k = K)
    OBVIOUS
  <2>1. r.Timestamp = stamp
    BY <1>1, UpdatedFields
  <2>2. /\ Count(stamp, n) = K
        /\ \A i \in Node : i # n => Count(stamp, i) = Count(s.Timestamp, i)
    BY <1>1, IncrementCount DEF FreshStamp
  <2>3. CASE m = n
    BY <1>1, <2>1, <2>2, <2>3 DEF Known
  <2>4. CASE m # n
    BY <2>1, <2>2, <2>4 DEF Known
  <2> QED
    BY <2>3, <2>4
<1>11. Latest(r, h2)
  <2> SUFFICES ASSUME NEW m \in Node, NEW k \in Known(r, m),
                      h2[m][k].element \in SingleWriter
               PROVE  Leq(h2[m][k].TS, EntryOf(r, h2[m][k]))
    BY DEF Latest
  <2>1. CASE m = n /\ k = K
    <3>1. EntryOf(r, op) = stamp
      BY <1>3, <1>9 DEF EntryOf, Put
    <3> QED
      BY <1>2, <1>3, <1>4, <2>1, <3>1, LeqReflexive
  <2>2. CASE k \in Known(s, m)
    <3> DEFINE o == h[m][k]
    <3>1. h2[m][k] = o /\ IsOp(o) /\ Leq(o.TS, stamp) /\ Leq(o.TS, EntryOf(s, o))
      BY <1>7, <2>2 DEF Latest
    <3>2. /\ o.isAdd => o.element \in DOMAIN s.Adds
          /\ ~o.isAdd => o.element \in DOMAIN s.Removes
      BY <2>2, <3>1 DEF Sound, Reflects, IsOp
    <3> HIDE DEF o
    <3>3. EntryOf(r, o) = stamp \/ EntryOf(r, o) = EntryOf(s, o)
      BY <1>9, <3>2 DEF EntryOf, Put
    <3> QED
      BY <3>1, <3>3
  <2> QED
    BY <1>10, <2>1, <2>2
<1> QED
  BY <1>6, <1>8, <1>11

-----------------------------------------------------------------------------

CInv == /\ Owned(hist) /\ Chain(hist)
        /\ \A n \in Node : Latest(set[n], hist)
        /\ \A m \in msgs : Latest(m.state, hist)

LEMMA InitCInv == Init => CInv
<1> SUFFICES ASSUME Init PROVE CInv
  OBVIOUS
<1>1. \A n \in Node : set[n].Timestamp = EmptyClock /\ hist[n] = <<>>
  BY DEF Init, NewLWWSet
<1>2. \A n, m \in Node : Known(set[n], m) = {}
  BY <1>1 DEF Known, Count, EmptyClock
<1>3. \A n \in Node : 1 .. Len(hist[n]) = {}
  <2>1. Len(<<>>) = 0 /\ 1 .. 0 = {}
    OBVIOUS
  <2> QED
    BY <1>1, <2>1
<1> QED
  BY <1>2, <1>3 DEF CInv, Init, Owned, Chain, Latest

LEMMA UpdateCInv ==
  ASSUME IInv, CInv, NEW n \in Node, NEW e \in Element, NEW isAdd \in BOOLEAN,
         Update(n, e, isAdd)
  PROVE  CInv'
<1> DEFINE op == [element |-> e, isAdd |-> isAdd, TS |-> FreshStamp(set[n], n)]
           r  == applySetOp(set[n], n, e, isAdd, EmptyClock)
<1>1. Appended(hist', hist, n, op) /\ Extends(hist', hist)
  BY UpdateIInv
<1>2. /\ Sound(set[n], hist) /\ Count(set[n].Timestamp, n) = Len(hist[n])
      /\ HistoryOK(hist)
  BY DEF IInv
<1>3. /\ set'[n] = r /\ n \in Writer[e] /\ msgs' = msgs
      /\ \A m \in Node : m # n => set'[m] = set[m]
  BY DEF Update, IInv
<1> HIDE DEF op, r
<1>4. Owned(hist) /\ Chain(hist) /\ Latest(set[n], hist)
  BY DEF CInv
<1>5. Owned(hist') /\ Chain(hist') /\ Latest(r, hist')
  BY <1>1, <1>2, <1>3, <1>4, LatestUpdate DEF op, r
<1>6. \A m \in Node : Latest(set'[m], hist')
  <2> SUFFICES ASSUME NEW m \in Node PROVE Latest(set'[m], hist')
    OBVIOUS
  <2>1. CASE m = n
    BY <1>3, <1>5, <2>1
  <2>2. CASE m # n
    <3>1. Sound(set[m], hist) /\ Latest(set[m], hist)
      BY DEF IInv, CInv
    <3> QED
      BY <1>1, <1>2, <1>3, <2>2, <3>1, LatestExtends
  <2> QED
    BY <2>1, <2>2
<1>7. \A m \in msgs : Latest(m.state, hist')
  BY <1>1, <1>2, LatestExtends DEF IInv, CInv
<1> QED
  BY <1>3, <1>5, <1>6, <1>7 DEF CInv

LEMMA ApplyCInv ==
  ASSUME IInv, CInv, NEW n \in Node, NEW remote \in msgs, ApplyMerged(n, remote)
  PROVE  CInv'
<1>1. PICK merged \in Merge(set[n], remote.state) : set' = [set EXCEPT ![n] = merged]
  BY DEF ApplyMerged
<1>2. hist' = hist /\ msgs' = msgs
  BY DEF ApplyMerged
<1>3. /\ HistoryOK(hist) /\ Sound(set[n], hist) /\ Sound(remote.state, hist)
      /\ Owned(hist) /\ Chain(hist) /\ Latest(set[n], hist) /\ Latest(remote.state, hist)
  BY DEF IInv, CInv
<1>4. Latest(merged, hist)
  BY <1>3, LatestMerge
<1>5. set'[n] = merged /\ \A m \in Node : m # n => set'[m] = set[m]
  BY <1>1 DEF IInv
<1>6. \A m \in Node : Latest(set'[m], hist)
  BY <1>4, <1>5 DEF CInv
<1> QED
  BY <1>2, <1>6 DEF CInv

LEMMA InvariantCInv == Spec => [](IInv /\ CInv)
<1>1. IInv /\ CInv /\ [Next]_vars => CInv'
  <2> SUFFICES ASSUME IInv, CInv, [Next]_vars PROVE CInv'
    OBVIOUS
  <2>1. ASSUME NEW n \in Node, NEW e \in Element, LWWAdd(n, e) PROVE CInv'
    BY <2>1, UpdateCInv DEF LWWAdd
  <2>2. ASSUME NEW n \in Node, NEW e \in Element, LWWRemove(n, e) PROVE CInv'
    BY <2>2, UpdateCInv DEF LWWRemove
  <2>3. ASSUME NEW n \in Node, GetAllCRDTs(n) PROVE CInv'
    BY <2>3 DEF GetAllCRDTs, CInv
  <2>4. ASSUME NEW n \in Node, NEW remote \in msgs, ApplyMerged(n, remote) PROVE CInv'
    BY <2>4, ApplyCInv
  <2>5. CASE UNCHANGED vars
    BY <2>5 DEF vars, CInv
  <2> QED
    BY <2>1, <2>2, <2>3, <2>4, <2>5 DEF Next
<1> QED
  BY <1>1, InitCInv, InvariantIInv, PTL DEF Spec

(* States with the same timestamp have the same entries for the elements   *)
(* of one writer.                                                          *)
LEMMA SameTimestampSameEntries ==
  ASSUME NEW h, NEW s, NEW o, Sound(s, h), Sound(o, h), Latest(s, h), Latest(o, h),
         s.Timestamp = o.Timestamp
  PROVE  /\ DOMAIN s.Adds \subseteq DOMAIN o.Adds
         /\ DOMAIN s.Removes \subseteq DOMAIN o.Removes
         /\ \A e \in DOMAIN s.Adds \cap SingleWriter : Leq(s.Adds[e], o.Adds[e])
         /\ \A e \in DOMAIN s.Removes \cap SingleWriter : Leq(s.Removes[e], o.Removes[e])
<1>1. \A m \in Node : Known(s, m) = Known(o, m)
  BY DEF Known
<1>2. /\ Reflects(s, h, s.Adds, TRUE) /\ Reflects(o, h, o.Adds, TRUE)
      /\ Reflects(s, h, s.Removes, FALSE) /\ Reflects(o, h, o.Removes, FALSE)
  BY DEF Sound
<1>3. ASSUME NEW e \in DOMAIN s.Adds 
      PROVE  e \in DOMAIN o.Adds /\ (e \in SingleWriter => Leq(s.Adds[e], o.Adds[e]))
  <2>1. PICK m \in Node : \E k \in Known(s, m) :
          h[m][k].isAdd = TRUE /\ h[m][k].element = e /\ h[m][k].TS = s.Adds[e]
    BY <1>2 DEF Reflects
  <2>2. PICK k \in Known(o, m) :
          h[m][k].isAdd = TRUE /\ h[m][k].element = e /\ h[m][k].TS = s.Adds[e]
    BY <1>1, <2>1
  <2>3. e \in DOMAIN o.Adds
    BY <1>2, <2>2 DEF Reflects
  <2>4. e \in SingleWriter => Leq(s.Adds[e], EntryOf(o, h[m][k]))
    BY <2>2 DEF Latest
  <2> QED
    BY <2>2, <2>3, <2>4 DEF EntryOf
<1>4. ASSUME NEW e \in DOMAIN s.Removes
      PROVE  e \in DOMAIN o.Removes /\ (e \in SingleWriter => Leq(s.Removes[e], o.Removes[e]))
  <2>1. PICK m \in Node : \E k \in Known(s, m) :
          h[m][k].isAdd = FALSE /\ h[m][k].element = e /\ h[m][k].TS = s.Removes[e]
    BY <1>2 DEF Reflects
  <2>2. PICK k \in Known(o, m) :
          h[m][k].isAdd = FALSE /\ h[m][k].element = e /\ h[m][k].TS = s.Removes[e]
    BY <1>1, <2>1
  <2>3. e \in DOMAIN o.Removes
    BY <1>2, <2>2 DEF Reflects
  <2>4. e \in SingleWriter => Leq(s.Removes[e], EntryOf(o, h[m][k]))
    BY <2>2 DEF Latest
  <2> QED
    BY <2>2, <2>3, <2>4 DEF EntryOf
<1> QED
  BY <1>3, <1>4

LEMMA SameTimestampSameElements ==
  ASSUME NEW h, NEW s, NEW o, Sound(s, h), Sound(o, h), Latest(s, h), Latest(o, h),
         s.Timestamp = o.Timestamp
  PROVE  GetElements(s) \cap SingleWriter = GetElements(o) \cap SingleWriter
<1>1. DOMAIN s.Adds = DOMAIN o.Adds /\ DOMAIN s.Removes = DOMAIN o.Removes
  BY SameTimestampSameEntries
<1>2. \A e \in DOMAIN s.Adds : IsClock(s.Adds[e]) /\ IsClock(o.Adds[e])
  BY <1>1 DEF Sound, IsLWWSet, IsEntries
<1>3. \A e \in DOMAIN s.Removes : IsClock(s.Removes[e]) /\ IsClock(o.Removes[e])
  BY <1>1 DEF Sound, IsLWWSet, IsEntries
<1>4. \A e \in DOMAIN s.Adds \cap SingleWriter : s.Adds[e] = o.Adds[e]
  BY <1>1, <1>2, SameTimestampSameEntries, LeqAntisymmetric
<1>5. \A e \in DOMAIN s.Removes \cap SingleWriter : s.Removes[e] = o.Removes[e]
  BY <1>1, <1>3, SameTimestampSameEntries, LeqAntisymmetric
<1> QED
  BY <1>1, <1>4, <1>5 DEF GetElements, Contains

(* Nodes that know the same operations agree on the elements of one        *)
(* writer, however the states were merged (LWWSet.Merge).                  *)
THEOREM Convergence == Spec => []OwnedConvergence
<1>1. IInv /\ CInv => OwnedConvergence
  <2> SUFFICES ASSUME IInv, CInv, NEW s1 \in States, NEW s2 \in States,
                      s1.Timestamp = s2.Timestamp
               PROVE  GetElements(s1) \cap SingleWriter = GetElements(s2) \cap SingleWriter
    BY DEF OwnedConvergence
  <2>1. Sound(s1, hist) /\ Latest(s1, hist) /\ Sound(s2, hist) /\ Latest(s2, hist)
    BY DEF IInv, CInv, States
  <2> QED
    BY <2>1, SameTimestampSameElements
<1> QED
  BY <1>1, InvariantCInv, PTL

(* The last operation that a state knows of on an element of one writer is *)
(* the one whose entry it keeps (LWWSet.Merge, applySetOp).                *)
THEOREM LastWriter == Spec => []LastWriterWins
<1>1. IInv /\ CInv => LastWriterWins
  <2> SUFFICES ASSUME IInv, CInv, NEW s \in States, NEW m \in Node, NEW k \in Known(s, m),
                      hist[m][k].element \in SingleWriter
               PROVE  Compare(EntryOf(s, hist[m][k]), hist[m][k].TS) # -1
    BY DEF LastWriterWins
  <2>1. Sound(s, hist) /\ Latest(s, hist) /\ HistoryOK(hist)
    BY DEF IInv, CInv, States
  <2>2. IsOp(hist[m][k]) /\ Leq(hist[m][k].TS, EntryOf(s, hist[m][k]))
    BY <2>1, KnownIssued DEF Sound, Latest
  <2>3. IsClock(EntryOf(s, hist[m][k])) /\ IsClock(hist[m][k].TS)
    BY <2>1, <2>2 DEF Sound, Reflects, IsLWWSet, IsEntries, EntryOf, IsOp
  <2> QED
    BY <2>2, <2>3, CompareCausal, LeqAntisymmetric
<1> QED
  BY <1>1, InvariantCInv, PTL

(* If every element has one writer, nodes that know the same operations    *)
(* show the same elements: CRDTSync's messages set converges.              *)
THEOREM OneWriterConvergence == SingleWriter = Element => (Spec => []StrongConvergence)
<1> SUFFICES ASSUME SingleWriter = Element PROVE Spec => []StrongConvergence
  OBVIOUS
<1>1. IInv /\ OwnedConvergence => StrongConvergence
  <2> SUFFICES ASSUME IInv, OwnedConvergence, NEW s1 \in States, NEW s2 \in States,
                      s1.Timestamp = s2.Timestamp
               PROVE  GetElements(s1) = GetElements(s2)
    BY DEF StrongConvergence
  <2>1. ASSUME NEW s \in States PROVE GetElements(s) \subseteq Element
    <3>1. IsEntries(s.Adds)
      BY <2>1 DEF IInv, States, Sound, IsLWWSet
    <3> QED
      BY <3>1 DEF GetElements, Contains, IsEntries
  <2>2. GetElements(s1) \cap Element = GetElements(s2) \cap Element
    BY DEF OwnedConvergence
  <2> QED
    BY <2>1, <2>2
<1> QED
  BY <1>1, Convergence, InvariantIInv, PTL

-----------------------------------------------------------------------------
(* The refinement of GCounter: who knows how many operations of whom. *)

view == [n \in Node |-> [m \in Node |-> Count(set[n].Timestamp, m)]]

Knowledge == INSTANCE GCounter WITH
  view <- [n \in Node |-> [m \in Node |-> Count(set[n].Timestamp, m)]]

(* The clocks of the sets are a grow-only counter of the operations: the   *)
(* node that issues one is the first to know it, and however exported      *)
(* states are delayed, repeated or overtaken, a merge never takes          *)
(* knowledge back and gives none that the issuer has not (LWWSet.Merge,    *)
(* VectorClock.Merge).                                                     *)
KnowledgeGrows == Knowledge!Spec

(* The views, before and after a step, one by one. *)
LEMMA ViewIs ==
  ASSUME IInv, IInv', NEW n \in Node, NEW m \in Node
  PROVE  /\ view[n][m] = Count(set[n].Timestamp, m) /\ view[n][m] \in Nat
         /\ view'[n][m] = Count(set'[n].Timestamp, m) /\ view'[n][m] \in Nat
<1>1. IsClock(set[n].Timestamp) /\ IsClock(set'[n].Timestamp)
  BY DEF IInv, Sound, IsLWWSet
<1>2. Count(set[n].Timestamp, m) \in Nat /\ Count(set'[n].Timestamp, m) \in Nat
  BY <1>1, CountNat
<1>3. view[n][m] = Count(set[n].Timestamp, m) /\ view'[n][m] = Count(set'[n].Timestamp, m)
  BY DEF view
<1> QED
  BY <1>2, <1>3

(* A node that issues an operation knows one more of its own. *)
LEMMA UpdateRefines ==
  ASSUME IInv, IInv', NEW n \in Node, NEW e \in Element, NEW isAdd \in BOOLEAN, Update(n, e, isAdd)
  PROVE  Knowledge!Inc(n)
<1>1. PICK r : r = applySetOp(set[n], n, e, isAdd, EmptyClock)
  OBVIOUS
<1>2. set'[n] = r /\ \A m \in Node : m # n => set'[m] = set[m]
  BY <1>1 DEF Update, IInv
<1>3. IsLWWSet(set[n]) /\ IsClock(set[n].Timestamp)
  BY DEF IInv, Sound, IsLWWSet
<1>4. r.Timestamp = Increment(set[n].Timestamp, n)
  BY <1>1, <1>3, UpdatedFields DEF FreshStamp
<1>5. /\ Count(set'[n].Timestamp, n) = Count(set[n].Timestamp, n) + 1
      /\ \A m \in Node : m # n => Count(set'[n].Timestamp, m) = Count(set[n].Timestamp, m)
  BY <1>2, <1>3, <1>4, IncrementCount
<1>6. view'[n][n] \in Nat /\ view'[n][n] > view[n][n]
  <2>1. PICK a \in Nat, b \in Nat : a = view[n][n] /\ b = view'[n][n]
    BY ViewIs
  <2>2. b = a + 1
    BY <1>5, <2>1, ViewIs
  <2> QED
    BY <2>1, <2>2
<1>7. view' = [view EXCEPT ![n][n] = view'[n][n]]
  BY <1>2, <1>5 DEF view
<1> QED
  BY <1>6, <1>7 DEF Knowledge!Inc, view

(* A merge raises what a node knows, to no more than the issuers know. *)
LEMMA ApplyRefines ==
  ASSUME IInv, IInv', NEW n \in Node, NEW remote \in msgs, ApplyMerged(n, remote)
  PROVE  Knowledge!Learn(n)
<1>1. PICK merged \in Merge(set[n], remote.state) : set' = [set EXCEPT ![n] = merged]
  BY DEF ApplyMerged
<1>2. set'[n] = merged /\ \A m \in Node : m # n => set'[m] = set[m]
  BY <1>1 DEF IInv
<1>3. /\ IsLWWSet(set[n]) /\ IsLWWSet(remote.state)
      /\ IsClock(set[n].Timestamp) /\ IsClock(remote.state.Timestamp)
  BY DEF IInv, Sound, IsLWWSet
<1>4. merged.Timestamp = MergeClock(set[n].Timestamp, remote.state.Timestamp)
  BY <1>3, MergedFields
<1>5. ASSUME NEW m \in Node
      PROVE  view[n][m] <= view'[n][m] /\ view'[n][m] <= view[m][m]
  <2>1. Count(set[n].Timestamp, m) <= Count(set'[n].Timestamp, m)
    BY <1>2, <1>3, <1>4, MergeCount
  <2>2. hist' = hist
    BY DEF ApplyMerged
  <2>3. Count(set'[n].Timestamp, m) <= Len(hist[m])
    BY <2>2 DEF IInv, Sound, IsIssued
  <2>4. Count(set[m].Timestamp, m) = Len(hist[m])
    BY DEF IInv
  <2> QED
    BY <2>1, <2>3, <2>4, ViewIs
<1>6. view'[n][n] = view[n][n]
  <2>1. PICK a \in Nat, b \in Nat : a = view[n][n] /\ b = view'[n][n]
    BY ViewIs
  <2>2. a <= b /\ b <= a
    BY <1>5, <2>1
  <2> QED
    BY <2>1, <2>2
<1>7. view'[n] \in [Node -> Nat]
  <2>1. view'[n] = [m \in Node |-> view'[n][m]]
    BY DEF view
  <2> QED
    BY <2>1, ViewIs
<1>8. view' = [view EXCEPT ![n] = view'[n]]
  BY <1>2 DEF view
<1> QED
  BY <1>5, <1>6, <1>7, <1>8 DEF Knowledge!Learn, view

(* The timestamps of the sets implement a grow-only counter of the         *)
(* operations, for any nodes, elements and histories: a merge of states    *)
(* that come late, twice or out of order takes no knowledge back and gives *)
(* none ahead of its issuer (applySetOp, LWWSet.Merge).                    *)
THEOREM KnowledgeRefines == Spec => KnowledgeGrows
<1>1. Init => Knowledge!Init
  <2> SUFFICES ASSUME Init PROVE view = [n \in Node |-> [m \in Node |-> 0]]
    BY DEF Knowledge!Init, view
  <2>1. \A n \in Node : set[n].Timestamp = EmptyClock
    BY DEF Init, NewLWWSet
  <2>2. \A n, m \in Node : Count(set[n].Timestamp, m) = 0
    BY <2>1 DEF Count, EmptyClock
  <2> QED
    BY <2>2 DEF view
<1>2. IInv /\ IInv' /\ [Next]_vars => [Knowledge!Next]_view
  <2> SUFFICES ASSUME IInv, IInv', [Next]_vars PROVE [Knowledge!Next]_view
    OBVIOUS
  <2>1. CASE UNCHANGED vars
    BY <2>1 DEF vars, view
  <2>2. ASSUME NEW n \in Node, NEW e \in Element, LWWAdd(n, e) \/ LWWRemove(n, e)
        PROVE  Knowledge!Next
    BY <2>2, UpdateRefines DEF LWWAdd, LWWRemove, Knowledge!Next
  <2>3. ASSUME NEW n \in Node, GetAllCRDTs(n)
        PROVE  UNCHANGED view
    BY <2>3 DEF GetAllCRDTs, view
  <2>4. ASSUME NEW n \in Node, NEW remote \in msgs, ApplyMerged(n, remote)
        PROVE  Knowledge!Next
    BY <2>4, ApplyRefines DEF Knowledge!Next
  <2> QED
    BY <2>1, <2>2, <2>3, <2>4 DEF Next
<1> QED
  BY <1>1, <1>2, InvariantIInv, PTL DEF Spec, KnowledgeGrows, Knowledge!Spec, view
=============================================================================

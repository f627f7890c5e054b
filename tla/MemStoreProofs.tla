--------------------------- MODULE MemStoreProofs ---------------------------
(***************************************************************************)
(* Proofs about MemStore, for any keys, elements, timestamps, sizes and    *)
(* capacities: the log, its byte count, the covering timestamps of the     *)
(* sets and the snapshots that share their clocks.                         *)
(***************************************************************************)
EXTENDS MemStore, CRDTProofs, FiniteSetTheorems, SequenceTheorems

-----------------------------------------------------------------------------
(* Numbers *)

(* A set of naturals has a least element. *)
LEMMA LeastNumber ==
  ASSUME NEW T \in SUBSET Nat, T # {}
  PROVE  Min(T) \in T /\ \A y \in T : Min(T) <= y
<1> DEFINE R == {r \in Nat \X Nat : r[1] < r[2]}
<1>1. IsWellFoundedOn(OpToRel(<, Nat), Nat)
  BY NatLessThanWellFounded
<1>2. OpToRel(<, Nat) = R
  BY DEF OpToRel
<1>3. IsWellFoundedOn(R, Nat)
  BY <1>1, <1>2
<1>4. \A x, y \in Nat : <<x, y>> \in R <=> x < y
  OBVIOUS
<1> HIDE DEF R
<1>5. PICK x \in T : \A y \in T : ~(<<y, x>> \in R)
  BY <1>3, WFMin
<1>6. ASSUME NEW y \in T PROVE x <= y
  <2>1. x \in Nat /\ y \in Nat
    OBVIOUS
  <2>2. ~(y < x)
    BY <1>4, <1>5, <2>1
  <2> QED
    BY <2>1, <2>2
<1> QED
  BY <1>5, <1>6 DEF Min

-----------------------------------------------------------------------------
(* Sequences *)

(* What is left of a log without its first k operations. *)
LEMMA Suffix ==
  ASSUME NEW S, NEW s \in Seq(S), NEW k \in Nat, k <= Len(s),
         NEW rest, rest = SubSeq(s, k + 1, Len(s))
  PROVE  /\ rest \in Seq(S) /\ Len(rest) = Len(s) - k
         /\ \A i \in 1 .. Len(rest) : rest[i] = s[k + i]
         /\ rest = [i \in 1 .. Len(s) - k |-> s[k + i]]
<1>1. Len(s) \in Nat /\ k + 1 \in Int /\ Len(s) \in Int
  OBVIOUS
<1>2. \A i \in k + 1 .. Len(s) : s[i] \in S
  BY <1>1, ElementOfSeq
<1>3. PICK t : t = rest
  OBVIOUS
<1>4. /\ t \in Seq(S)
      /\ Len(t) = IF k + 1 <= Len(s) THEN Len(s) - (k + 1) + 1 ELSE 0
      /\ \A i \in 1 .. Len(s) - (k + 1) + 1 : t[i] = s[k + 1 + i - 1]
  BY <1>1, <1>2, <1>3, SubSeqProperties
<1>5. PICK l \in Nat : l = Len(s)
  BY <1>1
<1>6. Len(t) = l - k /\ l - (k + 1) + 1 = l - k
  BY <1>4, <1>5
<1>7. ASSUME NEW i \in 1 .. l - k PROVE t[i] = s[k + i]
  <2>1. k + 1 + i - 1 = k + i
    OBVIOUS
  <2>2. t[i] = s[k + 1 + i - 1]
    BY <1>4, <1>5, <1>6
  <2> QED
    BY <2>1, <2>2
<1>8. t = [i \in 1 .. l - k |-> t[i]]
  BY <1>4, <1>6, LenProperties
<1>9. t = [i \in 1 .. l - k |-> s[k + i]]
  BY <1>7, <1>8
<1> QED
  BY <1>3, <1>4, <1>5, <1>6, <1>7, <1>9

-----------------------------------------------------------------------------
(* Sizes: an operation takes a natural number of bytes, and the bytes of a *)
(* log are those of its parts.                                             *)

Sized(s, maps) == \A i \in 1 .. Len(s) : approxSize(s[i], maps) \in Nat

Bytes(s, a, b, maps) == UNION {{i} \X (1 .. approxSize(s[i], maps)) : i \in a .. b}

(* A byte is a pair: which operation, and which byte of it. *)
LEMMA InBytes ==
  ASSUME NEW s, NEW a, NEW b, NEW maps, NEW x
  PROVE  x \in Bytes(s, a, b, maps) <=> /\ x = <<x[1], x[2]>> /\ x[1] \in a .. b
                                        /\ x[2] \in 1 .. approxSize(s[x[1]], maps)
<1>1. ASSUME x \in Bytes(s, a, b, maps)
      PROVE  x = <<x[1], x[2]>> /\ x[1] \in a .. b /\ x[2] \in 1 .. approxSize(s[x[1]], maps)
  <2>1. PICK i \in a .. b : x \in {i} \X (1 .. approxSize(s[i], maps))
    BY <1>1 DEF Bytes
  <2> QED
    BY <2>1
<1>2. ASSUME x = <<x[1], x[2]>>, x[1] \in a .. b, x[2] \in 1 .. approxSize(s[x[1]], maps)
      PROVE  x \in Bytes(s, a, b, maps)
  <2>1. x \in {x[1]} \X (1 .. approxSize(s[x[1]], maps))
    BY <1>2
  <2> QED
    BY <1>2, <2>1 DEF Bytes
<1> QED
  BY <1>1, <1>2

LEMMA BytesOfOne ==
  ASSUME NEW i, NEW n \in Nat
  PROVE  IsFiniteSet({i} \X (1 .. n)) /\ Cardinality({i} \X (1 .. n)) = n
<1> DEFINE f == [b \in 1 .. n |-> <<i, b>>]
<1>1. f \in Bijection(1 .. n, {i} \X (1 .. n))
  <2>1. f \in [1 .. n -> {i} \X (1 .. n)]
    OBVIOUS
  <2>2. \A a, b \in 1 .. n : f[a] = f[b] => a = b
    OBVIOUS
  <2>3. ASSUME NEW y \in {i} \X (1 .. n) PROVE \E b \in 1 .. n : f[b] = y
    <3>1. y[2] \in 1 .. n /\ y = <<i, y[2]>>
      OBVIOUS
    <3> QED
      BY <3>1
  <2> HIDE DEF f
  <2> QED
    BY <2>1, <2>2, <2>3 DEF Bijection, Injection, Surjection, IsInjective
<1>2. IsFiniteSet(1 .. n) /\ Cardinality(1 .. n) = n
  BY FS_Interval
<1>3. ExistsBijection(1 .. n, {i} \X (1 .. n))
  BY <1>1 DEF ExistsBijection
<1> QED
  BY <1>2, <1>3, FS_Bijection

(* The bytes are finitely many. *)
LEMMA BytesFinite ==
  ASSUME NEW s, NEW maps, Len(s) \in Nat, Sized(s, maps), NEW a \in Nat \ {0}, NEW b \in 0 .. Len(s)
  PROVE  IsFiniteSet(Bytes(s, a, b, maps))
<1> DEFINE T == {k \in 0 .. b : ~IsFiniteSet(Bytes(s, a, k, maps))}
<1> SUFFICES ASSUME T # {} PROVE FALSE
  OBVIOUS
<1>1. PICK k \in T : \A y \in T : k <= y
  <2>1. T \in SUBSET Nat
    OBVIOUS
  <2> QED
    BY <2>1, LeastNumber
<1>2. CASE a > k
  <2>1. Bytes(s, a, k, maps) = {}
    BY <1>2 DEF Bytes
  <2> QED
    BY <1>1, <2>1, FS_EmptySet
<1>3. CASE a <= k
  <2>1. k - 1 \in 0 .. b /\ k - 1 \notin T
    BY <1>1, <1>3
  <2>2. IsFiniteSet(Bytes(s, a, k - 1, maps))
    BY <2>1
  <2>3. Bytes(s, a, k, maps) = Bytes(s, a, k - 1, maps) \cup ({k} \X (1 .. approxSize(s[k], maps)))
    <3>1. a .. k = (a .. k - 1) \cup {k}
      BY <1>3
    <3> QED
      BY <3>1 DEF Bytes
  <2>4. approxSize(s[k], maps) \in Nat
    BY <1>3 DEF Sized
  <2>5. IsFiniteSet({k} \X (1 .. approxSize(s[k], maps)))
    BY <2>4, BytesOfOne
  <2>6. IsFiniteSet(Bytes(s, a, k, maps))
    <3> DEFINE old == Bytes(s, a, k - 1, maps)
               new == {k} \X (1 .. approxSize(s[k], maps))
    <3>1. IsFiniteSet(old) /\ IsFiniteSet(new) /\ Bytes(s, a, k, maps) = old \cup new
      BY <2>2, <2>3, <2>5
    <3> HIDE DEF old, new
    <3>2. IsFiniteSet(old \cup new)
      BY <3>1, FS_Union
    <3> QED
      BY <3>1, <3>2
  <2> QED
    BY <1>1, <2>6
<1> QED
  BY <1>2, <1>3

(* A log cut in two. *)
LEMMA BytesSplit ==
  ASSUME NEW s, NEW maps, Len(s) \in Nat, Sized(s, maps), NEW k \in 0 .. Len(s)
  PROVE  /\ Usage(s, k, maps) \in Nat /\ Usage(s, Len(s), maps) \in Nat
         /\ Cardinality(Bytes(s, k + 1, Len(s), maps)) \in Nat
         /\ Usage(s, Len(s), maps) = Usage(s, k, maps) + Cardinality(Bytes(s, k + 1, Len(s), maps))
<1> DEFINE front == Bytes(s, 1, k, maps)
           back  == Bytes(s, k + 1, Len(s), maps)
<1>1. IsFiniteSet(front) /\ IsFiniteSet(back)
  BY BytesFinite
<1>2. Bytes(s, 1, Len(s), maps) = front \cup back
  <2>1. 1 .. Len(s) = (1 .. k) \cup (k + 1 .. Len(s))
    OBVIOUS
  <2> QED
    BY <2>1 DEF Bytes
<1>3. front \cap back = {}
  BY DEF Bytes
<1>4. Usage(s, k, maps) = Cardinality(front)
        /\ Usage(s, Len(s), maps) = Cardinality(front \cup back)
  BY <1>2 DEF Usage, Bytes
<1> HIDE DEF front, back
<1>5. /\ IsFiniteSet(front \cup back)
      /\ Cardinality(front \cup back)
           = Cardinality(front) + Cardinality(back) - Cardinality(front \cap back)
  BY <1>1, FS_Union
<1>6. Cardinality(front) \in Nat /\ Cardinality(back) \in Nat /\ Cardinality(front \cap back) = 0
  BY <1>1, <1>3, FS_CardinalityType, FS_EmptySet
<1> QED
  BY <1>4, <1>5, <1>6 DEF back

(* The part that is left has as many bytes as it had in the whole. *)
LEMMA BytesOfRest ==
  ASSUME NEW S, NEW s \in Seq(S), NEW maps, Sized(s, maps), NEW k \in 0 .. Len(s),
         NEW rest, rest = SubSeq(s, k + 1, Len(s))
  PROVE  /\ Usage(s, Len(s), maps) = Usage(s, k, maps) + Usage(rest, Len(rest), maps)
         /\ Usage(rest, Len(rest), maps) \in Nat /\ Usage(s, k, maps) \in Nat
<1>1. /\ Len(s) \in Nat /\ Len(rest) = Len(s) - k
      /\ \A i \in 1 .. Len(rest) : rest[i] = s[k + i]
  BY SubSeqProperties
<1> DEFINE back == Bytes(s, k + 1, Len(s), maps)
           mine == Bytes(rest, 1, Len(rest), maps)
           f    == [x \in mine |-> <<x[1] + k, x[2]>>]
<1>2. Sized(rest, maps) /\ Len(rest) \in Nat
  <2>1. ASSUME NEW i \in 1 .. Len(rest) PROVE approxSize(rest[i], maps) \in Nat
    <3>1. rest[i] = s[k + i] /\ k + i \in 1 .. Len(s)
      BY <1>1
    <3> QED
      BY <3>1 DEF Sized
  <2> QED
    BY <1>1, <2>1 DEF Sized
<1>3. IsFiniteSet(mine)
  <2>1. Len(rest) \in 0 .. Len(rest) /\ 1 \in Nat \ {0}
    BY <1>2
  <2> QED
    BY <1>2, <2>1, BytesFinite
<1>4. \A x : x \in mine <=> /\ x = <<x[1], x[2]>> /\ x[1] \in 1 .. Len(rest)
                            /\ x[2] \in 1 .. approxSize(s[k + x[1]], maps)
  <2>1. \A x : x \in mine <=> /\ x = <<x[1], x[2]>> /\ x[1] \in 1 .. Len(rest)
                              /\ x[2] \in 1 .. approxSize(rest[x[1]], maps)
    BY InBytes
  <2> HIDE DEF mine
  <2> QED
    BY <1>1, <2>1
<1>5. \A x : x \in back <=> /\ x = <<x[1], x[2]>> /\ x[1] \in k + 1 .. Len(s)
                            /\ x[2] \in 1 .. approxSize(s[x[1]], maps)
  BY InBytes
<1>6. ExistsBijection(mine, back)
  <2> HIDE DEF mine, back
  <2>1. f \in [mine -> back]
    <3>1. ASSUME NEW x \in mine PROVE <<x[1] + k, x[2]>> \in back
      <4>1. /\ x[1] \in 1 .. Len(rest) /\ x[2] \in 1 .. approxSize(s[k + x[1]], maps)
        BY <1>4
      <4>2. x[1] + k \in k + 1 .. Len(s) /\ x[1] + k = k + x[1]
        <5>1. PICK i, n : i = x[1] /\ n = Len(s)
          OBVIOUS
        <5>2. n \in Nat /\ i \in 1 .. n - k
          BY <1>1, <4>1, <5>1
        <5>3. i + k \in k + 1 .. n /\ i + k = k + i
          BY <5>2
        <5> QED
          BY <5>1, <5>3
      <4> QED
        BY <1>5, <4>1, <4>2
    <3> QED
      BY <3>1
  <2>2. ASSUME NEW x \in mine, NEW y \in mine, f[x] = f[y] PROVE x = y
    <3>1. x = <<x[1], x[2]>> /\ y = <<y[1], y[2]>> /\ x[1] \in Int /\ y[1] \in Int
      BY <1>1, <1>4
    <3>2. x[1] + k = y[1] + k /\ x[2] = y[2]
      BY <2>2
    <3>3. x[1] = y[1]
      BY <3>1, <3>2
    <3> QED
      BY <3>1, <3>2, <3>3
  <2>3. ASSUME NEW y \in back PROVE \E x \in mine : f[x] = y
    <3>1. y = <<y[1], y[2]>> /\ y[1] \in k + 1 .. Len(s) /\ y[2] \in 1 .. approxSize(s[y[1]], maps)
      BY <1>5
    <3>2. y[1] - k \in 1 .. Len(rest) /\ k + (y[1] - k) = y[1] /\ y[1] - k + k = y[1]
      <4>1. PICK i, n : i = y[1] /\ n = Len(s)
        OBVIOUS
      <4>2. n \in Nat /\ i \in k + 1 .. n
        BY <1>1, <3>1, <4>1
      <4>3. i - k \in 1 .. n - k /\ k + (i - k) = i /\ i - k + k = i
        BY <4>2
      <4> QED
        BY <1>1, <4>1, <4>3
    <3>3. <<y[1] - k, y[2]>> \in mine
      BY <1>4, <3>1, <3>2
    <3> QED
      BY <3>1, <3>2, <3>3
  <2> HIDE DEF f
  <2>4. f \in Bijection(mine, back)
    BY <2>1, <2>2, <2>3 DEF Bijection, Injection, Surjection, IsInjective
  <2> QED
    BY <2>4 DEF ExistsBijection
<1>7. Cardinality(back) = Cardinality(mine)
  BY <1>3, <1>6, FS_Bijection
<1>8. Usage(rest, Len(rest), maps) = Cardinality(mine)
  BY DEF Usage, Bytes
<1> HIDE DEF mine, back
<1>9. /\ Usage(s, k, maps) \in Nat /\ Cardinality(back) \in Nat
      /\ Usage(s, Len(s), maps) = Usage(s, k, maps) + Cardinality(back)
  BY <1>1, BytesSplit DEF back
<1> QED
  BY <1>7, <1>8, <1>9

(* What one more operation adds. *)
LEMMA BytesAppended ==
  ASSUME NEW S, NEW s \in Seq(S), NEW op \in S,
         NEW maps, Sized(s, maps), approxSize(op, maps) \in Nat,
         NEW all, all = Append(s, op)
  PROVE  /\ Sized(all, maps)
         /\ Usage(all, Len(all), maps) = Usage(s, Len(s), maps) + approxSize(op, maps)
<1>1. /\ all \in Seq(S) /\ Len(s) \in Nat /\ Len(all) = Len(s) + 1
      /\ \A i \in 1 .. Len(s) : all[i] = s[i]
      /\ all[Len(all)] = op
  BY AppendProperties
<1>2. Sized(all, maps)
  BY <1>1 DEF Sized
<1>3. Usage(all, Len(s), maps) = Usage(s, Len(s), maps)
  BY <1>1 DEF Usage
<1>4. Bytes(all, Len(s) + 1, Len(all), maps) = {Len(all)} \X (1 .. approxSize(op, maps))
  <2>1. Len(s) + 1 .. Len(all) = {Len(all)}
    BY <1>1
  <2> QED
    BY <1>1, <2>1 DEF Bytes
<1>5. Cardinality(Bytes(all, Len(s) + 1, Len(all), maps)) = approxSize(op, maps)
  <2>1. Cardinality({Len(all)} \X (1 .. approxSize(op, maps))) = approxSize(op, maps)
    BY BytesOfOne
  <2> QED
    BY <1>4, <2>1
<1>6. Len(all) \in Nat /\ Len(s) \in 0 .. Len(all)
  BY <1>1
<1>7. Usage(all, Len(all), maps)
        = Usage(all, Len(s), maps) + Cardinality(Bytes(all, Len(s) + 1, Len(all), maps))
  BY <1>2, <1>6, BytesSplit
<1> QED
  BY <1>2, <1>3, <1>5, <1>7

-----------------------------------------------------------------------------
(* Maps of clocks *)

Clocks == UNION {[S -> Nat] : S \in SUBSET Node}

LEMMA ClocksAreClocks == \A c : c \in Clocks <=> IsClock(c)
BY DEF Clocks, IsClock

(* Every operation has a size, and it shrinks with its clock. *)
LEMMA SizeNat ==
  ASSUME NEW maps \in Seq(Clocks), NEW op, op.TS \in 0 .. Len(maps)
  PROVE  approxSize(op, maps) \in Nat
<1>1. CASE op.TS = 0
  BY <1>1, SizeAssumption DEF approxSize
<1>2. CASE op.TS # 0
  <2>1. op.TS \in 1 .. Len(maps)
    BY <1>2
  <2>2. maps[op.TS] \in Clocks
    BY <2>1, ElementOfSeq
  <2>3. DOMAIN maps[op.TS] \in SUBSET Node
    BY <2>2, ClocksAreClocks DEF IsClock
  <2>4. Cardinality(DOMAIN maps[op.TS]) \in Nat
    BY <2>3, StampAssumption, FS_Subset, FS_CardinalityType
  <2> DEFINE c == Cardinality(DOMAIN maps[op.TS])
  <2> HIDE DEF c
  <2>5. c \in Nat /\ EntrySize \in Nat
    BY <2>4, SizeAssumption DEF c
  <2>6. EntrySize * c \in Nat
    BY <2>5
  <2>7. approxSize(op, maps) = OpSize + EntrySize * c
    BY <1>2 DEF approxSize, c
  <2> QED
    BY <2>6, <2>7, SizeAssumption
<1> QED
  BY <1>1, <1>2

LEMMA SizeShrinks ==
  ASSUME NEW maps \in Seq(Clocks), NEW new \in Seq(Clocks), Len(new) = Len(maps),
         \A r \in 1 .. Len(maps) : DOMAIN new[r] \subseteq DOMAIN maps[r],
         NEW op, op.TS \in 0 .. Len(maps)
  PROVE  approxSize(op, new) <= approxSize(op, maps)
<1>1. CASE op.TS = 0
  BY <1>1, SizeAssumption DEF approxSize
<1>2. CASE op.TS # 0
  <2> DEFINE big   == DOMAIN maps[op.TS]
             small == DOMAIN new[op.TS]
             m == Cardinality(big)
             n == Cardinality(small)
  <2>1. op.TS \in 1 .. Len(maps)
    BY <1>2
  <2>2. maps[op.TS] \in Clocks /\ small \in SUBSET big
    BY <2>1, ElementOfSeq
  <2>3. big \in SUBSET Node
    BY <2>2, ClocksAreClocks DEF IsClock
  <2>4. approxSize(op, maps) = OpSize + EntrySize * m
          /\ approxSize(op, new) = OpSize + EntrySize * n
    BY <1>2 DEF approxSize
  <2> HIDE DEF big, small
  <2>5. IsFiniteSet(big)
    BY <2>3, StampAssumption, FS_Subset
  <2>6. m \in Nat /\ n \in Nat /\ n <= m
    BY <2>2, <2>5, FS_Subset, FS_CardinalityType
  <2> HIDE DEF m, n
  <2>7. EntrySize \in Nat /\ OpSize \in Nat
    BY SizeAssumption
  <2>8. EntrySize * n \in Nat /\ EntrySize * m \in Nat /\ EntrySize * n <= EntrySize * m
    BY <2>6, <2>7
  <2> QED
    BY <2>4, <2>7, <2>8
<1> QED
  BY <1>1, <1>2

(* A log takes no more when its operations have shrunk (PruneVectorClocks). *)
LEMMA UsageShrinks ==
  ASSUME NEW s, Len(s) \in Nat, NEW maps, NEW new, Sized(s, maps), Sized(s, new),
         \A i \in 1 .. Len(s) : approxSize(s[i], new) <= approxSize(s[i], maps)
  PROVE  Usage(s, Len(s), new) <= Usage(s, Len(s), maps)
<1>1. IsFiniteSet(Bytes(s, 1, Len(s), maps))
  BY BytesFinite
<1>2. Bytes(s, 1, Len(s), new) \in SUBSET Bytes(s, 1, Len(s), maps)
  <2>1. ASSUME NEW i \in 1 .. Len(s)
        PROVE  1 .. approxSize(s[i], new) \subseteq 1 .. approxSize(s[i], maps)
    BY DEF Sized
  <2> QED
    BY <2>1 DEF Bytes
<1>3. Cardinality(Bytes(s, 1, Len(s), new)) <= Cardinality(Bytes(s, 1, Len(s), maps))
  BY <1>1, <1>2, FS_Subset
<1> QED
  BY <1>3 DEF Usage, Bytes

\* The maps in new are those in maps, and perhaps more.
ExtendsMaps(maps, new) ==
  /\ maps \in Seq(Clocks) /\ new \in Seq(Clocks)
  /\ Len(maps) <= Len(new)
  /\ \A r \in 1 .. Len(maps) : new[r] = maps[r]

LEMMA SizeKept ==
  ASSUME NEW maps, NEW new, ExtendsMaps(maps, new), NEW op, op.TS \in 0 .. Len(maps)
  PROVE  approxSize(op, new) = approxSize(op, maps)
<1>1. op.TS = 0 \/ op.TS \in 1 .. Len(maps)
  BY DEF ExtendsMaps
<1> QED
  BY <1>1 DEF ExtendsMaps, approxSize

-----------------------------------------------------------------------------
(* The inductive invariant *)

\* The references of Adds or of Removes, to n maps.
RefsOK(f, n) == f \in [DOMAIN f -> 1 .. n]

SetOK(obj, k, n) ==
  /\ obj.type = "lwwset"
  /\ obj = [type |-> "lwwset", Key |-> k, Adds |-> obj.Adds, Removes |-> obj.Removes,
            Timestamp |-> obj.Timestamp]
  /\ RefsOK(obj.Adds, n) /\ RefsOK(obj.Removes, n)
  /\ IsClock(obj.Timestamp)

CounterOK(obj, k) ==
  /\ obj.type = "counter"
  /\ obj = [type |-> "counter", Key |-> k, Counters |-> obj.Counters, Timestamp |-> obj.Timestamp]
  /\ IsClock(obj.Counters) /\ IsClock(obj.Timestamp)

ObjectsOK(objs, n) ==
  /\ DOMAIN objs \subseteq Key
  /\ objs = [k \in DOMAIN objs |-> objs[k]]
  /\ \A k \in DOMAIN objs : SetOK(objs[k], k, n) \/ CounterOK(objs[k], k)

LogOK(l, n) == /\ l \in Seq([Key : Key, TS : Nat])
               /\ \A i \in 1 .. Len(l) : l[i].TS <= n

\* The timestamps of a set's entries are at most its own.
EntriesCovered(f, maps, ts) == \A e \in DOMAIN f : Leq(maps[f[e]], ts)

SetCovered(obj, maps) ==
  /\ EntriesCovered(obj.Adds, maps, obj.Timestamp)
  /\ EntriesCovered(obj.Removes, maps, obj.Timestamp)

Covers(objs, maps) ==
  \A k \in DOMAIN objs : objs[k].type = "lwwset" => SetCovered(objs[k], maps)

\* The clocks that f refers to are those in g, or parts of them.
ShrunkRefs(f, g, maps) ==
  /\ DOMAIN f = DOMAIN g
  /\ \A e \in DOMAIN f : IsRestriction(maps[f[e]], g[e])

\* What a snapshot refers to, against what it held.
SnapshotOK(objs, old, maps) ==
  /\ DOMAIN old = DOMAIN objs
  /\ \A k \in DOMAIN objs :
       IF objs[k].type = "counter" THEN old[k] = objs[k]
       ELSE /\ old[k] = [type |-> "lwwset", Key |-> k, Adds |-> old[k].Adds,
                         Removes |-> old[k].Removes, Timestamp |-> objs[k].Timestamp]
            /\ ShrunkRefs(objs[k].Adds, old[k].Adds, maps)
            /\ ShrunkRefs(objs[k].Removes, old[k].Removes, maps)

StoreTypeOK ==
  /\ clocks \in Seq(Clocks)
  /\ ObjectsOK(objects, Len(clocks))
  /\ ObjectsOK(snap, Len(clocks))
  /\ LogOK(log, Len(clocks))
  /\ metrics \in [TotalOpsAppended : Nat, TotalOpsEvicted : Nat]
  /\ metrics.TotalOpsEvicted <= Len(log)
  /\ bytes \in Int

StoreInv ==
  /\ StoreTypeOK
  /\ HeapIsSuffix
  /\ WithinCapacity
  /\ Covers(objects, clocks)
  /\ SnapshotOK(snap, seen, clocks)

-----------------------------------------------------------------------------
(* The log *)

(* Operations that are still in the log were appended to it. *)
LEMMA OpsOK ==
  ASSUME StoreTypeOK, HeapIsSuffix
  PROVE  LogOK(ops, Len(clocks)) /\ Sized(ops, clocks) /\ Len(clocks) \in Nat
<1> DEFINE ev == metrics.TotalOpsEvicted
<1>1. ev \in Nat /\ log \in Seq([Key : Key, TS : Nat]) /\ ops = SubSeq(log, ev + 1, Len(log))
        /\ ev <= Len(log)
  BY DEF StoreTypeOK, HeapIsSuffix, LogOK
<1> HIDE DEF ev
<1>2. Len(log) \in Nat /\ clocks \in Seq(Clocks) /\ Len(clocks) \in Nat
  BY <1>1 DEF StoreTypeOK
<1>3. /\ ops \in Seq([Key : Key, TS : Nat]) /\ Len(ops) = Len(log) - ev
      /\ \A i \in 1 .. Len(ops) : ops[i] = log[ev + i]
  <2>1. PICK S : S = [Key : Key, TS : Nat]
    OBVIOUS
  <2>2. log \in Seq(S)
    BY <1>1, <2>1
  <2>3. /\ ops \in Seq(S) /\ Len(ops) = Len(log) - ev
        /\ \A i \in 1 .. Len(ops) : ops[i] = log[ev + i]
    BY <1>1, <2>2, Suffix
  <2> QED
    BY <2>1, <2>3
<1>4. ASSUME NEW i \in 1 .. Len(ops) PROVE ops[i].TS \in 0 .. Len(clocks)
  <2>1. ops[i] = log[ev + i] /\ ev + i \in 1 .. Len(log)
    BY <1>1, <1>2, <1>3
  <2>2. log[ev + i].TS <= Len(clocks) /\ log[ev + i].TS \in Nat
    <3>1. log[ev + i] \in [Key : Key, TS : Nat]
      BY <1>1, <2>1, ElementOfSeq
    <3> QED
      BY <2>1, <3>1 DEF StoreTypeOK, LogOK
  <2> QED
    BY <1>2, <2>1, <2>2
<1>5. Sized(ops, clocks)
  BY <1>2, <1>4, SizeNat DEF Sized
<1>6. \A i \in 1 .. Len(ops) : ops[i].TS <= Len(clocks)
  BY <1>2, <1>4
<1> QED
  BY <1>2, <1>3, <1>5, <1>6 DEF LogOK

(* One more operation: the oldest ones go until the rest fits, the log     *)
(* stays a suffix of the history, and the byte count stays at or above     *)
(* what the operations take (OpHeap.Append).                               *)
LEMMA AppendHeap ==
  ASSUME StoreTypeOK, HeapIsSuffix, WithinCapacity,
         NEW new, ExtendsMaps(clocks, new),
         NEW op, op \in [Key : Key, TS : Nat], op.TS <= Len(new),
         AppendToHeap(op, new)
  PROVE  /\ LogOK(log', Len(new))
         /\ metrics' \in [TotalOpsAppended : Nat, TotalOpsEvicted : Nat]
         /\ metrics'.TotalOpsEvicted <= Len(log')
         /\ bytes' \in Int
         /\ HeapIsSuffix'
         /\ Usage(ops', Len(ops'), new) <= bytes'
         /\ bytes' <= CapBytes
<1>1. LogOK(ops, Len(clocks)) /\ Sized(ops, clocks) /\ Len(clocks) \in Nat
  BY OpsOK
<1>2. PICK S : S = [Key : Key, TS : Nat]
  OBVIOUS
<1>3. ops \in Seq(S) /\ log \in Seq(S) /\ op \in S /\ Len(ops) \in Nat /\ Len(log) \in Nat
  BY <1>1, <1>2 DEF LogOK, StoreTypeOK
<1>4. new \in Seq(Clocks) /\ Len(new) \in Nat /\ Len(clocks) <= Len(new)
  BY DEF ExtendsMaps
<1>5. op.TS \in 0 .. Len(new)
  BY <1>4
<1>6. approxSize(op, new) \in Nat
  BY <1>4, <1>5, SizeNat
<1>7. ASSUME NEW i \in 1 .. Len(ops) PROVE approxSize(ops[i], new) = approxSize(ops[i], clocks)
  <2>1. ops[i] \in S
    BY <1>3, ElementOfSeq
  <2>2. ops[i].TS \in 0 .. Len(clocks)
    BY <1>1, <1>2, <2>1 DEF LogOK
  <2> QED
    BY <2>2, SizeKept
<1>8. Sized(ops, new) /\ Usage(ops, Len(ops), new) = Usage(ops, Len(ops), clocks)
  BY <1>1, <1>3, <1>7 DEF Sized, Usage
<1>9. PICK all : all = Append(ops, op)
  OBVIOUS
<1>10. /\ all \in Seq(S) /\ Len(all) = Len(ops) + 1 /\ Len(all) \in Nat
       /\ \A i \in 1 .. Len(ops) : all[i] = ops[i]
       /\ all[Len(all)] = op
  BY <1>3, <1>9, AppendProperties
<1>11. Sized(all, new)
         /\ Usage(all, Len(all), new) = Usage(ops, Len(ops), new) + approxSize(op, new)
  <2>1. PICK s \in Seq(S) : s = ops
    BY <1>3
  <2>2. op \in S /\ Sized(s, new) /\ approxSize(op, new) \in Nat /\ all = Append(s, op)
    BY <1>3, <1>6, <1>8, <1>9, <2>1
  <2>3. Sized(all, new) /\ Usage(all, Len(all), new) = Usage(s, Len(s), new) + approxSize(op, new)
    BY <2>2, BytesAppended
  <2> QED
    BY <2>1, <2>3
<1>12. PICK total : total = bytes + approxSize(op, new)
  OBVIOUS
<1>13. PICK k : k = Evicted(all, total, new)
  OBVIOUS
<1>14. k \in 0 .. Len(all) /\ (k = Len(all) \/ total - Usage(all, k, new) <= CapBytes)
  <2> DEFINE T == {j \in 0 .. Len(all) : j = Len(all) \/ total - Usage(all, j, new) <= CapBytes}
  <2>1. Len(all) \in T /\ T \in SUBSET Nat
    BY <1>10
  <2>2. k = Min(T)
    BY <1>13 DEF Evicted
  <2>3. k \in T
    <3> HIDE DEF T
    <3> QED
      BY <2>1, <2>2, LeastNumber
  <2> QED
    BY <2>3
<1>15. /\ ops' = SubSeq(all, k + 1, Len(all))
       /\ bytes' = total - Usage(all, k, new)
       /\ metrics' = [TotalOpsAppended |-> metrics.TotalOpsAppended + 1,
                      TotalOpsEvicted  |-> metrics.TotalOpsEvicted + k]
       /\ log' = Append(log, op)
  BY <1>9, <1>12, <1>13 DEF AppendToHeap
<1>16. PICK rest : rest = ops'
  OBVIOUS
<1>17. /\ Usage(all, Len(all), new) = Usage(all, k, new) + Usage(rest, Len(rest), new)
       /\ Usage(rest, Len(rest), new) \in Nat /\ Usage(all, k, new) \in Nat
  BY <1>10, <1>11, <1>14, <1>15, <1>16, BytesOfRest
<1>18. Usage(ops, Len(ops), clocks) <= bytes /\ bytes <= CapBytes /\ bytes \in Int
         /\ CapBytes \in Nat
  BY SizeAssumption DEF WithinCapacity, StoreTypeOK
<1>19. Usage(ops, Len(ops), clocks) \in Nat
  <2>1. Len(ops) \in 0 .. Len(ops)
    BY <1>3
  <2> QED
    BY <1>1, <1>3, <2>1, BytesSplit
<1>20. bytes' \in Int /\ Usage(rest, Len(rest), new) <= bytes'
  <2>1. PICK z \in Nat, u \in Nat, v \in Nat, r \in Nat, b \in Int :
          /\ z = approxSize(op, new) /\ u = Usage(ops, Len(ops), clocks)
          /\ v = Usage(all, k, new) /\ r = Usage(rest, Len(rest), new) /\ b = bytes
    BY <1>6, <1>17, <1>18, <1>19
  <2>2. u + z = v + r
    BY <1>8, <1>11, <1>17, <2>1
  <2>3. u <= b
    BY <1>18, <2>1
  <2>4. bytes' = b + z - v
    BY <1>12, <1>15, <2>1
  <2>5. b + z - v \in Int /\ r <= b + z - v
    BY <2>2, <2>3
  <2> QED
    BY <2>1, <2>4, <2>5
<1>21. bytes' <= CapBytes
  <2>1. CASE k = Len(all)
    <3>1. Usage(all, k, new) = Usage(ops, Len(ops), clocks) + approxSize(op, new)
      BY <1>8, <1>11, <2>1
    <3>2. PICK u \in Nat : u = Usage(ops, Len(ops), clocks)
      BY <1>19
    <3>3. PICK z \in Nat : z = approxSize(op, new)
      BY <1>6
    <3>4. bytes' = bytes + z - (u + z)
      <4>1. Usage(all, k, new) = u + z
        BY <3>1, <3>2, <3>3
      <4>2. total = bytes + z
        BY <1>12, <3>3
      <4>3. bytes' = total - Usage(all, k, new)
        BY <1>15
      <4> QED
        BY <1>18, <3>2, <3>3, <4>1, <4>2, <4>3
    <3>5. PICK b \in Int : b = bytes /\ b <= CapBytes
      BY <1>18
    <3>6. b + z - (u + z) <= b
      OBVIOUS
    <3>7. bytes' = b + z - (u + z)
      BY <3>4, <3>5
    <3> QED
      BY <1>18, <3>5, <3>6, <3>7
  <2>2. CASE k # Len(all)
    BY <1>14, <1>15, <2>2
  <2> QED
    BY <2>1, <2>2
<1>22. PICK ev \in Nat : ev = metrics.TotalOpsEvicted
  BY DEF StoreTypeOK
<1>22a. ev <= Len(log) /\ ev \in Nat /\ k \in Nat /\ k <= Len(all)
  BY <1>10, <1>14, <1>22 DEF StoreTypeOK
<1>23. ops = SubSeq(log, ev + 1, Len(log)) /\ metrics.TotalOpsAppended = Len(log)
  BY <1>22 DEF HeapIsSuffix
<1>24. /\ Len(ops) = Len(log) - ev
       /\ \A i \in 1 .. Len(ops) : ops[i] = log[ev + i]
  <2>1. PICK s : s = ops
    OBVIOUS
  <2>2. s = SubSeq(log, ev + 1, Len(log))
    BY <1>23, <2>1
  <2>3. /\ Len(s) = Len(log) - ev
        /\ \A i \in 1 .. Len(s) : s[i] = log[ev + i]
    BY <1>3, <1>22a, <2>2, Suffix
  <2> QED
    BY <2>1, <2>3
<1>25. PICK l : l = Append(log, op)
  OBVIOUS
<1>26. /\ l \in Seq(S) /\ Len(l) = Len(log) + 1 /\ Len(l) \in Nat
       /\ \A i \in 1 .. Len(log) : l[i] = log[i]
       /\ l[Len(l)] = op
  BY <1>3, <1>25, AppendProperties
<1>27. SubSeq(l, ev + k + 1, Len(l)) = SubSeq(all, k + 1, Len(all))
  <2>1. PICK a \in Nat : a = Len(all)
    BY <1>10
  <2>2. Len(l) = ev + a
    <3>1. PICK n \in Nat, o \in Nat : n = Len(log) /\ o = Len(ops)
      BY <1>3
    <3>2. o = n - ev /\ a = o + 1 /\ Len(l) = n + 1
      BY <1>10, <1>24, <1>26, <2>1, <3>1
    <3>3. a = o + 1 /\ o = n - ev => n + 1 = ev + a
      OBVIOUS
    <3> QED
      BY <3>2, <3>3
  <2>3. ASSUME NEW i \in 1 .. a - k PROVE l[ev + k + i] = all[k + i]
    <3>1. k + i \in 1 .. a
      BY <1>14, <2>1
    <3>2. CASE k + i = a
      <4>1. ev + k + i = Len(l)
        BY <1>22a, <2>1, <2>2, <3>2
      <4> QED
        BY <1>10, <1>26, <2>1, <3>2, <4>1
    <3>3. CASE k + i # a
      <4>1. k + i \in 1 .. Len(ops) /\ ev + (k + i) \in 1 .. Len(log) /\ ev + (k + i) = ev + k + i
        <5>1. PICK n \in Nat, o \in Nat : n = Len(log) /\ o = Len(ops)
          BY <1>3
        <5>2. o = n - ev /\ a = o + 1
          BY <1>10, <1>24, <2>1, <5>1
        <5>3. k + i \in 1 .. o
          BY <1>22a, <3>1, <3>3, <5>2
        <5>4. ev + (k + i) \in 1 .. n /\ ev + (k + i) = ev + k + i
          BY <1>22a, <5>2, <5>3
        <5> QED
          BY <5>1, <5>3, <5>4
      <4> QED
        BY <1>10, <1>24, <1>26, <4>1
    <3> QED
      BY <3>2, <3>3
  <2>4. SubSeq(all, k + 1, Len(all)) = [i \in 1 .. a - k |-> all[k + i]]
    <3>1. PICK t : t = SubSeq(all, k + 1, Len(all))
      OBVIOUS
    <3>2. t = [i \in 1 .. Len(all) - k |-> all[k + i]]
      BY <1>10, <1>14, <3>1, Suffix
    <3> QED
      BY <2>1, <3>1, <3>2
  <2>5. SubSeq(l, ev + k + 1, Len(l)) = [i \in 1 .. a - k |-> l[ev + k + i]]
    <3>1. PICK t : t = SubSeq(l, ev + k + 1, Len(l))
      OBVIOUS
    <3>2. PICK j \in Nat : j = ev + k /\ j <= Len(l)
      BY <1>22a, <2>1, <2>2
    <3>3. t = [i \in 1 .. Len(l) - j |-> l[j + i]]
      <4>1. t = SubSeq(l, j + 1, Len(l))
        BY <3>1, <3>2
      <4>2. l \in Seq(S) /\ j <= Len(l)
        BY <1>26, <3>2
      <4> QED
        BY <4>1, <4>2, Suffix
    <3>4. Len(l) - j = a - k
      BY <1>22a, <2>1, <2>2, <3>2
    <3> QED
      BY <3>1, <3>2, <3>3, <3>4
  <2> QED
    BY <2>3, <2>4, <2>5
<1>28. LogOK(log', Len(new))
  <2>1. log' = l /\ l \in Seq([Key : Key, TS : Nat])
    BY <1>2, <1>15, <1>25, <1>26
  <2>2. ASSUME NEW i \in 1 .. Len(l) PROVE l[i].TS <= Len(new)
    <3>1. CASE i = Len(l)
      BY <1>26, <3>1
    <3>2. CASE i # Len(l)
      <4>1. i \in 1 .. Len(log) /\ l[i] = log[i]
        BY <1>3, <1>26, <3>2
      <4>2. log[i] \in S
        BY <1>3, <4>1, ElementOfSeq
      <4>3. log[i].TS \in Nat /\ log[i].TS <= Len(clocks)
        BY <1>2, <4>1, <4>2 DEF StoreTypeOK, LogOK
      <4> QED
        BY <1>1, <1>4, <4>1, <4>3
    <3> QED
      BY <3>1, <3>2
  <2> QED
    BY <2>1, <2>2 DEF LogOK
<1>29. /\ metrics' \in [TotalOpsAppended : Nat, TotalOpsEvicted : Nat]
       /\ metrics'.TotalOpsEvicted = ev + k /\ metrics'.TotalOpsAppended = Len(l)
  <2>1. ev + k \in Nat /\ metrics.TotalOpsAppended + 1 = Len(l) /\ Len(l) \in Nat
    BY <1>23, <1>26, <1>22a
  <2>2. metrics' = [TotalOpsAppended |-> Len(l), TotalOpsEvicted |-> ev + k]
    BY <1>15, <1>22, <2>1
  <2> QED
    BY <2>1, <2>2
<1>30. metrics'.TotalOpsEvicted <= Len(log') /\ HeapIsSuffix'
  <2>1. log' = l
    BY <1>15, <1>25
  <2>2. ev + k <= Len(l)
    BY <1>3, <1>10, <1>22a, <1>24, <1>26
  <2> QED
    BY <1>15, <1>27, <1>29, <2>1, <2>2 DEF HeapIsSuffix
<1> QED
  BY <1>16, <1>20, <1>21, <1>28, <1>29, <1>30

-----------------------------------------------------------------------------
(* More maps *)

(* The map in which a timestamp is passed is a new one, or an old one that *)
(* holds it already.                                                       *)
LEMMA NewMap ==
  ASSUME StoreTypeOK, NEW ts, IsClock(ts),
         NEW ref \in {Len(clocks) + 1} \cup PassedIn(ts),
         NEW new, new = WithMap(ref, ts)
  PROVE  ExtendsMaps(clocks, new) /\ ref \in 1 .. Len(new) /\ new[ref] = ts
<1>1. clocks \in Seq(Clocks) /\ Len(clocks) \in Nat /\ DOMAIN clocks = 1 .. Len(clocks)
        /\ ts \in Clocks
  BY ClocksAreClocks DEF StoreTypeOK
<1>2. CASE ref = Len(clocks) + 1
  <2>1. new = Append(clocks, ts)
    <3>1. Len(clocks) + 1 \notin 1 .. Len(clocks)
      BY <1>1
    <3>2. ref \notin DOMAIN clocks
      BY <1>1, <1>2, <3>1
    <3> QED
      BY <3>2 DEF WithMap
  <2>2. /\ new \in Seq(Clocks) /\ Len(new) = Len(clocks) + 1
        /\ \A i \in 1 .. Len(clocks) : new[i] = clocks[i]
        /\ new[Len(new)] = ts
    BY <1>1, <2>1, AppendProperties
  <2> QED
    BY <1>1, <1>2, <2>2 DEF ExtendsMaps
<1>3. CASE ref # Len(clocks) + 1
  <2>1. PICK op \in Range(log) : ref = op.TS /\ op.TS # 0 /\ clocks[ref] = ts
    BY <1>3 DEF PassedIn
  <2>2. log \in Seq([Key : Key, TS : Nat]) /\ \A i \in 1 .. Len(log) : log[i].TS <= Len(clocks)
    BY DEF StoreTypeOK, LogOK
  <2>3. PICK i \in 1 .. Len(log) : op = log[i]
    BY <2>1, <2>2 DEF Range
  <2>4. op.TS \in Nat /\ op.TS <= Len(clocks)
    <3>1. PICK S : S = [Key : Key, TS : Nat]
      OBVIOUS
    <3>2. log[i] \in S
      BY <2>2, <3>1, ElementOfSeq
    <3> QED
      BY <2>2, <2>3, <3>1, <3>2
  <2>5. ref \in 1 .. Len(clocks)
    BY <1>1, <2>1, <2>4
  <2>6. new = clocks
    BY <1>1, <2>5 DEF WithMap
  <2> QED
    BY <1>1, <2>1, <2>5, <2>6 DEF ExtendsMaps
<1> QED
  BY <1>2, <1>3

(* Objects, covering timestamps and snapshots do not notice new maps. *)
LEMMA ObjectsKept ==
  ASSUME NEW objs, NEW n \in Nat, NEW m \in Nat, n <= m, ObjectsOK(objs, n)
  PROVE  ObjectsOK(objs, m)
<1>1. 1 .. n \subseteq 1 .. m
  OBVIOUS
<1>2. ASSUME NEW f, RefsOK(f, n) PROVE RefsOK(f, m)
  BY <1>1, <1>2 DEF RefsOK
<1>3. \A o, k : SetOK(o, k, n) => SetOK(o, k, m)
  BY <1>2 DEF SetOK
<1> QED
  BY <1>3 DEF ObjectsOK

LEMMA CoversKept ==
  ASSUME NEW objs, NEW maps, NEW new, ExtendsMaps(maps, new), ObjectsOK(objs, Len(maps)),
         Covers(objs, maps)
  PROVE  Covers(objs, new)
<1> SUFFICES ASSUME NEW k \in DOMAIN objs, objs[k].type = "lwwset" PROVE SetCovered(objs[k], new)
  BY DEF Covers
<1>1. RefsOK(objs[k].Adds, Len(maps)) /\ RefsOK(objs[k].Removes, Len(maps))
        /\ SetCovered(objs[k], maps)
  BY DEF ObjectsOK, SetOK, CounterOK, Covers
<1>2. ASSUME NEW f, RefsOK(f, Len(maps)), NEW ts, EntriesCovered(f, maps, ts)
      PROVE  EntriesCovered(f, new, ts)
  BY <1>2 DEF RefsOK, EntriesCovered, ExtendsMaps
<1> QED
  BY <1>1, <1>2 DEF SetCovered

LEMMA SnapshotKept ==
  ASSUME NEW objs, NEW old, NEW maps, NEW new, ExtendsMaps(maps, new), ObjectsOK(objs, Len(maps)),
         SnapshotOK(objs, old, maps)
  PROVE  SnapshotOK(objs, old, new)
<1>1. ASSUME NEW f, RefsOK(f, Len(maps)), NEW g, ShrunkRefs(f, g, maps)
      PROVE  ShrunkRefs(f, g, new)
  BY <1>1 DEF RefsOK, ShrunkRefs, ExtendsMaps
<1>2. ASSUME NEW k \in DOMAIN objs, objs[k].type # "counter"
      PROVE  RefsOK(objs[k].Adds, Len(maps)) /\ RefsOK(objs[k].Removes, Len(maps))
  BY <1>2 DEF ObjectsOK, SetOK, CounterOK
<1> QED
  BY <1>1, <1>2 DEF SnapshotOK

-----------------------------------------------------------------------------
(* One object *)

(* A stored object is replaced by one of its own kind and key. *)
LEMMA PutObject ==
  ASSUME NEW objs, NEW n, ObjectsOK(objs, n), NEW k \in Key,
         NEW obj, SetOK(obj, k, n) \/ CounterOK(obj, k), NEW new, new = Put(objs, k, obj)
  PROVE  ObjectsOK(new, n)
<1>1. DOMAIN new = DOMAIN objs \cup {k} /\ new[k] = obj
        /\ \A j \in DOMAIN objs : j # k => new[j] = objs[j]
  BY DEF Put
<1>2. new = [j \in DOMAIN new |-> new[j]]
  BY DEF Put
<1> QED
  BY <1>1, <1>2 DEF ObjectsOK

LEMMA PutCovers ==
  ASSUME NEW objs, NEW maps, Covers(objs, maps), NEW k,
         NEW obj, obj.type = "lwwset" => SetCovered(obj, maps), NEW new, new = Put(objs, k, obj)
  PROVE  Covers(new, maps)
<1>1. DOMAIN new = DOMAIN objs \cup {k} /\ new[k] = obj
        /\ \A j \in DOMAIN objs : j # k => new[j] = objs[j]
  BY DEF Put
<1> QED
  BY <1>1 DEF Covers

(* A map of entries with one more reference, and a timestamp that has not  *)
(* gone back.                                                              *)
LEMMA EntryPut ==
  ASSUME NEW maps \in Seq(Clocks), NEW f, RefsOK(f, Len(maps)), NEW ts, IsClock(ts),
         EntriesCovered(f, maps, ts), NEW later, IsClock(later), Leq(ts, later)
  PROVE  /\ EntriesCovered(f, maps, later)
         /\ \A e, ref : ref \in 1 .. Len(maps) /\ Leq(maps[ref], later)
              => RefsOK(Put(f, e, ref), Len(maps)) /\ EntriesCovered(Put(f, e, ref), maps, later)
<1>1. ASSUME NEW e \in DOMAIN f PROVE Leq(maps[f[e]], later)
  <2>1. f[e] \in 1 .. Len(maps) /\ Leq(maps[f[e]], ts)
    BY DEF RefsOK, EntriesCovered
  <2>2. IsClock(maps[f[e]])
    BY <2>1, ElementOfSeq, ClocksAreClocks
  <2> QED
    BY <2>1, <2>2, LeqTransitive
<1>2. ASSUME NEW e, NEW ref \in 1 .. Len(maps), Leq(maps[ref], later)
      PROVE  RefsOK(Put(f, e, ref), Len(maps)) /\ EntriesCovered(Put(f, e, ref), maps, later)
  <2> DEFINE g == Put(f, e, ref)
  <2>1. /\ DOMAIN g = DOMAIN f \cup {e} /\ g[e] = ref /\ \A x \in DOMAIN f : x # e => g[x] = f[x]
        /\ g = [x \in DOMAIN g |-> g[x]]
    BY DEF Put
  <2> HIDE DEF g
  <2>2. \A x \in DOMAIN f : f[x] \in 1 .. Len(maps)
    BY DEF RefsOK
  <2>3. \A x \in DOMAIN g : g[x] \in 1 .. Len(maps) /\ Leq(maps[g[x]], later)
    BY <1>1, <1>2, <2>1, <2>2
  <2>4. g \in [DOMAIN g -> 1 .. Len(maps)]
    BY <2>1, <2>3
  <2> QED
    BY <2>3, <2>4 DEF RefsOK, EntriesCovered, g
<1> QED
  BY <1>1, <1>2 DEF EntriesCovered

(* applySetOp leaves a set whose timestamp covers its entries. *)
LEMMA SetAfterOp ==
  ASSUME NEW maps \in Seq(Clocks), NEW set, NEW k, SetOK(set, k, Len(maps)), SetCovered(set, maps),
         NEW e, NEW isAdd \in BOOLEAN, NEW ref \in 1 .. Len(maps), NEW stamp, IsClock(stamp),
         maps[ref] = stamp, NEW new, new = applySetOpRef(set, e, isAdd, ref, stamp)
  PROVE  SetOK(new, k, Len(maps)) /\ SetCovered(new, maps)
<1>1. PICK a, b, t : a = set.Adds /\ b = set.Removes /\ t = set.Timestamp
  OBVIOUS
<1>2. set = [type |-> "lwwset", Key |-> k, Adds |-> a, Removes |-> b, Timestamp |-> t]
  BY <1>1 DEF SetOK
<1>3. /\ RefsOK(a, Len(maps)) /\ RefsOK(b, Len(maps)) /\ IsClock(t)
      /\ EntriesCovered(a, maps, t) /\ EntriesCovered(b, maps, t)
  BY <1>1 DEF SetOK, SetCovered
<1>4. PICK later : later = MergeClock(t, stamp)
  OBVIOUS
<1>5. IsClock(later) /\ Leq(t, later) /\ Leq(maps[ref], later)
  BY <1>3, <1>4, MergeClockType, MergeAbove
<1>6. /\ EntriesCovered(a, maps, later)
      /\ RefsOK(Put(a, e, ref), Len(maps)) /\ EntriesCovered(Put(a, e, ref), maps, later)
  BY <1>3, <1>5, EntryPut
<1>7. /\ EntriesCovered(b, maps, later)
      /\ RefsOK(Put(b, e, ref), Len(maps)) /\ EntriesCovered(Put(b, e, ref), maps, later)
  BY <1>3, <1>5, EntryPut
<1>8. PICK a2, b2 : /\ a2 = IF isAdd THEN Put(a, e, ref) ELSE a
                    /\ b2 = IF isAdd THEN b ELSE Put(b, e, ref)
  OBVIOUS
<1>9. new = [type |-> "lwwset", Key |-> k, Adds |-> a2, Removes |-> b2, Timestamp |-> later]
  BY <1>2, <1>4, <1>8 DEF applySetOpRef
<1>10. /\ RefsOK(a2, Len(maps)) /\ EntriesCovered(a2, maps, later)
       /\ RefsOK(b2, Len(maps)) /\ EntriesCovered(b2, maps, later)
  BY <1>3, <1>6, <1>7, <1>8
<1> QED
  BY <1>5, <1>9, <1>10 DEF SetOK, SetCovered

-----------------------------------------------------------------------------
(* The steps of the store *)

(* What is common to the operations of AppendOp: they change one object,   *)
(* may bring a map, and go to the log.                                     *)
LEMMA AppendedKeepsInv ==
  ASSUME StoreInv, NEW new, ExtendsMaps(clocks, new), clocks' = new,
         ObjectsOK(objects', Len(new)), Covers(objects', new),
         NEW op, op \in [Key : Key, TS : Nat], op.TS <= Len(new), AppendToHeap(op, new),
         UNCHANGED <<snap, seen>>
  PROVE  StoreInv'
<1>1. StoreTypeOK /\ HeapIsSuffix /\ WithinCapacity /\ SnapshotOK(snap, seen, clocks)
  BY DEF StoreInv
<1>2. /\ LogOK(log', Len(new))
      /\ metrics' \in [TotalOpsAppended : Nat, TotalOpsEvicted : Nat]
      /\ metrics'.TotalOpsEvicted <= Len(log')
      /\ bytes' \in Int
      /\ HeapIsSuffix'
      /\ Usage(ops', Len(ops'), new) <= bytes'
      /\ bytes' <= CapBytes
  BY <1>1, AppendHeap
<1>3. PICK sn, se : sn = snap /\ se = seen
  OBVIOUS
<1>4. ObjectsOK(sn, Len(clocks)) /\ SnapshotOK(sn, se, clocks)
  BY <1>1, <1>3 DEF StoreTypeOK
<1>5. new \in Seq(Clocks) /\ Len(clocks) \in Nat /\ Len(new) \in Nat /\ Len(clocks) <= Len(new)
  BY DEF ExtendsMaps
<1>6. ObjectsOK(sn, Len(new)) /\ SnapshotOK(sn, se, new)
  BY <1>4, <1>5, ObjectsKept, SnapshotKept
<1>7. ObjectsOK(snap', Len(new)) /\ SnapshotOK(snap', seen', new)
  BY <1>3, <1>6
<1>8. StoreTypeOK'
  BY <1>2, <1>5, <1>7 DEF StoreTypeOK
<1> QED
  BY <1>2, <1>7, <1>8 DEF StoreInv, WithinCapacity

(* The set that an operation finds: one in the store, or a new one. *)
LEMMA SetFound ==
  ASSUME StoreInv, NEW k \in Key, NEW set, set = getOrCreateSet(k), set.type = "lwwset"
  PROVE  SetOK(set, k, Len(clocks)) /\ SetCovered(set, clocks)
<1>1. CASE k \in DOMAIN objects
  <2>1. set = objects[k]
    BY <1>1 DEF getOrCreateSet
  <2> QED
    BY <1>1, <2>1 DEF StoreInv, StoreTypeOK, ObjectsOK, CounterOK, Covers
<1>2. CASE k \notin DOMAIN objects
  <2>1. set = [type |-> "lwwset", Key |-> k, Adds |-> EmptyClock, Removes |-> EmptyClock,
               Timestamp |-> EmptyClock]
    BY <1>2 DEF getOrCreateSet, NewLWWSet
  <2>2. DOMAIN EmptyClock = {} /\ RefsOK(EmptyClock, Len(clocks))
    BY DEF EmptyClock, RefsOK
  <2>3. IsClock(EmptyClock)
    BY EmptyClockType
  <2> QED
    BY <2>1, <2>2, <2>3 DEF SetOK, SetCovered, EntriesCovered
<1> QED
  BY <1>1, <1>2

(* A set operation in its parts: the set it finds, the stamp, the map that *)
(* holds it, the maps afterwards and the new object.                       *)
SetStep(n, k, e, isAdd, ts, set, stamp, ref, new, obj) ==
  /\ set = getOrCreateSet(k)
  /\ stamp = IF DOMAIN ts # {} THEN ts ELSE Increment(set.Timestamp, n)
  /\ IsClock(stamp)
  /\ SetOK(set, k, Len(new)) /\ SetCovered(set, new)
  /\ ExtendsMaps(clocks, new) /\ clocks' = new
  /\ ref \in 1 .. Len(new) /\ new[ref] = stamp
  /\ obj = applySetOpRef(set, e, isAdd, ref, stamp)
  /\ objects' = Put(objects, k, obj)
  /\ AppendToHeap([Key |-> k, TS |-> IF DOMAIN ts # {} THEN ref ELSE 0], new)

LEMMA SetOpShape ==
  ASSUME StoreInv, NEW n \in Node, NEW k \in Key, NEW e, NEW isAdd \in BOOLEAN,
         NEW ts, IsClock(ts), SetOp(n, k, e, isAdd, ts)
  PROVE  \E set, stamp, ref, new, obj : SetStep(n, k, e, isAdd, ts, set, stamp, ref, new, obj)
<1>1. PICK set : set = getOrCreateSet(k)
  OBVIOUS
<1>2. PICK stamp : stamp = IF DOMAIN ts # {} THEN ts ELSE Increment(set.Timestamp, n)
  OBVIOUS
<1>3. set.type = "lwwset"
  BY <1>1 DEF SetOp
<1>4. SetOK(set, k, Len(clocks)) /\ SetCovered(set, clocks)
  BY <1>1, <1>3, SetFound
<1>5. IsClock(stamp)
  BY <1>2, <1>4, IncrementType DEF SetOK
<1>6. PICK ref \in IF DOMAIN ts # {} THEN PassedIn(ts) ELSE {Len(clocks) + 1} :
        /\ clocks'  = WithMap(ref, stamp)
        /\ objects' = Put(objects, k, applySetOpRef(set, e, isAdd, ref, stamp))
        /\ AppendToHeap([Key |-> k, TS |-> IF DOMAIN ts # {} THEN ref ELSE 0], clocks')
  BY <1>1, <1>2 DEF SetOp, FreshStamp
<1>7. PICK new : new = clocks'
  OBVIOUS
<1>8. ref \in {Len(clocks) + 1} \cup PassedIn(stamp)
  BY <1>2, <1>6
<1>9. new = WithMap(ref, stamp)
  BY <1>6, <1>7
<1>10. ExtendsMaps(clocks, new) /\ ref \in 1 .. Len(new) /\ new[ref] = stamp
  BY <1>5, <1>8, <1>9, NewMap DEF StoreInv
<1>11. SetOK(set, k, Len(new)) /\ SetCovered(set, new)
  <2>1. 1 .. Len(clocks) \subseteq 1 .. Len(new)
    BY <1>10 DEF ExtendsMaps
  <2>2. \A f : RefsOK(f, Len(clocks)) => RefsOK(f, Len(new))
    BY <2>1 DEF RefsOK
  <2>3. \A f, t : RefsOK(f, Len(clocks)) /\ EntriesCovered(f, clocks, t)
                    => EntriesCovered(f, new, t)
    BY <1>10 DEF RefsOK, EntriesCovered, ExtendsMaps
  <2> QED
    BY <1>4, <2>2, <2>3 DEF SetOK, SetCovered
<1>12. PICK obj : obj = applySetOpRef(set, e, isAdd, ref, stamp)
  OBVIOUS
<1>13. SetStep(n, k, e, isAdd, ts, set, stamp, ref, new, obj)
  BY <1>1, <1>2, <1>5, <1>6, <1>7, <1>10, <1>11, <1>12 DEF SetStep
<1> QED
  BY <1>13

LEMMA SetOpKeepsInv ==
  ASSUME StoreInv, NEW n \in Node, NEW k \in Key, NEW e, NEW isAdd \in BOOLEAN,
         NEW ts, IsClock(ts), SetOp(n, k, e, isAdd, ts)
  PROVE  StoreInv'
<1>0. PICK set, stamp, ref, new, obj : SetStep(n, k, e, isAdd, ts, set, stamp, ref, new, obj)
  BY SetOpShape
<1>1. /\ set = getOrCreateSet(k)
      /\ stamp = IF DOMAIN ts # {} THEN ts ELSE Increment(set.Timestamp, n)
      /\ IsClock(stamp)
      /\ SetOK(set, k, Len(new)) /\ SetCovered(set, new)
      /\ ExtendsMaps(clocks, new) /\ clocks' = new
      /\ ref \in 1 .. Len(new) /\ new[ref] = stamp
      /\ obj = applySetOpRef(set, e, isAdd, ref, stamp)
      /\ objects' = Put(objects, k, obj)
      /\ AppendToHeap([Key |-> k, TS |-> IF DOMAIN ts # {} THEN ref ELSE 0], new)
  BY <1>0 DEF SetStep
<1>2. new \in Seq(Clocks) /\ Len(new) \in Nat /\ Len(clocks) \in Nat /\ Len(clocks) <= Len(new)
  BY <1>1 DEF ExtendsMaps
<1>3. SetOK(obj, k, Len(new)) /\ SetCovered(obj, new)
  BY <1>1, <1>2, SetAfterOp
<1>4. PICK old, objs : old = objects /\ objs = Put(old, k, obj)
  OBVIOUS
<1>5. ObjectsOK(old, Len(clocks)) /\ Covers(old, clocks)
  BY <1>4 DEF StoreInv, StoreTypeOK
<1>6. ObjectsOK(old, Len(new)) /\ Covers(old, new)
  BY <1>1, <1>2, <1>5, ObjectsKept, CoversKept
<1>7. ObjectsOK(objs, Len(new)) /\ Covers(objs, new)
  BY <1>3, <1>4, <1>6, PutObject, PutCovers
<1>8. objects' = objs
  BY <1>1, <1>4
<1>9. PICK op : op = [Key |-> k, TS |-> IF DOMAIN ts # {} THEN ref ELSE 0]
  OBVIOUS
<1>10. op \in [Key : Key, TS : Nat] /\ op.TS <= Len(new)
  <2>1. PICK t : t = IF DOMAIN ts # {} THEN ref ELSE 0
    OBVIOUS
  <2>2. t \in Nat /\ t <= Len(new)
    BY <1>1, <1>2, <2>1
  <2>3. op = [Key |-> k, TS |-> t]
    BY <1>9, <2>1
  <2> QED
    BY <2>2, <2>3
<1>11. AppendToHeap(op, new)
  BY <1>1, <1>9
<1>12. UNCHANGED <<snap, seen>>
  BY DEF SetOp
<1>13. ExtendsMaps(clocks, new) /\ clocks' = new
  BY <1>1
<1>14. ObjectsOK(objects', Len(new)) /\ Covers(objects', new)
  BY <1>7, <1>8
<1> QED
  BY <1>10, <1>11, <1>12, <1>13, <1>14, AppendedKeepsInv

(* The counter that an increment finds, and what it leaves. *)
LEMMA CounterAfterInc ==
  ASSUME StoreInv, NEW n \in Node, NEW k \in Key, NEW ts, IsClock(ts),
         NEW cnt, cnt = getOrCreateCounter(k), cnt.type = "counter",
         NEW new, new = IncrementWithTimestamp(cnt, n, 1, ts)
  PROVE  CounterOK(new, k)
<1>1. CounterOK(cnt, k)
  <2>1. CASE k \in DOMAIN objects
    BY <2>1 DEF getOrCreateCounter, StoreInv, StoreTypeOK, ObjectsOK, SetOK
  <2>2. CASE k \notin DOMAIN objects
    <3>1. cnt = [type |-> "counter", Key |-> k, Counters |-> EmptyClock, Timestamp |-> EmptyClock]
      BY <2>2 DEF getOrCreateCounter, NewCounter
    <3> QED
      BY <3>1, EmptyClockType DEF CounterOK
  <2> QED
    BY <2>1, <2>2
<1>2. PICK c, t : c = cnt.Counters /\ t = cnt.Timestamp
  OBVIOUS
<1>3. cnt = [type |-> "counter", Key |-> k, Counters |-> c, Timestamp |-> t] /\ IsClock(c)
        /\ IsClock(t)
  BY <1>1, <1>2 DEF CounterOK
<1>4. PICK c2 : c2 = AddCount(c, n, 1)
  OBVIOUS
<1>5. IsClock(c2)
  <2>1. /\ DOMAIN c2 = DOMAIN c \cup {n} /\ c2 = [x \in DOMAIN c2 |-> c2[x]]
        /\ \A x \in DOMAIN c2 :
             c2[x] = IF x = n THEN (IF n \in DOMAIN c THEN c[n] + 1 ELSE 1) ELSE c[x]
    BY <1>4 DEF AddCount, Put
  <2>2. DOMAIN c \subseteq Node /\ \A x \in DOMAIN c : c[x] \in Nat
    BY <1>3, ClockShape
  <2>3. \A x \in DOMAIN c2 : c2[x] \in Nat
    BY <2>1, <2>2
  <2> QED
    BY <2>1, <2>2, <2>3, ClockIntro
<1>6. PICK t2 : t2 = IF DOMAIN ts # {} THEN MergeClock(t, ts) ELSE Increment(t, n)
  OBVIOUS
<1>7. IsClock(t2)
  BY <1>3, <1>6, MergeClockType, IncrementType
<1>8. new = [type |-> "counter", Key |-> k, Counters |-> c2, Timestamp |-> t2]
  <2>1. new = [cnt EXCEPT !.Counters = c2, !.Timestamp = t2]
    BY <1>2, <1>4, <1>6 DEF IncrementWithTimestamp
  <2>2. PICK old : old = cnt
    OBVIOUS
  <2>3. /\ old = [type |-> "counter", Key |-> k, Counters |-> c, Timestamp |-> t]
        /\ new = [old EXCEPT !.Counters = c2, !.Timestamp = t2]
    BY <1>3, <2>1, <2>2
  <2> QED
    BY <2>3
<1> QED
  BY <1>5, <1>7, <1>8 DEF CounterOK

LEMMA CounterIncKeepsInv ==
  ASSUME StoreInv, NEW n \in Node, NEW k \in Key, NEW ts, IsClock(ts), CounterInc(n, k, 1, ts)
  PROVE  StoreInv'
<1>1. PICK cnt, obj : cnt = getOrCreateCounter(k) /\ obj = IncrementWithTimestamp(cnt, n, 1, ts)
  OBVIOUS
<1>2. cnt.type = "counter" /\ objects' = Put(objects, k, obj) /\ UNCHANGED <<snap, seen>>
  BY <1>1 DEF CounterInc
<1>3. PICK ref \in IF DOMAIN ts # {} THEN PassedIn(ts) ELSE {0} :
        /\ clocks' = IF DOMAIN ts # {} THEN WithMap(ref, ts) ELSE clocks
        /\ AppendToHeap([Key |-> k, TS |-> ref], clocks')
  BY DEF CounterInc
<1>4. PICK new : new = clocks'
  OBVIOUS
<1>5. ExtendsMaps(clocks, new) /\ ref \in 0 .. Len(new)
  <2>1. CASE DOMAIN ts # {}
    <3>1. new = WithMap(ref, ts) /\ ref \in {Len(clocks) + 1} \cup PassedIn(ts)
      BY <1>3, <1>4, <2>1
    <3>2. ExtendsMaps(clocks, new) /\ ref \in 1 .. Len(new)
      BY <3>1, NewMap DEF StoreInv
    <3> QED
      BY <3>2
  <2>2. CASE DOMAIN ts = {}
    <3>1. new = clocks /\ ref = 0 /\ clocks \in Seq(Clocks)
      BY <1>3, <1>4, <2>2 DEF StoreInv, StoreTypeOK
    <3>2. Len(clocks) \in Nat
      BY <3>1
    <3> QED
      BY <3>1, <3>2 DEF ExtendsMaps
  <2> QED
    BY <2>1, <2>2
<1>6. new \in Seq(Clocks) /\ Len(new) \in Nat /\ Len(clocks) \in Nat /\ Len(clocks) <= Len(new)
  BY <1>5 DEF ExtendsMaps
<1>7. CounterOK(obj, k)
  BY <1>1, <1>2, CounterAfterInc
<1>8. PICK old, objs : old = objects /\ objs = Put(old, k, obj)
  OBVIOUS
<1>9. ObjectsOK(old, Len(clocks)) /\ Covers(old, clocks)
  BY <1>8 DEF StoreInv, StoreTypeOK
<1>10. ObjectsOK(old, Len(new)) /\ Covers(old, new)
  BY <1>5, <1>6, <1>9, ObjectsKept, CoversKept
<1>11. obj.type # "lwwset"
  BY <1>7 DEF CounterOK
<1>12. ObjectsOK(objs, Len(new)) /\ Covers(objs, new)
  BY <1>7, <1>8, <1>10, <1>11, PutObject, PutCovers
<1>13. ObjectsOK(objects', Len(new)) /\ Covers(objects', new)
  BY <1>2, <1>8, <1>12
<1>14. PICK op : op = [Key |-> k, TS |-> ref]
  OBVIOUS
<1>15. op \in [Key : Key, TS : Nat] /\ op.TS <= Len(new)
  <2>1. ref \in Nat /\ ref <= Len(new)
    BY <1>5, <1>6
  <2> QED
    BY <1>14, <2>1
<1>16. AppendToHeap(op, new) /\ clocks' = new
  BY <1>3, <1>4, <1>14
<1> QED
  BY <1>2, <1>5, <1>13, <1>15, <1>16, AppendedKeepsInv

-----------------------------------------------------------------------------
(* Pruning *)

LEMMA PruneFacts ==
  ASSUME NEW a, IsClock(a), NEW active
  PROVE  /\ IsClock(Prune(a, active)) /\ DOMAIN Prune(a, active) \subseteq DOMAIN a
         /\ IsRestriction(Prune(a, active), a)
         /\ \A b : IsClock(b) /\ Leq(a, b) => Leq(Prune(a, active), Prune(b, active))
         /\ \A b : IsRestriction(a, b) => IsRestriction(Prune(a, active), b)
BY PruneType DEF Prune, IsRestriction, Leq

(* Pruning takes entries out of the maps that live sets refer to, and out  *)
(* of the sets' own timestamps, so that these go on covering the entries;  *)
(* the byte count stays, and what the log takes can only have shrunk.      *)
LEMMA PruneKeepsInv ==
  ASSUME StoreInv, NEW active \in SUBSET Node, PruneVectorClocks(active)
  PROVE  StoreInv'
<1>1. clocks \in Seq(Clocks) /\ Len(clocks) \in Nat /\ DOMAIN clocks = 1 .. Len(clocks)
  BY DEF StoreInv, StoreTypeOK
<1>2. ASSUME NEW r \in 1 .. Len(clocks) PROVE IsClock(clocks[r])
  BY <1>1, ElementOfSeq, ClocksAreClocks
<1>3. PICK new : new = clocks'
  OBVIOUS
<1>4. new = [r \in 1 .. Len(clocks) |->
               IF r \in LiveRefs THEN Prune(clocks[r], active) ELSE clocks[r]]
  BY <1>1, <1>3 DEF PruneVectorClocks
<1>5. ASSUME NEW r \in 1 .. Len(clocks)
      PROVE  /\ new[r] \in Clocks /\ DOMAIN new[r] \subseteq DOMAIN clocks[r]
             /\ r \in LiveRefs => new[r] = Prune(clocks[r], active)
             /\ \A g : IsRestriction(clocks[r], g) => IsRestriction(new[r], g)
  <2>1. new[r] = IF r \in LiveRefs THEN Prune(clocks[r], active) ELSE clocks[r]
    BY <1>4
  <2>2. CASE r \in LiveRefs
    BY <1>2, <2>1, <2>2, PruneFacts, ClocksAreClocks
  <2>3. CASE r \notin LiveRefs
    BY <1>2, <2>1, <2>3, ClocksAreClocks
  <2> QED
    BY <2>2, <2>3
<1>6. new \in Seq(Clocks) /\ Len(new) = Len(clocks)
  <2>1. \A r \in 1 .. Len(clocks) : new[r] \in Clocks
    BY <1>5
  <2>2. PICK l \in Nat : l = Len(clocks)
    BY <1>1
  <2>3. new \in [1 .. l -> Clocks]
    BY <1>4, <2>1, <2>2
  <2> QED
    BY <2>2, <2>3
<1>7. PICK objs : objs = objects'
  OBVIOUS
<1>8. /\ objs = [k \in DOMAIN objects |-> [objects[k] EXCEPT !.Timestamp = Prune(@, active)]]
      /\ UNCHANGED <<ops, bytes, metrics, snap, log, seen>>
  BY <1>7 DEF PruneVectorClocks
<1>9. ASSUME NEW k \in DOMAIN objects, SetOK(objects[k], k, Len(clocks))
      PROVE  SetOK(objs[k], k, Len(clocks)) /\ SetCovered(objs[k], new)
  <2>1. PICK a, b, t : a = objects[k].Adds /\ b = objects[k].Removes /\ t = objects[k].Timestamp
    OBVIOUS
  <2>2. /\ objects[k] = [type |-> "lwwset", Key |-> k, Adds |-> a, Removes |-> b, Timestamp |-> t]
        /\ objects[k].type = "lwwset"
        /\ RefsOK(a, Len(clocks)) /\ RefsOK(b, Len(clocks)) /\ IsClock(t)
    BY <1>9, <2>1 DEF SetOK
  <2>3. EntriesCovered(a, clocks, t) /\ EntriesCovered(b, clocks, t)
    BY <2>1, <2>2 DEF StoreInv, Covers, SetCovered
  <2>4. PICK t2 : t2 = Prune(t, active)
    OBVIOUS
  <2>5. objs[k] = [type |-> "lwwset", Key |-> k, Adds |-> a, Removes |-> b, Timestamp |-> t2]
    BY <1>8, <2>2, <2>4
  <2>6. IsClock(t2)
    BY <2>2, <2>4, PruneFacts
  <2>7. Range(a) \cup Range(b) \subseteq LiveRefs
    BY <2>1, <2>2 DEF LiveRefs
  <2>8. ASSUME NEW f, RefsOK(f, Len(clocks)), Range(f) \subseteq LiveRefs,
               EntriesCovered(f, clocks, t)
        PROVE  EntriesCovered(f, new, t2)
    <3> SUFFICES ASSUME NEW e \in DOMAIN f PROVE Leq(new[f[e]], t2)
      BY DEF EntriesCovered
    <3>1. f[e] \in 1 .. Len(clocks) /\ f[e] \in LiveRefs /\ Leq(clocks[f[e]], t)
      BY <2>8 DEF RefsOK, Range, EntriesCovered
    <3>2. new[f[e]] = Prune(clocks[f[e]], active) /\ IsClock(clocks[f[e]])
      BY <1>2, <1>5, <3>1
    <3> QED
      BY <2>2, <2>4, <3>1, <3>2, PruneFacts
  <2> QED
    BY <2>2, <2>3, <2>5, <2>6, <2>7, <2>8 DEF SetOK, SetCovered
<1>10. ASSUME NEW k \in DOMAIN objects, CounterOK(objects[k], k)
       PROVE  CounterOK(objs[k], k)
  <2>1. PICK c, t : c = objects[k].Counters /\ t = objects[k].Timestamp
    OBVIOUS
  <2>2. /\ objects[k] = [type |-> "counter", Key |-> k, Counters |-> c, Timestamp |-> t]
        /\ IsClock(c) /\ IsClock(t)
    BY <1>10, <2>1 DEF CounterOK
  <2>3. PICK t2 : t2 = Prune(t, active)
    OBVIOUS
  <2>4. objs[k] = [type |-> "counter", Key |-> k, Counters |-> c, Timestamp |-> t2]
    BY <1>8, <2>2, <2>3
  <2>5. IsClock(t2)
    BY <2>2, <2>3, PruneFacts
  <2> QED
    BY <2>2, <2>4, <2>5 DEF CounterOK
<1>11. DOMAIN objects \subseteq Key
         /\ \A k \in DOMAIN objects : SetOK(objects[k], k, Len(clocks)) \/ CounterOK(objects[k], k)
  BY DEF StoreInv, StoreTypeOK, ObjectsOK
<1>12. DOMAIN objs = DOMAIN objects /\ objs = [k \in DOMAIN objs |-> objs[k]]
  BY <1>8
<1>13. ObjectsOK(objs, Len(new)) /\ Covers(objs, new)
  <2>1. ObjectsOK(objs, Len(clocks))
    BY <1>9, <1>10, <1>11, <1>12 DEF ObjectsOK
  <2>2. Covers(objs, new)
    BY <1>9, <1>10, <1>11, <1>12 DEF Covers, CounterOK
  <2> QED
    BY <1>6, <2>1, <2>2
<1>14. SnapshotOK(snap, seen, new)
  <2>1. ObjectsOK(snap, Len(clocks)) /\ SnapshotOK(snap, seen, clocks)
    BY DEF StoreInv, StoreTypeOK
  <2>2. ASSUME NEW f, RefsOK(f, Len(clocks)), NEW g, ShrunkRefs(f, g, clocks)
        PROVE  ShrunkRefs(f, g, new)
    <3>1. ASSUME NEW e \in DOMAIN f PROVE IsRestriction(new[f[e]], g[e])
      <4>1. f[e] \in 1 .. Len(clocks) /\ IsRestriction(clocks[f[e]], g[e])
        BY <2>2 DEF RefsOK, ShrunkRefs
      <4> QED
        BY <1>5, <4>1
    <3> QED
      BY <2>2, <3>1 DEF ShrunkRefs
  <2>3. ASSUME NEW k \in DOMAIN snap, snap[k].type # "counter"
        PROVE  RefsOK(snap[k].Adds, Len(clocks)) /\ RefsOK(snap[k].Removes, Len(clocks))
    BY <2>1, <2>3 DEF ObjectsOK, SetOK, CounterOK
  <2> QED
    BY <2>1, <2>2, <2>3 DEF SnapshotOK
<1>15. StoreTypeOK'
  <2>1. /\ ObjectsOK(snap, Len(clocks)) /\ LogOK(log, Len(clocks))
        /\ metrics \in [TotalOpsAppended : Nat, TotalOpsEvicted : Nat]
        /\ metrics.TotalOpsEvicted <= Len(log) /\ bytes \in Int
    BY DEF StoreInv, StoreTypeOK
  <2> QED
    BY <1>3, <1>6, <1>7, <1>8, <1>13, <2>1 DEF StoreTypeOK
<1>16. Usage(ops, Len(ops), new) <= bytes /\ bytes <= CapBytes
  <2>1. LogOK(ops, Len(clocks)) /\ Sized(ops, clocks)
    BY OpsOK DEF StoreInv
  <2>2. PICK S : S = [Key : Key, TS : Nat]
    OBVIOUS
  <2>3. ops \in Seq(S) /\ Len(ops) \in Nat
    BY <2>1, <2>2 DEF LogOK
  <2>4. ASSUME NEW i \in 1 .. Len(ops)
        PROVE  approxSize(ops[i], new) \in Nat
                 /\ approxSize(ops[i], new) <= approxSize(ops[i], clocks)
    <3>1. ops[i] \in S
      BY <2>3, ElementOfSeq
    <3>2. PICK op : op = ops[i]
      OBVIOUS
    <3>3. op.TS \in 0 .. Len(clocks)
      BY <1>1, <2>1, <2>2, <3>1, <3>2 DEF LogOK
    <3>4. \A r \in 1 .. Len(clocks) : DOMAIN new[r] \subseteq DOMAIN clocks[r]
      BY <1>5
    <3>5. op.TS \in 0 .. Len(new)
      BY <1>6, <3>3
    <3>6. approxSize(op, new) \in Nat
      BY <1>6, <3>5, SizeNat
    <3>7. approxSize(op, new) <= approxSize(op, clocks)
      BY <1>1, <1>6, <3>3, <3>4, SizeShrinks
    <3> QED
      BY <3>2, <3>6, <3>7
  <2>5. Sized(ops, new)
    BY <2>4 DEF Sized
  <2>6. PICK u, v : u = Usage(ops, Len(ops), new) /\ v = Usage(ops, Len(ops), clocks)
    OBVIOUS
  <2>7. u <= v
    BY <2>1, <2>3, <2>4, <2>5, <2>6, UsageShrinks
  <2>8. v <= bytes /\ bytes <= CapBytes /\ bytes \in Int
    BY <2>6 DEF StoreInv, WithinCapacity, StoreTypeOK
  <2>9. u \in Nat /\ v \in Nat
    <3>1. Len(ops) \in 0 .. Len(ops)
      BY <2>3
    <3> QED
      BY <2>1, <2>3, <2>5, <2>6, <3>1, BytesSplit
  <2> QED
    BY <2>6, <2>7, <2>8, <2>9
<1>17. HeapIsSuffix' /\ WithinCapacity'
  BY <1>3, <1>8, <1>16 DEF StoreInv, HeapIsSuffix, WithinCapacity
<1>18. Covers(objects', clocks') /\ SnapshotOK(snap', seen', clocks')
  BY <1>3, <1>7, <1>8, <1>13, <1>14
<1> QED
  BY <1>15, <1>17, <1>18 DEF StoreInv

(* A snapshot that was just returned holds what the live objects hold. *)
LEMMA GetAllKeepsInv ==
  ASSUME StoreInv, GetAllCRDTs
  PROVE  StoreInv'
<1>1. snap' = objects /\ seen' = Deref(objects, clocks)
        /\ UNCHANGED <<clocks, objects, ops, bytes, metrics, log>>
  BY DEF GetAllCRDTs
<1>2. ObjectsOK(objects, Len(clocks))
  BY DEF StoreInv, StoreTypeOK
<1>3. PICK old : old = Deref(objects, clocks)
  OBVIOUS
<1>4. DOMAIN old = DOMAIN objects
  BY <1>3 DEF Deref
<1>5. \A c : IsRestriction(c, c)
  BY DEF IsRestriction
<1>6. ASSUME NEW k \in DOMAIN objects, objects[k].type = "counter" PROVE old[k] = objects[k]
  BY <1>3, <1>6 DEF Deref
<1>7. ASSUME NEW k \in DOMAIN objects, objects[k].type # "counter"
      PROVE  /\ old[k] = [type |-> "lwwset", Key |-> k, Adds |-> old[k].Adds,
                          Removes |-> old[k].Removes, Timestamp |-> objects[k].Timestamp]
             /\ ShrunkRefs(objects[k].Adds, old[k].Adds, clocks)
             /\ ShrunkRefs(objects[k].Removes, old[k].Removes, clocks)
  <2>1. SetOK(objects[k], k, Len(clocks))
    BY <1>2, <1>7 DEF ObjectsOK, CounterOK
  <2>2. PICK a, b, t : a = objects[k].Adds /\ b = objects[k].Removes /\ t = objects[k].Timestamp
    OBVIOUS
  <2>3. PICK o : o = objects[k]
    OBVIOUS
  <2>4. o = [type |-> "lwwset", Key |-> k, Adds |-> a, Removes |-> b, Timestamp |-> t]
    BY <2>1, <2>2, <2>3 DEF SetOK
  <2>5. PICK a2, b2 : a2 = [e \in DOMAIN a |-> clocks[a[e]]]
               /\ b2 = [e \in DOMAIN b |-> clocks[b[e]]]
    OBVIOUS
  <2>6. old[k] = [o EXCEPT !.Adds = a2, !.Removes = b2]
    BY <1>3, <1>7, <2>2, <2>3, <2>5 DEF Deref
  <2>7. old[k] = [type |-> "lwwset", Key |-> k, Adds |-> a2, Removes |-> b2, Timestamp |-> t]
    BY <2>4, <2>6
  <2>8. ShrunkRefs(a, a2, clocks) /\ ShrunkRefs(b, b2, clocks)
    BY <1>5, <2>5 DEF ShrunkRefs
  <2> QED
    BY <2>2, <2>7, <2>8
<1>8. SnapshotOK(objects, old, clocks)
  BY <1>4, <1>6, <1>7 DEF SnapshotOK
<1>9. SnapshotOK(snap', seen', clocks')
  BY <1>1, <1>3, <1>8
<1>10. StoreTypeOK'
  BY <1>1 DEF StoreInv, StoreTypeOK
<1>11. HeapIsSuffix' /\ WithinCapacity' /\ Covers(objects', clocks')
  BY <1>1 DEF StoreInv, HeapIsSuffix, WithinCapacity
<1> QED
  BY <1>9, <1>10, <1>11 DEF StoreInv

-----------------------------------------------------------------------------
(* The specification *)

LEMMA StoreInit == Init => StoreInv
<1> SUFFICES ASSUME Init PROVE StoreInv
  OBVIOUS
<1>1. /\ clocks = <<>> /\ objects = NoObjects /\ ops = <<>> /\ bytes = 0 /\ snap = NoObjects
      /\ metrics = [TotalOpsAppended |-> 0, TotalOpsEvicted |-> 0] /\ log = <<>> /\ seen = NoObjects
  BY DEF Init
<1>2. DOMAIN NoObjects = {} /\ NoObjects = [k \in DOMAIN NoObjects |-> NoObjects[k]]
  BY DEF NoObjects
<1>3. ObjectsOK(NoObjects, 0)
  BY <1>2 DEF ObjectsOK
<1>4. StoreTypeOK
  BY <1>1, <1>3 DEF StoreTypeOK, LogOK
<1>5. HeapIsSuffix
  <2>1. PICK s : s = SubSeq(<<>>, 1, 0)
    OBVIOUS
  <2>2. <<>> \in Seq(Nat) /\ Len(<<>>) = 0
    OBVIOUS
  <2>3. s \in Seq(Nat) /\ Len(s) = 0
    BY <2>1, <2>2, SubSeqProperties
  <2>4. s = <<>>
    BY <2>3
  <2> QED
    BY <1>1, <2>1, <2>4 DEF HeapIsSuffix
<1>6. WithinCapacity
  <2>1. 1 .. 0 = {}
    OBVIOUS
  <2>2. Usage(<<>>, 0, <<>>) = Cardinality({})
    BY <2>1 DEF Usage
  <2>3. Usage(<<>>, 0, <<>>) = 0
    BY <2>2, FS_EmptySet
  <2>4. Len(ops) = 0
    BY <1>1
  <2> QED
    BY <1>1, <2>3, <2>4, SizeAssumption DEF WithinCapacity
<1>7. Covers(objects, clocks) /\ SnapshotOK(snap, seen, clocks)
  BY <1>1, <1>2 DEF Covers, SnapshotOK
<1> QED
  BY <1>4, <1>5, <1>6, <1>7 DEF StoreInv

LEMMA StoreStutter ==
  ASSUME StoreInv, UNCHANGED vars
  PROVE  StoreInv'
<1>1. StoreTypeOK' /\ HeapIsSuffix' /\ WithinCapacity'
  BY DEF StoreInv, vars, StoreTypeOK, HeapIsSuffix, WithinCapacity
<1>2. Covers(objects', clocks') /\ SnapshotOK(snap', seen', clocks')
  BY DEF StoreInv, vars
<1> QED
  BY <1>1, <1>2 DEF StoreInv

LEMMA StoreNext == StoreInv /\ [Next]_vars => StoreInv'
<1> SUFFICES ASSUME StoreInv, [Next]_vars PROVE StoreInv'
  OBVIOUS
<1>1. CASE AppendOp
  <2>1. PICK n \in Node, k \in Key, ts \in Stamp :
          \/ \E e \in Element : LWWAdd(n, k, e, ts) \/ LWWRemove(n, k, e, ts)
          \/ CounterInc(n, k, 1, ts)
    BY <1>1 DEF AppendOp
  <2>2. IsClock(ts)
    BY StampAssumption
  <2>3. CASE \E e \in Element : LWWAdd(n, k, e, ts) \/ LWWRemove(n, k, e, ts)
    <3>1. PICK e \in Element, isAdd \in BOOLEAN : SetOp(n, k, e, isAdd, ts)
      BY <2>3 DEF LWWAdd, LWWRemove
    <3> QED
      BY <2>2, <3>1, SetOpKeepsInv
  <2>4. CASE CounterInc(n, k, 1, ts)
    BY <2>2, <2>4, CounterIncKeepsInv
  <2> QED
    BY <2>1, <2>3, <2>4
<1>2. CASE \E key \in Key, type \in {"lwwset", "counter"} : WrongType(key, type)
  <2>1. UNCHANGED vars
    BY <1>2 DEF WrongType
  <2> QED
    BY <2>1, StoreStutter
<1>3. CASE \E activeNodes \in SUBSET Node : PruneVectorClocks(activeNodes)
  BY <1>3, PruneKeepsInv
<1>4. CASE GetAllCRDTs
  BY <1>4, GetAllKeepsInv
<1>5. CASE UNCHANGED vars
  BY <1>5, StoreStutter
<1> QED
  BY <1>1, <1>2, <1>3, <1>4, <1>5 DEF Next

(* The inductive invariant of the store holds in every behaviour, for any  *)
(* stamps that callers pass, any sizes and any capacity.                   *)
THEOREM StoreInvariant == Spec => []StoreInv
<1>1. Init => StoreInv
  BY StoreInit
<1>2. StoreInv /\ [Next]_vars => StoreInv'
  BY StoreNext
<1> QED
  BY <1>1, <1>2, PTL DEF Spec

(* AppendOp and PruneVectorClocks keep every object under its own key and  *)
(* every reference of a live set or a logged operation within the maps.    *)
THEOREM StoreTypes == Spec => []TypeOK
<1>1. StoreInv => TypeOK
  <2> SUFFICES ASSUME StoreInv PROVE TypeOK
    OBVIOUS
  <2>1. clocks \in Seq(Clocks) /\ ObjectsOK(objects, Len(clocks))
          /\ DOMAIN clocks = 1 .. Len(clocks) /\ bytes \in Int
    BY DEF StoreInv, StoreTypeOK
  <2>2. \A r \in DOMAIN clocks : IsClock(clocks[r])
    BY <2>1, ElementOfSeq, ClocksAreClocks
  <2>3. ASSUME NEW k \in DOMAIN objects
        PROVE  /\ k \in Key /\ objects[k].Key = k
               /\ IsClock(objects[k].Timestamp)
               /\ objects[k].type = "counter" => IsClock(objects[k].Counters)
    <3>1. k \in Key /\ (SetOK(objects[k], k, Len(clocks)) \/ CounterOK(objects[k], k))
      BY <2>1 DEF ObjectsOK
    <3>2. CASE SetOK(objects[k], k, Len(clocks))
      <4>1. objects[k].type = "lwwset" /\ objects[k].Key = k /\ IsClock(objects[k].Timestamp)
        BY <3>2 DEF SetOK
      <4> QED
        BY <3>1, <4>1
    <3>3. CASE CounterOK(objects[k], k)
      <4>1. objects[k].Key = k /\ IsClock(objects[k].Timestamp) /\ IsClock(objects[k].Counters)
        BY <3>3 DEF CounterOK
      <4> QED
        BY <3>1, <4>1
    <3> QED
      BY <3>1, <3>2, <3>3
  <2>4. LiveRefs \subseteq DOMAIN clocks
    BY <2>1 DEF LiveRefs, ObjectsOK, SetOK, CounterOK, RefsOK, Range
  <2>5. ASSUME NEW i \in DOMAIN ops PROVE ops[i].TS \in 0 .. Len(clocks)
    <3>1. LogOK(ops, Len(clocks)) /\ Len(clocks) \in Nat
      BY OpsOK DEF StoreInv
    <3>2. PICK S : S = [Key : Key, TS : Nat]
      OBVIOUS
    <3>3. ops \in Seq(S) /\ i \in 1 .. Len(ops)
      BY <3>1, <3>2 DEF LogOK
    <3>4. ops[i] \in S
      BY <3>3, ElementOfSeq
    <3> QED
      BY <3>1, <3>2, <3>3, <3>4 DEF LogOK
  <2> QED
    BY <2>1, <2>2, <2>3, <2>4, <2>5 DEF TypeOK
<1> QED
  BY <1>1, StoreInvariant, PTL

(* The log of OpHeap holds the latest operations in the order of their     *)
(* arrival, and the metrics of AppendOp count the evicted ones exactly.    *)
THEOREM LogIsSuffix == Spec => []HeapIsSuffix
<1>1. StoreInv => HeapIsSuffix
  BY DEF StoreInv
<1> QED
  BY <1>1, StoreInvariant, PTL

(* OpHeap.Append never lets the log take more than its capacity, whatever  *)
(* PruneVectorClocks does to the clocks of the operations in it.           *)
THEOREM CapacityHolds == Spec => []WithinCapacity
<1>1. StoreInv => WithinCapacity
  BY DEF StoreInv
<1> QED
  BY <1>1, StoreInvariant, PTL

(* Whatever timestamps callers, sets and pruning leave in the store, they  *)
(* are clocks.                                                             *)
LEMMA StoredClocks ==
  ASSUME StoreInv
  PROVE  \A c \in Range(clocks) : IsClock(c)
<1>1. clocks \in Seq(Clocks) /\ DOMAIN clocks = 1 .. Len(clocks)
  BY DEF StoreInv, StoreTypeOK
<1>2. \A r \in DOMAIN clocks : IsClock(clocks[r])
  BY <1>1, ElementOfSeq, ClocksAreClocks
<1> QED
  BY <1>2 DEF Range

(* On whatever timestamps callers, sets and pruning leave in the store,    *)
(* VectorClock.Compare is the strict causal order.                         *)
THEOREM CompareCorrect == Spec => []CompareIsCausalOrder
<1>1. StoreInv => CompareIsCausalOrder
  <2> SUFFICES ASSUME StoreInv, NEW a \in Range(clocks), NEW b \in Range(clocks)
               PROVE  /\ Compare(a, b) = 1  <=> Leq(b, a) /\ a # b
                      /\ Compare(a, b) = -1 <=> Leq(a, b) /\ a # b
    BY DEF CompareIsCausalOrder
  <2>1. IsClock(a) /\ IsClock(b)
    BY StoredClocks
  <2> QED
    BY <2>1, CompareCausal
<1> QED
  BY <1>1, StoreInvariant, PTL

(* On whatever timestamps callers, sets and pruning leave in the store,    *)
(* VectorClock.Merge is the least upper bound in the causal order.         *)
THEOREM MergeCorrect == Spec => []MergeIsJoin
<1>1. StoreInv => MergeIsJoin
  <2> SUFFICES ASSUME StoreInv, NEW a \in Range(clocks), NEW b \in Range(clocks),
                      NEW c \in Range(clocks)
               PROVE  /\ Leq(a, MergeClock(a, b)) /\ Leq(b, MergeClock(a, b))
                      /\ Leq(a, c) /\ Leq(b, c) => Leq(MergeClock(a, b), c)
    BY DEF MergeIsJoin
  <2>1. IsClock(a) /\ IsClock(b)
    BY StoredClocks
  <2>2. Leq(a, MergeClock(a, b)) /\ Leq(b, MergeClock(a, b))
    BY <2>1, MergeAbove
  <2>3. Leq(a, c) /\ Leq(b, c) => Leq(MergeClock(a, b), c)
    BY MergeLeast
  <2> QED
    BY <2>2, <2>3
<1> QED
  BY <1>1, StoreInvariant, PTL

(* The timestamp of a set covers all its entries, also after explicit      *)
(* timestamps and pruning, and pruning with the store's own active nodes   *)
(* takes nothing away (applySetOp, PruneVectorClocks, GetActiveNodes).     *)
THEOREM TimestampsCover == Spec => []StampCoversEntries
<1>1. StoreInv => StampCoversEntries
  <2> SUFFICES ASSUME StoreInv PROVE StampCoversEntries
    OBVIOUS
  <2>1. ASSUME NEW k \in DOMAIN objects, objects[k].type = "lwwset",
               NEW r \in Range(objects[k].Adds) \cup Range(objects[k].Removes)
        PROVE  Leq(clocks[r], objects[k].Timestamp)
    BY <2>1 DEF StoreInv, Covers, SetCovered, EntriesCovered, Range
  <2>2. /\ \A r \in LiveRefs : DOMAIN clocks[r] \subseteq GetActiveNodesOfStore
        /\ \A k \in DOMAIN objects : DOMAIN objects[k].Timestamp \subseteq GetActiveNodesOfStore
    BY DEF GetActiveNodesOfStore, GetActiveNodes
  <2>3. ASSUME NEW c, IsClock(c), NEW S, DOMAIN c \subseteq S PROVE Prune(c, S) = c
    <3>1. c = [n \in DOMAIN c |-> c[n]] /\ DOMAIN c \cap S = DOMAIN c
      BY <2>3, ClockShape
    <3> QED
      BY <3>1 DEF Prune
  <2>4. ObjectsOK(objects, Len(clocks)) /\ clocks \in Seq(Clocks)
    BY DEF StoreInv, StoreTypeOK
  <2>5. ASSUME NEW r \in LiveRefs PROVE Prune(clocks[r], GetActiveNodesOfStore) = clocks[r]
    <3>1. r \in 1 .. Len(clocks)
      BY <2>4 DEF LiveRefs, ObjectsOK, SetOK, CounterOK, RefsOK, Range
    <3>2. IsClock(clocks[r])
      BY <2>4, <3>1, ElementOfSeq, ClocksAreClocks
    <3> QED
      BY <2>2, <2>3, <3>2
  <2>6. ASSUME NEW k \in DOMAIN objects
        PROVE  Prune(objects[k].Timestamp, GetActiveNodesOfStore) = objects[k].Timestamp
    <3>1. IsClock(objects[k].Timestamp)
      BY <2>4 DEF ObjectsOK, SetOK, CounterOK
    <3> QED
      BY <2>2, <2>3, <3>1
  <2> QED
    BY <2>1, <2>5, <2>6 DEF StampCoversEntries
<1> QED
  BY <1>1, StoreInvariant, PTL

(* What remains of SnapshotIsCopy, which does not hold: an exported state  *)
(* keeps its objects, elements, timestamps and counts, and its clocks can  *)
(* only lose entries.                                                      *)
SnapshotOnlyShrinks ==
  LET now == Deref(snap, clocks)
      SameBut(a, b) == [a EXCEPT !.Adds = b.Adds, !.Removes = b.Removes] = b
      Shrunk(f, g)  == DOMAIN f = DOMAIN g /\ \A e \in DOMAIN f : IsRestriction(f[e], g[e])
  IN  /\ DOMAIN now = DOMAIN seen
      /\ \A k \in DOMAIN now :
           \/ now[k] = seen[k]
           \/ /\ now[k].type = "lwwset"
              /\ SameBut(now[k], seen[k])
              /\ Shrunk(now[k].Adds, seen[k].Adds) /\ Shrunk(now[k].Removes, seen[k].Removes)

(* A state that GetAllCRDTs has returned shares its clocks with the live   *)
(* sets and the log, and PruneVectorClocks takes entries out of them.  No  *)
(* other operation reaches it (GetAllCRDTs, applySetOp).                   *)
THEOREM SnapshotsShrinkOnly == Spec => []SnapshotOnlyShrinks
<1>1. StoreInv => SnapshotOnlyShrinks
  <2> SUFFICES ASSUME StoreInv PROVE SnapshotOnlyShrinks
    OBVIOUS
  <2>1. ObjectsOK(snap, Len(clocks)) /\ SnapshotOK(snap, seen, clocks)
    BY DEF StoreInv, StoreTypeOK
  <2>2. PICK now : now = Deref(snap, clocks)
    OBVIOUS
  <2>3. DOMAIN now = DOMAIN snap /\ DOMAIN seen = DOMAIN snap
    BY <2>1, <2>2 DEF Deref, SnapshotOK
  <2>4. ASSUME NEW k \in DOMAIN snap, snap[k].type = "counter" PROVE now[k] = seen[k]
    BY <2>1, <2>2, <2>4 DEF Deref, SnapshotOK
  <2>5. ASSUME NEW k \in DOMAIN snap, snap[k].type # "counter"
        PROVE  /\ now[k].type = "lwwset"
               /\ [now[k] EXCEPT !.Adds = seen[k].Adds, !.Removes = seen[k].Removes] = seen[k]
               /\ DOMAIN now[k].Adds = DOMAIN seen[k].Adds
               /\ \A e \in DOMAIN now[k].Adds : IsRestriction(now[k].Adds[e], seen[k].Adds[e])
               /\ DOMAIN now[k].Removes = DOMAIN seen[k].Removes
               /\ \A e \in DOMAIN now[k].Removes :
                    IsRestriction(now[k].Removes[e], seen[k].Removes[e])
    <3>1. SetOK(snap[k], k, Len(clocks))
      BY <2>1, <2>5 DEF ObjectsOK, CounterOK
    <3>2. PICK a, b, t, o : a = snap[k].Adds /\ b = snap[k].Removes /\ t = snap[k].Timestamp
                 /\ o = snap[k]
      OBVIOUS
    <3>3. o = [type |-> "lwwset", Key |-> k, Adds |-> a, Removes |-> b, Timestamp |-> t]
      BY <3>1, <3>2 DEF SetOK
    <3>4. PICK a2, b2 : a2 = [e \in DOMAIN a |-> clocks[a[e]]]
                 /\ b2 = [e \in DOMAIN b |-> clocks[b[e]]]
      OBVIOUS
    <3>5. now[k] = [o EXCEPT !.Adds = a2, !.Removes = b2]
      BY <2>2, <2>5, <3>2, <3>4 DEF Deref
    <3>6. PICK cur : cur = now[k]
      OBVIOUS
    <3>7. cur = [type |-> "lwwset", Key |-> k, Adds |-> a2, Removes |-> b2, Timestamp |-> t]
      BY <3>3, <3>5, <3>6
    <3>8. PICK sa, sb, se : sa = seen[k].Adds /\ sb = seen[k].Removes /\ se = seen[k]
      OBVIOUS
    <3>9. /\ se = [type |-> "lwwset", Key |-> k, Adds |-> sa, Removes |-> sb, Timestamp |-> t]
          /\ ShrunkRefs(a, sa, clocks) /\ ShrunkRefs(b, sb, clocks)
      BY <2>1, <2>5, <3>2, <3>8 DEF SnapshotOK
    <3>10. [cur EXCEPT !.Adds = sa, !.Removes = sb] = se
      <4>1. se = [type |-> "lwwset", Key |-> k, Adds |-> sa, Removes |-> sb, Timestamp |-> t]
        BY <3>9
      <4>2. PICK u : u = [cur EXCEPT !.Adds = sa, !.Removes = sb]
        OBVIOUS
      <4>3. u = [type |-> "lwwset", Key |-> k, Adds |-> sa, Removes |-> sb, Timestamp |-> t]
        BY <3>7, <4>2
      <4> QED
        BY <4>1, <4>2, <4>3
    <3>11. /\ DOMAIN a2 = DOMAIN sa /\ \A e \in DOMAIN a2 : IsRestriction(a2[e], sa[e])
           /\ DOMAIN b2 = DOMAIN sb /\ \A e \in DOMAIN b2 : IsRestriction(b2[e], sb[e])
      BY <3>4, <3>9 DEF ShrunkRefs
    <3>12. cur.type = "lwwset" /\ cur.Adds = a2 /\ cur.Removes = b2
      BY <3>7
    <3> QED
      BY <3>6, <3>8, <3>10, <3>11, <3>12
  <2> QED
    BY <2>2, <2>3, <2>4, <2>5 DEF SnapshotOnlyShrinks
<1> QED
  BY <1>1, StoreInvariant, PTL

(* The stamp that applySetOp makes is later than every entry of the set,   *)
(* so the operation decides whether the element is shown.                  *)
LEMMA FreshStampWins ==
  ASSUME StoreInv, NEW n \in Node, NEW k \in Key, NEW e, NEW isAdd \in BOOLEAN,
         SetOp(n, k, e, isAdd, EmptyClock)
  PROVE  /\ isAdd => e \in GetElements(Deref(objects', clocks')[k])
         /\ ~isAdd => e \notin GetElements(Deref(objects', clocks')[k])
<1>1. PICK set, stamp, ref, new, obj :
             SetStep(n, k, e, isAdd, EmptyClock, set, stamp, ref, new, obj)
  BY SetOpShape, EmptyClockType
<1>2. PICK a, b, t : a = set.Adds /\ b = set.Removes /\ t = set.Timestamp
  OBVIOUS
<1>3. DOMAIN EmptyClock = {}
  BY DEF EmptyClock
<1>4. stamp = Increment(t, n) /\ IsClock(stamp) /\ ref \in 1 .. Len(new) /\ new[ref] = stamp
  BY <1>1, <1>2, <1>3 DEF SetStep
<1>5. /\ SetOK(set, k, Len(new)) /\ SetCovered(set, new) /\ clocks' = new /\ new \in Seq(Clocks)
      /\ objects' = Put(objects, k, obj) /\ obj = applySetOpRef(set, e, isAdd, ref, stamp)
  BY <1>1 DEF SetStep, ExtendsMaps
<1>6. set = [type |-> "lwwset", Key |-> k, Adds |-> a, Removes |-> b, Timestamp |-> t]
  BY <1>2, <1>5 DEF SetOK
<1>7. PICK a2, b2 : a2 = (IF isAdd THEN Put(a, e, ref) ELSE a)
             /\ b2 = (IF isAdd THEN b ELSE Put(b, e, ref))
  OBVIOUS
<1>8. PICK t2 : t2 = MergeClock(t, stamp)
  OBVIOUS
<1>9. obj = [type |-> "lwwset", Key |-> k, Adds |-> a2, Removes |-> b2, Timestamp |-> t2]
  <2>1. obj = applySetOpRef(set, e, isAdd, ref, stamp)
    BY <1>5
  <2> QED
    BY <1>6, <1>7, <1>8, <2>1 DEF applySetOpRef
<1>10. PICK now : now = Deref(objects', clocks')[k]
  OBVIOUS
<1>11. PICK a3, b3 : a3 = [x \in DOMAIN a2 |-> new[a2[x]]] /\ b3 = [x \in DOMAIN b2 |-> new[b2[x]]]
  OBVIOUS
<1>12. now.Adds = a3 /\ now.Removes = b3
  <2>1. k \in DOMAIN objects' /\ objects'[k] = obj
    BY <1>5 DEF Put
  <2>2. obj.type # "counter" /\ obj.Adds = a2 /\ obj.Removes = b2
    BY <1>9
  <2>3. now = [obj EXCEPT !.Adds = a3, !.Removes = b3]
    BY <1>5, <1>10, <1>11, <2>1, <2>2 DEF Deref
  <2> QED
    BY <1>9, <2>3
<1>13. ASSUME NEW f, RefsOK(f, Len(new)), EntriesCovered(f, new, t), NEW x \in DOMAIN f
       PROVE  Compare(stamp, new[f[x]]) = 1 /\ Compare(new[f[x]], stamp) # 1
  <2>1. f[x] \in 1 .. Len(new) /\ Leq(new[f[x]], t)
    BY <1>13 DEF RefsOK, EntriesCovered
  <2>2. PICK old : old = new[f[x]]
    OBVIOUS
  <2>3. IsClock(old) /\ Leq(old, t) /\ IsClock(t)
    BY <1>2, <1>5, <2>1, <2>2, ElementOfSeq, ClocksAreClocks DEF SetOK
  <2>4. Leq(t, stamp) /\ t # stamp
    BY <1>4, <2>3, IncrementCount
  <2>5. Leq(old, stamp)
    BY <1>4, <2>3, <2>4, LeqTransitive
  <2>6. old # stamp
    BY <1>4, <2>3, <2>4, LeqAntisymmetric
  <2>7. Compare(stamp, old) = 1
    BY <1>4, <2>3, <2>5, <2>6, CompareCausal
  <2>8. ~Leq(stamp, old)
    BY <1>4, <2>3, <2>5, <2>6, LeqAntisymmetric
  <2>9. Compare(old, stamp) # 1
    BY <1>4, <2>3, <2>8, CompareCausal
  <2> QED
    BY <2>2, <2>7, <2>9
<1>14. /\ RefsOK(a, Len(new)) /\ RefsOK(b, Len(new))
       /\ EntriesCovered(a, new, t) /\ EntriesCovered(b, new, t)
  BY <1>2, <1>5 DEF SetOK, SetCovered
<1>15. CASE isAdd
  <2>1. a2 = Put(a, e, ref) /\ b2 = b
    BY <1>7, <1>15
  <2>2. e \in DOMAIN a3 /\ a3[e] = stamp
    BY <1>4, <1>11, <2>1 DEF Put
  <2>3. ASSUME e \in DOMAIN b3 PROVE Compare(a3[e], b3[e]) = 1
    <3>1. e \in DOMAIN b /\ b3[e] = new[b[e]]
      BY <1>11, <2>1, <2>3
    <3> QED
      BY <1>13, <1>14, <2>2, <3>1
  <2>4. e \in GetElements(now)
    BY <1>12, <2>2, <2>3 DEF GetElements, Contains
  <2> QED
    BY <1>10, <1>15, <2>4
<1>16. CASE ~isAdd
  <2>1. a2 = a /\ b2 = Put(b, e, ref)
    BY <1>7, <1>16
  <2>2. e \in DOMAIN b3 /\ b3[e] = stamp
    BY <1>4, <1>11, <2>1 DEF Put
  <2>3. ASSUME e \in DOMAIN a3 PROVE ~(Compare(a3[e], b3[e]) > 0)
    <3>1. e \in DOMAIN a /\ a3[e] = new[a[e]]
      BY <1>11, <2>1, <2>3
    <3>2. Compare(a3[e], b3[e]) # 1
      BY <1>13, <1>14, <2>2, <3>1
    <3>3. Compare(a3[e], b3[e]) \in {-1, 0, 1}
      BY DEF Compare
    <3> QED
      BY <3>2, <3>3
  <2>4. e \notin GetElements(now)
    BY <1>12, <2>2, <2>3 DEF GetElements, Contains
  <2> QED
    BY <1>10, <1>16, <2>4
<1> QED
  BY <1>15, <1>16

(* LWWAdd and LWWRemove without a timestamp take effect at once, whatever  *)
(* explicit timestamps and prunings came before (applySetOp, Contains).    *)
THEOREM FreshOperationsWin == Spec => FreshOpTakesEffect
<1>1. ASSUME StoreInv
      PROVE  \A n \in Node, k \in Key, e \in Element :
               LET shown == GetElements(Deref(objects', clocks')[k])
               IN  /\ LWWAdd(n, k, e, EmptyClock) => e \in shown
                   /\ LWWRemove(n, k, e, EmptyClock) => e \notin shown
  BY <1>1, FreshStampWins DEF LWWAdd, LWWRemove
<1> QED
  BY <1>1, StoreInvariant, PTL DEF FreshOpTakesEffect
=============================================================================

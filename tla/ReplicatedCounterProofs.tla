---------------------- MODULE ReplicatedCounterProofs ----------------------
(***************************************************************************)
(* Proofs about ReplicatedCounter, for any nodes, increments and           *)
(* histories: counts are exact, and the counter implements GCounter.       *)
(***************************************************************************)
EXTENDS ReplicatedCounter, CRDTProofs, SequenceTheorems

HistoryOK(h) ==
  /\ \A n \in Node : h[n] \in Seq(Nat)
  /\ \A n \in Node : \A j, k \in 0 .. Len(h[n]) :
       j <= k => Total(h, n, j) <= Total(h, n, k)

Sound(s, h) == IsCounter(s) /\ IsExact(s, h)

LEMMA HistoryLen ==
  ASSUME NEW h, HistoryOK(h), NEW m \in Node
  PROVE  h[m] \in Seq(Nat) /\ Len(h[m]) \in Nat
<1>1. h[m] \in Seq(Nat)
  BY DEF HistoryOK
<1> QED
  BY <1>1, LenProperties

LEMMA TotalNat ==
  ASSUME NEW h, HistoryOK(h), NEW m \in Node, NEW k \in 0 .. Len(h[m])
  PROVE  Total(h, m, k) \in Nat
BY DEF HistoryOK, Total

(* The fields of a merged counter. *)
LEMMA MergedFields ==
  ASSUME NEW s, IsCounter(s), NEW o, IsCounter(o), NEW r \in Merge(s, o)
  PROVE  /\ IsCounter(r)
         /\ r.Counters = MergeClock(s.Counters, o.Counters)
         /\ r.Timestamp = MergeClock(s.Timestamp, o.Timestamp)
<1>1. s \in [type : {"counter"}, Key : {Key}, Counters : {s.Counters},
             Timestamp : {s.Timestamp}]
  BY DEF IsCounter
<1>2. o.type = "counter" /\ o.Key = Key
  BY DEF IsCounter
<1>3. r \in MergeCounter(s, o)
  BY <1>1, <1>2 DEF Merge
<1>4. r = [s EXCEPT !.Counters = MergeClock(s.Counters, o.Counters),
                    !.Timestamp = MergeClock(s.Timestamp, o.Timestamp)]
  BY <1>3 DEF MergeCounter
<1>5. /\ r.Counters = MergeClock(s.Counters, o.Counters)
      /\ r.Timestamp = MergeClock(s.Timestamp, o.Timestamp)
      /\ r = [type |-> "counter", Key |-> Key,
              Counters |-> r.Counters, Timestamp |-> r.Timestamp]
  BY <1>1, <1>4
<1>6. IsClock(r.Counters) /\ IsClock(r.Timestamp)
  BY <1>5, MergeClockType DEF IsCounter
<1> QED
  BY <1>5, <1>6 DEF IsCounter

(* Counter.Merge keeps counts exact: the higher count belongs to the       *)
(* higher timestamp, because a node's own count never falls.               *)
LEMMA SoundMerge ==
  ASSUME NEW h, HistoryOK(h), NEW s, Sound(s, h), NEW o, Sound(o, h), NEW r \in Merge(s, o)
  PROVE  Sound(r, h)
<1>1. IsCounter(s) /\ IsCounter(o)
  BY DEF Sound
<1>2. /\ IsCounter(r)
      /\ r.Counters = MergeClock(s.Counters, o.Counters)
      /\ r.Timestamp = MergeClock(s.Timestamp, o.Timestamp)
  BY <1>1, MergedFields
<1>3. /\ IsClock(s.Counters) /\ IsClock(o.Counters)
      /\ IsClock(s.Timestamp) /\ IsClock(o.Timestamp)
  BY <1>1 DEF IsCounter
<1>4. DOMAIN r.Counters = DOMAIN r.Timestamp
  BY <1>2 DEF Sound, IsExact, MergeClock
<1>5. ASSUME NEW m \in Node
      PROVE  /\ Count(r.Timestamp, m) \in 0 .. Len(h[m])
             /\ Count(r.Counters, m) = Total(h, m, Count(r.Timestamp, m))
  <2> DEFINE ks == Count(s.Timestamp, m)
             ko == Count(o.Timestamp, m)
             kr == Count(r.Timestamp, m)
  <2>1. /\ ks \in 0 .. Len(h[m]) /\ Count(s.Counters, m) = Total(h, m, ks)
        /\ ko \in 0 .. Len(h[m]) /\ Count(o.Counters, m) = Total(h, m, ko)
    BY DEF Sound, IsExact
  <2>2. kr \in {ks, ko} /\ ks <= kr /\ ko <= kr /\ ks \in Nat /\ ko \in Nat
    BY <1>2, <1>3, MergeCount
  <2>3. LET c == Count(r.Counters, m)
        IN  /\ c \in {Total(h, m, ks), Total(h, m, ko)}
            /\ Total(h, m, ks) <= c /\ Total(h, m, ko) <= c
    BY <1>2, <1>3, <2>1, MergeCount
  <2>4. Total(h, m, ks) \in Nat /\ Total(h, m, ko) \in Nat
    BY <2>1, TotalNat
  <2>5. (ks <= ko => Total(h, m, ks) <= Total(h, m, ko))
        /\ (ko <= ks => Total(h, m, ko) <= Total(h, m, ks))
    BY <2>1 DEF HistoryOK
  <2> HIDE DEF ks, ko, kr
  <2>6. CASE kr = ks
    <3>1. ko <= ks
      BY <2>2, <2>6
    <3>2. Count(r.Counters, m) = Total(h, m, ks)
      BY <2>3, <2>4, <2>5, <3>1
    <3> QED
      BY <2>1, <2>6, <3>2 DEF kr
  <2>7. CASE kr = ko
    <3>1. ks <= ko
      BY <2>2, <2>7
    <3>2. Count(r.Counters, m) = Total(h, m, ko)
      BY <2>3, <2>4, <2>5, <3>1
    <3> QED
      BY <2>1, <2>7, <3>2 DEF kr
  <2> QED
    BY <2>2, <2>6, <2>7
<1> QED
  BY <1>2, <1>4, <1>5 DEF Sound, IsExact

(* The fields of a counter after CounterInc without a timestamp. *)
LEMMA IncrementedFields ==
  ASSUME NEW s, IsCounter(s), NEW n \in Node, NEW d \in Nat,
         NEW r, r = IncrementWithTimestamp(s, n, d, EmptyClock)
  PROVE  /\ IsCounter(r)
         /\ r.Timestamp = Increment(s.Timestamp, n)
         /\ r.Counters = AddCount(s.Counters, n, d)
<1>1. s \in [type : {"counter"}, Key : {Key}, Counters : {s.Counters},
             Timestamp : {s.Timestamp}]
  BY DEF IsCounter
<1>2. r = [s EXCEPT !.Counters = AddCount(s.Counters, n, d),
                    !.Timestamp = Increment(s.Timestamp, n)]
  BY DEF IncrementWithTimestamp, EmptyClock
<1>3. /\ r.Counters = AddCount(s.Counters, n, d)
      /\ r.Timestamp = Increment(s.Timestamp, n)
      /\ r = [type |-> "counter", Key |-> Key,
              Counters |-> r.Counters, Timestamp |-> r.Timestamp]
  BY <1>1, <1>2
<1>4. IsClock(r.Timestamp)
  BY <1>3, IncrementType DEF IsCounter
<1>5. IsClock(r.Counters)
  <2>1. IsClock(s.Counters)
    BY DEF IsCounter
  <2> DEFINE c == AddCount(s.Counters, n, d)
  <2>2. DOMAIN c = DOMAIN s.Counters \cup {n} /\ c = [m \in DOMAIN c |-> c[m]]
    BY DEF AddCount, Put
  <2>3. \A m \in DOMAIN c : c[m] \in Nat
    BY <2>1, ClockShape DEF AddCount, Put
  <2>4. DOMAIN c \subseteq Node
    BY <2>1, <2>2, ClockShape
  <2> QED
    BY <1>3, <2>2, <2>3, <2>4, ClockIntro
<1> QED
  BY <1>3, <1>4, <1>5 DEF IsCounter

LEMMA AddCountCount ==
  ASSUME NEW c, IsClock(c), NEW n \in Node, NEW d \in Nat
  PROVE  /\ Count(AddCount(c, n, d), n) = Count(c, n) + d
         /\ \A m \in Node : m # n => Count(AddCount(c, n, d), m) = Count(c, m)
<1>1. \A m \in DOMAIN c : c[m] \in Nat
  BY ClockShape
<1> QED
  BY <1>1 DEF AddCount, Put, Count

\* h2 is h after an increment of n by d.
Grown(h2, h, n, d) ==
  /\ h2[n] = Append(h[n], Total(h, n, Len(h[n])) + d)
  /\ \A m \in Node : m # n => h2[m] = h[m]

LEMMA HistoryGrows ==
  ASSUME NEW h, HistoryOK(h), NEW n \in Node, NEW d \in Nat, NEW h2, Grown(h2, h, n, d)
  PROVE  /\ HistoryOK(h2)
         /\ \A m \in Node : \A k \in 0 .. Len(h[m]) :
              k \in 0 .. Len(h2[m]) /\ Total(h2, m, k) = Total(h, m, k)
         /\ Len(h2[n]) = Len(h[n]) + 1
         /\ Total(h2, n, Len(h2[n])) = Total(h, n, Len(h[n])) + d
<1> DEFINE K == Len(h[n]) + 1
           t == Total(h, n, Len(h[n]))
<1>1. h[n] \in Seq(Nat) /\ Len(h[n]) \in Nat /\ t \in Nat
  <2>1. h[n] \in Seq(Nat) /\ Len(h[n]) \in Nat
    BY HistoryLen
  <2>2. Len(h[n]) \in 0 .. Len(h[n])
    BY <2>1
  <2> QED
    BY <2>1, <2>2, TotalNat
<1>2. h2[n] = Append(h[n], t + d) /\ \A m \in Node : m # n => h2[m] = h[m]
  BY DEF Grown
<1> HIDE DEF t
<1>3. /\ h2[n] \in Seq(Nat) /\ Len(h2[n]) = K /\ h2[n][K] = t + d
      /\ \A k \in 1 .. Len(h[n]) : h2[n][k] = h[n][k]
  BY <1>1, <1>2, AppendProperties
<1>4. Total(h2, n, K) = t + d
  BY <1>1, <1>3 DEF Total
<1>5. \A m \in Node : \A k \in 0 .. Len(h[m]) :
        k \in 0 .. Len(h2[m]) /\ Total(h2, m, k) = Total(h, m, k)
  <2> SUFFICES ASSUME NEW m \in Node, NEW k \in 0 .. Len(h[m])
               PROVE  k \in 0 .. Len(h2[m]) /\ Total(h2, m, k) = Total(h, m, k)
    OBVIOUS
  <2>1. CASE m = n
    <3>1. k \in 0 .. Len(h[n]) /\ k \in 0 .. K /\ (k = 0 \/ k \in 1 .. Len(h[n]))
      BY <1>1, <2>1
    <3>2. k \in 0 .. Len(h2[m])
      BY <1>3, <2>1, <3>1
    <3>3. CASE k = 0
      BY <3>2, <3>3 DEF Total
    <3>4. CASE k \in 1 .. Len(h[n])
      <4>1. h2[m][k] = h[m][k]
        BY <1>3, <2>1, <3>4
      <4> QED
        BY <3>2, <4>1 DEF Total
    <3> QED
      BY <3>1, <3>3, <3>4
  <2>2. CASE m # n
    BY <1>2, <2>2 DEF Total
  <2> QED
    BY <2>1, <2>2
<1>6. \A m \in Node : h2[m] \in Seq(Nat)
  BY <1>2, <1>3 DEF HistoryOK
<1>7. ASSUME NEW m \in Node, NEW j \in 0 .. Len(h2[m]), NEW k \in 0 .. Len(h2[m]), j <= k
      PROVE  Total(h2, m, j) <= Total(h2, m, k)
  <2>1. CASE j \in 0 .. Len(h[m]) /\ k \in 0 .. Len(h[m])
    BY <1>5, <1>7, <2>1 DEF HistoryOK
  <2>2. CASE m = n /\ k = K /\ j = K
    <3>1. Total(h2, n, K) \in Nat
      BY <1>1, <1>4
    <3> QED
      BY <2>2, <3>1
  <2>3. CASE m = n /\ k = K /\ j # K
    <3>1. j \in 0 .. Len(h[n])
      BY <1>1, <1>3, <2>3
    <3>2. Len(h[n]) \in 0 .. Len(h[n]) /\ j <= Len(h[n])
      BY <1>1, <3>1
    <3>3. Total(h, n, j) <= t
      BY <3>1, <3>2 DEF HistoryOK, t
    <3>4. Total(h, n, j) \in Nat
      BY <3>1, TotalNat
    <3> QED
      BY <1>1, <1>4, <1>5, <2>3, <3>1, <3>3, <3>4
  <2>4. \/ j \in 0 .. Len(h[m]) /\ k \in 0 .. Len(h[m])
        \/ m = n /\ k = K
    BY <1>1, <1>2, <1>3, <1>7
  <2> QED
    BY <2>1, <2>2, <2>3, <2>4
<1> QED
  BY <1>3, <1>4, <1>5, <1>6, <1>7 DEF HistoryOK, Grown, t

LEMMA SoundExtends ==
  ASSUME NEW h, NEW h2, NEW s, Sound(s, h),
         \A m \in Node : \A k \in 0 .. Len(h[m]) :
           k \in 0 .. Len(h2[m]) /\ Total(h2, m, k) = Total(h, m, k)
  PROVE  Sound(s, h2)
BY DEF Sound, IsExact

(* CounterInc keeps counts exact. *)
LEMMA SoundIncrement ==
  ASSUME NEW h, HistoryOK(h), NEW s, Sound(s, h), NEW n \in Node, NEW d \in Nat,
         Count(s.Timestamp, n) = Len(h[n]), NEW h2, Grown(h2, h, n, d),
         NEW r, r = IncrementWithTimestamp(s, n, d, EmptyClock)
  PROVE  /\ Sound(r, h2) /\ Count(r.Timestamp, n) = Len(h2[n])
         /\ Count(r.Counters, n) = Count(s.Counters, n) + d
         /\ \A m \in Node : m # n => Count(r.Counters, m) = Count(s.Counters, m)
<1>1. /\ \A m \in Node : \A k \in 0 .. Len(h[m]) :
              k \in 0 .. Len(h2[m]) /\ Total(h2, m, k) = Total(h, m, k)
      /\ Len(h2[n]) = Len(h[n]) + 1
      /\ Total(h2, n, Len(h2[n])) = Total(h, n, Len(h[n])) + d
  BY HistoryGrows
<1>2. IsCounter(s) /\ IsExact(s, h2) /\ IsExact(s, h)
  BY <1>1, SoundExtends DEF Sound
<1>3. IsClock(s.Counters) /\ IsClock(s.Timestamp)
  BY <1>2 DEF IsCounter
<1>4. /\ IsCounter(r)
      /\ r.Timestamp = Increment(s.Timestamp, n)
      /\ r.Counters = AddCount(s.Counters, n, d)
  BY <1>2, IncrementedFields
<1>5. /\ Count(r.Counters, n) = Count(s.Counters, n) + d
      /\ \A m \in Node : m # n => Count(r.Counters, m) = Count(s.Counters, m)
  BY <1>3, <1>4, AddCountCount
<1>6. /\ Count(r.Timestamp, n) = Count(s.Timestamp, n) + 1
      /\ \A m \in Node : m # n => Count(r.Timestamp, m) = Count(s.Timestamp, m)
  BY <1>3, <1>4, IncrementCount
<1>7. DOMAIN r.Counters = DOMAIN r.Timestamp
  BY <1>2, <1>4 DEF AddCount, Put, Increment, IsExact
<1>8. ASSUME NEW m \in Node
      PROVE  /\ Count(r.Timestamp, m) \in 0 .. Len(h2[m])
             /\ Count(r.Counters, m) = Total(h2, m, Count(r.Timestamp, m))
  <2>1. CASE m = n
    <3>1. Len(h[n]) \in Nat
      BY HistoryLen
    <3>2. Count(s.Counters, n) = Total(h, n, Len(h[n]))
      BY <1>2 DEF IsExact
    <3> QED
      BY <1>1, <1>5, <1>6, <2>1, <3>1, <3>2
  <2>2. CASE m # n
    BY <1>2, <1>5, <1>6, <2>2 DEF IsExact
  <2> QED
    BY <2>1, <2>2
<1> QED
  BY <1>1, <1>4, <1>5, <1>6, <1>7, <1>8 DEF Sound, IsExact

-----------------------------------------------------------------------------

(***************************************************************************)
(* The inductive invariant.  CountsExact is not inductive by itself: when  *)
(* n counts on, its new count is exact only if n knew all of its own       *)
(* increments (OwnKnown), and a merge is exact only because a node's total *)
(* never falls (HistoryOK).                                                *)
(***************************************************************************)
OwnKnown == \A n \in Node : Count(cnt[n].Timestamp, n) = Len(hist[n])

IInv ==
  /\ cnt = [n \in Node |-> cnt[n]]
  /\ hist = [n \in Node |-> hist[n]]
  /\ HistoryOK(hist)
  /\ \A n \in Node : Sound(cnt[n], hist)
  /\ \A m \in msgs : m = [from |-> m.from, state |-> m.state] /\ m.from \in Node
  /\ \A m \in msgs : Sound(m.state, hist)
  /\ OwnKnown

LEMMA InitIInv == Init => IInv
<1> SUFFICES ASSUME Init PROVE IInv
  OBVIOUS
<1> DEFINE z == NewCounter(Key)
<1>1. \A n \in Node : cnt[n] = z /\ hist[n] = <<>>
  BY DEF Init
<1>2. HistoryOK(hist)
  <2>1. \A n \in Node : hist[n] \in Seq(Nat) /\ Len(hist[n]) = 0
    BY <1>1, EmptySeq
  <2> QED
    BY <2>1 DEF HistoryOK, Total
<1>3. z.Counters = EmptyClock /\ z.Timestamp = EmptyClock
  BY DEF NewCounter
<1>4. IsCounter(z)
  BY <1>3, EmptyClockType DEF NewCounter, IsCounter
<1>5. \A m \in Node : Count(EmptyClock, m) = 0
  BY DEF Count, EmptyClock
<1>6. \A m \in Node : Len(hist[m]) = 0
  BY <1>1, EmptySeq
<1>7. IsExact(z, hist)
  BY <1>3, <1>5, <1>6 DEF IsExact, Total
<1>8. OwnKnown
  BY <1>1, <1>3, <1>5, <1>6 DEF OwnKnown
<1>9. cnt = [n \in Node |-> cnt[n]] /\ hist = [n \in Node |-> hist[n]] /\ msgs = {}
  BY DEF Init
<1> QED
  BY <1>1, <1>2, <1>4, <1>7, <1>8, <1>9 DEF IInv, Sound

LEMMA CounterIncIInv ==
  ASSUME IInv, NEW n \in Node, NEW delta \in Delta, CounterInc(n, delta)
  PROVE  IInv'
<1>1. delta \in Nat
  BY DeltaAssumption
<1>2. /\ cnt'[n] = IncrementWithTimestamp(cnt[n], n, delta, EmptyClock)
      /\ \A m \in Node : m # n => cnt'[m] = cnt[m]
  BY DEF CounterInc, IInv
<1>3. Grown(hist', hist, n, delta)
  BY DEF CounterInc, IInv, Grown
<1>4. HistoryOK(hist) /\ Sound(cnt[n], hist) /\ Count(cnt[n].Timestamp, n) = Len(hist[n])
  BY DEF IInv, OwnKnown
<1>5. /\ HistoryOK(hist')
      /\ \A m \in Node : \A k \in 0 .. Len(hist[m]) :
           k \in 0 .. Len(hist'[m]) /\ Total(hist', m, k) = Total(hist, m, k)
  BY <1>1, <1>3, <1>4, HistoryGrows
<1>6. Sound(cnt'[n], hist') /\ Count(cnt'[n].Timestamp, n) = Len(hist'[n])
  BY <1>1, <1>2, <1>3, <1>4, SoundIncrement
<1>7. ASSUME NEW m \in Node PROVE Sound(cnt'[m], hist')
  <2>1. CASE m = n
    BY <1>6, <2>1
  <2>2. CASE m # n
    <3>1. Sound(cnt[m], hist)
      BY DEF IInv
    <3>2. Sound(cnt[m], hist')
      BY <1>5, <3>1, SoundExtends
    <3> QED
      BY <1>2, <2>2, <3>2
  <2> QED
    BY <2>1, <2>2
<1>8. \A m \in msgs' : Sound(m.state, hist')
  <2>1. \A m \in msgs : Sound(m.state, hist)
    BY DEF IInv
  <2>2. msgs' = msgs
    BY DEF CounterInc
  <2>3. ASSUME NEW m \in msgs PROVE Sound(m.state, hist')
    BY <1>5, <2>1, SoundExtends
  <2> QED
    BY <2>2, <2>3
<1>9. OwnKnown'
  BY <1>2, <1>3, <1>6 DEF OwnKnown, IInv, Grown
<1>10. cnt' = [m \in Node |-> cnt'[m]] /\ hist' = [m \in Node |-> hist'[m]] /\ msgs' = msgs
  BY DEF CounterInc, IInv
<1> QED
  BY <1>5, <1>7, <1>8, <1>9, <1>10 DEF IInv

LEMMA GetAllCRDTsIInv ==
  ASSUME IInv, NEW n \in Node, GetAllCRDTs(n)
  PROVE  IInv'
<1>1. cnt' = cnt /\ hist' = hist /\ msgs' = msgs \cup {[from |-> n, state |-> cnt[n]]}
  BY DEF GetAllCRDTs
<1>2. \A m \in msgs' : m \in msgs \/ (m.from = n /\ m.state = cnt[n]
                                     /\ m = [from |-> m.from, state |-> m.state])
  BY <1>1
<1>3. \A m \in msgs' : /\ m = [from |-> m.from, state |-> m.state] /\ m.from \in Node
                       /\ Sound(m.state, hist)
  BY <1>2 DEF IInv
<1> QED
  BY <1>1, <1>3 DEF IInv, OwnKnown

LEMMA MergeOwnCount ==
  ASSUME IInv, NEW n \in Node, NEW o, Sound(o, hist), NEW r \in Merge(cnt[n], o)
  PROVE  Count(r.Timestamp, n) = Len(hist[n])
<1>1. IsCounter(cnt[n]) /\ IsCounter(o) /\ Count(cnt[n].Timestamp, n) = Len(hist[n])
  BY DEF IInv, Sound, OwnKnown
<1>2. r.Timestamp = MergeClock(cnt[n].Timestamp, o.Timestamp)
  BY <1>1, MergedFields
<1>3. IsClock(cnt[n].Timestamp) /\ IsClock(o.Timestamp)
  BY <1>1 DEF IsCounter
<1>4. Count(o.Timestamp, n) \in 0 .. Len(hist[n])
  BY DEF Sound, IsExact
<1>5. /\ Count(r.Timestamp, n) \in {Count(cnt[n].Timestamp, n), Count(o.Timestamp, n)}
      /\ Count(cnt[n].Timestamp, n) <= Count(r.Timestamp, n)
  BY <1>2, <1>3, MergeCount
<1>6. Len(hist[n]) \in Nat
  BY HistoryLen DEF IInv
<1> QED
  BY <1>1, <1>4, <1>5, <1>6

LEMMA ApplyMergedIInv ==
  ASSUME IInv, NEW n \in Node, NEW remote \in msgs, ApplyMerged(n, remote)
  PROVE  IInv'
<1>1. PICK merged \in Merge(cnt[n], remote.state) : cnt' = [cnt EXCEPT ![n] = merged]
  BY DEF ApplyMerged
<1>2. msgs' = msgs /\ hist' = hist
  BY DEF ApplyMerged
<1>3. HistoryOK(hist) /\ Sound(cnt[n], hist) /\ Sound(remote.state, hist)
  BY DEF IInv
<1>4. Sound(merged, hist)
  BY <1>1, <1>3, SoundMerge
<1>5. Count(merged.Timestamp, n) = Len(hist[n])
  BY <1>1, <1>3, MergeOwnCount
<1>6. /\ cnt'[n] = merged
      /\ \A m \in Node : m # n => cnt'[m] = cnt[m]
      /\ cnt' = [m \in Node |-> cnt'[m]]
  BY <1>1 DEF IInv
<1>7. OwnKnown'
  BY <1>2, <1>5, <1>6 DEF OwnKnown, IInv
<1>8. \A m \in Node : Sound(cnt'[m], hist')
  BY <1>2, <1>4, <1>6 DEF IInv
<1> QED
  BY <1>2, <1>6, <1>7, <1>8 DEF IInv

LEMMA NextIInv == IInv /\ [Next]_vars => IInv'
<1> SUFFICES ASSUME IInv, [Next]_vars PROVE IInv'
  OBVIOUS
<1>1. CASE UNCHANGED vars
  BY <1>1 DEF vars, IInv, OwnKnown
<1>2. ASSUME NEW n \in Node, NEW delta \in Delta, CounterInc(n, delta)
      PROVE  IInv'
  BY <1>2, CounterIncIInv
<1>3. ASSUME NEW n \in Node, GetAllCRDTs(n)
      PROVE  IInv'
  BY <1>3, GetAllCRDTsIInv
<1>4. ASSUME NEW n \in Node, NEW remote \in msgs, ApplyMerged(n, remote)
      PROVE  IInv'
  BY <1>4, ApplyMergedIInv
<1> QED
  BY <1>1, <1>2, <1>3, <1>4 DEF Next

LEMMA InvariantIInv == Spec => []IInv
BY InitIInv, NextIInv, PTL DEF Spec

(* Every state of the counter is one that the code's types allow. *)
THEOREM TypeCorrect == Spec => []TypeOK
<1>1. IInv => TypeOK
  BY DEF IInv, TypeOK, States, Sound, HistoryOK
<1> QED
  BY <1>1, InvariantIInv, PTL

(* Counter.Merge and IncrementWithTimestamp never lose, repeat or invent   *)
(* an increment, for any number of nodes, increments and exported states.  *)
THEOREM CountsCorrect == Spec => []CountsExact
<1>1. IInv => CountsExact
  BY DEF IInv, CountsExact, States, Sound
<1> QED
  BY <1>1, InvariantIInv, PTL

(* Nodes that know the same increments have the same counts and value. *)
THEOREM ConvergenceCorrect == Spec => []CounterConverges
<1>1. ASSUME IInv, NEW s1 \in States, NEW s2 \in States, s1.Timestamp = s2.Timestamp
      PROVE  s1.Counters = s2.Counters
  <2>1. Sound(s1, hist) /\ Sound(s2, hist)
    BY <1>1 DEF IInv, States
  <2>2. IsClock(s1.Counters) /\ IsClock(s2.Counters)
    BY <2>1 DEF Sound, IsCounter
  <2>3. DOMAIN s1.Counters = DOMAIN s2.Counters
    BY <1>1, <2>1 DEF Sound, IsExact
  <2>4. \A m \in Node : Count(s1.Counters, m) = Count(s2.Counters, m)
    BY <1>1, <2>1 DEF Sound, IsExact
  <2>5. DOMAIN s1.Counters \subseteq Node
    BY <2>2, ClockShape
  <2>6. \A m \in DOMAIN s1.Counters : s1.Counters[m] = s2.Counters[m]
    BY <2>3, <2>4, <2>5 DEF Count
  <2> QED
    BY <2>2, <2>3, <2>6, ClockExt
<1>2. IInv => CounterConverges
  BY <1>1 DEF CounterConverges, Value
<1> QED
  BY <1>2, InvariantIInv, PTL

-----------------------------------------------------------------------------
(* The refinement of GCounter *)

view == [n \in Node |-> [m \in Node |-> Count(cnt[n].Counters, m)]]

LEMMA ViewRow ==
  ASSUME NEW n \in Node
  PROVE  /\ view[n] = [m \in Node |-> Count(cnt[n].Counters, m)]
         /\ view'[n] = [m \in Node |-> Count(cnt'[n].Counters, m)]
BY DEF view

LEMMA ViewNat ==
  ASSUME IInv, NEW n \in Node, NEW m \in Node
  PROVE  view[n][m] = Count(cnt[n].Counters, m) /\ view[n][m] \in Nat
<1>1. IsClock(cnt[n].Counters)
  BY DEF IInv, Sound, IsCounter
<1>2. view[n][m] = Count(cnt[n].Counters, m)
  BY DEF view
<1>3. Count(cnt[n].Counters, m) \in Nat
  BY <1>1, CountNat
<1> QED
  BY <1>2, <1>3

(* An increment raises the node's own count and no other view. *)
LEMMA CounterIncRefines ==
  ASSUME IInv, IInv', NEW n \in Node, NEW delta \in Delta, CounterInc(n, delta)
  PROVE  Abstract!Inc(n)
<1>1. delta \in Nat /\ delta > 0
  BY DeltaAssumption
<1>2. /\ cnt'[n] = IncrementWithTimestamp(cnt[n], n, delta, EmptyClock)
      /\ \A m \in Node : m # n => cnt'[m] = cnt[m]
  BY DEF CounterInc, IInv
<1>3. Grown(hist', hist, n, delta)
  BY DEF CounterInc, IInv, Grown
<1>4. HistoryOK(hist) /\ Sound(cnt[n], hist) /\ Count(cnt[n].Timestamp, n) = Len(hist[n])
  BY DEF IInv, OwnKnown
<1>5. /\ Count(cnt'[n].Counters, n) = Count(cnt[n].Counters, n) + delta
      /\ \A m \in Node : m # n => Count(cnt'[n].Counters, m) = Count(cnt[n].Counters, m)
  BY <1>1, <1>2, <1>3, <1>4, SoundIncrement
<1>6. /\ view'[n][n] = view[n][n] + delta
      /\ view[n][n] \in Nat
  BY <1>5, ViewNat, ViewRow
<1>7. view' = [view EXCEPT ![n][n] = view'[n][n]]
  BY <1>2, <1>5 DEF view
<1> QED
  BY <1>1, <1>6, <1>7 DEF Abstract!Inc, view

(* A state never counts more for m than m itself. *)
LEMMA AtMostOwn ==
  ASSUME IInv, NEW s, Sound(s, hist), NEW m \in Node
  PROVE  Count(s.Counters, m) <= Count(cnt[m].Counters, m)
<1>1. HistoryOK(hist) /\ Sound(cnt[m], hist) /\ Count(cnt[m].Timestamp, m) = Len(hist[m])
  BY DEF IInv, OwnKnown
<1>2. Len(hist[m]) \in Nat
  BY <1>1, HistoryLen
<1>3. /\ Count(s.Timestamp, m) \in 0 .. Len(hist[m])
      /\ Count(s.Counters, m) = Total(hist, m, Count(s.Timestamp, m))
      /\ Count(cnt[m].Counters, m) = Total(hist, m, Len(hist[m]))
  BY <1>1 DEF Sound, IsExact
<1>4. Len(hist[m]) \in 0 .. Len(hist[m]) /\ Count(s.Timestamp, m) <= Len(hist[m])
  BY <1>2, <1>3
<1> QED
  BY <1>1, <1>3, <1>4 DEF HistoryOK

(* A merge raises views, and not above what their nodes have counted. *)
LEMMA ApplyMergedRefines ==
  ASSUME IInv, IInv', NEW n \in Node, NEW remote \in msgs, ApplyMerged(n, remote)
  PROVE  Abstract!Learn(n)
<1>1. PICK merged \in Merge(cnt[n], remote.state) : cnt' = [cnt EXCEPT ![n] = merged]
  BY DEF ApplyMerged
<1>2. /\ cnt'[n] = merged
      /\ \A m \in Node : m # n => cnt'[m] = cnt[m]
  BY <1>1 DEF IInv
<1>3. Sound(cnt[n], hist) /\ Sound(remote.state, hist) /\ HistoryOK(hist)
  BY DEF IInv
<1>4. Sound(merged, hist)
  BY <1>1, <1>3, SoundMerge
<1>5. IsCounter(cnt[n]) /\ IsCounter(remote.state)
  BY <1>3 DEF Sound
<1>6. merged.Counters = MergeClock(cnt[n].Counters, remote.state.Counters)
  BY <1>1, <1>5, MergedFields
<1>7. IsClock(cnt[n].Counters) /\ IsClock(remote.state.Counters)
  BY <1>5 DEF IsCounter
<1>8. ASSUME NEW m \in Node
      PROVE  /\ Count(cnt[n].Counters, m) <= Count(merged.Counters, m)
             /\ Count(merged.Counters, m) <= Count(cnt[m].Counters, m)
  BY <1>4, <1>6, <1>7, MergeCount, AtMostOwn
<1>9. ASSUME NEW m \in Node
      PROVE  /\ view[n][m] = Count(cnt[n].Counters, m)
             /\ view[m][m] = Count(cnt[m].Counters, m)
             /\ view'[n][m] = Count(merged.Counters, m)
             /\ view[n][m] \in Nat /\ view[m][m] \in Nat
  <2>1. /\ view[n][m] = Count(cnt[n].Counters, m) /\ view[n][m] \in Nat
        /\ view[m][m] = Count(cnt[m].Counters, m) /\ view[m][m] \in Nat
    BY ViewNat
  <2>2. view'[n][m] = Count(merged.Counters, m)
    <3>1. view'[n] = [q \in Node |-> Count(cnt'[n].Counters, q)]
      BY ViewRow
    <3> QED
      BY <1>2, <3>1
  <2> QED
    BY <2>1, <2>2
<1>10. IsClock(merged.Counters)
  BY <1>4 DEF Sound, IsCounter
<1>11. \A m \in Node : view'[n][m] \in Nat
  BY <1>9, <1>10, CountNat
<1>12. view'[n] = [m \in Node |-> view'[n][m]]
  BY ViewRow
<1>13. \A m \in Node : view[n][m] <= view'[n][m] /\ view'[n][m] <= view[m][m]
  BY <1>8, <1>9
<1>14. view'[n][n] = view[n][n]
  BY <1>9, <1>11, <1>13
<1>15. view'[n] \in [Node -> Nat]
  BY <1>11, <1>12
<1>16. view' = [view EXCEPT ![n] = view'[n]]
  BY <1>2 DEF view
<1> QED
  BY <1>13, <1>14, <1>15, <1>16 DEF Abstract!Learn, view

(* The replicated counter implements a grow-only counter, for any nodes    *)
(* and increments (Counter.IncrementWithTimestamp, Counter.Merge).         *)
THEOREM Refinement == Spec => ImplementsGCounter
<1>1. Init => Abstract!Init
  <2> SUFFICES ASSUME Init PROVE view = [n \in Node |-> [m \in Node |-> 0]]
    BY DEF Abstract!Init, view
  <2>1. \A n \in Node : cnt[n].Counters = EmptyClock
    BY DEF Init, NewCounter
  <2>2. \A n, m \in Node : Count(cnt[n].Counters, m) = 0
    BY <2>1 DEF Count, EmptyClock
  <2> QED
    BY <2>2 DEF view
<1>2. IInv /\ IInv' /\ [Next]_vars => [Abstract!Next]_view
  <2> SUFFICES ASSUME IInv, IInv', [Next]_vars PROVE [Abstract!Next]_view
    OBVIOUS
  <2>1. CASE UNCHANGED vars
    BY <2>1 DEF vars, view
  <2>2. ASSUME NEW n \in Node, NEW delta \in Delta, CounterInc(n, delta)
        PROVE  Abstract!Next
    BY <2>2, CounterIncRefines DEF Abstract!Next
  <2>3. ASSUME NEW n \in Node, GetAllCRDTs(n)
        PROVE  UNCHANGED view
    BY <2>3 DEF GetAllCRDTs, view
  <2>4. ASSUME NEW n \in Node, NEW remote \in msgs, ApplyMerged(n, remote)
        PROVE  Abstract!Next
    BY <2>4, ApplyMergedRefines DEF Abstract!Next
  <2> QED
    BY <2>1, <2>2, <2>3, <2>4 DEF Next
<1> QED
  BY <1>1, <1>2, InvariantIInv, PTL DEF Spec, ImplementsGCounter, Abstract!Spec, view
=============================================================================

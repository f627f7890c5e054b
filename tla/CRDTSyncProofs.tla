--------------------------- MODULE CRDTSyncProofs ---------------------------
(***************************************************************************)
(* Proofs about CRDTSync, for any nodes, modes and bounds: what the nodes  *)
(* hold was added by someone, what a merge of a stale snapshot can and     *)
(* cannot take back, and, where no node is in mode "both", that nothing is *)
(* ever lost.                                                              *)
(***************************************************************************)
EXTENDS CRDTSync, CRDTProofs

-----------------------------------------------------------------------------
(* Maps of objects, against the ticks of the nodes and the counts that     *)
(* they have reached.                                                      *)

Names == {SampleSet} \cup {CounterKey(m) : m \in Node}

\* No node has both goroutines.
Separate == \A n \in Node : Mode[n] # "both"

(* Every element has the timestamp of its tick, and the set's timestamp is *)
(* the join of them.  Elements come without gaps when no node has both     *)
(* goroutines.                                                             *)
GoodSet(s, ticks) ==
  /\ s = [type |-> "lwwset", Key |-> SampleSet, Adds |-> s.Adds, Removes |-> s.Removes,
          Timestamp |-> s.Timestamp]
  /\ IsClock(s.Timestamp)
  /\ DOMAIN s.Removes = {}
  /\ s.Adds = [e \in DOMAIN s.Adds |-> [m \in {e[1]} |-> e[2] + 1]]
  /\ \A e \in DOMAIN s.Adds :
       e \in Node \X Nat /\ e[2] < ticks[e[1]] /\ e[2] < Count(s.Timestamp, e[1])
  /\ \A m \in DOMAIN s.Timestamp : <<m, s.Timestamp[m] - 1>> \in DOMAIN s.Adds
  /\ Separate => \A e \in DOMAIN s.Adds : e[2] > 0 => <<e[1], e[2] - 1>> \in DOMAIN s.Adds

GoodCounter(c, m, counts) ==
  /\ c = [type |-> "counter", Key |-> CounterKey(m), Counters |-> c.Counters,
          Timestamp |-> c.Timestamp]
  /\ c.Counters \in [{m} -> 1 .. counts[m]]

GoodObject(obj, key, ticks, counts) ==
  IF key = SampleSet THEN GoodSet(obj, ticks) ELSE GoodCounter(obj, key[2], counts)

Good(objs, ticks, counts) ==
  /\ DOMAIN objs \subseteq Names
  /\ \A key \in DOMAIN objs : GoodObject(objs[key], key, ticks, counts)

-----------------------------------------------------------------------------
(* The inductive invariant *)

\* The counts that node n can have reached: one per tick, but for the tick
\* whose element is added and whose count is not.
Reached == [n \in Node |-> IF pub[n].pc = "count" THEN used.ticks[n] - 1 ELSE used.ticks[n]]

SyncTypeOK ==
  /\ proc \in [Node -> {"off", "running", "cancelled"}]
  /\ objects = [n \in Node |-> objects[n]]
  /\ pub = [n \in Node |-> pub[n]]
  /\ sub = [n \in Node |-> sub[n]]
  /\ inbox = [n \in Node |-> inbox[n]]
  /\ used = [ticks |-> used.ticks, faults |-> used.faults, exits |-> used.exits, syncNow |-> used.syncNow]
  /\ used.ticks \in [Node -> Nat]

(* The publisher goroutine: its counter is behind the ticks, and the       *)
(* elements up to its counter are among the objects objs as long as only   *)
(* this goroutine writes to them.                                          *)
PublisherOK(n, p, objs, ticks) ==
  /\ p \in [pc : {"wait", "count", "sync", "done"}, counter : Nat]
  /\ ticks[n] <= MaxTicks[n]
  /\ p.counter <= ticks[n]
  /\ p.pc \in {"count", "sync"} => p.counter < ticks[n]
  /\ ~Publishes(n) => p.pc = "done"
  /\ Separate /\ p.pc # "done" /\ p.counter > 0 => <<n, p.counter - 1>> \in ElementsOf(objs, n)
  /\ Separate /\ p.pc \in {"count", "sync"} => <<n, p.counter>> \in ElementsOf(objs, n)

(* The subscriber goroutine: while it applies a message, the live objects  *)
(* hold what its snapshot holds; and as long as a key of the message is    *)
(* not yet applied, they say of the nodes that only this goroutine learns  *)
(* of no more than the snapshot.                                           *)
SubscriberOK(n, s, objs) ==
  /\ s = [pc |-> s.pc, our |-> s.our, data |-> s.data]
  /\ s.pc \in {"next", "apply", "done"}
  /\ ~Subscribes(n) => s.pc = "done"
  /\ s.pc = "apply" => \A m \in Node :
       /\ KnowsLess(s.our, objs, m)
       /\ m # n \/ ~Publishes(n) =>
            /\ CounterKey(m) \in DOMAIN s.data => CountOf(objs, m) <= CountOf(s.our, m)
            /\ SampleSet \in DOMAIN s.data => ElementsOf(objs, m) \subseteq ElementsOf(s.our, m)

GoodMessage(msg, ticks, counts) ==
  /\ msg.NodeID \in Node
  /\ msg.type \in {"sync", "sync_request"}
  /\ Good(msg.SyncData, ticks, counts)

GoodBox(box, ticks, counts) ==
  IsABag(box) /\ \A msg \in DOMAIN box : GoodMessage(msg, ticks, counts)

AllGood ==
  \A n \in Node :
    /\ Good(objects[n], used.ticks, Reached)
    /\ Good(sub[n].our, used.ticks, Reached)
    /\ Good(sub[n].data, used.ticks, Reached)
    /\ GoodBox(inbox[n], used.ticks, Reached)

SyncInv ==
  /\ SyncTypeOK
  /\ \A n \in Node : PublisherOK(n, pub[n], objects[n], used.ticks)
  /\ \A n \in Node : SubscriberOK(n, sub[n], objects[n])
  /\ AllGood

-----------------------------------------------------------------------------
(* Objects *)

(* No counter has the name of the set, and no two nodes the same counter   *)
(* (AddLocalData).                                                         *)
LEMMA NamesDiffer ==
  /\ \A m : CounterKey(m) # SampleSet /\ CounterKey(m)[2] = m
  /\ \A m1, m2 : CounterKey(m1) = CounterKey(m2) => m1 = m2
BY DEF CounterKey, SampleSet

(* A name is the set's or that of a node's counter. *)
LEMMA NameCases ==
  ASSUME NEW key \in Names, key # SampleSet
  PROVE  key[2] \in Node /\ key = CounterKey(key[2])
BY DEF Names, CounterKey

(* What was genuine stays so when nodes go on ticking. *)
LEMMA GoodLater ==
  ASSUME NEW t1 \in [Node -> Nat], NEW t2 \in [Node -> Nat], \A m \in Node : t1[m] <= t2[m],
         NEW c1 \in [Node -> Int], NEW c2 \in [Node -> Int], \A m \in Node : c1[m] <= c2[m],
         NEW objs, Good(objs, t1, c1)
  PROVE  Good(objs, t2, c2)
<1>1. ASSUME NEW key \in DOMAIN objs
      PROVE  GoodObject(objs[key], key, t2, c2)
  <2>1. key \in Names /\ GoodObject(objs[key], key, t1, c1)
    BY DEF Good
  <2>2. CASE key = SampleSet
    <3>1. GoodSet(objs[key], t1)
      BY <2>1, <2>2 DEF GoodObject
    <3>2. \A e \in DOMAIN objs[key].Adds : e[2] < t2[e[1]]
      BY <3>1 DEF GoodSet
    <3> QED
      BY <2>2, <3>1, <3>2 DEF GoodObject, GoodSet
  <2>3. CASE key # SampleSet
    <3>1. key[2] \in Node /\ GoodCounter(objs[key], key[2], c1)
      BY <2>1, <2>3, NameCases DEF GoodObject
    <3>2. 1 .. c1[key[2]] \subseteq 1 .. c2[key[2]]
      BY <3>1
    <3> QED
      BY <2>3, <3>1, <3>2 DEF GoodObject, GoodCounter
  <2> QED
    BY <2>2, <2>3
<1> QED
  BY <1>1 DEF Good

(* LWWSet.Merge of two genuine sets: the elements of both, each with the   *)
(* timestamp of its tick.                                                  *)
LEMMA MergedSets ==
  ASSUME NEW ticks, NEW s, GoodSet(s, ticks), NEW o, GoodSet(o, ticks), NEW r \in Merge(s, o)
  PROVE  GoodSet(r, ticks) /\ DOMAIN r.Adds = DOMAIN s.Adds \cup DOMAIN o.Adds
<1>1. s.type = "lwwset" /\ o.type = "lwwset" /\ s.Key = SampleSet /\ o.Key = SampleSet
  BY DEF GoodSet
<1>2. r \in MergeLWWSet(s, o)
  BY <1>1 DEF Merge
<1>3. PICK adds \in MergeEntries(s.Adds, o.Adds), removes \in MergeEntries(s.Removes, o.Removes) :
        r = [type |-> "lwwset", Key |-> s.Key, Adds |-> adds, Removes |-> removes,
             Timestamp |-> MergeClock(s.Timestamp, o.Timestamp)]
  BY <1>2 DEF MergeLWWSet
<1>4. /\ r = [type |-> "lwwset", Key |-> SampleSet, Adds |-> r.Adds, Removes |-> r.Removes,
              Timestamp |-> r.Timestamp]
      /\ r.Adds = adds /\ r.Removes = removes
      /\ r.Timestamp = MergeClock(s.Timestamp, o.Timestamp)
  BY <1>1, <1>3
<1>5. DOMAIN r.Adds = DOMAIN s.Adds \cup DOMAIN o.Adds /\ DOMAIN r.Removes = {}
  <2>1. DOMAIN adds = DOMAIN s.Adds \cup DOMAIN o.Adds
    BY MergedDomain
  <2>2. DOMAIN removes = DOMAIN s.Removes \cup DOMAIN o.Removes
    BY MergedDomain
  <2>3. DOMAIN s.Removes = {} /\ DOMAIN o.Removes = {}
    BY DEF GoodSet
  <2> QED
    BY <1>4, <2>1, <2>2, <2>3
<1>6. IsClock(s.Timestamp) /\ IsClock(o.Timestamp) /\ IsClock(r.Timestamp)
  BY <1>4, MergeClockType DEF GoodSet
<1>7. r.Adds = [e \in DOMAIN r.Adds |-> [m \in {e[1]} |-> e[2] + 1]]
  <2>1. r.Adds = [e \in DOMAIN r.Adds |-> r.Adds[e]]
    BY <1>4, MergedIsFunction
  <2>2. ASSUME NEW e \in DOMAIN r.Adds
        PROVE  r.Adds[e] = [m \in {e[1]} |-> e[2] + 1]
    <3>1. \/ e \in DOMAIN s.Adds /\ r.Adds[e] = s.Adds[e]
          \/ e \in DOMAIN o.Adds /\ r.Adds[e] = o.Adds[e]
      BY <1>4, MergedEntry
    <3>2. \A x \in DOMAIN s.Adds : s.Adds[x] = [m \in {x[1]} |-> x[2] + 1]
      BY DEF GoodSet
    <3>3. \A x \in DOMAIN o.Adds : o.Adds[x] = [m \in {x[1]} |-> x[2] + 1]
      BY DEF GoodSet
    <3> QED
      BY <3>1, <3>2, <3>3
  <2> QED
    BY <2>1, <2>2
<1>8. ASSUME NEW e \in DOMAIN r.Adds
      PROVE  e \in Node \X Nat /\ e[2] < ticks[e[1]] /\ e[2] < Count(r.Timestamp, e[1])
  <2>1. /\ Count(s.Timestamp, e[1]) <= Count(r.Timestamp, e[1])
        /\ Count(o.Timestamp, e[1]) <= Count(r.Timestamp, e[1])
        /\ Count(s.Timestamp, e[1]) \in Nat /\ Count(o.Timestamp, e[1]) \in Nat
        /\ Count(r.Timestamp, e[1]) \in Nat
    BY <1>4, <1>6, MergeCount, CountNat
  <2>2. CASE e \in DOMAIN s.Adds
    <3>1. e \in Node \X Nat /\ e[2] < ticks[e[1]] /\ e[2] < Count(s.Timestamp, e[1])
      BY <2>2 DEF GoodSet
    <3> QED
      BY <2>1, <3>1
  <2>3. CASE e \in DOMAIN o.Adds
    <3>1. e \in Node \X Nat /\ e[2] < ticks[e[1]] /\ e[2] < Count(o.Timestamp, e[1])
      BY <2>3 DEF GoodSet
    <3> QED
      BY <2>1, <3>1
  <2> QED
    BY <1>5, <2>2, <2>3
<1>9. ASSUME NEW m \in DOMAIN r.Timestamp
      PROVE  <<m, r.Timestamp[m] - 1>> \in DOMAIN r.Adds
  <2>1. \/ m \in DOMAIN s.Timestamp /\ r.Timestamp[m] = s.Timestamp[m]
        \/ m \in DOMAIN o.Timestamp /\ r.Timestamp[m] = o.Timestamp[m]
    BY <1>4 DEF MergeClock
  <2> QED
    BY <1>5, <2>1 DEF GoodSet
<1>10. Separate => \A e \in DOMAIN r.Adds : e[2] > 0 => <<e[1], e[2] - 1>> \in DOMAIN r.Adds
  BY <1>5 DEF GoodSet
<1> QED
  BY <1>4, <1>5, <1>6, <1>7, <1>8, <1>9, <1>10 DEF GoodSet

(* Counter.Merge of two genuine counters of a node: the higher count.      *)
LEMMA MergedCounters ==
  ASSUME NEW counts, NEW m \in Node, counts[m] \in Int,
         NEW c, GoodCounter(c, m, counts), NEW o, GoodCounter(o, m, counts), NEW r \in Merge(c, o)
  PROVE  /\ GoodCounter(r, m, counts)
         /\ r.Counters[m] \in {c.Counters[m], o.Counters[m]}
         /\ c.Counters[m] <= r.Counters[m] /\ o.Counters[m] <= r.Counters[m]
<1>1. /\ c.type = "counter" /\ o.type = "counter" /\ c.Key = CounterKey(m) /\ o.Key = CounterKey(m)
      /\ c.Counters \in [{m} -> 1 .. counts[m]] /\ o.Counters \in [{m} -> 1 .. counts[m]]
  BY DEF GoodCounter
<1>2. r \in MergeCounter(c, o)
  BY <1>1 DEF Merge
<1>3. c \in [type : {"counter"}, Key : {CounterKey(m)}, Counters : {c.Counters},
             Timestamp : {c.Timestamp}]
  BY DEF GoodCounter
<1>4. r = [c EXCEPT !.Counters  = MergeClock(c.Counters, o.Counters),
                    !.Timestamp = MergeClock(c.Timestamp, o.Timestamp)]
  BY <1>2 DEF MergeCounter
<1>5. /\ r = [type |-> "counter", Key |-> CounterKey(m), Counters |-> r.Counters,
              Timestamp |-> r.Timestamp]
      /\ r.Counters = MergeClock(c.Counters, o.Counters)
  BY <1>3, <1>4
<1>6. /\ r.Counters = [n \in {m} |-> r.Counters[n]]
      /\ r.Counters[m] = IF o.Counters[m] > c.Counters[m] THEN o.Counters[m] ELSE c.Counters[m]
  BY <1>1, <1>5 DEF MergeClock
<1>7. c.Counters[m] \in 1 .. counts[m] /\ o.Counters[m] \in 1 .. counts[m]
  BY <1>1
<1> QED
  BY <1>5, <1>6, <1>7 DEF GoodCounter

(* What an object says of node m. *)
CountIn(obj, m) == Count(obj.Counters, m)
ElementsIn(obj, m) == {e \in DOMAIN obj.Adds : e[1] = m}

(* Without removals every element counts (GetElements, Contains).          *)
LEMMA Knowledge ==
  ASSUME NEW ticks, NEW counts, NEW objs, Good(objs, ticks, counts), NEW m \in Node
  PROVE  /\ ElementsOf(objs, m) =
              IF SampleSet \in DOMAIN objs THEN ElementsIn(objs[SampleSet], m) ELSE {}
         /\ CounterKey(m) \in DOMAIN objs =>
              /\ GoodCounter(objs[CounterKey(m)], m, counts)
              /\ CountOf(objs, m) = objs[CounterKey(m)].Counters[m]
              /\ counts[m] \in Int => CountOf(objs, m) \in 1 .. counts[m]
         /\ CounterKey(m) \notin DOMAIN objs => CountOf(objs, m) = 0
<1>1. ASSUME SampleSet \in DOMAIN objs
      PROVE  GetElements(objs[SampleSet]) = DOMAIN objs[SampleSet].Adds
  BY <1>1 DEF Good, GoodObject, GoodSet, GetElements, Contains
<1>2. ASSUME CounterKey(m) \in DOMAIN objs
      PROVE  GoodCounter(objs[CounterKey(m)], m, counts)
  BY <1>2, NamesDiffer DEF Good, GoodObject
<1>3. ASSUME CounterKey(m) \in DOMAIN objs
      PROVE  /\ CountOf(objs, m) = objs[CounterKey(m)].Counters[m]
             /\ counts[m] \in Int => CountOf(objs, m) \in 1 .. counts[m]
  BY <1>2, <1>3 DEF CountOf, Count, GoodCounter
<1> QED
  BY <1>1, <1>2, <1>3 DEF ElementsOf, ElementsIn, CountOf

(* Storing a genuine object changes what is known through its name only    *)
(* (ApplyMergedCRDT, getOrCreateSet, getOrCreateCounter).                  *)
LEMMA PutObject ==
  ASSUME NEW ticks, NEW counts, NEW objs, Good(objs, ticks, counts),
         NEW key \in Names, NEW obj, GoodObject(obj, key, ticks, counts)
  PROVE  LET new == Put(objs, key, obj)
         IN  /\ Good(new, ticks, counts)
             /\ \A m \in Node :
                  /\ CountOf(new, m) = IF key = CounterKey(m) THEN obj.Counters[m] ELSE CountOf(objs, m)
                  /\ ElementsOf(new, m) = IF key = SampleSet THEN ElementsIn(obj, m)
                                                             ELSE ElementsOf(objs, m)
<1> DEFINE new == Put(objs, key, obj)
<1>1. /\ DOMAIN new = DOMAIN objs \cup {key} /\ new[key] = obj
      /\ \A k \in DOMAIN objs : k # key => new[k] = objs[k]
  BY DEF Put
<1>2. Good(new, ticks, counts)
  BY <1>1 DEF Good
<1> HIDE DEF new
<1>3. ASSUME NEW m \in Node
      PROVE  CountOf(new, m) = IF key = CounterKey(m) THEN obj.Counters[m] ELSE CountOf(objs, m)
  <2>1. CASE key = CounterKey(m)
    BY <1>1, <1>2, <2>1, Knowledge
  <2>2. CASE key # CounterKey(m)
    BY <1>1, <2>2 DEF CountOf
  <2> QED
    BY <2>1, <2>2
<1>4. ASSUME NEW m \in Node
      PROVE  ElementsOf(new, m) = IF key = SampleSet THEN ElementsIn(obj, m) ELSE ElementsOf(objs, m)
  <2>1. CASE key = SampleSet
    BY <1>1, <1>2, <2>1, Knowledge
  <2>2. CASE key # SampleSet
    BY <1>1, <2>2 DEF ElementsOf
  <2> QED
    BY <2>1, <2>2
<1> QED
  BY <1>2, <1>3, <1>4 DEF new

(* What applyCRDTSync stores for one key of a message holds what the       *)
(* snapshot and the message hold.                                          *)
LEMMA MergedObject ==
  ASSUME NEW ticks, NEW counts \in [Node -> Int], NEW our, Good(our, ticks, counts),
         NEW data, Good(data, ticks, counts), NEW key \in DOMAIN data,
         NEW obj \in MergeObject(our, key, data[key])
  PROVE  /\ GoodObject(obj, key, ticks, counts)
         /\ \A m \in Node :
              /\ key = SampleSet => ElementsIn(obj, m) = ElementsOf(our, m) \cup ElementsOf(data, m)
              /\ key = CounterKey(m) =>
                   CountOf(our, m) <= obj.Counters[m] /\ CountOf(data, m) <= obj.Counters[m]
<1>1. key \in Names /\ GoodObject(data[key], key, ticks, counts)
  BY DEF Good
<1>2. CASE key \notin DOMAIN our
  <2>1. obj = data[key]
    BY <1>2 DEF MergeObject
  <2>2. ASSUME NEW m \in Node, key = SampleSet
        PROVE  ElementsIn(obj, m) = ElementsOf(our, m) \cup ElementsOf(data, m)
    BY <1>2, <2>1, <2>2, Knowledge
  <2>3. ASSUME NEW m \in Node, key = CounterKey(m)
        PROVE  CountOf(our, m) <= obj.Counters[m] /\ CountOf(data, m) <= obj.Counters[m]
    <3>1. CountOf(our, m) = 0 /\ CountOf(data, m) = obj.Counters[m]
            /\ CountOf(data, m) \in 1 .. counts[m]
      BY <1>2, <2>1, <2>3, Knowledge
    <3> QED
      BY <3>1
  <2> QED
    BY <1>1, <2>1, <2>2, <2>3
<1>3. CASE key \in DOMAIN our
  <2>1. obj \in Merge(our[key], data[key]) /\ GoodObject(our[key], key, ticks, counts)
    BY <1>3 DEF MergeObject, Good
  <2>2. CASE key = SampleSet
    <3>1. GoodSet(our[key], ticks) /\ GoodSet(data[key], ticks)
      BY <1>1, <2>1, <2>2 DEF GoodObject
    <3>2. GoodSet(obj, ticks) /\ DOMAIN obj.Adds = DOMAIN our[key].Adds \cup DOMAIN data[key].Adds
      BY <2>1, <3>1, MergedSets
    <3>3. \A m \in Node : /\ ElementsOf(our, m) = ElementsIn(our[key], m)
                          /\ ElementsOf(data, m) = ElementsIn(data[key], m)
      BY <1>3, <2>2, Knowledge
    <3>4. ASSUME NEW m \in Node
          PROVE  ElementsIn(obj, m) = ElementsOf(our, m) \cup ElementsOf(data, m)
      <4>1. ElementsIn(obj, m) = ElementsIn(our[key], m) \cup ElementsIn(data[key], m)
        BY <3>2 DEF ElementsIn
      <4> QED
        BY <3>3, <4>1
    <3> QED
      BY <2>2, <3>2, <3>4, NamesDiffer DEF GoodObject
  <2>3. CASE key # SampleSet
    <3>1. PICK n \in Node : key = CounterKey(n) /\ key[2] = n
      BY <1>1, <2>3, NameCases
    <3>2. GoodCounter(our[key], n, counts) /\ GoodCounter(data[key], n, counts)
      BY <1>1, <2>1, <2>3, <3>1 DEF GoodObject
    <3>3. /\ GoodCounter(obj, n, counts)
          /\ our[key].Counters[n] <= obj.Counters[n] /\ data[key].Counters[n] <= obj.Counters[n]
      BY <2>1, <3>2, MergedCounters
    <3>4. CountOf(our, n) = our[key].Counters[n] /\ CountOf(data, n) = data[key].Counters[n]
      BY <1>3, <3>1, Knowledge
    <3> QED
      BY <2>3, <3>1, <3>3, <3>4, NamesDiffer DEF GoodObject
  <2> QED
    BY <2>2, <2>3
<1> QED
  BY <1>2, <1>3

(* An empty set, and the set of a node that has none yet (getOrCreateSet). *)
LEMMA CreatedSet ==
  ASSUME NEW ticks, NEW counts, NEW objs, Good(objs, ticks, counts),
         NEW s, s = getOrCreateSet(objs, SampleSet)
  PROVE  GoodSet(s, ticks) /\ \A m \in Node : ElementsIn(s, m) = ElementsOf(objs, m)
<1>1. CASE SampleSet \in DOMAIN objs
  BY <1>1, Knowledge DEF getOrCreateSet, Good, GoodObject
<1>2. CASE SampleSet \notin DOMAIN objs
  <2>1. s = [type |-> "lwwset", Key |-> SampleSet, Adds |-> EmptyClock, Removes |-> EmptyClock,
             Timestamp |-> EmptyClock]
    BY <1>2 DEF getOrCreateSet, NewLWWSet
  <2>2. DOMAIN EmptyClock = {} /\ EmptyClock = [e \in {} |-> [m \in {e[1]} |-> e[2] + 1]]
    BY DEF EmptyClock
  <2>3. GoodSet(s, ticks)
    BY <2>1, <2>2, EmptyClockType DEF GoodSet
  <2> QED
    BY <1>2, <2>1, <2>2, <2>3, Knowledge DEF ElementsIn
<1> QED
  BY <1>1, <1>2

(* The first half of AddLocalData: the element of the tick is added, with  *)
(* the tick's own timestamp.                                               *)
LEMMA AddedElement ==
  ASSUME NEW ticks, NEW counts, NEW objs, Good(objs, ticks, counts),
         NEW n \in Node, NEW k \in Nat, k < ticks[n],
         Separate /\ k > 0 => <<n, k - 1>> \in ElementsOf(objs, n),
         NEW stamp, stamp = [m \in {n} |-> k + 1],
         NEW e, e = <<n, k>>,
         NEW new, new = LWWAdd(objs, n, SampleSet, e, stamp)
  PROVE  /\ Good(new, ticks, counts)
         /\ \A m \in Node : CountOf(new, m) = CountOf(objs, m)
         /\ \A m \in Node : m # n => ElementsOf(new, m) = ElementsOf(objs, m)
         /\ ElementsOf(new, n) = ElementsOf(objs, n) \cup {e}
<1> DEFINE s == getOrCreateSet(objs, SampleSet)
           r == applySetOp(s, n, e, TRUE, stamp)
<1>1. GoodSet(s, ticks) /\ \A m \in Node : ElementsIn(s, m) = ElementsOf(objs, m)
  BY CreatedSet
<1>2. DOMAIN stamp # {} /\ IsClock(stamp) /\ DOMAIN stamp = {n} /\ stamp[n] = k + 1
  BY DEF IsClock
<1>3. s \in [type : {"lwwset"}, Key : {SampleSet}, Adds : {s.Adds}, Removes : {s.Removes},
             Timestamp : {s.Timestamp}]
  BY <1>1 DEF GoodSet
<1> HIDE DEF s
<1>4. r = [s EXCEPT !.Adds = Put(s.Adds, e, stamp), !.Removes = s.Removes,
                    !.Timestamp = MergeClock(s.Timestamp, stamp)]
  BY <1>2, <1>3 DEF applySetOp
<1>5. /\ r = [type |-> "lwwset", Key |-> SampleSet, Adds |-> r.Adds, Removes |-> r.Removes,
              Timestamp |-> r.Timestamp]
      /\ r.Adds = Put(s.Adds, e, stamp) /\ r.Removes = s.Removes
      /\ r.Timestamp = MergeClock(s.Timestamp, stamp)
  BY <1>3, <1>4
<1> HIDE DEF r
<1>6. /\ DOMAIN r.Adds = DOMAIN s.Adds \cup {e} /\ r.Adds[e] = stamp
      /\ r.Adds = [x \in DOMAIN r.Adds |-> r.Adds[x]]
      /\ \A x \in DOMAIN s.Adds : x # e => r.Adds[x] = s.Adds[x]
  BY <1>5 DEF Put
<1>7. IsClock(s.Timestamp) /\ IsClock(r.Timestamp)
  BY <1>1, <1>2, <1>5, MergeClockType DEF GoodSet
<1>8. \A m \in Node : /\ Count(s.Timestamp, m) <= Count(r.Timestamp, m)
                      /\ Count(stamp, m) <= Count(r.Timestamp, m)
                      /\ Count(s.Timestamp, m) \in Nat /\ Count(r.Timestamp, m) \in Nat
  BY <1>2, <1>5, <1>7, MergeCount, CountNat
<1>9. GoodSet(r, ticks)
  <2>1. r.Adds = [x \in DOMAIN r.Adds |-> [m \in {x[1]} |-> x[2] + 1]]
    <3>1. \A x \in DOMAIN s.Adds : s.Adds[x] = [m \in {x[1]} |-> x[2] + 1]
      BY <1>1 DEF GoodSet
    <3>2. r.Adds[e] = [m \in {e[1]} |-> e[2] + 1]
      BY <1>6
    <3>3. ASSUME NEW x \in DOMAIN r.Adds
          PROVE  r.Adds[x] = [m \in {x[1]} |-> x[2] + 1]
      <4>1. CASE x = e
        BY <3>2, <4>1
      <4>2. CASE x # e
        <5>1. x \in DOMAIN s.Adds /\ r.Adds[x] = s.Adds[x]
          BY <1>6, <4>2
        <5> QED
          BY <3>1, <5>1
      <4> QED
        BY <4>1, <4>2
    <3> QED
      BY <1>6, <3>3
  <2>2. ASSUME NEW x \in DOMAIN r.Adds
        PROVE  x \in Node \X Nat /\ x[2] < ticks[x[1]] /\ x[2] < Count(r.Timestamp, x[1])
    <3>1. CASE x \in DOMAIN s.Adds
      <4>1. x \in Node \X Nat /\ x[2] < ticks[x[1]] /\ x[2] < Count(s.Timestamp, x[1])
        BY <1>1, <3>1 DEF GoodSet
      <4> QED
        BY <1>8, <4>1
    <3>2. CASE x = e
      <4>1. Count(stamp, n) = k + 1
        BY <1>2 DEF Count
      <4>2. k < Count(r.Timestamp, n)
        BY <1>8, <4>1
      <4> QED
        BY <3>2, <4>2
    <3> QED
      BY <1>6, <3>1, <3>2
  <2>3. ASSUME NEW m \in DOMAIN r.Timestamp
        PROVE  <<m, r.Timestamp[m] - 1>> \in DOMAIN r.Adds
    <3>1. \/ m \in DOMAIN s.Timestamp /\ r.Timestamp[m] = s.Timestamp[m]
          \/ m = n /\ r.Timestamp[m] = k + 1
      BY <1>2, <1>5 DEF MergeClock
    <3>2. m \in DOMAIN s.Timestamp => <<m, s.Timestamp[m] - 1>> \in DOMAIN s.Adds
      BY <1>1 DEF GoodSet
    <3> QED
      BY <1>6, <3>1, <3>2
  <2>4. DOMAIN r.Removes = {}
    BY <1>1, <1>5 DEF GoodSet
  <2>5. ASSUME Separate, NEW x \in DOMAIN r.Adds, x[2] > 0
        PROVE  <<x[1], x[2] - 1>> \in DOMAIN r.Adds
    <3>1. CASE x \in DOMAIN s.Adds
      BY <1>1, <1>6, <2>5, <3>1 DEF GoodSet
    <3>2. CASE x = e
      <4>1. <<n, k - 1>> \in ElementsIn(s, n)
        BY <1>1, <2>5, <3>2
      <4> QED
        BY <1>6, <3>2, <4>1 DEF ElementsIn
    <3> QED
      BY <1>6, <3>1, <3>2
  <2> QED
    BY <1>5, <1>7, <2>1, <2>2, <2>3, <2>4, <2>5 DEF GoodSet
<1>10. ASSUME NEW m \in Node
       PROVE  ElementsIn(r, m) = IF m = n THEN ElementsOf(objs, m) \cup {e} ELSE ElementsOf(objs, m)
  <2>1. e[1] = n
    OBVIOUS
  <2>2. ElementsIn(s, m) = ElementsOf(objs, m)
    BY <1>1
  <2>3. CASE m = n
    BY <1>6, <2>1, <2>2, <2>3 DEF ElementsIn
  <2>4. CASE m # n
    BY <1>6, <2>1, <2>2, <2>4 DEF ElementsIn
  <2> QED
    BY <2>3, <2>4
<1>11. SampleSet \in Names /\ GoodObject(r, SampleSet, ticks, counts)
  BY <1>9 DEF Names, GoodObject
<1>12. new = Put(objs, SampleSet, r)
  BY DEF LWWAdd, r, s
<1>13. /\ Good(Put(objs, SampleSet, r), ticks, counts)
       /\ \A m \in Node : /\ CountOf(Put(objs, SampleSet, r), m) = CountOf(objs, m)
                          /\ ElementsOf(Put(objs, SampleSet, r), m) = ElementsIn(r, m)
  BY <1>11, PutObject, NamesDiffer
<1> QED
  BY <1>10, <1>12, <1>13

(* The second half: the node's own count goes up by one. *)
LEMMA AddedCount ==
  ASSUME NEW ticks, NEW counts \in [Node -> Int], NEW objs, Good(objs, ticks, counts),
         NEW n \in Node, CountOf(objs, n) < counts[n], NEW stamp, DOMAIN stamp # {},
         NEW new, new = CounterInc(objs, n, CounterKey(n), 1, stamp)
  PROVE  /\ Good(new, ticks, counts)
         /\ \A m \in Node : ElementsOf(new, m) = ElementsOf(objs, m)
         /\ \A m \in Node : m # n => CountOf(new, m) = CountOf(objs, m)
         /\ CountOf(new, n) = CountOf(objs, n) + 1
<1> DEFINE c == getOrCreateCounter(objs, CounterKey(n))
           r == IncrementWithTimestamp(c, n, 1, stamp)
<1>1. /\ c \in [type : {"counter"}, Key : {CounterKey(n)}, Counters : {c.Counters},
                Timestamp : {c.Timestamp}]
      /\ DOMAIN c.Counters \subseteq {n} /\ Count(c.Counters, n) = CountOf(objs, n)
      /\ CountOf(objs, n) \in Nat
  <2>1. CASE CounterKey(n) \in DOMAIN objs
    <3>1. c = objs[CounterKey(n)] /\ GoodCounter(c, n, counts)
      BY <2>1, Knowledge DEF getOrCreateCounter
    <3>2. CountOf(objs, n) = Count(c.Counters, n) /\ CountOf(objs, n) \in 1 .. counts[n]
      BY <2>1, <3>1, Knowledge DEF CountOf
    <3> QED
      BY <3>1, <3>2 DEF GoodCounter
  <2>2. CASE CounterKey(n) \notin DOMAIN objs
    <3>1. c = [type |-> "counter", Key |-> CounterKey(n), Counters |-> EmptyClock,
               Timestamp |-> EmptyClock]
      BY <2>2 DEF getOrCreateCounter, NewCounter
    <3>2. CountOf(objs, n) = 0 /\ DOMAIN EmptyClock = {}
      BY <2>2 DEF CountOf, EmptyClock
    <3> QED
      BY <3>1, <3>2 DEF Count
  <2> QED
    BY <2>1, <2>2
<1> HIDE DEF c
<1>2. r = [c EXCEPT !.Counters  = AddCount(c.Counters, n, 1),
                    !.Timestamp = MergeClock(c.Timestamp, stamp)]
  BY <1>1 DEF IncrementWithTimestamp
<1>3. /\ r = [type |-> "counter", Key |-> CounterKey(n), Counters |-> r.Counters,
              Timestamp |-> r.Timestamp]
      /\ r.Counters = AddCount(c.Counters, n, 1)
  BY <1>1, <1>2
<1> HIDE DEF r
<1>4. r.Counters = [m \in {n} |-> CountOf(objs, n) + 1]
  <2>1. DOMAIN c.Counters \cup {n} = {n}
    BY <1>1
  <2>2. AddCount(c.Counters, n, 1) = [m \in {n} |-> Count(c.Counters, n) + 1]
    BY <1>1, <2>1 DEF AddCount, Put, Count
  <2> QED
    BY <1>1, <1>3, <2>2
<1>5. GoodCounter(r, n, counts)
  BY <1>1, <1>3, <1>4 DEF GoodCounter
<1>6. CounterKey(n) \in Names /\ GoodObject(r, CounterKey(n), ticks, counts)
  BY <1>5, NamesDiffer DEF GoodObject, Names
<1>7. new = Put(objs, CounterKey(n), r)
  BY DEF CounterInc, r, c
<1>8. r.Counters[n] = CountOf(objs, n) + 1
  BY <1>4
<1> QED
  BY <1>6, <1>7, <1>8, PutObject, NamesDiffer

-----------------------------------------------------------------------------
(* Messages *)

(* A bag with one more message, and one with one less (Publish, Next). *)
LEMMA AddedMessage ==
  ASSUME NEW ticks, NEW counts, NEW box, GoodBox(box, ticks, counts),
         NEW msg, GoodMessage(msg, ticks, counts)
  PROVE  GoodBox(BagAdd(box, msg), ticks, counts)
<1>1. box \in [DOMAIN box -> Nat \ {0}]
  BY DEF GoodBox, IsABag
<1>2. /\ DOMAIN BagAdd(box, msg) = DOMAIN box \cup {msg}
      /\ IsABag(BagAdd(box, msg))
  BY <1>1 DEF BagAdd, IsABag
<1> QED
  BY <1>2 DEF GoodBox

LEMMA RemovedMessage ==
  ASSUME NEW ticks, NEW counts, NEW box, GoodBox(box, ticks, counts), NEW msg
  PROVE  GoodBox(BagRemove(box, msg), ticks, counts)
<1>1. box \in [DOMAIN box -> Nat \ {0}]
  BY DEF GoodBox, IsABag
<1>2. /\ DOMAIN BagRemove(box, msg) \subseteq DOMAIN box
      /\ IsABag(BagRemove(box, msg))
  BY <1>1 DEF BagRemove, IsABag
<1> QED
  BY <1>2 DEF GoodBox

LEMMA BroadcastBoxes ==
  ASSUME NEW ticks, NEW counts, NEW boxes, \A q \in Node : GoodBox(boxes[q], ticks, counts),
         NEW msg, GoodMessage(msg, ticks, counts), NEW p,
         NEW new, new = Broadcast(boxes, msg, p)
  PROVE  new = [q \in Node |-> new[q]] /\ \A q \in Node : GoodBox(new[q], ticks, counts)
<1>1. \A q \in Node : new[q] \in {boxes[q], BagAdd(boxes[q], msg)}
  BY DEF Broadcast
<1>2. new = [q \in Node |-> new[q]]
  BY DEF Broadcast
<1> QED
  BY <1>1, <1>2, AddedMessage

(* An empty map, and a map that holds no more than a genuine one. *)
LEMMA GoodPart ==
  ASSUME NEW ticks, NEW counts
  PROVE  /\ Good(NoObjects, ticks, counts)
         /\ \A objs, keys : Good(objs, ticks, counts)
              => Good([k \in DOMAIN objs \ keys |-> objs[k]], ticks, counts)
BY DEF Good, NoObjects

-----------------------------------------------------------------------------
(* Steps *)

(* The counts that nodes can have reached are numbers. *)
LEMMA ReachedType ==
  ASSUME SyncTypeOK
  PROVE  /\ Reached \in [Node -> Int]
         /\ \A n \in Node :
              Reached[n] = IF pub[n].pc = "count" THEN used.ticks[n] - 1 ELSE used.ticks[n]
BY DEF SyncTypeOK, Reached

(* What was genuine before a step that takes no tick back is so after it.  *)
LEMMA GoodStays ==
  ASSUME SyncTypeOK, SyncTypeOK',
         \A q \in Node : used.ticks[q] <= used.ticks'[q] /\ Reached[q] <= Reached'[q]
  PROVE  /\ \A objs : Good(objs, used.ticks, Reached) => Good(objs, used.ticks', Reached')
         /\ \A box : GoodBox(box, used.ticks, Reached) => GoodBox(box, used.ticks', Reached')
<1>1. Reached \in [Node -> Int] /\ Reached' \in [Node -> Int]
  BY DEF SyncTypeOK, Reached
<1>2. used.ticks \in [Node -> Nat] /\ used.ticks' \in [Node -> Nat]
  BY DEF SyncTypeOK
<1>3. \A objs : Good(objs, used.ticks, Reached) => Good(objs, used.ticks', Reached')
  BY <1>1, <1>2, GoodLater
<1> QED
  BY <1>3 DEF GoodBox, GoodMessage

(* A step of node n leaves the others as they are, but for the messages to *)
(* them.                                                                   *)
LEMMA StepOfOneNode ==
  ASSUME SyncInv, SyncTypeOK', NEW n \in Node,
         \A q \in Node \ {n} : /\ objects'[q] = objects[q]
                               /\ pub'[q] = pub[q]
                               /\ sub'[q] = sub[q]
                               /\ used.ticks'[q] = used.ticks[q],
         used.ticks[n] <= used.ticks'[n], Reached[n] <= Reached'[n],
         \A q \in Node : GoodBox(inbox'[q], used.ticks', Reached'),
         PublisherOK(n, pub'[n], objects'[n], used.ticks'),
         SubscriberOK(n, sub'[n], objects'[n]),
         Good(objects'[n], used.ticks', Reached'),
         Good(sub'[n].our, used.ticks', Reached'),
         Good(sub'[n].data, used.ticks', Reached')
  PROVE  SyncInv'
<1>1. SyncTypeOK /\ AllGood /\ used.ticks \in [Node -> Nat] /\ used.ticks' \in [Node -> Nat]
  BY DEF SyncInv, SyncTypeOK
<1>2. ASSUME NEW q \in Node
      PROVE  used.ticks[q] <= used.ticks'[q] /\ Reached[q] <= Reached'[q]
  <2>1. CASE q = n
    BY <2>1
  <2>2. CASE q # n
    <3>1. Reached'[q] = Reached[q] /\ Reached[q] \in Int
      BY <1>1, <2>2, ReachedType DEF Reached
    <3> QED
      BY <1>1, <2>2, <3>1
  <2> QED
    BY <2>1, <2>2
<1>3. \A objs : Good(objs, used.ticks, Reached) => Good(objs, used.ticks', Reached')
  BY <1>1, <1>2, GoodStays
<1>4. ASSUME NEW q \in Node
      PROVE  PublisherOK(q, pub'[q], objects'[q], used.ticks')
  <2>1. CASE q # n
    <3>1. PublisherOK(q, pub'[q], objects'[q], used.ticks)
      BY <2>1 DEF SyncInv
    <3> QED
      BY <2>1, <3>1 DEF PublisherOK
  <2> QED
    BY <2>1
<1>5. \A q \in Node : SubscriberOK(q, sub'[q], objects'[q])
  BY DEF SyncInv
<1>6. ASSUME NEW q \in Node
      PROVE  /\ Good(objects'[q], used.ticks', Reached')
             /\ Good(sub'[q].our, used.ticks', Reached')
             /\ Good(sub'[q].data, used.ticks', Reached')
  BY <1>1, <1>3 DEF AllGood
<1> QED
  BY <1>4, <1>5, <1>6 DEF SyncInv, AllGood

(* What the invariant says of one node. *)
LEMMA OneNode ==
  ASSUME SyncInv, NEW n \in Node
  PROVE  /\ SyncTypeOK
         /\ used.ticks \in [Node -> Nat] /\ Reached \in [Node -> Int]
         /\ PublisherOK(n, pub[n], objects[n], used.ticks)
         /\ SubscriberOK(n, sub[n], objects[n])
         /\ Good(objects[n], used.ticks, Reached)
         /\ Good(sub[n].our, used.ticks, Reached)
         /\ Good(sub[n].data, used.ticks, Reached)
         /\ \A q \in Node : GoodBox(inbox[q], used.ticks, Reached)
BY ReachedType DEF SyncInv, AllGood, SyncTypeOK

(* The same for a step that takes no tick and adds no count. *)
LEMMA QuietStep ==
  ASSUME SyncInv, SyncTypeOK', NEW n \in Node,
         \A q \in Node \ {n} : /\ objects'[q] = objects[q]
                               /\ pub'[q] = pub[q]
                               /\ sub'[q] = sub[q],
         used.ticks' = used.ticks, pub'[n].pc = "count" => pub[n].pc = "count",
         \A q \in Node : GoodBox(inbox'[q], used.ticks, Reached),
         PublisherOK(n, pub'[n], objects'[n], used.ticks),
         SubscriberOK(n, sub'[n], objects'[n]),
         Good(objects'[n], used.ticks, Reached),
         Good(sub'[n].our, used.ticks, Reached),
         Good(sub'[n].data, used.ticks, Reached)
  PROVE  SyncInv'
<1>1. /\ SyncTypeOK /\ used.ticks[n] \in Nat
      /\ used.ticks[n] <= used.ticks'[n] /\ Reached[n] <= Reached'[n]
  BY OneNode DEF Reached
<1>2. ASSUME NEW q \in Node
      PROVE  used.ticks[q] <= used.ticks'[q] /\ Reached[q] <= Reached'[q]
  <2>1. CASE q # n
    <3>1. Reached'[q] = Reached[q] /\ Reached[q] \in Int /\ used.ticks[q] \in Nat
      BY <2>1, OneNode DEF Reached
    <3> QED
      BY <3>1
  <2> QED
    BY <1>1, <2>1
<1>3. /\ \A objs : Good(objs, used.ticks, Reached) => Good(objs, used.ticks', Reached')
      /\ \A box : GoodBox(box, used.ticks, Reached) => GoodBox(box, used.ticks', Reached')
  BY <1>1, <1>2, GoodStays
<1> QED
  BY <1>1, <1>3, StepOfOneNode

(* A failed publish or a lost message uses up a fault at most. *)
LEMMA FaultStep ==
  ASSUME SyncTypeOK, NEW n, Fault \/ PublishFails(n)
  PROVE  /\ used' = [ticks |-> used'.ticks, faults |-> used'.faults, exits |-> used'.exits,
                     syncNow |-> used'.syncNow]
         /\ used.ticks' = used.ticks
<1>1. used \in [ticks : {used.ticks}, faults : {used.faults}, exits : {used.exits},
                syncNow : {used.syncNow}]
  BY DEF SyncTypeOK
<1>2. used' = [used EXCEPT !.faults = @ + 1] \/ used' = used
  BY DEF Fault, PublishFails
<1> QED
  BY <1>1, <1>2

(* The messages that nodes send are genuine (SyncRequest, SyncMessage). *)
LEMMA OwnMessages ==
  ASSUME NEW ticks, NEW counts, NEW n \in Node
  PROVE  /\ GoodMessage(SyncRequest(n), ticks, counts)
         /\ Good(objects[n], ticks, counts) => GoodMessage(SyncMessage(n), ticks, counts)
BY GoodPart DEF GoodMessage, SyncRequest, SyncMessage

(* Goroutines that are not at work on a message. *)
LEMMA IdleSubscriber ==
  ASSUME NEW n \in Node, NEW objs, NEW s, s = NoReceiver \/ (Subscribes(n) /\ s = Receiver)
  PROVE  /\ SubscriberOK(n, s, objs)
         /\ s.our = NoObjects /\ s.data = NoObjects
BY DEF SubscriberOK, NoReceiver, Receiver

(* The initial state. *)
LEMMA SyncInit == Init => SyncInv
<1> SUFFICES ASSUME Init PROVE SyncInv
  OBVIOUS
<1>1. SyncTypeOK
  BY DEF Init, SyncTypeOK
<1>2. ASSUME NEW n \in Node
      PROVE  PublisherOK(n, pub[n], objects[n], used.ticks)
  BY ModeAssumption DEF Init, PublisherOK, NoGoroutine
<1>3. ASSUME NEW n \in Node
      PROVE  SubscriberOK(n, sub[n], objects[n])
  BY IdleSubscriber DEF Init
<1>4. ASSUME NEW n \in Node
      PROVE  GoodBox(inbox[n], used.ticks, Reached)
  BY DEF Init, GoodBox, EmptyBag, SetToBag, IsABag
<1>5. ASSUME NEW n \in Node
      PROVE  /\ Good(objects[n], used.ticks, Reached)
             /\ Good(sub[n].our, used.ticks, Reached)
             /\ Good(sub[n].data, used.ticks, Reached)
  <2>1. objects[n] = NoObjects /\ sub[n].our = NoObjects /\ sub[n].data = NoObjects
    BY DEF Init, NoReceiver
  <2> QED
    BY <2>1, GoodPart
<1> QED
  BY <1>1, <1>2, <1>3, <1>4, <1>5 DEF SyncInv, AllGood

(* Start: goroutines begin, and a subscriber asks for data. *)
LEMMA StartStep ==
  ASSUME SyncInv, NEW n \in Node, Start(n)
  PROVE  SyncInv'
<1>1. /\ SyncTypeOK
      /\ PublisherOK(n, pub[n], objects[n], used.ticks)
      /\ SubscriberOK(n, sub[n], objects[n])
      /\ Good(objects[n], used.ticks, Reached)
      /\ \A q \in Node : GoodBox(inbox[q], used.ticks, Reached)
      /\ used.ticks \in [Node -> Nat]
  BY OneNode
<1>2. objects' = objects
  BY DEF Start
<1>3. /\ inbox' = [q \in Node |-> inbox'[q]]
      /\ \A q \in Node : GoodBox(inbox'[q], used.ticks, Reached)
  <2>1. CASE inbox' = inbox
    BY <1>1, <2>1 DEF SyncTypeOK
  <2>2. CASE inbox' = Broadcast(inbox, SyncRequest(n), proc')
    <3>1. GoodMessage(SyncRequest(n), used.ticks, Reached)
      BY OwnMessages
    <3> QED
      BY <1>1, <2>2, <3>1, BroadcastBoxes
  <2> QED
    BY <2>1, <2>2 DEF Start
<1>4. /\ used' = [ticks |-> used'.ticks, faults |-> used'.faults, exits |-> used'.exits,
                  syncNow |-> used'.syncNow]
      /\ used.ticks' = used.ticks
  <2>1. CASE used' = used
    BY <1>1, <2>1 DEF SyncTypeOK
  <2>2. CASE PublishFails(n)
    BY <1>1, <2>2, FaultStep
  <2> QED
    BY <2>1, <2>2 DEF Start
<1>5. SyncTypeOK'
  BY <1>1, <1>2, <1>3, <1>4 DEF SyncTypeOK, Start
<1>6. /\ pub'[n] = IF Publishes(n) THEN [pc |-> "wait", counter |-> 0] ELSE pub[n]
      /\ sub'[n] = IF Subscribes(n) THEN Receiver ELSE sub[n]
      /\ \A q \in Node \ {n} : pub'[q] = pub[q] /\ sub'[q] = sub[q]
  BY <1>1 DEF SyncTypeOK, Start
<1>7. PublisherOK(n, pub'[n], objects'[n], used.ticks) /\ (pub'[n].pc = "count" => pub[n].pc = "count")
  <2>1. CASE Publishes(n)
    BY <1>1, <1>6, <2>1 DEF PublisherOK
  <2>2. CASE ~Publishes(n)
    BY <1>1, <1>2, <1>6, <2>2
  <2> QED
    BY <2>1, <2>2
<1>8. /\ SubscriberOK(n, sub'[n], objects'[n])
      /\ Good(sub'[n].our, used.ticks, Reached) /\ Good(sub'[n].data, used.ticks, Reached)
  <2>1. CASE Subscribes(n)
    BY <1>6, <2>1, IdleSubscriber, GoodPart
  <2>2. CASE ~Subscribes(n)
    BY <1>2, <1>6, <2>2, OneNode
  <2> QED
    BY <2>1, <2>2
<1> QED
  BY <1>1, <1>2, <1>3, <1>4, <1>5, <1>6, <1>7, <1>8, QuietStep

(* A step that changes, of the nodes' data, only the subscriber goroutine  *)
(* of one node and the messages on their way.                              *)
LEMMA StepOfSubscriber ==
  ASSUME SyncInv, NEW n \in Node,
         proc' \in [Node -> {"off", "running", "cancelled"}], objects' = objects, pub' = pub,
         used' = [ticks |-> used'.ticks, faults |-> used'.faults, exits |-> used'.exits,
                  syncNow |-> used'.syncNow],
         used.ticks' = used.ticks,
         inbox' = [q \in Node |-> inbox'[q]],
         \A q \in Node : GoodBox(inbox'[q], used.ticks, Reached),
         NEW s, sub' = [sub EXCEPT ![n] = s],
         SubscriberOK(n, s, objects[n]),
         Good(s.our, used.ticks, Reached), Good(s.data, used.ticks, Reached)
  PROVE  SyncInv'
<1>1. /\ SyncTypeOK
      /\ PublisherOK(n, pub[n], objects[n], used.ticks)
      /\ Good(objects[n], used.ticks, Reached)
  BY OneNode
<1>2. sub'[n] = s /\ \A q \in Node \ {n} : sub'[q] = sub[q]
  BY <1>1 DEF SyncTypeOK
<1>3. SyncTypeOK'
  BY <1>1 DEF SyncTypeOK
<1> QED
  BY <1>1, <1>2, <1>3, QuietStep

(* Stop, SyncNow, a lost message, and the heartbeat goroutine: nobody's    *)
(* objects or goroutines change.                                           *)
LEMMA StopStep ==
  ASSUME SyncInv, NEW n \in Node, Stop(n)
  PROVE  SyncInv'
<1>1. /\ SyncTypeOK /\ SubscriberOK(n, sub[n], objects[n])
      /\ Good(sub[n].our, used.ticks, Reached) /\ Good(sub[n].data, used.ticks, Reached)
      /\ \A q \in Node : GoodBox(inbox[q], used.ticks, Reached)
  BY OneNode
<1>2. /\ proc' \in [Node -> {"off", "running", "cancelled"}] /\ sub' = [sub EXCEPT ![n] = sub[n]]
      /\ UNCHANGED <<objects, pub, inbox, used>>
  BY <1>1 DEF SyncTypeOK, Stop
<1>3. /\ used' = [ticks |-> used'.ticks, faults |-> used'.faults, exits |-> used'.exits,
                  syncNow |-> used'.syncNow]
      /\ inbox' = [q \in Node |-> inbox'[q]]
  BY <1>1, <1>2 DEF SyncTypeOK
<1> QED
  BY <1>1, <1>2, <1>3, StepOfSubscriber

LEMMA SyncNowStep ==
  ASSUME SyncInv, NEW n \in Node, SyncNow(n)
  PROVE  SyncInv'
<1>1. /\ SyncTypeOK /\ SubscriberOK(n, sub[n], objects[n])
      /\ Good(objects[n], used.ticks, Reached)
      /\ Good(sub[n].our, used.ticks, Reached) /\ Good(sub[n].data, used.ticks, Reached)
      /\ \A q \in Node : GoodBox(inbox[q], used.ticks, Reached)
  BY OneNode
<1>2. /\ proc' \in [Node -> {"off", "running", "cancelled"}] /\ sub' = [sub EXCEPT ![n] = sub[n]]
      /\ UNCHANGED <<objects, pub>>
  BY <1>1 DEF SyncTypeOK, SyncNow
<1>3. /\ used' = [ticks |-> used'.ticks, faults |-> used'.faults, exits |-> used'.exits,
                  syncNow |-> used'.syncNow]
      /\ used.ticks' = used.ticks
  <2>1. used \in [ticks : {used.ticks}, faults : {used.faults}, exits : {used.exits},
                  syncNow : {used.syncNow}]
    BY <1>1 DEF SyncTypeOK
  <2>2. used' = [used EXCEPT !.syncNow = @ + 1]
    BY DEF SyncNow
  <2> QED
    BY <2>1, <2>2
<1>4. GoodMessage(SyncMessage(n), used.ticks, Reached)
        /\ inbox' = Broadcast(inbox, SyncMessage(n), proc)
  BY <1>1, OwnMessages DEF SyncNow
<1>5. inbox' = [q \in Node |-> inbox'[q]] /\ \A q \in Node : GoodBox(inbox'[q], used.ticks, Reached)
  BY <1>1, <1>4, BroadcastBoxes
<1> QED
  BY <1>1, <1>2, <1>3, <1>5, StepOfSubscriber

(* The boxes after a message is taken out of one. *)
LEMMA TakenOut ==
  ASSUME SyncInv, NEW n \in Node, NEW msg, NEW boxes, boxes = [inbox EXCEPT ![n] = BagRemove(@, msg)]
  PROVE  /\ boxes = [q \in Node |-> boxes[q]]
         /\ \A q \in Node : GoodBox(boxes[q], used.ticks, Reached)
<1>1. SyncTypeOK /\ \A q \in Node : GoodBox(inbox[q], used.ticks, Reached)
  BY OneNode
<1>2. GoodBox(BagRemove(inbox[n], msg), used.ticks, Reached)
  BY <1>1, RemovedMessage
<1>3. /\ boxes = [q \in Node |-> boxes[q]]
      /\ \A q \in Node : boxes[q] = IF q = n THEN BagRemove(inbox[n], msg) ELSE inbox[q]
  BY <1>1 DEF SyncTypeOK
<1> QED
  BY <1>1, <1>2, <1>3

LEMMA LoseStep ==
  ASSUME SyncInv, NEW n \in Node, NEW msg, Lose(n, msg)
  PROVE  SyncInv'
<1>1. /\ SyncTypeOK /\ SubscriberOK(n, sub[n], objects[n])
      /\ Good(sub[n].our, used.ticks, Reached) /\ Good(sub[n].data, used.ticks, Reached)
  BY OneNode
<1>2. /\ proc' \in [Node -> {"off", "running", "cancelled"}] /\ sub' = [sub EXCEPT ![n] = sub[n]]
      /\ UNCHANGED <<objects, pub>>
  BY <1>1 DEF SyncTypeOK, Lose
<1>3. /\ used' = [ticks |-> used'.ticks, faults |-> used'.faults, exits |-> used'.exits,
                  syncNow |-> used'.syncNow]
      /\ used.ticks' = used.ticks
  BY <1>1, FaultStep DEF Lose
<1>4. inbox' = [q \in Node |-> inbox'[q]] /\ \A q \in Node : GoodBox(inbox'[q], used.ticks, Reached)
  <2> DEFINE boxes == [inbox EXCEPT ![n] = BagRemove(@, msg)]
  <2>1. boxes = [q \in Node |-> boxes[q]] /\ \A q \in Node : GoodBox(boxes[q], used.ticks, Reached)
    BY TakenOut
  <2>2. inbox' = boxes
    BY DEF Lose
  <2> HIDE DEF boxes
  <2> QED
    BY <2>1, <2>2
<1> QED
  BY <1>1, <1>2, <1>3, <1>4, StepOfSubscriber

(* The subscriber goroutine takes a message and does not apply it, or      *)
(* answers a request with its own state.                                   *)
LEMMA SkipStep ==
  ASSUME SyncInv, NEW n \in Node, NEW msg, ReceiveAndSkip(n, msg) \/ ReceiveRequest(n, msg)
  PROVE  SyncInv'
<1>1. /\ SyncTypeOK /\ SubscriberOK(n, sub[n], objects[n]) /\ Good(objects[n], used.ticks, Reached)
  BY OneNode
<1> DEFINE boxes == [inbox EXCEPT ![n] = BagRemove(@, msg)]
<1>2. /\ proc' \in [Node -> {"off", "running", "cancelled"}] /\ sub' = [sub EXCEPT ![n] = Loop(n)]
      /\ UNCHANGED <<objects, pub>> /\ sub[n].pc = "next"
  BY <1>1 DEF SyncTypeOK, ReceiveAndSkip, ReceiveRequest, Take
<1>3. /\ used' = [ticks |-> used'.ticks, faults |-> used'.faults, exits |-> used'.exits,
                  syncNow |-> used'.syncNow]
      /\ used.ticks' = used.ticks
  <2>1. CASE used' = used
    BY <1>1, <2>1 DEF SyncTypeOK
  <2>2. CASE PublishFails(n)
    BY <1>1, <2>2, FaultStep
  <2> QED
    BY <2>1, <2>2 DEF ReceiveAndSkip, ReceiveRequest
<1>4. inbox' = boxes \/ inbox' = Broadcast(boxes, SyncMessage(n), proc)
  BY DEF ReceiveAndSkip, ReceiveRequest
<1>5. GoodMessage(SyncMessage(n), used.ticks, Reached)
  BY <1>1, OwnMessages
<1>6. boxes = [q \in Node |-> boxes[q]] /\ \A q \in Node : GoodBox(boxes[q], used.ticks, Reached)
  BY TakenOut
<1> HIDE DEF boxes
<1>7. inbox' = [q \in Node |-> inbox'[q]] /\ \A q \in Node : GoodBox(inbox'[q], used.ticks, Reached)
  <2>1. CASE inbox' = boxes
    BY <1>6, <2>1
  <2>2. CASE inbox' = Broadcast(boxes, SyncMessage(n), proc)
    BY <1>5, <1>6, <2>2, BroadcastBoxes
  <2> QED
    BY <1>4, <2>1, <2>2
<1>8. Subscribes(n) /\ Loop(n) \in {NoReceiver, Receiver}
  BY <1>1, <1>2 DEF SubscriberOK, Loop
<1>9. /\ SubscriberOK(n, Loop(n), objects[n])
      /\ Good(Loop(n).our, used.ticks, Reached) /\ Good(Loop(n).data, used.ticks, Reached)
  BY <1>8, IdleSubscriber, GoodPart
<1> QED
  BY <1>2, <1>3, <1>7, <1>9, StepOfSubscriber

LEMMA SubscriberStopsStep ==
  ASSUME SyncInv, NEW n \in Node, SubscriberStops(n)
  PROVE  SyncInv'
<1>1. SyncTypeOK /\ \A q \in Node : GoodBox(inbox[q], used.ticks, Reached)
  BY OneNode
<1>2. /\ proc' \in [Node -> {"off", "running", "cancelled"}] /\ sub' = [sub EXCEPT ![n] = NoReceiver]
      /\ UNCHANGED <<objects, pub, inbox, used>>
  BY <1>1 DEF SyncTypeOK, SubscriberStops
<1>3. /\ used' = [ticks |-> used'.ticks, faults |-> used'.faults, exits |-> used'.exits,
                  syncNow |-> used'.syncNow]
      /\ inbox' = [q \in Node |-> inbox'[q]]
  BY <1>1, <1>2 DEF SyncTypeOK
<1>4. /\ SubscriberOK(n, NoReceiver, objects[n])
      /\ Good(NoReceiver.our, used.ticks, Reached) /\ Good(NoReceiver.data, used.ticks, Reached)
  BY IdleSubscriber, GoodPart
<1> QED
  BY <1>1, <1>2, <1>3, <1>4, StepOfSubscriber

(* applyCRDTSync begins: the snapshot is the live objects. *)
LEMMA ReceiveSyncStep ==
  ASSUME SyncInv, NEW n \in Node, NEW msg \in DOMAIN inbox[n], ReceiveSync(n, msg)
  PROVE  SyncInv'
<1> DEFINE s == [pc |-> "apply", our |-> objects[n], data |-> msg.SyncData]
<1>1. /\ SyncTypeOK /\ SubscriberOK(n, sub[n], objects[n]) /\ Good(objects[n], used.ticks, Reached)
      /\ \A q \in Node : GoodBox(inbox[q], used.ticks, Reached)
      /\ Reached \in [Node -> Int]
  BY OneNode
<1>2. /\ proc' \in [Node -> {"off", "running", "cancelled"}] /\ sub' = [sub EXCEPT ![n] = s]
      /\ UNCHANGED <<objects, pub, used>> /\ sub[n].pc = "next"
  BY <1>1 DEF SyncTypeOK, ReceiveSync, Take
<1>3. /\ used' = [ticks |-> used'.ticks, faults |-> used'.faults, exits |-> used'.exits,
                  syncNow |-> used'.syncNow]
  BY <1>1, <1>2 DEF SyncTypeOK
<1>4. inbox' = [q \in Node |-> inbox'[q]] /\ \A q \in Node : GoodBox(inbox'[q], used.ticks, Reached)
  <2> DEFINE boxes == [inbox EXCEPT ![n] = BagRemove(@, msg)]
  <2>1. boxes = [q \in Node |-> boxes[q]] /\ \A q \in Node : GoodBox(boxes[q], used.ticks, Reached)
    BY TakenOut
  <2>2. inbox' = boxes
    BY DEF ReceiveSync
  <2> HIDE DEF boxes
  <2> QED
    BY <2>1, <2>2
<1>5. Good(msg.SyncData, used.ticks, Reached)
  BY <1>1 DEF GoodBox, GoodMessage
<1>6. ASSUME NEW m \in Node
      PROVE  KnowsLess(objects[n], objects[n], m) /\ CountOf(objects[n], m) <= CountOf(objects[n], m)
  <2>1. CountOf(objects[n], m) \in Int
    BY <1>1, Knowledge
  <2> QED
    BY <2>1 DEF KnowsLess
<1>7. SubscriberOK(n, s, objects[n])
  BY <1>1, <1>2, <1>6 DEF SubscriberOK
<1>8. s.our = objects[n] /\ s.data = msg.SyncData
  OBVIOUS
<1> HIDE DEF s
<1> QED
  BY <1>1, <1>2, <1>3, <1>4, <1>5, <1>7, <1>8, StepOfSubscriber

(* The process ends, and all its memory is gone. *)
LEMMA ExitStep ==
  ASSUME SyncInv, NEW n \in Node, Exit(n)
  PROVE  SyncInv'
<1>1. /\ SyncTypeOK /\ PublisherOK(n, pub[n], objects[n], used.ticks)
      /\ \A q \in Node : GoodBox(inbox[q], used.ticks, Reached)
      /\ used.ticks \in [Node -> Nat]
  BY OneNode
<1>2. /\ used' = [ticks |-> used'.ticks, faults |-> used'.faults, exits |-> used'.exits,
                  syncNow |-> used'.syncNow]
      /\ used.ticks' = used.ticks
  <2>1. used \in [ticks : {used.ticks}, faults : {used.faults}, exits : {used.exits},
                  syncNow : {used.syncNow}]
    BY <1>1 DEF SyncTypeOK
  <2>2. used' = [used EXCEPT !.exits = @ + 1]
    BY DEF Exit
  <2> QED
    BY <2>1, <2>2
<1>3. SyncTypeOK'
  BY <1>1, <1>2 DEF SyncTypeOK, Exit
<1>4. /\ objects'[n] = NoObjects /\ pub'[n] = NoGoroutine /\ sub'[n] = NoReceiver
           /\ inbox'[n] = EmptyBag
      /\ \A q \in Node \ {n} : /\ objects'[q] = objects[q] /\ pub'[q] = pub[q]
                               /\ sub'[q] = sub[q] /\ inbox'[q] = inbox[q]
  BY <1>1 DEF SyncTypeOK, Exit
<1>5. GoodBox(EmptyBag, used.ticks, Reached)
  BY DEF GoodBox, EmptyBag, SetToBag, IsABag
<1>6. \A q \in Node : GoodBox(inbox'[q], used.ticks, Reached)
  BY <1>1, <1>4, <1>5
<1>7. PublisherOK(n, pub'[n], objects'[n], used.ticks) /\ pub'[n].pc # "count"
  BY <1>1, <1>4 DEF PublisherOK, NoGoroutine
<1>8. SubscriberOK(n, sub'[n], objects'[n]) /\ sub'[n].our = NoObjects /\ sub'[n].data = NoObjects
  BY <1>4, IdleSubscriber
<1>9. Good(NoObjects, used.ticks, Reached)
  BY GoodPart
<1> QED
  BY <1>2, <1>3, <1>4, <1>6, <1>7, <1>8, <1>9, QuietStep

(* A step that changes, of the nodes' data, only the place and counter of  *)
(* a publisher goroutine and the messages on their way.                    *)
LEMMA StepOfPublisher ==
  ASSUME SyncInv, NEW n \in Node, proc' = proc, objects' = objects, sub' = sub,
         used' = [ticks |-> used'.ticks, faults |-> used'.faults, exits |-> used'.exits,
                  syncNow |-> used'.syncNow],
         used.ticks' = used.ticks,
         inbox' = [q \in Node |-> inbox'[q]],
         \A q \in Node : GoodBox(inbox'[q], used.ticks, Reached),
         NEW p, pub' = [pub EXCEPT ![n] = p], p.pc # "count",
         PublisherOK(n, p, objects[n], used.ticks)
  PROVE  SyncInv'
<1>1. /\ SyncTypeOK /\ SubscriberOK(n, sub[n], objects[n])
      /\ Good(objects[n], used.ticks, Reached)
      /\ Good(sub[n].our, used.ticks, Reached) /\ Good(sub[n].data, used.ticks, Reached)
  BY OneNode
<1>2. pub'[n] = p /\ \A q \in Node \ {n} : pub'[q] = pub[q]
  BY <1>1 DEF SyncTypeOK
<1>3. SyncTypeOK'
  BY <1>1 DEF SyncTypeOK
<1> QED
  BY <1>1, <1>2, <1>3, QuietStep

(* The publisher goroutine returns. *)
LEMMA PublisherStopsStep ==
  ASSUME SyncInv, NEW n \in Node, PublisherStops(n)
  PROVE  SyncInv'
<1>1. /\ SyncTypeOK /\ PublisherOK(n, pub[n], objects[n], used.ticks)
      /\ used.ticks \in [Node -> Nat]
      /\ \A q \in Node : GoodBox(inbox[q], used.ticks, Reached)
  BY OneNode
<1>2. pub' = [pub EXCEPT ![n] = NoGoroutine] /\ UNCHANGED <<proc, objects, sub, inbox, used>>
  BY DEF PublisherStops
<1>3. PublisherOK(n, NoGoroutine, objects[n], used.ticks) /\ NoGoroutine.pc # "count"
  BY <1>1 DEF PublisherOK, NoGoroutine
<1>4. /\ used' = [ticks |-> used'.ticks, faults |-> used'.faults, exits |-> used'.exits,
                  syncNow |-> used'.syncNow]
      /\ inbox' = [q \in Node |-> inbox'[q]]
  BY <1>1, <1>2 DEF SyncTypeOK
<1> QED
  BY <1>1, <1>2, <1>3, <1>4, StepOfPublisher

(* The publisher goroutine publishes its state, or fails to. *)
LEMMA PublishStateStep ==
  ASSUME SyncInv, NEW n \in Node, PublishState(n)
  PROVE  SyncInv'
<1>1. /\ SyncTypeOK /\ PublisherOK(n, pub[n], objects[n], used.ticks)
      /\ used.ticks \in [Node -> Nat]
      /\ Good(objects[n], used.ticks, Reached)
      /\ \A q \in Node : GoodBox(inbox[q], used.ticks, Reached)
  BY OneNode
<1>2. UNCHANGED <<proc, objects, sub>> /\ pub[n].pc = "sync"
  BY DEF PublishState
<1>3. pub[n] \in [pc : {"wait", "count", "sync", "done"}, counter : Nat] /\ used.ticks[n] \in Nat
  BY <1>1 DEF PublisherOK
<1>4. CASE /\ inbox' = Broadcast(inbox, SyncMessage(n), proc)
           /\ pub' = [pub EXCEPT ![n] = [pc |-> "wait", counter |-> @.counter + 1]]
           /\ UNCHANGED used
  <2> DEFINE p == [pc |-> "wait", counter |-> pub[n].counter + 1]
  <2>1. GoodMessage(SyncMessage(n), used.ticks, Reached)
    BY <1>1, OwnMessages
  <2>2. inbox' = [q \in Node |-> inbox'[q]] /\ \A q \in Node : GoodBox(inbox'[q], used.ticks, Reached)
    BY <1>1, <1>4, <2>1, BroadcastBoxes
  <2>3. pub' = [pub EXCEPT ![n] = p] /\ p.pc # "count"
    BY <1>4
  <2>4. PublisherOK(n, p, objects[n], used.ticks)
    BY <1>1, <1>2, <1>3 DEF PublisherOK
  <2>5. used' = [ticks |-> used'.ticks, faults |-> used'.faults, exits |-> used'.exits,
                 syncNow |-> used'.syncNow]
    BY <1>1, <1>4 DEF SyncTypeOK
  <2> HIDE DEF p
  <2> QED
    BY <1>2, <1>4, <2>2, <2>3, <2>4, <2>5, StepOfPublisher
<1>5. CASE PublishFails(n) /\ pub' = [pub EXCEPT ![n].pc = "wait"] /\ UNCHANGED inbox
  <2> DEFINE p == [pub[n] EXCEPT !.pc = "wait"]
  <2>1. p = [pc |-> "wait", counter |-> pub[n].counter]
    BY <1>3
  <2>2. pub' = [pub EXCEPT ![n] = p] /\ p.pc # "count"
    BY <1>5, <2>1
  <2>3. PublisherOK(n, p, objects[n], used.ticks)
    BY <1>1, <1>2, <1>3, <2>1 DEF PublisherOK
  <2>4. /\ used' = [ticks |-> used'.ticks, faults |-> used'.faults, exits |-> used'.exits,
                    syncNow |-> used'.syncNow]
        /\ used.ticks' = used.ticks
    BY <1>1, <1>5, FaultStep
  <2>5. inbox' = [q \in Node |-> inbox'[q]]
    BY <1>1, <1>5 DEF SyncTypeOK
  <2> HIDE DEF p
  <2> QED
    BY <1>1, <1>2, <1>5, <2>2, <2>3, <2>4, <2>5, StepOfPublisher
<1> QED
  BY <1>4, <1>5 DEF PublishState

(* AddLocalData, first half: the tick is taken and its element added.  The *)
(* count that the node may have reached is still that of before the tick.  *)
LEMMA AddLocalElementStep ==
  ASSUME SyncInv, NEW n \in Node, AddLocalElement(n)
  PROVE  /\ SyncInv'
         /\ \A m \in Node : KnowsLess(objects[n], objects'[n], m)
<1>1. /\ SyncTypeOK /\ PublisherOK(n, pub[n], objects[n], used.ticks)
      /\ used.ticks \in [Node -> Nat] /\ Reached \in [Node -> Int]
      /\ Good(objects[n], used.ticks, Reached)
      /\ Good(sub[n].our, used.ticks, Reached) /\ Good(sub[n].data, used.ticks, Reached)
      /\ SubscriberOK(n, sub[n], objects[n])
      /\ \A q \in Node : GoodBox(inbox[q], used.ticks, Reached)
  BY OneNode
<1>2. /\ pub[n] \in [pc : {"wait", "count", "sync", "done"}, counter : Nat]
      /\ used.ticks[n] \in Nat /\ MaxTicks[n] \in Nat /\ pub[n].counter \in Nat
      /\ pub[n].pc = "wait" /\ used.ticks[n] < MaxTicks[n] /\ pub[n].counter <= used.ticks[n]
  BY <1>1, ModeAssumption DEF PublisherOK, AddLocalElement
<1>3. /\ used' = [ticks |-> used'.ticks, faults |-> used'.faults, exits |-> used'.exits,
                  syncNow |-> used'.syncNow]
      /\ used'.ticks = [used.ticks EXCEPT ![n] = @ + 1]
  <2>1. used \in [ticks : {used.ticks}, faults : {used.faults}, exits : {used.exits},
                  syncNow : {used.syncNow}]
    BY <1>1 DEF SyncTypeOK
  <2>2. used' = [used EXCEPT !.ticks = [used.ticks EXCEPT ![n] = @ + 1]]
    BY DEF AddLocalElement
  <2> QED
    BY <2>1, <2>2
<1>4. /\ used.ticks' \in [Node -> Nat] /\ used.ticks'[n] = used.ticks[n] + 1
      /\ \A q \in Node \ {n} : used.ticks'[q] = used.ticks[q]
  BY <1>1, <1>3
<1>5. SyncTypeOK'
  BY <1>1, <1>3, <1>4 DEF SyncTypeOK, AddLocalElement
<1>6. /\ pub'[n] = [pc |-> "count", counter |-> pub[n].counter]
      /\ \A q \in Node \ {n} : pub'[q] = pub[q] /\ objects'[q] = objects[q]
      /\ sub' = sub /\ inbox' = inbox
  <2>1. pub'[n] = [pub[n] EXCEPT !.pc = "count"]
    BY <1>1 DEF SyncTypeOK, AddLocalElement
  <2> QED
    BY <1>1, <1>2, <2>1 DEF SyncTypeOK, AddLocalElement
<1>7. Reached' \in [Node -> Int] /\ \A q \in Node : Reached'[q] = Reached[q]
  <2>1. Reached' \in [Node -> Int]
    BY <1>4 DEF Reached
  <2>2. Reached'[n] = Reached[n]
    BY <1>2, <1>4, <1>6 DEF Reached
  <2>3. \A q \in Node \ {n} : Reached'[q] = Reached[q]
    BY <1>4, <1>6 DEF Reached
  <2> QED
    BY <2>1, <2>2, <2>3
<1>8. \A q \in Node : used.ticks[q] <= used.ticks'[q] /\ Reached[q] <= Reached'[q]
  <2>1. \A q \in Node : used.ticks[q] <= used.ticks'[q]
    BY <1>1, <1>4
  <2> QED
    BY <1>1, <1>7, <2>1
<1>9. /\ \A objs : Good(objs, used.ticks, Reached) => Good(objs, used.ticks', Reached')
      /\ \A box : GoodBox(box, used.ticks, Reached) => GoodBox(box, used.ticks', Reached')
  BY <1>1, <1>5, <1>8, GoodStays
<1>10. PICK k \in Nat : k = pub[n].counter
  BY <1>2
<1>11. objects'[n] = LWWAdd(objects[n], n, SampleSet, <<n, k>>, [m \in {n} |-> k + 1])
  BY <1>1, <1>10 DEF SyncTypeOK, AddLocalElement, LocalStamp
<1>12. PICK ticks : ticks = used.ticks'
  OBVIOUS
<1>13. PICK counts : counts = Reached'
  OBVIOUS
<1>14. /\ Good(objects'[n], ticks, counts)
       /\ \A m \in Node : CountOf(objects'[n], m) = CountOf(objects[n], m)
       /\ \A m \in Node : m # n => ElementsOf(objects'[n], m) = ElementsOf(objects[n], m)
       /\ ElementsOf(objects'[n], n) = ElementsOf(objects[n], n) \cup {<<n, k>>}
  <2>1. Good(objects[n], ticks, counts) /\ k < ticks[n]
    BY <1>1, <1>2, <1>4, <1>9, <1>10, <1>12, <1>13
  <2>2. Separate /\ k > 0 => <<n, k - 1>> \in ElementsOf(objects[n], n)
    BY <1>1, <1>2, <1>10 DEF PublisherOK
  <2>3. PICK e, stamp : e = <<n, k>> /\ stamp = [m \in {n} |-> k + 1]
    OBVIOUS
  <2>4. objects'[n] = LWWAdd(objects[n], n, SampleSet, e, stamp)
    BY <1>11, <2>3
  <2>5. /\ Good(objects'[n], ticks, counts)
        /\ \A m \in Node : CountOf(objects'[n], m) = CountOf(objects[n], m)
        /\ \A m \in Node : m # n => ElementsOf(objects'[n], m) = ElementsOf(objects[n], m)
        /\ ElementsOf(objects'[n], n) = ElementsOf(objects[n], n) \cup {e}
    BY <1>10, <2>1, <2>2, <2>3, <2>4, AddedElement
  <2> QED
    BY <2>3, <2>5
<1>15. \A m \in Node : CountOf(objects[n], m) \in Int
  BY <1>1, Knowledge
<1>16. \A m \in Node : KnowsLess(objects[n], objects'[n], m)
  <2>1. \A m \in Node : CountOf(objects[n], m) <= CountOf(objects'[n], m)
    BY <1>14, <1>15
  <2>2. \A m \in Node : ElementsOf(objects[n], m) \subseteq ElementsOf(objects'[n], m)
    BY <1>14
  <2> QED
    BY <2>1, <2>2 DEF KnowsLess
<1>17. PublisherOK(n, pub'[n], objects'[n], used.ticks')
  <2>1. <<n, k>> \in ElementsOf(objects'[n], n)
          /\ ElementsOf(objects[n], n) \subseteq ElementsOf(objects'[n], n)
    BY <1>14
  <2> QED
    BY <1>1, <1>2, <1>4, <1>6, <1>10, <2>1 DEF PublisherOK
<1>18. SubscriberOK(n, sub'[n], objects'[n])
  <2>1. ASSUME sub[n].pc = "apply", NEW m \in Node
        PROVE  KnowsLess(sub[n].our, objects'[n], m)
    <3>1. KnowsLess(sub[n].our, objects[n], m)
      BY <1>1, <2>1 DEF SubscriberOK
    <3> QED
      BY <1>14, <3>1 DEF KnowsLess
  <2>2. Publishes(n)
    BY <1>1, <1>2 DEF PublisherOK
  <2>3. \A m \in Node : m # n \/ ~Publishes(n) =>
          /\ CountOf(objects'[n], m) = CountOf(objects[n], m)
          /\ ElementsOf(objects'[n], m) = ElementsOf(objects[n], m)
    BY <1>14, <2>2
  <2> QED
    BY <1>1, <1>6, <2>1, <2>3 DEF SubscriberOK
<1>19. \A q \in Node \ {n} : /\ objects'[q] = objects[q]
                             /\ pub'[q] = pub[q]
                             /\ sub'[q] = sub[q]
                             /\ used.ticks'[q] = used.ticks[q]
  BY <1>4, <1>6
<1>20. SyncInv'
  BY <1>1, <1>5, <1>6, <1>8, <1>9, <1>12, <1>13, <1>14, <1>17, <1>18, <1>19, StepOfOneNode
<1> QED
  BY <1>16, <1>20

(* AddLocalData, second half: the node's own count goes up by one, which   *)
(* the tick allows whatever the subscriber goroutine has stored meanwhile. *)
LEMMA AddLocalCountStep ==
  ASSUME SyncInv, NEW n \in Node, AddLocalCount(n)
  PROVE  /\ SyncInv'
         /\ \A m \in Node : KnowsLess(objects[n], objects'[n], m)
<1>1. /\ SyncTypeOK /\ PublisherOK(n, pub[n], objects[n], used.ticks)
      /\ used.ticks \in [Node -> Nat] /\ Reached \in [Node -> Int]
      /\ Good(objects[n], used.ticks, Reached)
      /\ Good(sub[n].our, used.ticks, Reached) /\ Good(sub[n].data, used.ticks, Reached)
      /\ SubscriberOK(n, sub[n], objects[n])
      /\ \A q \in Node : GoodBox(inbox[q], used.ticks, Reached)
  BY OneNode
<1>2. /\ pub[n] \in [pc : {"wait", "count", "sync", "done"}, counter : Nat]
      /\ used.ticks[n] \in Nat /\ pub[n].counter \in Nat
      /\ pub[n].pc = "count" /\ pub[n].counter < used.ticks[n] /\ used' = used
  BY <1>1 DEF PublisherOK, AddLocalCount
<1>3. SyncTypeOK'
  BY <1>1, <1>2 DEF SyncTypeOK, AddLocalCount
<1>4. /\ pub'[n] = [pc |-> "sync", counter |-> pub[n].counter]
      /\ \A q \in Node \ {n} : pub'[q] = pub[q] /\ objects'[q] = objects[q]
      /\ sub' = sub /\ inbox' = inbox
  <2>1. pub'[n] = [pub[n] EXCEPT !.pc = "sync"]
    BY <1>1 DEF SyncTypeOK, AddLocalCount
  <2> QED
    BY <1>1, <1>2, <2>1 DEF SyncTypeOK, AddLocalCount
<1>5. /\ Reached' \in [Node -> Int] /\ Reached[n] = used.ticks[n] - 1 /\ Reached'[n] = used.ticks[n]
      /\ \A q \in Node : Reached[q] <= Reached'[q]
  <2>1. Reached' \in [Node -> Int]
    BY <1>1, <1>2 DEF Reached
  <2>2. Reached[n] = used.ticks[n] - 1 /\ Reached'[n] = used.ticks[n]
    BY <1>2, <1>4 DEF Reached
  <2>3. \A q \in Node \ {n} : Reached'[q] = Reached[q]
    BY <1>2, <1>4 DEF Reached
  <2> QED
    BY <1>1, <1>2, <2>1, <2>2, <2>3
<1>6. \A q \in Node : used.ticks[q] <= used.ticks'[q]
  BY <1>1, <1>2
<1>7. /\ \A objs : Good(objs, used.ticks, Reached) => Good(objs, used.ticks', Reached')
      /\ \A box : GoodBox(box, used.ticks, Reached) => GoodBox(box, used.ticks', Reached')
  BY <1>1, <1>3, <1>5, <1>6, GoodStays
<1>8. PICK stamp : stamp = LocalStamp(n)
  OBVIOUS
<1>9. DOMAIN stamp # {} /\ objects'[n] = CounterInc(objects[n], n, CounterKey(n), 1, stamp)
  BY <1>1, <1>8 DEF SyncTypeOK, AddLocalCount, LocalStamp
<1>10. PICK ticks : ticks = used.ticks'
  OBVIOUS
<1>11. PICK counts \in [Node -> Int] : counts = Reached'
  BY <1>5
<1>12. \A m \in Node : CountOf(objects[n], m) \in Int
  BY <1>1, Knowledge
<1>13. /\ Good(objects'[n], ticks, counts)
       /\ \A m \in Node : ElementsOf(objects'[n], m) = ElementsOf(objects[n], m)
       /\ \A m \in Node : m # n => CountOf(objects'[n], m) = CountOf(objects[n], m)
       /\ CountOf(objects'[n], n) = CountOf(objects[n], n) + 1
  <2>1. Good(objects[n], ticks, counts)
    BY <1>1, <1>7, <1>10, <1>11
  <2>2. CountOf(objects[n], n) <= used.ticks[n] - 1
    <3>1. CASE CounterKey(n) \in DOMAIN objects[n]
      <4>1. CountOf(objects[n], n) \in 1 .. Reached[n]
        BY <1>1, <1>5, <3>1, Knowledge
      <4> QED
        BY <1>2, <1>5, <4>1
    <3>2. CASE CounterKey(n) \notin DOMAIN objects[n]
      BY <1>2, <3>2 DEF CountOf
    <3> QED
      BY <3>1, <3>2
  <2>3. CountOf(objects[n], n) < counts[n]
    BY <1>2, <1>5, <1>11, <1>12, <2>2
  <2> QED
    BY <1>9, <2>1, <2>3, AddedCount
<1>14. \A m \in Node : CountOf(objects[n], m) <= CountOf(objects'[n], m)
  BY <1>12, <1>13
<1>15. \A m \in Node : KnowsLess(objects[n], objects'[n], m)
  BY <1>13, <1>14 DEF KnowsLess
<1>16. PublisherOK(n, pub'[n], objects'[n], used.ticks')
  BY <1>1, <1>2, <1>4, <1>13 DEF PublisherOK
<1>17. SubscriberOK(n, sub'[n], objects'[n])
  <2>1. ASSUME sub[n].pc = "apply", NEW m \in Node
        PROVE  KnowsLess(sub[n].our, objects'[n], m)
    <3>1. KnowsLess(sub[n].our, objects[n], m) /\ CountOf(sub[n].our, m) \in Int
      BY <1>1, <2>1, Knowledge DEF SubscriberOK
    <3> QED
      BY <1>12, <1>13, <3>1 DEF KnowsLess
  <2>2. Publishes(n)
    BY <1>1, <1>2 DEF PublisherOK
  <2>3. \A m \in Node : m # n \/ ~Publishes(n) =>
          /\ CountOf(objects'[n], m) = CountOf(objects[n], m)
          /\ ElementsOf(objects'[n], m) = ElementsOf(objects[n], m)
    BY <1>13, <2>2
  <2> QED
    BY <1>1, <1>4, <2>1, <2>3 DEF SubscriberOK
<1>18. \A q \in Node \ {n} : /\ objects'[q] = objects[q]
                             /\ pub'[q] = pub[q]
                             /\ sub'[q] = sub[q]
                             /\ used.ticks'[q] = used.ticks[q]
  BY <1>2, <1>4
<1>19. SyncInv'
  BY <1>1, <1>3, <1>4, <1>5, <1>6, <1>7, <1>10, <1>11, <1>13, <1>16, <1>17, <1>18, StepOfOneNode
<1> QED
  BY <1>15, <1>19

(* applyCRDTSync stores one merged object.  It was merged into a snapshot  *)
(* that may be old; what only this goroutine writes is not older there.    *)
LEMMA ApplyStep ==
  ASSUME SyncInv, NEW n \in Node, NEW key \in DOMAIN sub[n].data, ApplyMergedCRDT(n, key)
  PROVE  /\ SyncInv'
         /\ \A m \in Node : m # n \/ ~Publishes(n) => KnowsLess(objects[n], objects'[n], m)
<1>1. /\ SyncTypeOK /\ PublisherOK(n, pub[n], objects[n], used.ticks)
      /\ used.ticks \in [Node -> Nat] /\ Reached \in [Node -> Int]
      /\ Good(objects[n], used.ticks, Reached)
      /\ Good(sub[n].our, used.ticks, Reached) /\ Good(sub[n].data, used.ticks, Reached)
      /\ SubscriberOK(n, sub[n], objects[n])
      /\ \A q \in Node : GoodBox(inbox[q], used.ticks, Reached)
  BY OneNode
<1> DEFINE rest == [k \in DOMAIN sub[n].data \ {key} |-> sub[n].data[k]]
           next == IF DOMAIN rest = {} THEN Loop(n) ELSE [sub[n] EXCEPT !.data = rest]
<1>2. /\ UNCHANGED <<proc, pub, inbox, used>> /\ sub[n].pc = "apply"
      /\ sub' = [sub EXCEPT ![n] = next]
  BY DEF ApplyMergedCRDT
<1>3. \/ \E obj \in MergeObject(sub[n].our, key, sub[n].data[key]) :
           objects' = [objects EXCEPT ![n] = Put(@, key, obj)]
      \/ objects' = objects
  BY DEF ApplyMergedCRDT
<1>4. Subscribes(n)
  BY <1>1, <1>2 DEF SubscriberOK
<1>5. DOMAIN rest = DOMAIN sub[n].data \ {key} /\ Good(rest, used.ticks, Reached)
  BY <1>1, GoodPart
<1> HIDE DEF rest
<1>6. \/ next = NoReceiver \/ next = Receiver
      \/ next = [pc |-> "apply", our |-> sub[n].our, data |-> rest]
  <2>1. sub[n] \in [pc : {"apply"}, our : {sub[n].our}, data : {sub[n].data}]
    BY <1>1, <1>2 DEF SubscriberOK
  <2>2. [sub[n] EXCEPT !.data = rest] = [pc |-> "apply", our |-> sub[n].our, data |-> rest]
    BY <2>1
  <2> QED
    BY <2>2 DEF Loop
<1> HIDE DEF next
<1>7. Good(next.our, used.ticks, Reached) /\ Good(next.data, used.ticks, Reached)
  BY <1>1, <1>5, <1>6, GoodPart DEF NoReceiver, Receiver
<1>8. \A m \in Node : CountOf(objects[n], m) \in Int /\ CountOf(sub[n].our, m) \in Int
  BY <1>1, Knowledge
<1>9. /\ objects' = [q \in Node |-> objects'[q]]
      /\ \A q \in Node \ {n} : objects'[q] = objects[q]
  BY <1>1, <1>3 DEF SyncTypeOK
<1>10. /\ Good(objects'[n], used.ticks, Reached)
       /\ \A m \in Node : /\ KnowsLess(sub[n].our, objects'[n], m)
                          /\ m # n \/ ~Publishes(n) => KnowsLess(objects[n], objects'[n], m)
                          /\ CounterKey(m) # key => CountOf(objects'[n], m) = CountOf(objects[n], m)
                          /\ SampleSet # key => ElementsOf(objects'[n], m) = ElementsOf(objects[n], m)
  <2>1. CASE objects' = objects
    <3>1. \A m \in Node : KnowsLess(sub[n].our, objects[n], m)
      BY <1>1, <1>2 DEF SubscriberOK
    <3>2. ASSUME NEW m \in Node
          PROVE  KnowsLess(objects[n], objects[n], m)
      <4>1. CountOf(objects[n], m) \in Int
        BY <1>8
      <4> QED
        BY <4>1 DEF KnowsLess
    <3> QED
      BY <1>1, <2>1, <3>1, <3>2
  <2>2. ASSUME NEW obj \in MergeObject(sub[n].our, key, sub[n].data[key]),
               objects' = [objects EXCEPT ![n] = Put(@, key, obj)]
        PROVE  /\ Good(objects'[n], used.ticks, Reached)
               /\ \A m \in Node : /\ KnowsLess(sub[n].our, objects'[n], m)
                                  /\ m # n \/ ~Publishes(n) => KnowsLess(objects[n], objects'[n], m)
                                  /\ CounterKey(m) # key
                                       => CountOf(objects'[n], m) = CountOf(objects[n], m)
                                  /\ SampleSet # key
                                       => ElementsOf(objects'[n], m) = ElementsOf(objects[n], m)
    <3>1. /\ GoodObject(obj, key, used.ticks, Reached)
          /\ \A m \in Node :
               /\ key = SampleSet => ElementsIn(obj, m) = ElementsOf(sub[n].our, m)
                    \cup ElementsOf(sub[n].data, m)
               /\ key = CounterKey(m) => CountOf(sub[n].our, m) <= obj.Counters[m]
      <4>1. PICK our, data : our = sub[n].our /\ data = sub[n].data
        OBVIOUS
      <4>2. /\ Good(our, used.ticks, Reached) /\ Good(data, used.ticks, Reached)
            /\ key \in DOMAIN data /\ obj \in MergeObject(our, key, data[key])
        BY <1>1, <4>1
      <4>3. /\ GoodObject(obj, key, used.ticks, Reached)
            /\ \A m \in Node :
                 /\ key = SampleSet => ElementsIn(obj, m) = ElementsOf(our, m) \cup ElementsOf(data, m)
                 /\ key = CounterKey(m) =>
                      CountOf(our, m) <= obj.Counters[m] /\ CountOf(data, m) <= obj.Counters[m]
        BY <1>1, <4>2, MergedObject
      <4> QED
        BY <4>1, <4>3
    <3>2. key \in Names
      BY <1>1 DEF Good
    <3>3. objects'[n] = Put(objects[n], key, obj)
      BY <1>1, <2>2 DEF SyncTypeOK
    <3>4. /\ Good(objects'[n], used.ticks, Reached)
          /\ \A m \in Node :
               /\ CountOf(objects'[n], m)
                    = IF key = CounterKey(m) THEN obj.Counters[m] ELSE CountOf(objects[n], m)
               /\ ElementsOf(objects'[n], m) = IF key = SampleSet THEN ElementsIn(obj, m)
                                                                  ELSE ElementsOf(objects[n], m)
      BY <1>1, <3>1, <3>2, <3>3, PutObject
    <3>5. ASSUME NEW m \in Node
          PROVE  CountOf(objects'[n], m) \in Int
      BY <1>1, <3>4, Knowledge
    <3>6. ASSUME NEW m \in Node
          PROVE  KnowsLess(sub[n].our, objects[n], m)
      BY <1>1, <1>2 DEF SubscriberOK
    <3>7. ASSUME NEW m \in Node
          PROVE  KnowsLess(sub[n].our, objects'[n], m)
      <4>1. CountOf(sub[n].our, m) <= CountOf(objects'[n], m)
        BY <3>1, <3>4, <3>6 DEF KnowsLess
      <4>2. ElementsOf(sub[n].our, m) \subseteq ElementsOf(objects'[n], m)
        BY <3>1, <3>4, <3>6 DEF KnowsLess
      <4> QED
        BY <4>1, <4>2 DEF KnowsLess
    <3>8. ASSUME NEW m \in Node, m # n \/ ~Publishes(n)
          PROVE  KnowsLess(objects[n], objects'[n], m)
      <4>1. /\ CounterKey(m) = key => CountOf(objects[n], m) <= CountOf(sub[n].our, m)
            /\ SampleSet = key => ElementsOf(objects[n], m) \subseteq ElementsOf(sub[n].our, m)
        BY <1>1, <1>2, <3>8 DEF SubscriberOK
      <4>2. CountOf(objects[n], m) <= CountOf(objects'[n], m)
        BY <1>8, <3>4, <3>5, <3>7, <4>1 DEF KnowsLess
      <4>3. ElementsOf(objects[n], m) \subseteq ElementsOf(objects'[n], m)
        BY <3>4, <3>7, <4>1 DEF KnowsLess
      <4> QED
        BY <4>2, <4>3 DEF KnowsLess
    <3> QED
      BY <3>4, <3>7, <3>8
  <2> QED
    BY <1>3, <2>1, <2>2
<1>11. SubscriberOK(n, next, objects'[n])
  <2>1. CASE next = NoReceiver \/ next = Receiver
    BY <1>4, <2>1, IdleSubscriber
  <2>2. CASE next = [pc |-> "apply", our |-> sub[n].our, data |-> rest]
    <3>1. next.pc = "apply" /\ next.our = sub[n].our /\ next.data = rest
      BY <2>2
    <3>2. ASSUME NEW m \in Node, m # n \/ ~Publishes(n), CounterKey(m) \in DOMAIN rest
          PROVE  CountOf(objects'[n], m) <= CountOf(sub[n].our, m)
      BY <1>1, <1>2, <1>5, <1>10, <3>2 DEF SubscriberOK
    <3>3. ASSUME NEW m \in Node, m # n \/ ~Publishes(n), SampleSet \in DOMAIN rest
          PROVE  ElementsOf(objects'[n], m) \subseteq ElementsOf(sub[n].our, m)
      BY <1>1, <1>2, <1>5, <1>10, <3>3 DEF SubscriberOK
    <3> QED
      BY <1>4, <1>10, <2>2, <3>1, <3>2, <3>3 DEF SubscriberOK
  <2> QED
    BY <1>6, <2>1, <2>2
<1>12. PublisherOK(n, pub'[n], objects'[n], used.ticks)
  <2>1. CASE Separate
    <3>1. ~Publishes(n)
      BY <1>4, <2>1, ModeAssumption DEF Separate, Publishes, Subscribes
    <3>2. pub[n].pc = "done"
      BY <1>1, <3>1 DEF PublisherOK
    <3> QED
      BY <1>1, <1>2, <3>2 DEF PublisherOK
  <2>2. CASE ~Separate
    BY <1>1, <1>2, <2>2 DEF PublisherOK
  <2> QED
    BY <2>1, <2>2
<1>13. SyncTypeOK'
  BY <1>1, <1>2, <1>9 DEF SyncTypeOK
<1>14. sub'[n] = next /\ \A q \in Node \ {n} : sub'[q] = sub[q]
  BY <1>1, <1>2 DEF SyncTypeOK
<1>15. SyncInv'
  BY <1>1, <1>2, <1>7, <1>9, <1>10, <1>11, <1>12, <1>13, <1>14, QuietStep
<1> QED
  BY <1>10, <1>15

(* Every step preserves the invariant. *)
LEMMA SyncStep == SyncInv /\ [Next]_vars => SyncInv'
<1> SUFFICES ASSUME SyncInv, [Next]_vars PROVE SyncInv'
  OBVIOUS
<1>1. CASE UNCHANGED vars
  BY <1>1 DEF vars, SyncInv, SyncTypeOK, AllGood, Reached
<1>2. CASE Next
  <2>1. PICK n \in Node :
          \/ Start(n) \/ Stop(n) \/ Exit(n) \/ SyncNow(n) \/ Heartbeat(n)
          \/ Publisher(n)
          \/ Subscriber(n)
          \/ \E msg \in DOMAIN inbox[n] : Lose(n, msg)
    BY <1>2 DEF Next
  <2>2. CASE Start(n)
    BY <2>2, StartStep
  <2>3. CASE Stop(n)
    BY <2>3, StopStep
  <2>4. CASE Exit(n)
    BY <2>4, ExitStep
  <2>5. CASE SyncNow(n)
    BY <2>5, SyncNowStep
  <2>6. CASE Heartbeat(n)
    BY <1>1, <2>6 DEF Heartbeat
  <2>7. CASE Publisher(n)
    BY <2>7, AddLocalElementStep, AddLocalCountStep, PublishStateStep, PublisherStopsStep DEF Publisher
  <2>8. CASE Subscriber(n)
    BY <2>8, SkipStep, ReceiveSyncStep, ApplyStep, SubscriberStopsStep DEF Subscriber
  <2>9. CASE \E msg \in DOMAIN inbox[n] : Lose(n, msg)
    BY <2>9, LoseStep
  <2> QED
    BY <2>1, <2>2, <2>3, <2>4, <2>5, <2>6, <2>7, <2>8, <2>9
<1> QED
  BY <1>1, <1>2

(* Who can forget what: a running node goes back only on the data that     *)
(* both of its goroutines write, its own.                                  *)
LEMMA StepGrows ==
  ASSUME SyncInv, [Next]_vars, NEW n \in Node, NEW m \in Node, SameLife(n),
         m # n \/ ~Publishes(n) \/ ~Subscribes(n)
  PROVE  KnowsLess(objects[n], objects'[n], m)
<1>1. /\ SyncTypeOK /\ Good(objects[n], used.ticks, Reached) /\ SubscriberOK(n, sub[n], objects[n])
      /\ Reached \in [Node -> Int]
  BY OneNode
<1>2. KnowsLess(objects[n], objects[n], m)
  <2>1. CountOf(objects[n], m) \in Int
    BY <1>1, Knowledge
  <2> QED
    BY <2>1 DEF KnowsLess
<1>3. CASE objects'[n] = objects[n]
  BY <1>2, <1>3
<1>4. CASE AddLocalElement(n)
  BY <1>4, AddLocalElementStep
<1>5. CASE AddLocalCount(n)
  BY <1>5, AddLocalCountStep
<1>6. ASSUME NEW key \in DOMAIN sub[n].data, ApplyMergedCRDT(n, key)
      PROVE  KnowsLess(objects[n], objects'[n], m)
  <2>1. Subscribes(n)
    BY <1>1, <1>6 DEF SubscriberOK, ApplyMergedCRDT
  <2> QED
    BY <1>6, <2>1, ApplyStep
<1>7. CASE UNCHANGED vars
  BY <1>3, <1>7 DEF vars
<1>8. CASE Next
  <2>1. PICK q \in Node :
          \/ Start(q) \/ Stop(q) \/ Exit(q) \/ SyncNow(q) \/ Heartbeat(q)
          \/ Publisher(q)
          \/ Subscriber(q)
          \/ \E msg \in DOMAIN inbox[q] : Lose(q, msg)
    BY <1>8 DEF Next
  <2>2. \/ objects' = objects
        \/ Exit(q) \/ AddLocalElement(q) \/ AddLocalCount(q)
        \/ \E key \in DOMAIN sub[q].data : ApplyMergedCRDT(q, key)
    BY <2>1 DEF Start, Stop, SyncNow, Heartbeat, vars, Publisher, PublishState, PublisherStops,
                Subscriber, ReceiveAndSkip, ReceiveSync, ReceiveRequest, SubscriberStops, Lose
  <2>3. ASSUME q # n
        PROVE  objects'[n] = objects[n]
    BY <1>1, <2>2, <2>3 DEF SyncTypeOK, Exit, AddLocalElement, AddLocalCount, ApplyMergedCRDT
  <2>4. ~Exit(n)
    BY <1>1 DEF SyncTypeOK, Exit, SameLife
  <2> QED
    BY <1>3, <1>4, <1>5, <1>6, <2>2, <2>3, <2>4
<1> QED
  BY <1>7, <1>8

-----------------------------------------------------------------------------
(* Theorems *)

(* In every reachable state the goroutines, the maps of objects and the    *)
(* messages are as SyncInv says (startPublisher, startSubscriber).         *)
THEOREM SyncInvariant == Spec => []SyncInv
BY SyncInit, SyncStep, PTL DEF Spec

(* What the invariant says of a map of objects, wherever it is. *)
LEMMA EveryMapGood ==
  ASSUME SyncInv, NEW objs \in ObjectMaps
  PROVE  Good(objs, used.ticks, Reached) /\ Reached \in [Node -> Int] /\ used.ticks \in [Node -> Nat]
<1>1. AllGood /\ SyncTypeOK
  BY DEF SyncInv
<1>2. Good(objs, used.ticks, Reached)
  BY <1>1 DEF ObjectMaps, Messages, AllGood, GoodBox, GoodMessage
<1> QED
  BY <1>1, <1>2, ReachedType DEF SyncTypeOK

(* Goroutines, messages and maps have the shape that the code relies on,   *)
(* and the loop counter stays within the ticks.                            *)
THEOREM SyncTypes == Spec => []TypeOK
<1>1. ASSUME SyncInv PROVE TypeOK
  <2>1. \A n \in Node :
          /\ pub[n] \in [pc : {"wait", "count", "sync", "done"}, counter : 0 .. MaxTicks[n]]
                        /\ used.ticks[n] \in 0 .. MaxTicks[n]
    <3>1. ASSUME NEW n \in Node
          PROVE  /\ pub[n].counter \in Nat /\ used.ticks[n] \in Nat /\ MaxTicks[n] \in Nat
                 /\ pub[n].counter <= used.ticks[n] /\ used.ticks[n] <= MaxTicks[n]
                 /\ pub[n] \in [pc : {"wait", "count", "sync", "done"}, counter : Nat]
      BY <1>1, OneNode, ModeAssumption DEF PublisherOK
    <3>2. ASSUME NEW n \in Node
          PROVE  pub[n].counter \in 0 .. MaxTicks[n] /\ used.ticks[n] \in 0 .. MaxTicks[n]
      BY <3>1
    <3> QED
      BY <3>1, <3>2
  <2>2. \A n \in Node : sub[n].pc \in {"next", "apply", "done"} /\ IsABag(inbox[n])
    BY <1>1 DEF SyncInv, SubscriberOK, AllGood, GoodBox
  <2>3. \A msg \in Messages : msg.NodeID \in Node /\ msg.type \in {"sync", "sync_request"}
    BY <1>1 DEF SyncInv, AllGood, GoodBox, GoodMessage, Messages
  <2>4. ASSUME NEW objs \in ObjectMaps
        PROVE  IsObjects(objs)
    <3>1. Good(objs, used.ticks, Reached)
      BY <1>1, EveryMapGood
    <3>2. ASSUME NEW key \in DOMAIN objs
          PROVE  /\ objs[key].type = IF key = SampleSet THEN "lwwset" ELSE "counter"
                 /\ objs[key].Key = key
      <4>1. key \in Names /\ GoodObject(objs[key], key, used.ticks, Reached)
        BY <3>1 DEF Good
      <4>2. CASE key = SampleSet
        BY <4>1, <4>2 DEF GoodObject, GoodSet
      <4>3. CASE key # SampleSet
        BY <4>1, <4>3, NameCases DEF GoodObject, GoodCounter
      <4> QED
        BY <4>2, <4>3
    <3> QED
      BY <3>1, <3>2 DEF IsObjects, Good, Names
  <2> QED
    BY <1>1, <2>1, <2>2, <2>3, <2>4 DEF TypeOK, SyncInv, SyncTypeOK
<1> QED
  BY <1>1, SyncInvariant, PTL

(* Nobody ever holds data that no tick added, whatever is lost, repeated,  *)
(* reordered or merged into an old snapshot (AddLocalData, applyCRDTSync). *)
THEOREM DataGenuine == Spec => []Genuine
<1>1. ASSUME SyncInv PROVE Genuine
  <2>1. ASSUME NEW objs \in ObjectMaps
        PROVE  /\ Good(objs, used.ticks, Reached) /\ Reached \in [Node -> Int]
               /\ used.ticks \in [Node -> Nat]
    BY <1>1, <2>1, EveryMapGood
  <2>2. ASSUME NEW objs \in ObjectMaps, NEW m \in Node, CounterKey(m) \in DOMAIN objs
        PROVE  DOMAIN objs[CounterKey(m)].Counters = {m} /\ CountOf(objs, m) \in 1 .. used.ticks[m]
    <3>1. GoodCounter(objs[CounterKey(m)], m, Reached) /\ CountOf(objs, m) \in 1 .. Reached[m]
      BY <2>1, <2>2, Knowledge
    <3>2. Reached[m] <= used.ticks[m] /\ Reached[m] \in Int /\ used.ticks[m] \in Nat
      <4>1. Reached[m] \in Int /\ used.ticks[m] \in Nat
        BY <2>1
      <4>2. Reached[m] = used.ticks[m] - 1 \/ Reached[m] = used.ticks[m]
        BY DEF Reached
      <4> QED
        BY <4>1, <4>2
    <3> QED
      BY <3>1, <3>2 DEF GoodCounter
  <2>3. ASSUME NEW objs \in ObjectMaps, SampleSet \in DOMAIN objs
        PROVE  GoodSet(objs[SampleSet], used.ticks)
    BY <2>1, <2>3 DEF Good, GoodObject
  <2>4. ASSUME NEW s, GoodSet(s, used.ticks)
        PROVE  /\ DOMAIN s.Removes = {}
               /\ \A e \in DOMAIN s.Adds :
                    /\ s.Adds[e] = [m \in {e[1]} |-> e[2] + 1]
                    /\ e[2] < used.ticks[e[1]]
                    /\ e[2] < Count(s.Timestamp, e[1])
               /\ \A m \in DOMAIN s.Timestamp : <<m, s.Timestamp[m] - 1>> \in DOMAIN s.Adds
    BY <2>4 DEF GoodSet
  <2> QED
    BY <2>2, <2>3, <2>4 DEF Genuine
<1> QED
  BY <1>1, SyncInvariant, PTL

(* The merge of an old snapshot never takes a node back behind that        *)
(* snapshot (applyCRDTSync).                                               *)
THEOREM FloorHolds == Spec => []SnapshotIsFloor
<1>1. SyncInv => SnapshotIsFloor
  BY DEF SyncInv, SubscriberOK, SnapshotIsFloor
<1> QED
  BY <1>1, SyncInvariant, PTL

(* In every mode a running node never forgets what it has learnt of        *)
(* another one.                                                            *)
THEOREM OthersNeverForgotten == Spec => OthersOnlyGrow
<1>1. ASSUME SyncInv, [Next]_vars
      PROVE  [\A n, m \in Node : SameLife(n) /\ n # m => KnowsLess(objects[n], objects'[n], m)]_vars
  BY <1>1, StepGrows
<1> QED
  BY <1>1, SyncInvariant, PTL DEF Spec, OthersOnlyGrow

(* When no node has both goroutines, no counter ever goes back: the code   *)
(* keeps the promise of a grow-only counter then, and the race of the two  *)
(* goroutines over the node's own data is the only thing that breaks it.   *)
THEOREM SeparateCountersGrow ==
  ASSUME Separate
  PROVE  Spec => GrowOnly
<1>1. ASSUME SyncInv, [Next]_vars
      PROVE  [\A n, m \in Node : SameLife(n) => CountOf(objects[n], m) <= CountOf(objects'[n], m)]_vars
  <2>1. \A n \in Node : ~Publishes(n) \/ ~Subscribes(n)
    BY DEF Separate, Publishes, Subscribes
  <2> QED
    BY <1>1, <2>1, StepGrows DEF KnowsLess
<1> QED
  BY <1>1, SyncInvariant, PTL DEF Spec, GrowOnly

(* When no node has both goroutines, who knows an element of a publisher   *)
(* knows all of its earlier ones (startPublisher, applyCRDTSync).          *)
THEOREM SeparateNoGaps ==
  ASSUME Separate
  PROVE  Spec => []NoGaps
<1>1. ASSUME SyncInv PROVE NoGaps
  <2>1. ASSUME NEW objs \in ObjectMaps, NEW m \in Node, NEW e \in ElementsOf(objs, m), e[2] > 0
        PROVE  <<m, e[2] - 1>> \in ElementsOf(objs, m)
    <3>1. Good(objs, used.ticks, Reached)
      BY <1>1, EveryMapGood
    <3>2. SampleSet \in DOMAIN objs /\ ElementsOf(objs, m) = ElementsIn(objs[SampleSet], m)
      BY <2>1, <3>1, Knowledge
    <3>3. GoodSet(objs[SampleSet], used.ticks)
      BY <3>1, <3>2 DEF Good, GoodObject
    <3> QED
      BY <2>1, <3>2, <3>3 DEF GoodSet, ElementsIn
  <2> QED
    BY <2>1 DEF NoGaps
<1> QED
  BY <1>1, SyncInvariant, PTL
=============================================================================

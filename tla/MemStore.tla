------------------------------ MODULE MemStore ------------------------------
(***************************************************************************)
(* The store of one engine: the live objects of CRDT/MemoryStore.go and    *)
(* the bounded log of operations of CRDT/Heap.go.                          *)
(*                                                                         *)
(* A Go map is a reference.  A timestamp that a caller passes in is one    *)
(* map that the live set, the operation in the log and every exported      *)
(* snapshot share, and PruneVectorClocks deletes entries of that map in    *)
(* place.  So the clocks are kept in a sequence, and Adds, Removes and     *)
(* op.TS hold indices of it.  A set's or a counter's own Timestamp is      *)
(* never shared (Merge makes a new map, GetAllCRDTs copies it), and is a   *)
(* value.                                                                  *)
(*                                                                         *)
(* Every method runs under the store's lock and is one action.  Strings    *)
(* are not looked at: the inputs are those that validateInput accepts.     *)
(***************************************************************************)
EXTENDS CRDT, Sequences, FiniteSetsExt

CONSTANTS Key, Element,
          Stamp,      \* the timestamps that callers provide, the empty clock for none
          OpSize,     \* approxSize of an operation with an empty TS
          EntrySize,  \* what an entry of TS adds to it
          CapBytes,   \* the capacity of the log
          MaxOps      \* bound on the operations appended

ASSUME SizeAssumption == OpSize \in Nat \ {0} /\ EntrySize \in Nat /\ CapBytes \in Nat

ASSUME StampAssumption == IsFiniteSet(Node) /\ \A ts \in Stamp : IsClock(ts)

VARIABLES clocks,    \* the maps that Adds, Removes and op.TS refer to
          objects,   \* the live objects
          ops,       \* OpHeap.ops
          bytes,     \* OpHeap.bytes
          metrics,   \* StoreMetrics
          snap,      \* the latest result of GetAllCRDTs, in the caller's hands
          log,       \* history: every operation that was ever appended
          seen       \* history: what snap held when it was returned

vars == <<clocks, objects, ops, bytes, metrics, snap, log, seen>>

NoObjects == [k \in {} |-> 0]

Init ==
  /\ clocks  = <<>>
  /\ objects = NoObjects
  /\ ops     = <<>>
  /\ bytes   = 0
  /\ metrics = [TotalOpsAppended |-> 0, TotalOpsEvicted |-> 0]
  /\ snap    = NoObjects
  /\ log     = <<>>
  /\ seen    = NoObjects

-----------------------------------------------------------------------------
(* The log of operations *)

\* op.TS is 0 when the caller gave no timestamp: the one that applySetOp makes
\* is not written back to the operation.
approxSize(op, maps) ==
  OpSize + IF op.TS = 0 THEN 0 ELSE EntrySize * Cardinality(DOMAIN maps[op.TS])

\* What the first k operations of s take as they are now; <<i, b>> is byte b of
\* the i-th one.
Usage(s, k, maps) ==
  Cardinality(UNION {{i} \X (1 .. approxSize(s[i], maps)) : i \in 1 .. k})

\* Faulty variant: an operation that does not fit alone is kept.
EvictedKeepLast(all, total, maps) ==
  Min({k \in 0 .. Len(all) - 1 :
         k = Len(all) - 1 \/ total - Usage(all, k, maps) <= CapBytes})

(* How many of the oldest operations Append drops: until the rest fits, or *)
(* none is left.  What a dropped one gives back is its present size.       *)
Evicted(all, total, maps) ==
  Min({k \in 0 .. Len(all) :
         k = Len(all) \/ total - Usage(all, k, maps) <= CapBytes})

\* Faulty variant: the evicted operations are not counted.
AppendUncounted(op, maps) ==
  LET all   == Append(ops, op)
      total == bytes + approxSize(op, maps)
      k     == Evicted(all, total, maps)
  IN  /\ ops'     = SubSeq(all, k + 1, Len(all))
      /\ bytes'   = total - Usage(all, k, maps)
      /\ metrics' = [metrics EXCEPT !.TotalOpsAppended = @ + 1]
      /\ log'     = Append(log, op)

(* OpHeap.Append, and the metrics that AppendOp keeps of it.  An eviction  *)
(* handler gets the dropped operations; its error is ignored.              *)
AppendToHeap(op, maps) ==
  LET all   == Append(ops, op)
      total == bytes + approxSize(op, maps)
      k     == Evicted(all, total, maps)
  IN  /\ ops'     = SubSeq(all, k + 1, Len(all))
      /\ bytes'   = total - Usage(all, k, maps)
      /\ metrics' = [TotalOpsAppended |-> metrics.TotalOpsAppended + 1,
                     TotalOpsEvicted  |-> metrics.TotalOpsEvicted + k]
      /\ log'     = Append(log, op)

-----------------------------------------------------------------------------
(* AppendOp *)

getOrCreateSet(key) == IF key \in DOMAIN objects THEN objects[key] ELSE NewLWWSet(key)

\* Faulty variant: a new counter does not get the key.
getOrCreateCounterNoKey(key) == IF key \in DOMAIN objects THEN objects[key] ELSE NewCounter("")

getOrCreateCounter(key) == IF key \in DOMAIN objects THEN objects[key] ELSE NewCounter(key)

(* applySetOp of module CRDT, with a reference to the timestamp. *)
applySetOpRef(set, element, isAdd, ref, stamp) ==
  [set EXCEPT !.Adds      = IF isAdd THEN Put(@, element, ref) ELSE @,
              !.Removes   = IF isAdd THEN @ ELSE Put(@, element, ref),
              !.Timestamp = MergeClock(@, stamp)]

\* The map in which a caller passes ts: a new one, or one that it has passed
\* before, as AddLocalData of CRDTSync does for its two operations.
PassedIn(ts) ==
  {Len(clocks) + 1} \cup {r \in {op.TS : op \in Range(log)} \ {0} : clocks[r] = ts}

\* The maps there are once ref refers to stamp.
WithMap(ref, stamp) == IF ref \in DOMAIN clocks THEN clocks ELSE Append(clocks, stamp)

SetOp(nodeID, key, element, isAdd, ts) ==
  LET set   == getOrCreateSet(key)
      given == DOMAIN ts # {}
      stamp == IF given THEN ts ELSE FreshStamp(set, nodeID)
  IN  /\ set.type = "lwwset"
      /\ \E ref \in IF given THEN PassedIn(ts) ELSE {Len(clocks) + 1} :
           /\ clocks'  = WithMap(ref, stamp)
           /\ objects' = Put(objects, key, applySetOpRef(set, element, isAdd, ref, stamp))
           /\ AppendToHeap([Key |-> key, TS |-> IF given THEN ref ELSE 0], clocks')
      /\ UNCHANGED <<snap, seen>>

LWWAdd(nodeID, key, element, ts)    == SetOp(nodeID, key, element, TRUE, ts)

LWWRemove(nodeID, key, element, ts) == SetOp(nodeID, key, element, FALSE, ts)

CounterInc(nodeID, key, delta, ts) ==
  LET cnt   == getOrCreateCounter(key)
      given == DOMAIN ts # {}
  IN  /\ cnt.type = "counter"
      /\ objects' = Put(objects, key, IncrementWithTimestamp(cnt, nodeID, delta, ts))
      /\ \E ref \in IF given THEN PassedIn(ts) ELSE {0} :
           /\ clocks' = IF given THEN WithMap(ref, ts) ELSE clocks
           /\ AppendToHeap([Key |-> key, TS |-> ref], clocks')
      /\ UNCHANGED <<snap, seen>>

\* ErrWrongType: the key holds an object of the other type.  Nothing is logged.
WrongType(key, type) ==
  /\ key \in DOMAIN objects
  /\ objects[key].type # type
  /\ UNCHANGED vars

-----------------------------------------------------------------------------
(* PruneVectorClocks, GetActiveNodes and GetAllCRDTs *)

\* The maps that the entries of the live sets refer to.
LiveRefs ==
  UNION {Range(objects[k].Adds) \cup Range(objects[k].Removes) :
           k \in {k \in DOMAIN objects : objects[k].type = "lwwset"}}

\* Faulty variant: the sets' own timestamps are pruned, the entries are not.
PruneVectorClocksTimestampOnly(activeNodes) ==
  /\ objects' = [k \in DOMAIN objects |->
                   [objects[k] EXCEPT !.Timestamp = Prune(@, activeNodes)]]
  /\ UNCHANGED <<clocks, ops, bytes, metrics, snap, log, seen>>

PruneVectorClocks(activeNodes) ==
  /\ clocks'  = [r \in DOMAIN clocks |->
                   IF r \in LiveRefs THEN Prune(clocks[r], activeNodes) ELSE clocks[r]]
  /\ objects' = [k \in DOMAIN objects |->
                   [objects[k] EXCEPT !.Timestamp = Prune(@, activeNodes)]]
  /\ UNCHANGED <<ops, bytes, metrics, snap, log, seen>>

GetActiveNodesOfStore ==
  UNION ({GetActiveNodes(clocks[r]) : r \in LiveRefs}
         \cup {GetActiveNodes(objects[k].Timestamp) : k \in DOMAIN objects})

\* What objs holds, its references followed.
Deref(objs, maps) ==
  [k \in DOMAIN objs |->
     IF objs[k].type = "counter" THEN objs[k]
     ELSE [objs[k] EXCEPT !.Adds    = [e \in DOMAIN @ |-> maps[@[e]]],
                          !.Removes = [e \in DOMAIN @ |-> maps[@[e]]]]]

(* The copy has maps of its own for Adds, Removes, Counters and Timestamp, *)
(* but the clocks in Adds and Removes are those of the live set.           *)
GetAllCRDTs ==
  /\ snap' = objects
  /\ seen' = Deref(objects, clocks)
  /\ UNCHANGED <<clocks, objects, ops, bytes, metrics, log>>

-----------------------------------------------------------------------------

AppendOp ==
  /\ Len(log) < MaxOps
  /\ \E nodeID \in Node, key \in Key, ts \in Stamp :
       \/ \E element \in Element :
            LWWAdd(nodeID, key, element, ts) \/ LWWRemove(nodeID, key, element, ts)
       \/ CounterInc(nodeID, key, 1, ts)

Next ==
  \/ AppendOp
  \/ \E key \in Key, type \in {"lwwset", "counter"} : WrongType(key, type)
  \/ \E activeNodes \in SUBSET Node : PruneVectorClocks(activeNodes)
  \/ GetAllCRDTs

Spec == Init /\ [][Next]_vars

-----------------------------------------------------------------------------

(* Every object is stored under its own key, and every reference of a live *)
(* set or of a logged operation leads to a clock.                          *)
TypeOK ==
  /\ \A r \in DOMAIN clocks : IsClock(clocks[r])
  /\ \A k \in DOMAIN objects :
       /\ k \in Key /\ objects[k].Key = k
       /\ IsClock(objects[k].Timestamp)
       /\ objects[k].type = "counter" => IsClock(objects[k].Counters)
  /\ LiveRefs \subseteq DOMAIN clocks
  /\ \A i \in DOMAIN ops : ops[i].TS \in 0 .. Len(clocks)
  /\ bytes \in Int

(* The log is a FIFO: it holds the latest operations, in the order in      *)
(* which they were applied, and the metrics say exactly how many were      *)
(* dropped before them (OpHeap.Append, AppendOp).                          *)
HeapIsSuffix ==
  /\ metrics.TotalOpsAppended = Len(log)
  /\ ops = SubSeq(log, metrics.TotalOpsEvicted + 1, Len(log))

(* The log never takes more than its capacity, and the byte count never    *)
(* hides any usage, although the operations in it shrink when their clocks *)
(* are pruned and then give back less than they took (OpHeap.Append;       *)
(* CRDT/crdt_test.go, line 285: "Heap should be within capacity").         *)
WithinCapacity ==
  /\ Usage(ops, Len(ops), clocks) <= bytes
  /\ bytes <= CapBytes

(* A set's timestamp covers the timestamps of all its entries, also those  *)
(* that callers provided, and after pruning: the next timestamp that the   *)
(* set makes is later than every entry.  And the store's own active nodes  *)
(* are enough: to prune with them takes nothing away (applySetOp,          *)
(* PruneVectorClocks, GetActiveNodes).                                     *)
StampCoversEntries ==
  /\ \A k \in DOMAIN objects : objects[k].type = "lwwset" =>
       \A r \in Range(objects[k].Adds) \cup Range(objects[k].Removes) :
         Leq(clocks[r], objects[k].Timestamp)
  /\ \A c \in {clocks[r] : r \in LiveRefs} \cup {objects[k].Timestamp : k \in DOMAIN objects} :
       Prune(c, GetActiveNodesOfStore) = c

(* Compare answers 1 exactly for happens-after, -1 exactly for             *)
(* happens-before, and 0 for equal or concurrent clocks: it is the strict  *)
(* causal order on whatever callers and sets have made and pruning has     *)
(* left, missing entries and entries of 0 included (VectorClock.Compare).  *)
CompareIsCausalOrder ==
  \A a, b \in Range(clocks) :
    /\ Compare(a, b) = 1  <=> Leq(b, a) /\ a # b
    /\ Compare(a, b) = -1 <=> Leq(a, b) /\ a # b

(* Merge is the least upper bound: it loses nothing that either clock has  *)
(* seen, and claims nothing that neither has seen (VectorClock.Merge).     *)
MergeIsJoin ==
  \A a, b, c \in Range(clocks) :
    LET m == MergeClock(a, b)
    IN  /\ Leq(a, m) /\ Leq(b, m)
        /\ Leq(a, c) /\ Leq(b, c) => Leq(m, c)

(* CRDT/MemoryStore.go, lines 234-235: "GetAllCRDTs returns a copy of all  *)
(* CRDTs in the store for export", "This is thread-safe and returns a      *)
(* snapshot of the current state", and line 240: "Create a deep copy to    *)
(* avoid race conditions".  So what it has returned stays as it was,       *)
(* whatever happens to the store afterwards.                               *)
SnapshotIsCopy == Deref(snap, clocks) = seen

(* An operation without a timestamp takes effect at once, whatever         *)
(* explicit timestamps callers gave before, in whatever order, and         *)
(* whatever was pruned meanwhile: a later caller can always put right what *)
(* an explicit timestamp hid (applySetOp, PruneVectorClocks, Contains).    *)
FreshOpTakesEffect ==
  [][\A n \in Node, k \in Key, e \in Element :
       LET shown == GetElements(Deref(objects', clocks')[k])
       IN  /\ LWWAdd(n, k, e, EmptyClock) => e \in shown
           /\ LWWRemove(n, k, e, EmptyClock) => e \notin shown]_vars
=============================================================================

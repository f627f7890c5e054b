------------------------------- MODULE CRDT -------------------------------
(***************************************************************************)
(* The two replicated types of CRDT/crdt.go, the last-writer-wins set and  *)
(* the grow-only counter, and the operations that CRDT/MemoryStore.go      *)
(* applies to them.  Objects are values here: who holds them, and which    *)
(* steps interleave, is the matter of the modules that use this one.       *)
(*                                                                         *)
(* The counts of a counter and the entries of a clock are uint64 in the    *)
(* code; they are naturals here, so histories of 2^64 increments are not   *)
(* covered.                                                                *)
(***************************************************************************)
EXTENDS VectorClock, Functions

NewLWWSet(key) ==
  [type |-> "lwwset", Key |-> key,
   Adds |-> EmptyClock, Removes |-> EmptyClock, Timestamp |-> EmptyClock]

NewCounter(key) ==
  [type |-> "counter", Key |-> key, Counters |-> EmptyClock, Timestamp |-> EmptyClock]

-----------------------------------------------------------------------------
(* Set operations *)

\* Faulty variant: an operation without a timestamp forgets what it has seen.
FreshStampOfNodeOnly(set, nodeID) ==
  [n \in {nodeID} |-> IF n \in DOMAIN set.Timestamp THEN set.Timestamp[n] + 1 ELSE 1]

(* The timestamp of an operation that the caller gave none: the set's own, *)
(* one higher for the node.                                                *)
FreshStamp(set, nodeID) == Increment(set.Timestamp, nodeID)

\* f with f[x] set to v, as an assignment to a Go map does.
Put(f, x, v) == [y \in DOMAIN f \cup {x} |-> IF y = x THEN v ELSE f[y]]

(* ts is the timestamp the caller provides, empty for none. *)
applySetOp(set, nodeID, element, isAdd, ts) ==
  LET stamp == IF DOMAIN ts = {} THEN FreshStamp(set, nodeID) ELSE ts
  IN  [set EXCEPT
         !.Adds      = IF isAdd THEN Put(@, element, stamp) ELSE @,
         !.Removes   = IF isAdd THEN @ ELSE Put(@, element, stamp),
         !.Timestamp = MergeClock(@, stamp)]

(* Removal wins a tie: equal and concurrent timestamps hide the element. *)
Contains(set, element) ==
  /\ element \in DOMAIN set.Adds
  /\ \/ element \notin DOMAIN set.Removes
     \/ Compare(set.Adds[element], set.Removes[element]) > 0

GetElements(set) == {e \in DOMAIN set.Adds : Contains(set, e)}

(***************************************************************************)
(* The timestamps that LWWSet.Merge may keep for an element that both      *)
(* sides have: the later one, or for equal and concurrent ones what the    *)
(* tie-breaker says of the nodes that extractNodeID happens to pick.       *)
(***************************************************************************)
Winners(our, ts) ==
  IF Compare(ts, our) = 1 THEN {ts}
  ELSE IF Compare(ts, our) = -1 THEN {our}
  ELSE {deterministicMerge(our, ts, nodeID1, nodeID2) :
          nodeID1 \in extractNodeID(our), nodeID2 \in extractNodeID(ts)}

\* Faulty variant: only the elements that we already have are merged.
MergeEntriesOfOurs(ours, theirs) ==
  LET may  == {e \in DOMAIN theirs \cap DOMAIN ours : theirs[e] \in Winners(ours[e], theirs[e])}
      must == {e \in may : ours[e] \notin Winners(ours[e], theirs[e])}
  IN  {[e \in DOMAIN ours |-> IF e \in must \cup tied THEN theirs[e] ELSE ours[e]] :
         tied \in SUBSET (may \ must)}

\* Faulty variant: the other side's entry always wins.
MergeEntriesTakeTheirs(ours, theirs) ==
  {[e \in DOMAIN ours \cup DOMAIN theirs |->
      IF e \in DOMAIN theirs THEN theirs[e] ELSE ours[e]]}

(***************************************************************************)
(* What the merge of two Adds maps, or of two Removes maps, may return.    *)
(* Their entry is taken for the elements in must, and for those in         *)
(* may \ must if the tie-breaker so decides.                               *)
(***************************************************************************)
MergeEntries(ours, theirs) ==
  LET may  == {e \in DOMAIN theirs :
                 \/ e \notin DOMAIN ours
                 \/ theirs[e] \in Winners(ours[e], theirs[e]) \ {ours[e]}}
      must == {e \in may : \/ e \notin DOMAIN ours
                           \/ ours[e] \notin Winners(ours[e], theirs[e])}
  IN  {[e \in DOMAIN ours \cup DOMAIN theirs |->
          IF e \in must \cup tied THEN theirs[e] ELSE ours[e]] :
         tied \in SUBSET (may \ must)}

\* Faulty variant: the merged set keeps our timestamp.
MergeLWWSetKeepTimestamp(s, o) ==
  {[type |-> "lwwset", Key |-> s.Key, Adds |-> adds, Removes |-> removes,
    Timestamp |-> s.Timestamp] :
     adds \in MergeEntries(s.Adds, o.Adds), removes \in MergeEntries(s.Removes, o.Removes)}

\* Faulty variant: the merged set does not get the key.
MergeLWWSetNoKey(s, o) ==
  {[type |-> "lwwset", Key |-> "", Adds |-> adds, Removes |-> removes,
    Timestamp |-> MergeClock(s.Timestamp, o.Timestamp)] :
     adds \in MergeEntries(s.Adds, o.Adds), removes \in MergeEntries(s.Removes, o.Removes)}

MergeLWWSet(s, o) ==
  {[type |-> "lwwset", Key |-> s.Key, Adds |-> adds, Removes |-> removes,
    Timestamp |-> MergeClock(s.Timestamp, o.Timestamp)] :
     adds \in MergeEntries(s.Adds, o.Adds), removes \in MergeEntries(s.Removes, o.Removes)}

-----------------------------------------------------------------------------
(* Counter operations *)

AddCount(counters, nodeID, value) ==
  Put(counters, nodeID,
      IF nodeID \in DOMAIN counters THEN counters[nodeID] + value ELSE value)

\* Faulty variant: the timestamp is not advanced when the caller gives none.
IncrementKeepTimestamp(cnt, nodeID, value, ts) ==
  [cnt EXCEPT !.Counters  = AddCount(@, nodeID, value),
              !.Timestamp = MergeClock(@, ts)]

IncrementWithTimestamp(cnt, nodeID, value, ts) ==
  [cnt EXCEPT
     !.Counters  = AddCount(@, nodeID, value),
     !.Timestamp = IF DOMAIN ts # {} THEN MergeClock(@, ts) ELSE Increment(@, nodeID)]

Value(cnt) == SumFunction(cnt.Counters)

\* Faulty variant: the counts of both sides are added up.
MergeCounterSum(c, o) ==
  {[c EXCEPT
      !.Counters = [n \in DOMAIN c.Counters \cup DOMAIN o.Counters |->
                      (IF n \in DOMAIN c.Counters THEN c.Counters[n] ELSE 0)
                      + (IF n \in DOMAIN o.Counters THEN o.Counters[n] ELSE 0)],
      !.Timestamp = MergeClock(@, o.Timestamp)]}

\* Faulty variant: the merged counter does not get the key.
MergeCounterNoKey(c, o) ==
  {[c EXCEPT !.Key       = "",
             !.Counters  = MergeClock(@, o.Counters),
             !.Timestamp = MergeClock(@, o.Timestamp)]}

(* Per node the higher count: the same rule as for clocks. *)
MergeCounter(c, o) ==
  {[c EXCEPT !.Counters  = MergeClock(@, o.Counters),
             !.Timestamp = MergeClock(@, o.Timestamp)]}

(***************************************************************************)
(* The results that x.Merge(y) may have; none when it returns an error,    *)
(* because the types or the keys differ.                                   *)
(***************************************************************************)
Merge(x, y) ==
  IF x.type # y.type \/ x.Key # y.Key THEN {}
  ELSE IF x.type = "lwwset" THEN MergeLWWSet(x, y) ELSE MergeCounter(x, y)
=============================================================================

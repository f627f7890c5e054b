------------------------- MODULE ReplicatedCounter -------------------------
(***************************************************************************)
(* One counter, replicated on the engines of several nodes.  A node        *)
(* increments it without giving a timestamp, exports its state and merges  *)
(* the states that other nodes have exported, in any order and any number  *)
(* of times.  As in ReplicatedSet, one goroutine drives each engine.       *)
(***************************************************************************)
EXTENDS CRDT, Sequences, FiniteSets

CONSTANTS Delta,     \* the increments
          Key,       \* the key of the counter
          MaxOps,    \* bound on the increments of a node
          MaxMsgs    \* bound on the exported states

\* validateCounterInput refuses an increment of 0.
ASSUME DeltaAssumption == Delta \subseteq Nat \ {0}

VARIABLES cnt,    \* cnt[n] is the Counter object in n's MemStore
          msgs,   \* the states exported so far, with the node they are from
          hist    \* hist[n][k] is what n has counted in its first k increments

vars == <<cnt, msgs, hist>>

IsCounter(c) == /\ c = [type |-> "counter", Key |-> Key,
                        Counters |-> c.Counters, Timestamp |-> c.Timestamp]
                /\ IsClock(c.Counters) /\ IsClock(c.Timestamp)

-----------------------------------------------------------------------------

\* As in ReplicatedSet, a counter that is not in the map yet is an empty one.
Init == /\ cnt  = [n \in Node |-> NewCounter(Key)]
        /\ msgs = {}
        /\ hist = [n \in Node |-> <<>>]

\* What m had counted after its first k increments.
Total(h, m, k) == IF k = 0 THEN 0 ELSE h[m][k]

CounterInc(n, delta) ==
  /\ Len(hist[n]) < MaxOps
  /\ cnt'  = [cnt EXCEPT ![n] = IncrementWithTimestamp(@, n, delta, EmptyClock)]
  /\ hist' = [hist EXCEPT ![n] = Append(@, Total(hist, n, Len(@)) + delta)]
  /\ UNCHANGED msgs

GetAllCRDTs(n) ==
  /\ cnt[n] # NewCounter(Key)
  /\ Cardinality(msgs) < MaxMsgs
  /\ msgs' = msgs \cup {[from |-> n, state |-> cnt[n]]}
  /\ UNCHANGED <<cnt, hist>>

ApplyMerged(n, remote) ==
  /\ remote.from # n
  /\ \E merged \in Merge(cnt[n], remote.state) : cnt' = [cnt EXCEPT ![n] = merged]
  /\ UNCHANGED <<msgs, hist>>

Next ==
  \E n \in Node :
    \/ \E delta \in Delta : CounterInc(n, delta)
    \/ GetAllCRDTs(n)
    \/ \E remote \in msgs : ApplyMerged(n, remote)

Spec == Init /\ [][Next]_vars

-----------------------------------------------------------------------------

States == {cnt[n] : n \in Node} \cup {m.state : m \in msgs}

(* Every live or exported state is a Counter under the counter's key, and  *)
(* every history a sequence of totals.                                     *)
TypeOK == /\ cnt  = [n \in Node |-> cnt[n]]
          /\ hist = [n \in Node |-> hist[n]]
          /\ \A s \in States : IsCounter(s)
          /\ \A m \in msgs : m = [from |-> m.from, state |-> m.state] /\ m.from \in Node
          /\ \A n \in Node : hist[n] \in Seq(Nat)

\* s counts for every node what that node had counted when s last heard of it.
IsExact(s, h) ==
  /\ DOMAIN s.Counters = DOMAIN s.Timestamp
  /\ \A m \in Node :
       /\ Count(s.Timestamp, m) \in 0 .. Len(h[m])
       /\ Count(s.Counters, m) = Total(h, m, Count(s.Timestamp, m))

(* No increment is lost, counted twice or invented on the way: a state     *)
(* whose Timestamp knows k increments of m counts for m their exact sum.   *)
(* The counts and the clock are merged separately (Counter.Merge), yet     *)
(* they always fit together.                                               *)
CountsExact == \A s \in States : IsExact(s, hist)

(* Nodes that know the same increments show the same value.                *)
CounterConverges ==
  \A s1, s2 \in States :
    s1.Timestamp = s2.Timestamp => s1.Counters = s2.Counters /\ Value(s1) = Value(s2)

Abstract == INSTANCE GCounter WITH
  view <- [n \in Node |-> [m \in Node |-> Count(cnt[n].Counters, m)]]

(* The replicated counter is a grow-only counter: a merge never lowers a   *)
(* count, and never raises it above what its node has counted.             *)
ImplementsGCounter == Abstract!Spec
=============================================================================

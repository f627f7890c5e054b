--------------------------- MODULE ReplicatedSet ---------------------------
(***************************************************************************)
(* One last-writer-wins set, replicated on the engines of several nodes.   *)
(* A node adds and removes elements without giving a timestamp, exports    *)
(* its state (GetAllCRDTs), and merges a state exported by another node    *)
(* into its own (Merge, then ApplyMergedCRDT), as syncNodes of             *)
(* CRDT/crdt_test.go and applyCRDTSync of CRDTSync do.  An exported state  *)
(* can be merged late, out of order, many times or never.                  *)
(*                                                                         *)
(* Here one goroutine drives each engine, so a merge is one step; module   *)
(* CRDTSync has the goroutines that interleave with it.                    *)
(***************************************************************************)
EXTENDS CRDT, Sequences, FiniteSets

CONSTANTS Element,   \* the elements of the set
          Writer,    \* Writer[e] is the set of nodes that add and remove e
          Key,       \* the key of the set
          MaxOps,    \* bound on the operations of a node
          MaxMsgs    \* bound on the exported states

ASSUME WriterAssumption == Writer \in [Element -> SUBSET Node]

VARIABLES set,    \* set[n] is the LWWSet object in n's MemStore
          msgs,   \* the states exported so far, with the node they are from
          hist    \* hist[n] is the history of n's operations, with their timestamps

vars == <<set, msgs, hist>>

IsEntries(f) == /\ DOMAIN f \subseteq Element
                /\ f = [e \in DOMAIN f |-> f[e]]
                /\ \A e \in DOMAIN f : IsClock(f[e])

IsLWWSet(s) == /\ s = [type |-> "lwwset", Key |-> Key, Adds |-> s.Adds,
                       Removes |-> s.Removes, Timestamp |-> s.Timestamp]
               /\ IsEntries(s.Adds) /\ IsEntries(s.Removes) /\ IsClock(s.Timestamp)

IsOp(op) == /\ op = [element |-> op.element, isAdd |-> op.isAdd, TS |-> op.TS]
            /\ op.element \in Element /\ op.isAdd \in BOOLEAN /\ IsClock(op.TS)

-----------------------------------------------------------------------------

\* A set that no node has touched is not in the map of objects yet.  To merge
\* into an empty set and to store the other side's state are the same.
Init == /\ set  = [n \in Node |-> NewLWWSet(Key)]
        /\ msgs = {}
        /\ hist = [n \in Node |-> <<>>]

(* LWWAdd and LWWRemove, called without a timestamp. *)
Update(n, e, isAdd) ==
  /\ n \in Writer[e]
  /\ Len(hist[n]) < MaxOps
  /\ set'  = [set EXCEPT ![n] = applySetOp(@, n, e, isAdd, EmptyClock)]
  /\ hist' = [hist EXCEPT ![n] =
                Append(@, [element |-> e, isAdd |-> isAdd, TS |-> FreshStamp(set[n], n)])]
  /\ UNCHANGED msgs

LWWAdd(n, e) == Update(n, e, TRUE)

LWWRemove(n, e) == Update(n, e, FALSE)

GetAllCRDTs(n) ==
  /\ set[n] # NewLWWSet(Key)
  /\ Cardinality(msgs) < MaxMsgs
  /\ msgs' = msgs \cup {[from |-> n, state |-> set[n]]}
  /\ UNCHANGED <<set, hist>>

ApplyMerged(n, remote) ==
  /\ remote.from # n
  /\ \E merged \in Merge(set[n], remote.state) : set' = [set EXCEPT ![n] = merged]
  /\ UNCHANGED <<msgs, hist>>

Next ==
  \E n \in Node :
    \/ \E e \in Element : LWWAdd(n, e) \/ LWWRemove(n, e)
    \/ GetAllCRDTs(n)
    \/ \E remote \in msgs : ApplyMerged(n, remote)

Spec == Init /\ [][Next]_vars

-----------------------------------------------------------------------------
(* What a timestamp stands for: a state whose Timestamp has k or more for  *)
(* node m knows the first k operations of m.                               *)

States == {set[n] : n \in Node} \cup {m.state : m \in msgs}

Known(s, m) == 1 .. Count(s.Timestamp, m)

(* Every live or exported state is an LWWSet of clocks, under the set's    *)
(* key, and every history a sequence of operations.                        *)
TypeOK == /\ set  = [n \in Node |-> set[n]]
          /\ hist = [n \in Node |-> hist[n]]
          /\ \A s \in States : IsLWWSet(s)
          /\ \A m \in msgs : m = [from |-> m.from, state |-> m.state] /\ m.from \in Node
          /\ \A n \in Node : /\ hist[n] = [k \in 1 .. Len(hist[n]) |-> hist[n][k]]
                             /\ Len(hist[n]) \in Nat
                             /\ \A k \in 1 .. Len(hist[n]) : IsOp(hist[n][k])

(* No state claims an operation that was never issued, and every node      *)
(* knows all of its own: a merge never makes a node forget or invent an    *)
(* operation, so that the next timestamp it hands out is a new one         *)
(* (applySetOp, VectorClock.Merge).                                        *)
TimestampsIssued ==
  /\ \A s \in States : \A m \in Node : Count(s.Timestamp, m) <= Len(hist[m])
  /\ \A n \in Node : Count(set[n].Timestamp, n) = Len(hist[n])

\* What s knows, it knows with all that its issuer knew when it issued it.
IsClosed(s, h) ==
  \A m \in Node : \A k \in Known(s, m) : Leq(h[m][k].TS, s.Timestamp)

(* A timestamp is causally closed: a state that knows an operation also    *)
(* knows all that this operation's node knew when it issued it, however    *)
(* the states have travelled (applySetOp, LWWSet.Merge).                   *)
CausallyClosed == \A s \in States : IsClosed(s, hist)

\* entries (s.Adds or s.Removes) reflect the adds (removes) that s knows of.
Reflects(s, h, entries, isAdd) ==
  /\ \A e \in DOMAIN entries : \E m \in Node : \E k \in Known(s, m) :
       h[m][k].isAdd = isAdd /\ h[m][k].element = e /\ h[m][k].TS = entries[e]
  /\ \A m \in Node : \A k \in Known(s, m) :
       h[m][k].isAdd = isAdd => h[m][k].element \in DOMAIN entries

(* A state holds an entry for exactly the elements that the operations it  *)
(* knows of have added (removed), and the entry is one of those            *)
(* operations: a merge in whatever order drops no element and invents none *)
(* (LWWSet.Merge).                                                         *)
KnowledgeComplete ==
  \A s \in States : Reflects(s, hist, s.Adds, TRUE) /\ Reflects(s, hist, s.Removes, FALSE)

LocalOpWins ==
  \A n \in Node : \A e \in Element :
    /\ LWWAdd(n, e) => e \in GetElements(set'[n])
    /\ LWWRemove(n, e) => e \notin GetElements(set'[n])

(* A node sees its own operation: after LWWAdd the element is in the set,  *)
(* after LWWRemove it is not, whatever was merged before.                  *)
OwnOperationsVisible == [][LocalOpWins]_vars

(* Strong convergence: nodes that know the same operations show the same   *)
(* elements.  CRDT/readme.md: "Deterministic Results: Same final state     *)
(* regardless of sync order".                                              *)
StrongConvergence ==
  \A s1, s2 \in States :
    s1.Timestamp = s2.Timestamp => GetElements(s1) = GetElements(s2)

\* The elements of one writer, as all of CRDTSync's are: their names begin
\* with the ID of the node that adds them.
SingleWriter == {e \in Element : \A m, n \in Writer[e] : m = n}

(* The elements of one writer converge, also in a set with elements that   *)
(* several nodes write: nodes that know the same operations agree on them, *)
(* whatever the tie-breaker of LWWSet.Merge did to the others.             *)
OwnedConvergence ==
  \A s1, s2 \in States : s1.Timestamp = s2.Timestamp =>
    GetElements(s1) \cap SingleWriter = GetElements(s2) \cap SingleWriter

EntryOf(s, op) == IF op.isAdd THEN s.Adds[op.element] ELSE s.Removes[op.element]

(* The entry kept for an element of one writer is not older than an        *)
(* operation that the state knows of: the last writer wins (LWWSet.Merge). *)
LastWriterWins ==
  \A s \in States : \A m \in Node : \A k \in Known(s, m) :
    hist[m][k].element \in SingleWriter =>
      Compare(EntryOf(s, hist[m][k]), hist[m][k].TS) # -1
=============================================================================

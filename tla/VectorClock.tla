---------------------------- MODULE VectorClock ----------------------------
(***************************************************************************)
(* The vector clocks of CRDT/crdt.go: Go maps from node IDs to uint64      *)
(* counters.  A clock is a function whose domain is the set of nodes the   *)
(* map has an entry for, because the code tells a missing entry from an    *)
(* entry that is 0.                                                        *)
(*                                                                         *)
(* A node ID is a Go string that is only compared (=, <).  It is modelled  *)
(* by its rank in Go's string order, a positive number; the empty string,  *)
(* which is below every other one, is 0.                                   *)
(***************************************************************************)
EXTENDS Integers

CONSTANT Node      \* the node IDs

ASSUME NodeAssumption == Node \subseteq Nat \ {0}

NoNode == 0        \* the node ID ""

IsClock(c) == DOMAIN c \subseteq Node /\ c \in [DOMAIN c -> Nat]

EmptyClock == [n \in {} |-> 0]

(* What a map has for a node, 0 if it has no entry. *)
Count(c, m) == IF m \in DOMAIN c THEN c[m] ELSE 0

(***************************************************************************)
(* The causal order, the reference that Compare and MergeClock are checked *)
(* against: a is at most b if b has every entry of a, at least as high.    *)
(***************************************************************************)
Leq(a, b) == DOMAIN a \subseteq DOMAIN b /\ \A n \in DOMAIN a : a[n] <= b[n]

-----------------------------------------------------------------------------

\* Faulty variant: an entry that one clock lacks is ignored.
BehindOnCommonNodes(vc, other) ==
  \E n \in DOMAIN other \cap DOMAIN vc : vc[n] < other[n]

(* vc is behind other at some node: its entry is missing, or is lower. *)
Behind(vc, other) ==
  \E n \in DOMAIN other : n \notin DOMAIN vc \/ vc[n] < other[n]

(* -1 happens-before, 1 happens-after, 0 equal or concurrent. *)
Compare(vc, other) ==
  LET less    == Behind(vc, other)
      greater == Behind(other, vc)
  IN  IF less <=> greater THEN 0 ELSE IF greater THEN 1 ELSE -1

\* Faulty variant: an entry of other overwrites ours even when it is lower.
MergeClockOverwrite(vc, other) ==
  [n \in DOMAIN vc \cup DOMAIN other |->
     IF n \in DOMAIN other THEN other[n] ELSE vc[n]]

(* The entrywise maximum of two clocks. *)
MergeClock(vc, other) ==
  [n \in DOMAIN vc \cup DOMAIN other |->
     IF n \notin DOMAIN vc \/ (n \in DOMAIN other /\ other[n] > vc[n])
       THEN other[n]
       ELSE vc[n]]

Increment(vc, nodeID) ==
  [n \in DOMAIN vc \cup {nodeID} |->
     IF n # nodeID THEN vc[n] ELSE IF n \in DOMAIN vc THEN vc[n] + 1 ELSE 1]

Prune(vc, activeNodes) ==
  [n \in DOMAIN vc \cap activeNodes |-> vc[n]]

GetActiveNodes(vc) == DOMAIN vc

(***************************************************************************)
(* The node with the highest timestamp, for breaking ties.  The code keeps *)
(* the first maximum that it meets while it ranges over a Go map, in an    *)
(* order that changes from call to call: every node with the maximum is a  *)
(* possible answer.  A clock with no positive entry has the answer "".     *)
(***************************************************************************)
extractNodeID(ts) ==
  LET maxNodes == {n \in DOMAIN ts : ts[n] > 0 /\ \A m \in DOMAIN ts : ts[m] <= ts[n]}
  IN  IF maxNodes = {} THEN {NoNode} ELSE maxNodes

(* The later of two clocks; if neither is, the one of the smaller node ID. *)
deterministicMerge(ts1, ts2, nodeID1, nodeID2) ==
  IF Compare(ts1, ts2) = 1 THEN ts1
  ELSE IF Compare(ts1, ts2) = -1 THEN ts2
  ELSE IF nodeID1 < nodeID2 THEN ts1 ELSE ts2
=============================================================================

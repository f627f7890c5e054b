------------------------------ MODULE GCounter ------------------------------
(***************************************************************************)
(* What a grow-only counter promises ("Grow-only Counter (G-Counter)",     *)
(* CRDT/crdt.go): every node has a view of how much each node has counted. *)
(* A node raises its own count; a view of another node's count only rises, *)
(* and never above what that node has counted.                             *)
(***************************************************************************)
EXTENDS Naturals

CONSTANT Node

VARIABLE view      \* view[n][m] is what n knows that m has counted

Init == view = [n \in Node |-> [m \in Node |-> 0]]

\* n counts on, and no view but its own changes.
Inc(n) ==
  /\ view'[n][n] \in Nat
  /\ view'[n][n] > view[n][n]
  /\ view' = [view EXCEPT ![n][n] = view'[n][n]]

\* n learns of counts of the others.
Learn(n) ==
  /\ view' = [view EXCEPT ![n] = view'[n]]
  /\ view'[n] \in [Node -> Nat]
  /\ view'[n][n] = view[n][n]
  /\ \A m \in Node : view[n][m] <= view'[n][m] /\ view'[n][m] <= view[m][m]

Next == \E n \in Node : Inc(n) \/ Learn(n)

Spec == Init /\ [][Next]_view
=============================================================================

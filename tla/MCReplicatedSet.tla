-------------------------- MODULE MCReplicatedSet --------------------------
EXTENDS ReplicatedSet

CONSTANTS e1, e2

\* Every node writes every element.
SharedWriters == [e \in Element |-> Node]

\* Node 1 alone writes e1, as in CRDTSync; every node writes the others.
MixedWriters == [e \in Element |-> IF e = e1 THEN {1} ELSE Node]
=============================================================================

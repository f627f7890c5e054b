----------------------------- MODULE MCMemStore -----------------------------
EXTENDS MemStore

CONSTANTS k1, k2, e1

\* No timestamp, one that knows both nodes, and one that has only an entry of 0.
SomeStamps == {EmptyClock, [n \in {1, 2} |-> 2], [n \in {1} |-> 0]}
=============================================================================

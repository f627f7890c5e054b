----------------------------- MODULE MCCRDTSync -----------------------------
EXTENDS CRDTSync

\* Node 1 publishes, node 2 subscribes.
OnePublisher == [n \in Node |-> IF n = 1 THEN "publish" ELSE "subscribe"]

\* The default configuration: everyone does both.
AllBoth == [n \in Node |-> "both"]
Ticks2  == [n \in Node |-> 2]
=============================================================================

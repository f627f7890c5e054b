---------------------------- MODULE MCGossipApp ----------------------------
EXTENDS GossipApp, TLC

Cmd(key, mode, addrs, print, n) ==
  [key |-> key, mode |-> mode, addrs |-> addrs, print |-> print, starts |-> n]

\* A new directory, from which two processes with the common key, or with the
\* same -key, show their addresses.
CommonKey ==
  [cmd |-> <<Cmd("", "both", TRUE, FALSE, 2), Cmd("", "both", TRUE, FALSE, 1)>>, dir |-> <<>>]

SameKey ==
  [cmd |-> <<Cmd("k", "both", TRUE, FALSE, 2), Cmd("k", "both", TRUE, FALSE, 1)>>, dir |-> <<>>]

\* One with the common key, one with a key of its own, or with the common file
\* as its -key, in a new directory and in one where that key is there.
OwnKey(key, d) ==
  [cmd |-> <<Cmd("", "both", TRUE, FALSE, 2), Cmd(key, "both", TRUE, FALSE, 2)>>, dir |-> d]

OwnKeys == {OwnKey("k", <<>>), OwnKey("k", "k" :> 1), OwnKey(PeerJson, <<>>)}

\* The keys are there: one process publishes and subscribes, one publishes.
TwoNodes ==
  [cmd |-> <<Cmd("", "both", FALSE, FALSE, 1), Cmd("k", "publisher", FALSE, FALSE, 1)>>,
   dir |-> PeerJson :> 1 @@ "k" :> 2]

\* The publisher is started again while another process subscribes, to print
\* and end.
Restarted ==
  [cmd |-> <<Cmd("", "publisher", FALSE, FALSE, 2), Cmd("k", "subscriber", FALSE, TRUE, 1)>>,
   dir |-> PeerJson :> 1 @@ "k" :> 2]

\* README.md, Quick Start: one instance after the other, without -key.
QuickStart ==
  [cmd |-> <<Cmd("", "both", FALSE, FALSE, 1), Cmd("", "both", FALSE, FALSE, 1)>>,
   dir |-> <<>>]

JustQuickStart == {QuickStart}

Setups == {CommonKey, SameKey, TwoNodes, Restarted} \cup OwnKeys
=============================================================================

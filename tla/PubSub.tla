------------------------------- MODULE PubSub -------------------------------
(***************************************************************************)
(* A publisher and a subscriber on one topic, in one of several setups.    *)
(* The topic is external: it hands what our publisher and the publishers   *)
(* of other programs have published to the subscription, and drops a       *)
(* message when the channel is full or when it gets lost on its way.       *)
(***************************************************************************)
EXTENDS Publisher, Subscriber

CONSTANTS Setup,      \* the pairs of ways in which the two are driven
          Self,       \* our own peer ID: what we publish we receive from ourselves
          Peer,       \* the peers that a message can be received from, Self among them
          ChanSize,   \* the size of the subscription's channel
          MaxArrivals \* bound on the messages that arrive, ours and those of others

\* External: a message that libp2p has accepted names its sender.
ASSUME PeerAssumption == Self \in Peer /\ "" \notin Peer

vars == <<pubVars, subVars>>

Init == /\ PublisherInit /\ SubscriberInit
        /\ \E s \in Setup : driver = s[1] /\ use = s[2]

Arrives(p, len) ==
  /\ use # "none" /\ ~closed
  /\ Len(inbox) < ChanSize
  /\ inbox' = Append(inbox, [from |-> p, len |-> len])
  /\ UNCHANGED <<use, recv, subMetrics, observer, closed, ctxDone, taken>>

(* What our publisher publishes arrives, or is dropped. *)
Deliver ==
  \/ sent' # sent /\ Arrives(Self, sent'[Len(sent')].len)
  \/ UNCHANGED subVars

(* A message of another program: empty, too large, or neither. *)
Foreign ==
  /\ Len(calls) + taken.good + taken.bad + Len(inbox) < MaxArrivals
  /\ \E p \in Peer \ {Self}, len \in {0, 1, MaxLength + 1} : Arrives(p, len)
  /\ UNCHANGED pubVars

Next ==
  \/ PublisherNext /\ Deliver
  \/ Foreign
  \/ SubscriberNext /\ UNCHANGED pubVars

Spec == Init /\ [][Next]_vars /\ PublisherFairness /\ SubscriberFairness

(* The type invariants of the two (Publisher.go, Subscriber.go). *)
TypeOK == PublisherTypeOK /\ SubscriberTypeOK

(* Once the contexts are cancelled everything comes to an end:             *)
(* every call has returned, also one that was retrying or in the           *)
(* middle of a batch, and so have both loops, also a subscriber's that a   *)
(* cancelled subscription keeps failing (run of both, PublishWithRetry,    *)
(* PublishBatch).                                                          *)
CancelEnds ==
  (cancelled /\ (ctxDone \/ use # "run")) ~>
    (/\ driver = "api" => NoCall
     /\ driver = "run" => call["run"].pc = "done"
     /\ use = "run" => recv["run"].pc = "done")
=============================================================================

----------------------------- MODULE Subscriber -----------------------------
(***************************************************************************)
(* A subscriber of Subscriber/Subscriber.go.  StartSubscriber makes one of *)
(* its own and runs its loop; NewSubscriber gives one to a program, whose  *)
(* goroutines call ProcessMessageWithHandler and read the metrics.         *)
(*                                                                         *)
(* The counters are separate atomics and uniquePeers has a lock of its     *)
(* own: each update is a step.  Times are left out.                        *)
(***************************************************************************)
EXTENDS Integers, Sequences, FiniteSets

CONSTANTS Handler,    \* the goroutines that call ProcessMessageWithHandler
          MaxLength,  \* the largest message that is accepted: 1 MB
          MaxErrors   \* bound on ReceiveErrors

ASSUME SubscriberAssumption ==
  /\ MaxLength \in Nat /\ MaxErrors \in Nat
  /\ IsFiniteSet(Handler) /\ "run" \notin Handler

VARIABLES use,         \* "run" for StartSubscriber, "api" for NewSubscriber, or "none"
          recv,        \* recv[g] is where receiver g is, and its message
          subMetrics,  \* SubscriberMetrics
          observer,    \* a call of GetMetrics: its next read, 3 when it has returned
          inbox,       \* external: the channel of the subscription
          closed,      \* external: the subscription is cancelled
          ctxDone,     \* the context is cancelled
          taken        \* history: what Next has returned

subVars == <<use, recv, subMetrics, observer, inbox, closed, ctxDone, taken>>

Receiver == Handler \cup {"run"}

NoMsg == [from |-> "", len |-> 0]

NoSubMetrics == [MessagesReceived |-> 0, ReceiveErrors |-> 0, ValidationErrors |-> 0,
                 uniquePeers |-> {}]

SubscriberInit ==
  /\ recv       = [g \in Receiver |->
                     [pc |-> IF g = "run" THEN "top" ELSE "idle", msg |-> NoMsg]]
  /\ subMetrics = NoSubMetrics
  /\ observer   = [pc |-> 1, got |-> NoSubMetrics]
  /\ inbox      = <<>>
  /\ closed     = FALSE
  /\ ctxDone    = FALSE
  /\ taken      = [good |-> 0, bad |-> 0, peers |-> {}]

Goto(g, pc) == recv' = [recv EXCEPT ![g].pc = pc]

\* Where a receiver is when it is done with a message.
Leave(g) ==
  recv' = [recv EXCEPT ![g] = [pc |-> IF g = "run" THEN "top" ELSE "idle", msg |-> NoMsg]]

-----------------------------------------------------------------------------

(* The head of run: the context is looked at, then Next is called. *)
LoopHead ==
  /\ use = "run"
  /\ recv["run"].pc = "top"
  /\ Goto("run", IF ctxDone THEN "done" ELSE "next")
  /\ UNCHANGED <<use, subMetrics, observer, inbox, closed, ctxDone, taken>>

ProcessMessageWithHandler(g) ==
  /\ use = "api"
  /\ recv[g].pc = "idle"
  /\ Goto(g, "next")
  /\ UNCHANGED <<use, subMetrics, observer, inbox, closed, ctxDone, taken>>

\* Faulty variant: an empty message passes.
validateMessageNotEmpty(msg) == msg.len <= MaxLength /\ msg.from # ""

validateMessage(msg) == msg.len > 0 /\ msg.len <= MaxLength /\ msg.from # ""

\* The history of what Next returned: how many messages of a legal length, how
\* many others, and the peers of the former.
Noted(msg) ==
  IF msg.len \in 1 .. MaxLength
  THEN [taken EXCEPT !.good = @ + 1, !.peers = @ \cup {msg.from}]
  ELSE [taken EXCEPT !.bad = @ + 1]

NextReturns(g) ==
  /\ recv[g].pc = "next"
  /\ inbox # <<>>
  /\ inbox' = Tail(inbox)
  /\ taken' = Noted(Head(inbox))
  /\ recv'  = [recv EXCEPT ![g] = [msg |-> Head(inbox),
                 pc |-> IF validateMessage(Head(inbox)) THEN "count" ELSE "invalid"]]
  /\ UNCHANGED <<use, subMetrics, observer, closed, ctxDone>>

(* Next returns an error: the context is done, or the subscription is      *)
(* cancelled and its channel drained.  ProcessMessageWithHandler passes    *)
(* the error on.                                                           *)
NextFails(g) ==
  /\ recv[g].pc = "next"
  /\ ctxDone \/ (closed /\ inbox = <<>>)
  /\ Goto(g, IF g = "run" THEN "failed" ELSE "idle")
  /\ UNCHANGED <<use, subMetrics, observer, inbox, closed, ctxDone, taken>>

(* run counts the error and sleeps for a second, unless the context is     *)
(* done.  With a cancelled subscription it does so again and again.        *)
LoopError ==
  /\ recv["run"].pc = "failed"
  /\ \/ ctxDone /\ Goto("run", "done") /\ UNCHANGED subMetrics
     \/ /\ ~ctxDone /\ subMetrics.ReceiveErrors < MaxErrors
        /\ subMetrics' = [subMetrics EXCEPT !.ReceiveErrors = @ + 1]
        /\ Goto("run", "top")
  /\ UNCHANGED <<use, observer, inbox, closed, ctxDone, taken>>

\* An invalid message is counted and is no error.
CountInvalid(g) ==
  /\ recv[g].pc = "invalid"
  /\ subMetrics' = [subMetrics EXCEPT !.ValidationErrors = @ + 1]
  /\ Leave(g)
  /\ UNCHANGED <<use, observer, inbox, closed, ctxDone, taken>>

CountReceived(g) ==
  /\ recv[g].pc = "count"
  /\ subMetrics' = [subMetrics EXCEPT !.MessagesReceived = @ + 1]
  /\ Goto(g, "peer")
  /\ UNCHANGED <<use, observer, inbox, closed, ctxDone, taken>>

TrackPeer(g) ==
  /\ recv[g].pc = "peer"
  /\ subMetrics' = [subMetrics EXCEPT !.uniquePeers = @ \cup {recv[g].msg.from}]
  /\ Goto(g, "handle")
  /\ UNCHANGED <<use, observer, inbox, closed, ctxDone, taken>>

(* processMessage, or the custom handler; its error is the caller's.       *)
Handle(g) ==
  /\ recv[g].pc = "handle"
  /\ Leave(g)
  /\ UNCHANGED <<use, subMetrics, observer, inbox, closed, ctxDone, taken>>

-----------------------------------------------------------------------------
(* GetMetrics: uniquePeers under its lock, then the counters one by one.   *)
(* The loads of the error counters are left out: they are related to no    *)
(* other.                                                                  *)

\* Faulty variant: the counters first.
ReadOrderCountersFirst == <<"MessagesReceived", "uniquePeers">>

ReadOrder == <<"uniquePeers", "MessagesReceived">>

\* One call, at any moment, stands for all.
GetSubMetrics ==
  /\ use = "api"
  /\ observer.pc \in DOMAIN ReadOrder
  /\ observer' = [pc  |-> observer.pc + 1,
                  got |-> [observer.got EXCEPT ![ReadOrder[observer.pc]] =
                                                  subMetrics[ReadOrder[observer.pc]]]]
  /\ UNCHANGED <<use, recv, subMetrics, inbox, closed, ctxDone, taken>>

(* The program cancels the context or the subscription. *)
CancelContext ==
  /\ ~ctxDone
  /\ ctxDone' = TRUE
  /\ UNCHANGED <<use, recv, subMetrics, observer, inbox, closed, taken>>

CancelSubscription ==
  /\ ~closed
  /\ closed' = TRUE
  /\ UNCHANGED <<use, recv, subMetrics, observer, inbox, ctxDone, taken>>

-----------------------------------------------------------------------------

Receive(g) ==
  \/ NextReturns(g) \/ NextFails(g) \/ CountInvalid(g)
  \/ CountReceived(g) \/ TrackPeer(g) \/ Handle(g)

Loop == LoopHead \/ LoopError \/ Receive("run")

SubscriberNext ==
  \/ use # "none" /\ (CancelContext \/ CancelSubscription)
  \/ Loop
  \/ \E g \in Handler : ProcessMessageWithHandler(g) \/ Receive(g)
  \/ GetSubMetrics

(* The loop goes on when it can. *)
SubscriberFairness ==
  WF_subVars(Loop)

-----------------------------------------------------------------------------

\* The receivers that have a message and are at pc.
At(pc) == {g \in Receiver : recv[g].pc = pc}

(* Every receiver is at a place of its loop or call. *)
SubscriberTypeOK ==
  /\ \A g \in Receiver : recv[g].pc \in {"idle", "top", "next", "failed", "invalid", "count",
                                         "peer", "handle", "done"}
  /\ subMetrics.ReceiveErrors \in 0 .. MaxErrors
  /\ observer.pc \in 1 .. 3

(* However many receivers share the subscription, every message that Next  *)
(* returned is counted once, as received exactly when it is neither empty  *)
(* nor too large, and the peers on record are those of the received        *)
(* messages (ProcessMessageWithHandler, receiveMessage, validateMessage).  *)
ReceivedExact ==
  /\ subMetrics.MessagesReceived + Cardinality(At("count")) = taken.good
  /\ subMetrics.ValidationErrors + Cardinality(At("invalid")) = taken.bad
  /\ subMetrics.uniquePeers \subseteq taken.peers
  /\ At("count") = {} /\ At("peer") = {} => subMetrics.uniquePeers = taken.peers

(* A snapshot of the metrics, read in pieces, never lists more peers than  *)
(* it counts messages (GetMetrics copies the peers first).                 *)
PeersHaveMessages ==
  observer.pc = 3 => Cardinality(observer.got.uniquePeers) <= observer.got.MessagesReceived
=============================================================================

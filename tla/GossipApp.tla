----------------------------- MODULE GossipApp -----------------------------
(***************************************************************************)
(* The processes of main.go that are started in one directory: each gets   *)
(* its key (PeerIdentity), joins the topic, runs a publisher, a subscriber *)
(* with the message store, and the statistics, and shuts down on a signal  *)
(* or, with -print, by itself.                                             *)
(*                                                                         *)
(* Of the publisher and the subscriber only what the program sees is kept; *)
(* the modules Publisher and Subscriber have their inner steps.  GossipSub *)
(* is external: a message reaches any of the subscribers that have room    *)
(* for it, the own one among them, and never a process with the publish-   *)
(* er's own peer ID, which libp2p does not dial.                           *)
(***************************************************************************)
EXTENDS PeerIdentity, Sequences

CONSTANTS ChanSize, \* external: the size of a subscription's channel
          Advance,  \* external: by how much the clock goes on while GossipSub is
                    \* created or a message published
          MaxMsgs   \* bound on the messages of a process since its start

ASSUME AppAssumption == ChanSize \in Nat /\ MaxMsgs \in Nat

\* Neither is done within a nanosecond.
ASSUME ClockAssumption == Advance \subseteq Nat \ {0}

VARIABLES node,  \* node[p] is the state of main and its goroutines in p
          clock  \* external: the time in nanoseconds

appVars == <<idVars, node, clock>>

\* The world outside the goroutines of a process.
outside == <<idVars, clock>>

NoMsg == [from |-> "nobody"]

EmptyStore == [key \in {} |-> NoMsg]

Off == [main |-> "none", pub |-> "off", sub |-> "off", stats |-> "off", cancelled |-> FALSE,
        sig |-> FALSE, inbox |-> <<>>, msg |-> NoMsg, store |-> EmptyStore, base |-> 0, n |-> 0,
        received |-> {}, \* history: the messages that were received
        late |-> 0]      \* history: how many of them after the cancellation

Init == IdentityInit /\ node = [p \in Process |-> Off] /\ clock = 0

Becomes(p, new) == node' = [node EXCEPT ![p] = new]

Fault == faults < MaxFaults /\ faults' = faults + 1
         /\ UNCHANGED <<cmd, file, boot, host, gen, made, starts, overlap, torn, clock>>

-----------------------------------------------------------------------------
(* main *)

(* SIGINT or SIGTERM: kept in the channel until main looks at it. *)
Signal(p) ==
  /\ boot[p] # "off"
  /\ ~node[p].sig
  /\ Becomes(p, [node[p] EXCEPT !.sig = TRUE])
  /\ UNCHANGED outside

Started(b) == IF b THEN "run" ELSE "off"

(* The host is up: GossipSub, whose counter of messages starts at the      *)
(* present time, and the topic are joined and the goroutines started.      *)
Serve(p) ==
  /\ boot[p] = "up" /\ ~cmd[p].addrs
  /\ node[p].main = "none"
  /\ Becomes(p, [node[p] EXCEPT !.main  = "serve",
                                !.pub   = Started(cmd[p].mode \in {"publisher", "both"}),
                                !.sub   = IF cmd[p].mode \in {"subscriber", "both"} THEN "top" ELSE "off",
                                !.stats = "run",
                                !.base  = clock])
  /\ \E d \in Advance : clock' = clock + d
  /\ UNCHANGED idVars

(* On a signal, or after five seconds, the store is printed; *)
FinalPrint(p) ==
  /\ node[p].main = "serve"
  /\ cmd[p].print \/ node[p].sig
  /\ Becomes(p, [node[p] EXCEPT !.main = "cancel"])
  /\ UNCHANGED outside

(* then the context is cancelled, *)
CancelAll(p) ==
  /\ node[p].main = "cancel"
  /\ Becomes(p, [node[p] EXCEPT !.main = "wait", !.cancelled = TRUE])
  /\ UNCHANGED outside

(* and when the wait group is done main returns. *)
Goodbye(p) ==
  /\ node[p].main = "wait"
  /\ {node[p].pub, node[p].sub, node[p].stats} \subseteq {"off", "done"}
  /\ Ends(p)
  /\ Becomes(p, Off)
  /\ UNCHANGED clock

(* -addrs, or no key: os.Exit or log.Fatalf. *)
Exits(p) ==
  /\ \/ boot[p] = "up" /\ cmd[p].addrs
     \/ boot[p] \in {"unreadable", "failed"}
  /\ Ends(p)
  /\ Becomes(p, Off)
  /\ UNCHANGED clock

(* The process is killed at any moment, or ends with log.Fatalf when it    *)
(* cannot create GossipSub, join or subscribe.                             *)
Crash(p) ==
  /\ Ends(p)
  /\ Becomes(p, Off)
  /\ UNCHANGED clock

-----------------------------------------------------------------------------
(* The publisher's loop *)

\* External: libp2p connects two hosts only if their peer IDs differ.  What a
\* process publishes it receives itself, too.
Connected(p, q) == q = p \/ host[q] # host[p]

\* External: the subscriptions that a message of p can reach.
Listeners(p) ==
  {q \in Process : /\ node[q].sub \notin {"off", "done"}
                   /\ Connected(p, q)
                   /\ Len(node[q].inbox) < ChanSize}

\* External: a message has a sequence number, the next one of the counter that
\* started at the time when p created GossipSub.  The start is a history.
NextMsg(p) ==
  [from |-> p, start |-> starts[p], seq |-> node[p].base + node[p].n + 1]

(* A tick that publishes; with the context cancelled, select may still.    *)
(* A tick whose Publish fails changes nothing that is kept here.           *)
Tick(p) ==
  /\ node[p].pub = "run"
  /\ node[p].n < MaxMsgs
  /\ \E reached \in SUBSET Listeners(p) :
       node' = [q \in Process |->
                  [node[q] EXCEPT !.inbox = IF q \in reached THEN Append(@, NextMsg(p)) ELSE @,
                                  !.n     = IF q = p THEN @ + 1 ELSE @]]
  /\ \E d \in Advance : clock' = clock + d
  /\ UNCHANGED idVars

(* run returns when it sees the context cancelled. *)
PublisherStops(p) ==
  /\ node[p].pub = "run"
  /\ node[p].cancelled
  /\ Becomes(p, [node[p] EXCEPT !.pub = "done"])
  /\ UNCHANGED outside

-----------------------------------------------------------------------------
(* startSubscriberWithStore *)

\* Faulty variant: the loop does not look at its context.
SubHeadBlind(p) ==
  /\ node[p].sub = "top"
  /\ Becomes(p, [node[p] EXCEPT !.sub = "next"])
  /\ UNCHANGED outside

SubHead(p) ==
  /\ node[p].sub = "top"
  /\ Becomes(p, [node[p] EXCEPT !.sub = IF node[p].cancelled THEN "done" ELSE "next"])
  /\ UNCHANGED outside

(* Next returns a message; with the context cancelled, select may still.   *)
SubNext(p) ==
  /\ node[p].sub = "next"
  /\ node[p].inbox # <<>>
  /\ Becomes(p, [node[p] EXCEPT !.sub = "store", !.msg = Head(node[p].inbox), !.inbox = Tail(@),
                                !.received = @ \cup {Head(node[p].inbox)},
                                !.late = IF node[p].cancelled THEN @ + 1 ELSE @])
  /\ UNCHANGED outside

\* Faulty variant: after an error the loop goes straight to Next.
SubNextFailsAgain(p) ==
  /\ node[p].sub = "next"
  /\ \/ node[p].cancelled /\ UNCHANGED appVars
     \/ ~node[p].cancelled /\ Fault /\ Becomes(p, [node[p] EXCEPT !.sub = "top"])

(* Next fails.  Unless the context is cancelled the loop sleeps and goes on. *)
SubNextFails(p) ==
  /\ node[p].sub = "next"
  /\ \/ /\ node[p].cancelled
        /\ Becomes(p, [node[p] EXCEPT !.sub = "done"])
        /\ UNCHANGED outside
     \/ /\ ~node[p].cancelled /\ Fault
        /\ Becomes(p, [node[p] EXCEPT !.sub = "top"])

\* Faulty variant: the number is left out.
KeyOfPeer(msg) == <<"12D3KooW">>

(* The first eight characters of the peer ID, which are the same for every *)
(* Ed25519 key, and the sequence number.                                   *)
KeyOf(msg) == <<"12D3KooW", msg.seq>>

\* MessageStore.Add, under the store's lock: an entry with this key is replaced.
Add(store, key, msg) ==
  [k \in DOMAIN store \cup {key} |-> IF k = key THEN msg ELSE store[k]]

(* The handler stores the message under its key. *)
SubStore(p) ==
  /\ node[p].sub = "store"
  /\ Becomes(p, [node[p] EXCEPT !.sub = "top", !.msg = NoMsg,
                           !.store = Add(@, KeyOf(node[p].msg), node[p].msg)])
  /\ UNCHANGED outside

(* printStatsPeriodically reads the store, under its lock, until it ends.  *)
StatsStop(p) ==
  /\ node[p].stats = "run"
  /\ node[p].cancelled
  /\ Becomes(p, [node[p] EXCEPT !.stats = "done"])
  /\ UNCHANGED outside

-----------------------------------------------------------------------------

\* What the process does by itself, but for publishing.
Progress(p) ==
  \/ Boot(p) /\ UNCHANGED <<node, clock>>
  \/ Serve(p) \/ FinalPrint(p) \/ CancelAll(p) \/ Goodbye(p) \/ Exits(p)
  \/ PublisherStops(p)
  \/ SubHead(p) \/ SubNext(p) \/ SubNextFails(p) \/ SubStore(p)
  \/ StatsStop(p)

Next ==
  \E p \in Process :
    \/ (Start(p) \/ WriteFails(p)) /\ UNCHANGED <<node, clock>>
    \/ Progress(p)
    \/ Tick(p) \/ Signal(p) \/ Crash(p)

(* Every process goes on as long as it can. *)
Spec == Init /\ [][Next]_appVars /\ \A p \in Process : WF_appVars(Progress(p))

-----------------------------------------------------------------------------

\* The messages that the handler is through with.
Handled(p) ==
  {m \in node[p].received : node[p].sub = "store" => m # node[p].msg}

(* The key has nothing of the sender, yet the messages of one process      *)
(* never replace each other, also when it crashes and is started again:    *)
(* its new counter starts behind all numbers of the old one.  An entry can *)
(* only be taken by a message of another process (startSubscriberWith-     *)
(* Store, MessageStore.Add).                                               *)
OnlyOthersOverwrite ==
  \A p \in Process : \A m \in Handled(p) :
    LET entry == node[p].store[KeyOf(m)]
    IN  entry = m \/ entry.from # m.from

(* README.md, line 34: "Run multiple instances to see peer-to-peer         *)
(* communication", with `go run main.go` in one terminal and `PORT=8081 go *)
(* run main.go` in another, and from line 73 on "Multiple Peers" likewise. *)
(* So the instances that serve can connect to each other.                  *)
InstancesCommunicate ==
  \A p, q \in Process :
    node[p].main = "serve" /\ node[q].main = "serve" => Connected(p, q)

(* After the cancellation at most one more message is taken, however many  *)
(* are in the channel (the select of startSubscriberWithStore and of Next).*)
StopsPromptly == \A p \in Process : node[p].late <= 1

(* README.md, lines 148-154: a process that gets a signal, at any moment   *)
(* from its start on, or was started with -print, ends: every goroutine    *)
(* notices the cancellation wherever it is, and the wait for all of them   *)
(* is over some time (main, wg.Wait).                                      *)
ShutdownEnds ==
  \A p \in Process : (boot[p] # "off" /\ (node[p].sig \/ cmd[p].print)) ~> (boot[p] = "off")
=============================================================================

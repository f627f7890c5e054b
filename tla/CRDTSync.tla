------------------------------ MODULE CRDTSync ------------------------------
(***************************************************************************)
(* The synchronization nodes of CRDTSync: every node has an engine (its    *)
(* MemStore.objects), a publisher goroutine that adds local data on every  *)
(* tick and publishes the whole state, and a subscriber goroutine that     *)
(* merges the states of the others.  A publish-only node has no            *)
(* subscriber, a subscribe-only node no publisher; in mode "both" the two  *)
(* share the engine.  Every action below is at most one critical section   *)
(* of the engine's lock, so the goroutines interleave as in the code.      *)
(*                                                                         *)
(* syncCRDTState takes a snapshot and then publishes it.  The two are one  *)
(* step here: a message may be delivered at any later time, so a late      *)
(* Publish of an early snapshot is a late delivery.                        *)
(*                                                                         *)
(* JSON keeps counts, clocks and keys as they are (uint64 in, uint64 out;  *)
(* an empty map is {} and comes back empty); only SyncData is omitempty:   *)
(* an empty one arrives as nil.                                            *)
(*                                                                         *)
(* An element "<peer>-<c>" is the pair <<node, c>> and a counter's key     *)
(* "<peer>-counter" is <<"counter", node>>: the last six letters of two    *)
(* node IDs are taken to differ.                                           *)
(***************************************************************************)
EXTENDS CRDT, Sequences, FiniteSets, Bags, BagsExt

CONSTANTS Mode,        \* Mode[n] is "publish", "subscribe" or "both"
          Stoppable,   \* the nodes that get a shutdown signal
          MaxTicks,    \* MaxTicks[n] bounds the ticks of n, over all its lives
          MaxAllTicks, \* bound on the ticks of all nodes together
          MaxFaults,   \* bound on failed publishes and lost messages
          MaxExits,    \* bound on the exits of processes
          MaxSyncNow   \* bound on the calls of SyncNow

ASSUME ModeAssumption ==
  /\ Mode \in [Node -> {"publish", "subscribe", "both"}]
  /\ Stoppable \subseteq Node
  /\ MaxTicks \in [Node -> Nat]

VARIABLES proc,      \* proc[n]: "off", "running", or "cancelled" after Stop
          objects,   \* objects[n] is the map of CRDT objects in n's MemStore
          pub,       \* pub[n] is the publisher goroutine, its pc and its counter
          sub,       \* sub[n] is the subscriber goroutine, in the middle of
                     \*   applyCRDTSync with its snapshot and the data still to apply
          inbox,     \* inbox[n] is the bag of messages on their way to n's subscription
          used       \* how much of the bounds is used up

vars == <<proc, objects, pub, sub, inbox, used>>

Publishes(n)  == Mode[n] \in {"publish", "both"}
Subscribes(n) == Mode[n] \in {"subscribe", "both"}

SampleSet     == <<"sample-set", 0>>
CounterKey(m) == <<"counter", m>>

NoObjects == [k \in {} |-> 0]

NoGoroutine == [pc |-> "done", counter |-> 0]
NoReceiver  == [pc |-> "done", our |-> NoObjects, data |-> NoObjects]
Receiver    == [pc |-> "next", our |-> NoObjects, data |-> NoObjects]

-----------------------------------------------------------------------------
(* The engine *)

getOrCreateSet(objs, key) == IF key \in DOMAIN objs THEN objs[key] ELSE NewLWWSet(key)

getOrCreateCounter(objs, key) == IF key \in DOMAIN objs THEN objs[key] ELSE NewCounter(key)

LWWAdd(objs, nodeID, key, element, ts) ==
  Put(objs, key, applySetOp(getOrCreateSet(objs, key), nodeID, element, TRUE, ts))

CounterInc(objs, nodeID, key, delta, ts) ==
  Put(objs, key, IncrementWithTimestamp(getOrCreateCounter(objs, key), nodeID, delta, ts))

\* Faulty variant: the received object replaces the one that we have.
MergeObjectReplace(our, key, remote) == {remote}

(* The objects that applyCRDTSync may store for one key of a message; none *)
(* when Merge returns an error.                                            *)
MergeObject(our, key, remote) ==
  IF key \in DOMAIN our THEN Merge(our[key], remote) ELSE {remote}

-----------------------------------------------------------------------------
(* The topic: external, as far as the code uses it *)

Subscribed(n, p) == Subscribes(n) /\ p[n] = "running"

(* Everyone who is subscribed gets the message.  The sender gets it too,   *)
(* and skips it because of its NodeID: that message is left out.           *)
Broadcast(boxes, msg, p) ==
  [n \in Node |-> IF Subscribed(n, p) /\ n # msg.NodeID THEN BagAdd(boxes[n], msg)
                                                        ELSE boxes[n]]

Fault == /\ used.faults < MaxFaults
         /\ used' = [used EXCEPT !.faults = @ + 1]

\* Publish returns an error: a fault, unless the node's context is cancelled.
PublishFails(n) == Fault \/ (proc[n] = "cancelled" /\ UNCHANGED used)

SyncMessage(n) == [type |-> "sync", NodeID |-> n, SyncData |-> objects[n]]

SyncRequest(n) == [type |-> "sync_request", NodeID |-> n, SyncData |-> NoObjects]

-----------------------------------------------------------------------------
(* The life of a process.  Its engine is in memory only: it starts empty.  *)

Init ==
  /\ proc    = [n \in Node |-> "off"]
  /\ objects = [n \in Node |-> NoObjects]
  /\ pub     = [n \in Node |-> NoGoroutine]
  /\ sub     = [n \in Node |-> NoReceiver]
  /\ inbox   = [n \in Node |-> EmptyBag]
  /\ used    = [ticks |-> [n \in Node |-> 0], faults |-> 0, exits |-> 0, syncNow |-> 0]

Start(n) ==
  /\ proc[n] = "off"
  /\ proc' = [proc EXCEPT ![n] = "running"]
  /\ pub'  = [pub EXCEPT ![n] = IF Publishes(n) THEN [pc |-> "wait", counter |-> 0] ELSE @]
  /\ sub'  = [sub EXCEPT ![n] = IF Subscribes(n) THEN Receiver ELSE @]
  /\ UNCHANGED objects
  /\ \/ ~Subscribes(n) /\ UNCHANGED <<inbox, used>>
     \/ Subscribes(n) /\ inbox' = Broadcast(inbox, SyncRequest(n), proc') /\ UNCHANGED used
     \/ Subscribes(n) /\ PublishFails(n) /\ UNCHANGED inbox

Stop(n) ==
  /\ n \in Stoppable
  /\ proc[n] = "running"
  /\ proc' = [proc EXCEPT ![n] = "cancelled"]
  /\ UNCHANGED <<objects, pub, sub, inbox, used>>

(* The process ends, by a crash or because crdtMain returns after Stop: it *)
(* does not wait for the goroutines.                                       *)
Exit(n) ==
  /\ proc[n] # "off"
  /\ used.exits < MaxExits
  /\ proc'    = [proc EXCEPT ![n] = "off"]
  /\ objects' = [objects EXCEPT ![n] = NoObjects]
  /\ pub'     = [pub EXCEPT ![n] = NoGoroutine]
  /\ sub'     = [sub EXCEPT ![n] = NoReceiver]
  /\ inbox'   = [inbox EXCEPT ![n] = EmptyBag]
  /\ used'    = [used EXCEPT !.exits = @ + 1]

-----------------------------------------------------------------------------
(* The publisher goroutine: AddLocalData in its two critical sections,     *)
(* then syncCRDTState.                                                     *)

\* The timestamp that AddLocalData gives to its operations.
LocalStamp(n) == [m \in {n} |-> pub[n].counter + 1]

(* A tick.  When the context is cancelled at the same time, select may     *)
(* still take the tick (Stop lets one pending tick be taken; the model any *)
(* number within its bound).                                                *)
AddLocalElement(n) ==
  /\ pub[n].pc = "wait"
  /\ used.ticks[n] < MaxTicks[n] /\ SumFunction(used.ticks) < MaxAllTicks
  /\ objects' = [objects EXCEPT ![n] =
       LWWAdd(@, n, SampleSet, <<n, pub[n].counter>>, LocalStamp(n))]
  /\ pub'  = [pub EXCEPT ![n].pc = "count"]
  /\ used' = [used EXCEPT !.ticks[n] = @ + 1]
  /\ UNCHANGED <<proc, sub, inbox>>

AddLocalCount(n) ==
  /\ pub[n].pc = "count"
  /\ objects' = [objects EXCEPT ![n] = CounterInc(@, n, CounterKey(n), 1, LocalStamp(n))]
  /\ pub' = [pub EXCEPT ![n].pc = "sync"]
  /\ UNCHANGED <<proc, sub, inbox, used>>

\* Faulty variant: the counter advances by two.
PublishStateSkip(n) ==
  /\ pub[n].pc = "sync"
  /\ \/ /\ inbox' = Broadcast(inbox, SyncMessage(n), proc)
        /\ pub' = [pub EXCEPT ![n] = [pc |-> "wait", counter |-> @.counter + 2]]
        /\ UNCHANGED used
     \/ /\ PublishFails(n)
        /\ pub' = [pub EXCEPT ![n].pc = "wait"]
        /\ UNCHANGED inbox
  /\ UNCHANGED <<proc, objects, sub>>

\* Faulty variant: the goroutine returns when a publish fails.
PublishStateGiveUp(n) ==
  /\ pub[n].pc = "sync"
  /\ \/ /\ inbox' = Broadcast(inbox, SyncMessage(n), proc)
        /\ pub' = [pub EXCEPT ![n] = [pc |-> "wait", counter |-> @.counter + 1]]
        /\ UNCHANGED used
     \/ /\ PublishFails(n)
        /\ pub' = [pub EXCEPT ![n] = NoGoroutine]
        /\ UNCHANGED inbox
  /\ UNCHANGED <<proc, objects, sub>>

(* The counter advances only when the publish succeeds.                    *)
PublishState(n) ==
  /\ pub[n].pc = "sync"
  /\ \/ /\ inbox' = Broadcast(inbox, SyncMessage(n), proc)
        /\ pub' = [pub EXCEPT ![n] = [pc |-> "wait", counter |-> @.counter + 1]]
        /\ UNCHANGED used
     \/ /\ PublishFails(n)
        /\ pub' = [pub EXCEPT ![n].pc = "wait"]
        /\ UNCHANGED inbox
  /\ UNCHANGED <<proc, objects, sub>>

\* Faulty variant: the context is looked at only after a tick.
PublisherStopsAfterTick(n) ==
  /\ pub[n].pc = "sync"
  /\ proc[n] = "cancelled"
  /\ pub' = [pub EXCEPT ![n] = NoGoroutine]
  /\ UNCHANGED <<proc, objects, sub, inbox, used>>

PublisherStops(n) ==
  /\ pub[n].pc = "wait"
  /\ proc[n] = "cancelled"
  /\ pub' = [pub EXCEPT ![n] = NoGoroutine]
  /\ UNCHANGED <<proc, objects, sub, inbox, used>>

(* The interface's SyncNow, called from any goroutine. *)
SyncNow(n) ==
  /\ proc[n] # "off"
  /\ Publishes(n)
  /\ used.syncNow < MaxSyncNow
  /\ inbox' = Broadcast(inbox, SyncMessage(n), proc)
  /\ used' = [used EXCEPT !.syncNow = @ + 1]
  /\ UNCHANGED <<proc, objects, pub, sub>>

-----------------------------------------------------------------------------
(* The subscriber goroutine *)

\* Where the loop goes on: ctx is looked at before the next message.
Loop(n) == IF proc[n] = "cancelled" THEN NoReceiver ELSE Receiver

Take(n, msg) ==
  /\ sub[n].pc = "next"
  /\ BagIn(msg, inbox[n])

\* A sync without data, or a request that we cannot answer.
ReceiveAndSkip(n, msg) ==
  /\ Take(n, msg)
  /\ \/ msg.type = "sync" /\ DOMAIN msg.SyncData = {}
     \/ msg.type = "sync_request" /\ ~Publishes(n)
  /\ sub'   = [sub EXCEPT ![n] = Loop(n)]
  /\ inbox' = [inbox EXCEPT ![n] = BagRemove(@, msg)]
  /\ UNCHANGED <<proc, objects, pub, used>>

(* A sync message of another node: applyCRDTSync begins, with a snapshot   *)
(* of all our objects.                                                     *)
ReceiveSync(n, msg) ==
  /\ Take(n, msg)
  /\ msg.type = "sync" /\ DOMAIN msg.SyncData # {}
  /\ sub'   = [sub EXCEPT ![n] = [pc |-> "apply", our |-> objects[n], data |-> msg.SyncData]]
  /\ inbox' = [inbox EXCEPT ![n] = BagRemove(@, msg)]
  /\ UNCHANGED <<proc, objects, pub, used>>

(* One key of the message, merged into the snapshot and stored.  Keys come *)
(* in Go's random map order.                                               *)
ApplyMergedCRDT(n, key) ==
  LET rest == [k \in DOMAIN sub[n].data \ {key} |-> sub[n].data[k]]
      new  == MergeObject(sub[n].our, key, sub[n].data[key])
  IN  /\ sub[n].pc = "apply"
      /\ \/ \E obj \in new : objects' = [objects EXCEPT ![n] = Put(@, key, obj)]
         \/ new = {} /\ UNCHANGED objects
      /\ sub' = [sub EXCEPT ![n] = IF DOMAIN rest = {} THEN Loop(n) ELSE [@ EXCEPT !.data = rest]]
      /\ UNCHANGED <<proc, pub, inbox, used>>

\* Faulty variant: a node that also subscribes does not answer.
ReceiveRequestPublishOnly(n, msg) ==
  LET boxes == [inbox EXCEPT ![n] = BagRemove(@, msg)]
  IN  /\ Take(n, msg)
      /\ msg.type = "sync_request" /\ Publishes(n)
      /\ sub' = [sub EXCEPT ![n] = Loop(n)]
      /\ \/ /\ inbox' = IF Mode[n] = "publish" THEN Broadcast(boxes, SyncMessage(n), proc) ELSE boxes
            /\ UNCHANGED used
         \/ inbox' = boxes /\ PublishFails(n)
      /\ UNCHANGED <<proc, objects, pub>>

(* A request of another node: we answer with our full state. *)
ReceiveRequest(n, msg) ==
  LET boxes == [inbox EXCEPT ![n] = BagRemove(@, msg)]
  IN  /\ Take(n, msg)
      /\ msg.type = "sync_request" /\ Publishes(n)
      /\ sub' = [sub EXCEPT ![n] = Loop(n)]
      /\ \/ inbox' = Broadcast(boxes, SyncMessage(n), proc) /\ UNCHANGED used
         \/ inbox' = boxes /\ PublishFails(n)
      /\ UNCHANGED <<proc, objects, pub>>

SubscriberStops(n) ==
  /\ sub[n].pc = "next"
  /\ proc[n] = "cancelled"
  /\ sub' = [sub EXCEPT ![n] = NoReceiver]
  /\ UNCHANGED <<proc, objects, pub, inbox, used>>

(* The heartbeat goroutine only writes to the log. *)
Heartbeat(n) ==
  /\ Subscribes(n)
  /\ proc[n] = "running"
  /\ UNCHANGED vars

(* A message is lost on its way, or dropped by a full subscription. *)
Lose(n, msg) ==
  /\ BagIn(msg, inbox[n])
  /\ Fault
  /\ inbox' = [inbox EXCEPT ![n] = BagRemove(@, msg)]
  /\ UNCHANGED <<proc, objects, pub, sub>>

-----------------------------------------------------------------------------

Publisher(n) ==
  AddLocalElement(n) \/ AddLocalCount(n) \/ PublishState(n) \/ PublisherStops(n)

Subscriber(n) ==
  \/ \E msg \in DOMAIN inbox[n] :
       ReceiveAndSkip(n, msg) \/ ReceiveSync(n, msg) \/ ReceiveRequest(n, msg)
  \/ \E key \in DOMAIN sub[n].data : ApplyMergedCRDT(n, key)
  \/ SubscriberStops(n)

Next ==
  \E n \in Node :
    \/ Start(n) \/ Stop(n) \/ Exit(n) \/ SyncNow(n) \/ Heartbeat(n)
    \/ Publisher(n)
    \/ Subscriber(n)
    \/ \E msg \in DOMAIN inbox[n] : Lose(n, msg)

(* The goroutines of a process that runs take their steps: the ticker goes *)
(* on ticking, Publish returns, and a message that is not lost arrives.    *)
(* Starting, stopping and losing messages happen or not.                   *)
Fairness == \A n \in Node : WF_vars(Publisher(n)) /\ WF_vars(Subscriber(n))

Spec == Init /\ [][Next]_vars /\ Fairness

-----------------------------------------------------------------------------
(* What a map of objects says of node m *)

CountOf(objs, m) ==
  IF CounterKey(m) \in DOMAIN objs THEN Count(objs[CounterKey(m)].Counters, m) ELSE 0

ElementsOf(objs, m) ==
  IF SampleSet \in DOMAIN objs THEN {e \in GetElements(objs[SampleSet]) : e[1] = m} ELSE {}

Messages == UNION {DOMAIN inbox[n] : n \in Node}

\* Every map of objects there is: live, in a snapshot, or in a message.
ObjectMaps == {objects[n] : n \in Node} \cup {sub[n].our : n \in Node}
                \cup {sub[n].data : n \in Node} \cup {msg.SyncData : msg \in Messages}

IsObjects(objs) ==
  /\ DOMAIN objs \subseteq {SampleSet} \cup {CounterKey(m) : m \in Node}
  /\ \A key \in DOMAIN objs :
       /\ objs[key].type = IF key = SampleSet THEN "lwwset" ELSE "counter"
       /\ objs[key].Key = key

(* Goroutines are at a place of their loops, the loop counter stays within *)
(* the ticks, and every map of objects, wherever it is, holds under the    *)
(* name of a set a set and under that of a counter a counter.              *)
TypeOK ==
  /\ proc \in [Node -> {"off", "running", "cancelled"}]
  /\ \A n \in Node : pub[n] \in [pc : {"wait", "count", "sync", "done"}, counter : 0 .. MaxTicks[n]]
  /\ \A n \in Node : sub[n].pc \in {"next", "apply", "done"}
  /\ \A n \in Node : IsABag(inbox[n])
  /\ \A msg \in Messages : msg.NodeID \in Node /\ msg.type \in {"sync", "sync_request"}
  /\ \A objs \in ObjectMaps : IsObjects(objs)
  /\ \A n \in Node : used.ticks[n] \in 0 .. MaxTicks[n]

(* Whatever the goroutines do and however messages travel, nobody ever     *)
(* holds data that was not added: a counter has only its own node's count, *)
(* at most one per tick; an element has the timestamp of the tick that     *)
(* added it; the set's timestamp is the join of its elements' (AddLocal-   *)
(* Data, applyCRDTSync, LWWSet.Merge, Counter.Merge).                      *)
Genuine ==
  \A objs \in ObjectMaps :
    /\ \A m \in Node : CounterKey(m) \in DOMAIN objs =>
         /\ DOMAIN objs[CounterKey(m)].Counters = {m}
         /\ CountOf(objs, m) \in 1 .. used.ticks[m]
    /\ SampleSet \in DOMAIN objs =>
         LET s == objs[SampleSet]
         IN  /\ DOMAIN s.Removes = {}
             /\ \A e \in DOMAIN s.Adds :
                  /\ s.Adds[e] = [m \in {e[1]} |-> e[2] + 1]
                  /\ e[2] < used.ticks[e[1]]
                  /\ e[2] < Count(s.Timestamp, e[1])
             /\ \A m \in DOMAIN s.Timestamp : <<m, s.Timestamp[m] - 1>> \in DOMAIN s.Adds

\* objs1 knows no more of node m than objs2.
KnowsLess(objs1, objs2, m) ==
  /\ CountOf(objs1, m) <= CountOf(objs2, m)
  /\ ElementsOf(objs1, m) \subseteq ElementsOf(objs2, m)

(* While applyCRDTSync works on its snapshot, the live objects hold at     *)
(* least what the snapshot holds: the merge of a stale snapshot never      *)
(* takes the node back behind it (applyCRDTSync, line 323 against 369).    *)
SnapshotIsFloor ==
  \A n, m \in Node : sub[n].pc = "apply" => KnowsLess(sub[n].our, objects[n], m)

SameLife(n) == proc[n] # "off" /\ proc'[n] # "off"

(* In every mode a running node never forgets what it has learnt of        *)
(* another node: only its subscriber goroutine writes that data.           *)
OthersOnlyGrow ==
  [][\A n, m \in Node :
       SameLife(n) /\ n # m => KnowsLess(objects[n], objects'[n], m)]_vars

(* The counters that a running node holds never go back, its own included  *)
(* (CRDT/crdt.go, line 296: "Grow-only Counter (G-Counter)").              *)
GrowOnly ==
  [][\A n, m \in Node :
       SameLife(n) => CountOf(objects[n], m) <= CountOf(objects'[n], m)]_vars

(* Who knows an element of a publisher knows all of its earlier ones: no   *)
(* local element is lost before it is published (startPublisher).          *)
NoGaps ==
  \A objs \in ObjectMaps : \A m \in Node : \A e \in ElementsOf(objs, m) :
    e[2] > 0 => <<m, e[2] - 1>> \in ElementsOf(objs, m)

Together(m, n) == proc[m] = "running" /\ proc[n] = "running"

\* m has ticks left for more publishes than can still get lost.
CanOutlast(m) == /\ pub[m].pc = "sync"
                 /\ MaxTicks[m] - used.ticks[m] >= MaxFaults - used.faults
                 /\ MaxAllTicks - SumFunction(used.ticks) >= MaxFaults - used.faults

(* A lost message heals: what a publisher holds when it is about to sync,  *)
(* a running subscriber gets with this or a later sync, as long as not     *)
(* every one of them is lost (syncCRDTState publishes the full state).     *)
SelfHealing ==
  \A m, n \in Node : \A c \in 1 .. MaxTicks[m], d \in 0 .. MaxTicks[m] - 1 :
    m # n /\ Publishes(m) /\ Subscribes(n) =>
      ((Together(m, n) /\ CanOutlast(m) /\ CountOf(objects[m], m) = c /\ pub[m].counter = d)
        ~> (\/ CountOf(objects[n], m) >= c /\ <<m, d>> \in ElementsOf(objects[n], m)
            \/ ~Together(m, n)))

(* A node that comes back asks for its data, and a peer in mode "both"     *)
(* gives back whatever it knows of any third node and of the asking node   *)
(* itself, its own count from before the restart included (sendSync-       *)
(* Request, receiveCRDTMessage).                                           *)
RequestAnswered ==
  \A n, m, k \in Node : \A c \in 1 .. MaxTicks[k] :
    n # m /\ k # m =>
      ((/\ Together(m, n) /\ used.faults = MaxFaults
        /\ SyncRequest(n) \in DOMAIN inbox[m] /\ Publishes(m)
        /\ CountOf(objects[m], k) = c)
        ~> (\/ CountOf(objects[n], k) >= c
            \/ ~Together(m, n)))

(* After Stop both goroutines come to an end, unless the process is gone   *)
(* first (Stop, startPublisher, startSubscriber).                          *)
StopEnds ==
  \A n \in Node :
    (proc[n] = "cancelled") ~> (proc[n] # "cancelled" \/ (pub[n].pc = "done" /\ sub[n].pc = "done"))
=============================================================================

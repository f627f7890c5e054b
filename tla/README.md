# A TLA+ specification of Gossip-Pubsub

Gossip-Pubsub is a Go program on libp2p. Its nodes gossip on a topic, and in
CRDT mode they replicate a last-writer-wins set and grow-only counters over it.
This directory models the replicated data types, the store they live in, the
synchronization protocol, the publisher and the subscriber, and the two programs
with their keys and their shutdown. TLC checks the models, and TLAPS proves the
safety properties of the data types, the store, the synchronization protocol, the
publisher, the subscriber and the main program for every value of their constants.

To check a run: `tlc -config <file>.cfg <module>` (the table below lists the
pairs). To check the proofs of a module: `tlapm <module>.tla`.

## The system

| Component | Source | State | Operations |
|---|---|---|---|
| Vector clock | `CRDT/crdt.go` 13-160 | a Go map node ID -> uint64 | Compare, Merge, Increment, Prune, GetActiveNodes; the tie-breakers extractNodeID and deterministicMerge |
| LWW set | `CRDT/crdt.go` 161-295, `MemoryStore.go` 120-138 | Adds, Removes (element -> clock), Timestamp | applySetOp, Contains, GetElements, Merge |
| G-counter | `CRDT/crdt.go` 296-365 | Counters (node -> uint64), Timestamp | IncrementWithTimestamp, Value, Merge |
| Memory store and log | `CRDT/MemoryStore.go`, `Heap.go` | objects by key, ops, bytes, metrics, one RWMutex | AppendOp (and eviction), ApplyMergedCRDT, PruneVectorClocks, GetActiveNodes, GetAllCRDTs |
| Engine | `CRDT/CRDT_DBOps.go`, `helper.go` | its MemStore | LWWAdd, LWWRemove, CounterInc and the reads, after validating the input |
| Synchronization node | `CRDTSync/implementation.go`, `sync.go` | engine, context, tickers, subscription; loop counter of the publisher | Start, Stop, SyncNow; publisher, subscriber and heartbeat goroutines |
| CRDT message store | `CRDTSync/types.go` | a map of received messages | Add, Count, GetAll; Get and Clear, which nothing calls |
| Printing | `CRDTSync/utils.go` | none | the statistics goroutine, PrintFinalState; both read the engine and the message store |
| CRDT main | `main_crdt.go` | host, topic, node | set-up, signal handling, shutdown |
| Publisher | `Publisher/Publisher.go` | topic, four atomic metrics | loop, PublishCustomMessage, PublishBatch, PublishWithRetry, GetMetrics |
| Subscriber | `Subscriber/Subscriber.go` | subscription, atomic counters, peers under a lock | receive loop, ProcessMessageWithHandler, validation, GetMetrics |
| Peer identity | `Peer/Peer.go` | the file Peer/Peer.json, shared by the processes of a directory | LoadPeerID, CreatePeerID, LoadPrivateKey |
| Main program | `main.go` | host, message store, context, wait group | key, set-up, publisher, subscriber and statistics goroutines, shutdown |

How they interact. A synchronization node owns an engine. Its publisher
goroutine, on every tick, calls the engine twice (LWWAdd, CounterInc: two
critical sections of the store's lock), exports all objects (GetAllCRDTs) and
publishes them as one message. Its subscriber goroutine receives the messages of
the others; for a `sync` it exports its own objects once and then, key by key,
merges into that export and stores the result; for a `sync_request` it publishes
its state if it may. In mode `both` the two goroutines share the engine with
nothing but the store's lock around each call. Nothing is persisted: a process
that comes back has an empty engine, loop counter 0 and the same node ID.

The plain program runs a Publisher's loop, a subscriber loop that stores every
message, and a statistics goroutine, under one context; on a signal it prints
the store, cancels the context and waits for all three. Both programs take the
key of their host from Peer/Peer.json, which the first process of a directory
creates, and the plain one from the file of its -key flag if it has one.

What is hard:

- *Stale snapshots.* applyCRDTSync merges into a snapshot taken before the loop
  over the keys; the publisher writes in between.
- *Delivery.* Messages are lost, delayed and reordered; states are merged late
  and repeatedly. The only repair is that every message carries the full state.
- *Restarts* reuse the elements and timestamps of the former life.
- *Concurrent entries.* The tie-breaker looks at the node with the highest clock
  entry, found by ranging over a map in Go's random order.
- *Sharing.* Clocks are Go maps, shared by a live set, its exports and the log,
  and PruneVectorClocks deletes from them in place.
- *Limits.* The log evicts by a byte count that is kept incrementally.
- *Metrics in pieces.* Publisher and Subscriber keep several atomics, which calls
  update one after the other and GetMetrics reads one after the other.
- *A shared file.* Processes create, read and use the key file at the same
  time, and a crash may leave it truncated.
- *Shutdown.* A cancelled context races with ticks and waiting messages; crdtMain
  prints shared data while its goroutines still run.

What makes each part correct: Compare is the causal order and Merge its join; a
set's or counter's state reflects exactly the operations its timestamp covers,
whatever the order of merges, and equal knowledge shows equal contents; the log
is a FIFO within its capacity; a node never holds data nobody added, never falls
behind what it has learnt of others, gets what was lost with a later message, and
stops when told to; a publisher counts every message once and tells its callers
the truth; the key file of a directory keeps its key, and processes start again
after a crash; a shutdown ends. `PROJECT.json` lists the hazards at their lines, with the
properties that watch them.

## The modules

| Module | Models | Built on |
|---|---|---|
| `VectorClock` | clocks as partial functions (a missing entry is not an entry of 0) and their methods; the reference order `Leq` | |
| `CRDT` | the two data types and their operations, as values | VectorClock |
| `ReplicatedSet` | one set on several engines that export and merge states; its timestamps implement GCounter | CRDT |
| `GCounter` | abstract: what a grow-only counter promises | |
| `ReplicatedCounter` | one counter on several engines; implements GCounter | CRDT |
| `MemStore` | the store of one engine with references, log and pruning | CRDT |
| `CRDTSync` | the nodes: processes, goroutines, messages, faults, restarts | CRDT |
| `Publisher` | a publisher, its loop or its methods called by several goroutines | |
| `Subscriber` | a subscriber, its loop or several goroutines that receive | |
| `PubSub` | composes the two over a topic that drops messages | Publisher, Subscriber |
| `PeerIdentity` | how the processes of a directory get their keys | |
| `GossipApp` | the processes of main.go: composes identity, goroutines, topic and shutdown | PeerIdentity |
| `CRDTMain` | the goroutines of crdtMain that meet at the message store | |
| `MC*` | values of constants for TLC | |
| `*Proofs` | theorems | the module they are about |

Conventions. A node ID is its rank in Go's string order, because the
tie-breaker compares IDs; "" is 0. Map iteration order is a choice: a merge is
the *set* of its possible results (`MergeEntries`, `Merge`), empty when the code
returns an error. Definitions marked "Faulty variant" are bugs on purpose: each
shows that a property notices it.

`ReplicatedSet` and `ReplicatedCounter`. State: `set[n]` (`cnt[n]`) is the object
in n's store; `msgs` holds every state exported so far, which may be merged by
anyone at any time, any number of times; `hist` is a history of the operations
issued, in no code, which gives timestamps a meaning: a state whose Timestamp has
k for m *knows* the first k operations of m. One goroutine drives each engine, as
in `crdt_test.go`; that makes merge-and-store one step. `Writer` says who writes
which element: in the run one element belongs to one node, as in CRDTSync where
an element's name begins with its node's ID, and one to everyone.

`MemStore`. One action per method, because each method holds the lock. The maps
that Adds, Removes and `op.TS` refer to are a sequence `clocks`, and those fields
hold indices; so an export shares clocks with the live set, a logged operation
with both, and a caller may pass one map to two operations (`PassedIn`), as
AddLocalData does. `log` and `seen` are histories. What the log takes is the
number of its bytes, the i-th operation's b-th byte being `<<i, b>>` (`Usage`):
the same sum that the code forms, in a form that can be proved about.

`CRDTSync`. `proc[n]` is the process (off, running, cancelled), `objects[n]` its
engine, `pub[n]` the publisher goroutine (`wait` in select, `count` between its
two engine calls, `sync` before syncCRDTState) and its counter, `sub[n]` the
subscriber (`next` waiting, `apply` in the loop of applyCRDTSync with its
snapshot and the keys left), `inbox[n]` a bag of messages on their way, `used`
the bounds. Each action is at most one critical section of the engine's lock.
Start, Stop, SyncNow and Exit are those of the interface and of the end of the
process. A publish may fail and a message may be lost.

`Publisher` and `Subscriber`. `call[g]` (`recv[g]`) is where goroutine g is in its
call, with the call's local variables; the loop is the goroutine `"run"`. Each
atomic operation, each Publish or Next and each look at the clock is a step.
One call of GetMetrics, begun at any moment, stands for all, as it changes
nothing. `sent`, `calls`, `stamped` and `taken` are histories: what the topic
took, what each call was told, what a call had published when it looked at
the clock (a message that is published and whose call has not looked at the clock is
in `sent` only), and what Next returned. A sum over them is a number of pairs (`Sum`), a form
that can be proved about. The three updates after a publish occur in
four methods; they are modelled once, and `PROJECT.json` points at one occurrence
of each. In `PubSub` what our publisher publishes may arrive at our own subscriber, as it
does in mode both, beside messages of others that may be empty or too large.

`PeerIdentity` and `GossipApp`. `boot[p]` is where process p is in createHost and
LoadPeerID, `file` the directory, `host[p]` the key, `gen[p]` the key that the process
has generated since its start. os.WriteFile is two steps, truncate and write.
`overlap` and `torn` are histories: two processes were creating a file at the
same time, and creating a file was cut short. `node[p]` holds main
and its three goroutines. The inner steps of Publisher and Subscriber are not
repeated there: a tick is one step, and a message is received and then stored. A
setup (`Setup`) is a command line for every process and the key files that
are there at the beginning. A message reaches any of the subscribers with another
peer ID, since libp2p does not dial its own ID (`Connected`), and the process itself.
Its sequence number is GossipSub's: a counter that starts at the nanosecond in which
GossipSub is created (`base`, taken from `clock`) and goes up by one with each message.
The key in the store has the number and nothing of the sender, as in the code, where all
Ed25519 IDs begin with the same eight characters; so messages of different processes can
have one key. The fields `from` and `start` of a message serve the properties only, as
does the history `received`.

`CRDTMain`. A write to the message store is two steps, begin and end; an
iteration step in between may end the process, because Go's runtime looks for
that, and need not, because it does so on a best-effort basis. Count, the
length of a map, is never checked by the runtime.

## The runs

| Run | Module, cfg | Shows |
|---|---|---|
| `set` | MCReplicatedSet, MCReplicatedSet | two nodes, one element of one writer and one of both: timestamps are issued once (`TimestampsIssued`) and causally closed (`CausallyClosed`), entries are those of known operations, none missing (`KnowledgeComplete`), a node sees its own operation (`OwnOperationsVisible`); for the element of one writer, equal knowledge shows the same (`OwnedConvergence`) and the latest operation stays (`LastWriterWins`) |
| `set_converge` | MCReplicatedSet, ..Converge | violated with two writers: see Findings |
| `counter` | ReplicatedCounter, MCReplicatedCounter | three nodes: no increment lost, repeated or invented (`CountsExact`), equal knowledge has equal value, and the abstract counter is implemented |
| `store` | MCMemStore, MCMemStore | the log is the latest operations in order (`HeapIsSuffix`), never above capacity (`WithinCapacity`); a set's timestamp covers its entries, also after pruning, and pruning with the active nodes changes nothing (`StampCoversEntries`); an operation without a timestamp takes effect whatever timestamps callers gave before (`FreshOpTakesEffect`); on all clocks that come about, from callers, sets and pruning, Compare is the strict causal order (`CompareIsCausalOrder`) and Merge the join (`MergeIsJoin`) |
| `store_snapshot` | MCMemStore, ..Snapshot | violated: see Findings |
| `sync_split` | MCCRDTSync, ..Split | a publisher and a subscriber with a loss or a failed publish, a crash, a Stop and a SyncNow: data is without gaps, counters only grow, a loss heals, and after Stop the goroutines end |
| `sync_both` | MCCRDTSync, ..Both | two nodes in mode both with a loss or failed publish and a crash: nobody holds data that was not added, also by a tick after a failed publish and by a second life that reuses elements and timestamps (`Genuine`); the live objects never fall behind the snapshot in use (`SnapshotIsFloor`), data of *other* nodes only grows (`OthersOnlyGrow`), and a node that comes back gets from a peer what that peer knows, its own former count included (`RequestAnswered`) |
| `sync_grow_only` | MCCRDTSync, ..GrowOnly | violated: see Findings |
| `pubsub` | MCPubSub, MCPubSub | three setups: two goroutines that publish (singly, a batch, with retries), the two loops against each other, two goroutines that receive. Every message is counted once (`MetricsExact`, `ReceivedExact`), a caller is told what happened and nothing is published twice (`ExactlyOnce`), a snapshot counts in full every call that had looked at the clock by the time it shows, and so every call that had returned by then (`SnapshotCountsStamped`), and lists no more peers than messages (`PeersHaveMessages`), and after a cancel all calls and loops end (`CancelEnds`) |
| `app` | MCGossipApp, MCGossipApp | seven setups of two processes that create their keys, fail to write them, crash at any moment, are started again and get signals: unless two processes create it at once, Peer/Peer.json is not replaced once it holds a key, and processes without -key have that key (`KeyFileStable`); a key cannot be read only if another process was creating the file or, with -key, if creating it was cut short, so that a crash never keeps a process without -key from starting (`CrashHeals`); messages of one process never replace each other in a store, whatever others with the same key do (`OnlyOthersOverwrite`); at most one message is taken after the cancellation (`StopsPromptly`); a signal or -print ends the process, also when it comes while the key is being created (`ShutdownEnds`) |
| `multiple_peers` | MCGossipApp, ..Peers | violated: see Findings |
| `crdt_main` | CRDTMain, MCCRDTMain | violated: see Findings |

### Bounds

- Clocks: those of the store's run: two nodes, entries up to 2, missing, 0 and pruned
  ones included, and up to three clocks at a time. Compare and Merge look at
  pairs of entries only; two nodes give every combination of ahead and behind,
  and the third clock is the competing upper bound.
- Sets: two nodes, one element of one writer and one that both write, 3
  operations a node and 2 exported states. That includes a state merged after a newer one,
  an add and a remove that cross, and a third-hand state that was merged on the
  way.
- Counter: three nodes, so that counts travel through a third one; increments
  of 1 and 2.
- Store: two keys (a set and a counter side by side), three operations of sizes 2
  to 4 in a log of 7: appends that fit, that evict one, that evict all. The
  byte count drifts far enough for an append to evict its own operation.
- Nodes: two nodes, one fault, one exit, and two ticks: of the publisher in `sync_split`,
  and in `sync_both` one of each node or both of one. One tick each lets a stale snapshot
  meet an increment and a request after a restart be lost or answered; two ticks of a
  node give a tick after a failed publish, and a timestamp that both lives of a node
  hand out. `sync_grow_only` allows two each. A third node would add only messages
  that the bags already delay and reorder.
- Publisher and subscriber: two calls, so that two callers meet between any two
  of their steps and a batch meets a retry; batches of two messages, so that one
  fails and one does not; one retry, and the call that makes no attempt at all
  (a negative maxRetries); one failed publish; two arrivals, from different peers
  or not, empty, too large or neither; messages have length 1 or 2, and
  MaxLength, the code's 1 MB, is 1.
- Processes: two in a directory, both without -key, both with the same one, one of each,
  or one with the common file as its -key. Where keys are created one or both start
  twice, so that a start meets a file that was cut short and one process reads, with or
  for its key, what the other is creating; where they are there, the publisher comes back
  or both serve. One failed write or receive; two
  messages a start and a channel of two, so that a second message waits when the first is
  taken after the cancellation. The clock goes on by one for each message and each
  creation of GossipSub (`Advance`): the least there is, which brings the numbers of
  different starts as near to each other as they can come.
  GossipSub's channel of 32 drops what does not fit, as the one of two does.

Deadlock is checked except where the system may rest: in `sync_split` both
nodes may be stopped, and in the runs of MCPubSub, MCGossipApp and
CRDTMain calls and processes end. In the other CRDTSync runs a running subscriber's heartbeat, which
only writes to the log, is a step that is always possible, so that it is the
liveness properties that speak of getting stuck there.

### Fairness

`CRDTSync` assumes weak fairness of each publisher goroutine and each subscriber
goroutine. The first means that the ticker goes on ticking, that Publish returns
and that Go schedules the goroutine; the second that a message which is not lost
is at some time returned by `sub.Next`, which the loop calls again and again. No
fairness is assumed of starting, stopping, exiting, SyncNow, or losing messages.
Within one goroutine no alternative is preferred: `select` between a tick and a
cancelled context may take the tick as long as the bound has ticks left.
`SelfHealing` says only what retransmission can give: that the sync survives if
the publisher has more ticks left than the network has losses.

`PubSub` assumes that while calls of the publisher are under way some goroutine
takes a step (Publish returns and timers fire), that its loop looks at its context
when idle, and that the subscriber's loop goes on when it can. Nobody has to call, cancel or
deliver. `GossipApp` assumes that each process takes its own steps when it can, in
any order among its goroutines; publishing, crashes, signals and starts may never happen.
Both are weaker than what Go's scheduler gives, which starves no goroutine.

## What is proved

Assumptions on constants: `NodeAssumption` (node IDs are positive numbers),
`WriterAssumption` (writers are nodes), `DeltaAssumption` (increments are
positive, which validateCounterInput ensures), `SizeAssumption` (sizes are
naturals, an operation takes at least a byte), `StampAssumption` (callers pass
clocks, of finitely many nodes), `ModeAssumption` (every node has a mode and a number
of ticks), `SetupAssumption` (a command line for every process, and files that hold
keys or are cut short), `PublisherAssumption` and `SubscriberAssumption` (lengths are
naturals, and finitely many goroutines call; no batch, retry or length is excluded),
`PeerAssumption` (external: a message that libp2p accepts names its sender),
`FaultAssumption` and `AppAssumption` (bounds are naturals), and `ClockAssumption` (external:
neither a publish nor the creation of GossipSub is over within the nanosecond in which it
began, so that numbers, which go up by one for a message, stay behind the clock).
The bounds themselves (`MaxOps`, `MaxMsgs`, `MaxTicks`, `MaxFaults`, ...), the sets of
nodes, keys, elements and processes, the modes and the setups are arbitrary.

- `CRDTProofs`: lemmas. Leq is a partial order, Compare decides it, MergeClock is its
  join, what Increment and Prune do to a clock, and what the merge of two maps
  of entries may return.
- `ReplicatedSetProofs`: `TypeCorrect`, `TimestampsCorrect`, `ClosureCorrect`,
  `KnowledgeCorrect`, `OwnOperationsCorrect`. None of these is inductive alone:
  that an entry belongs to a known operation survives a merge only if the
  timestamps on both sides claim issued operations, and closure needs the same.
  `IInv` says of every live *and every exported* state that it is `Sound`: well
  typed, issued, closed and reflecting; and that a node knows all its own
  operations. A merge of two sound states is sound since it knows what either
  knows (`MergedKnown`). OwnOperationsVisible follows as a fresh timestamp is
  later than every entry (`FreshIsLater`).
- `ReplicatedSetProofs` also: `Convergence` (`OwnedConvergence`) and `LastWriter`, for the
  elements that have one writer, whoever writes the others; and
  `OneWriterConvergence`: if every element has one, `StrongConvergence` holds.
  The invariant adds that every operation is by
  a writer of its element, that a node's operations form a chain, and that every
  state keeps for each element of one writer the latest operation that it knows.
  Two entries of such an element are never concurrent, so the tie-breaker
  never decides. For other elements both statements are false (Findings).
  `KnowledgeRefines` (`KnowledgeGrows`) is a refinement, proved and not part of a run:
  what the nodes know of each other only grows, never ahead of the issuer. With
  `view[n][m]` the number of m's operations that n's timestamp claims, an operation is a
  step `Inc` of `GCounter`, a merge a step `Learn`, an export a stutter. That a merge
  gives no knowledge ahead of the issuer needs `IInv`: states, exported ones too, claim
  issued operations only, and a node knows all of its own.
- `ReplicatedCounterProofs`: `TypeCorrect`, `CountsCorrect`, `ConvergenceCorrect`
  and `Refinement`, that the replicated counter implements `GCounter` with
  `view[n][m]` the count that n has for m. Invariant: every state counts for m
  what m had counted when its timestamp was issued, histories of totals rise,
  and a node knows all of its own increments.

- `MemStoreProofs`: `LogIsSuffix` (`HeapIsSuffix`), `CapacityHolds`
  (`WithinCapacity`), `TimestampsCover` (`StampCoversEntries`),
  `CompareCorrect` (`CompareIsCausalOrder`), `MergeCorrect` (`MergeIsJoin`),
  `FreshOperationsWin` (`FreshOpTakesEffect`) and `StoreTypes` (`TypeOK`). `StoreInv` adds to these that all references,
  those of the log and of the exported state too, lie within the maps there are. That is what makes
  a new map invisible to everybody (`SizeKept`, `CoversKept`, `SnapshotKept`). For the byte
  count: what is left after an eviction takes what the whole took less what the
  evicted ones give back, at their *present* sizes (`BytesOfRest`); so the count's
  surplus over the usage is the same before and after, and pruning can only raise it
  (`UsageShrinks`). An append that evicts everything, its own operation included,
  leaves exactly that surplus, which was within the capacity before. A fresh stamp
  is strictly above the set's timestamp, which covers all entries, so the
  operation decides (`FreshStampWins`). `SnapshotsShrinkOnly` is what is left of
  `SnapshotIsCopy`, which is false (Findings): an exported state changes in no other way
  than by losing entries of its clocks. It is proved and not part of a run.
- `CRDTSyncProofs`: `DataGenuine` (`Genuine`), `FloorHolds` (`SnapshotIsFloor`),
  `OthersNeverForgotten` (`OthersOnlyGrow`), `SyncTypes` (`TypeOK`), for any
  nodes in any modes. `SyncInv` says of every map of objects, live, in a snapshot or in a
  message, that it is `Good`: its counters and elements are those of ticks that have
  happened (a node between its two engine calls has an element more than counts,
  `Reached`), and the sets' entries are well formed; and that while the
  subscriber applies a message, the live objects hold what its snapshot holds, and for the
  keys still to be applied they hold no more than it of the nodes that only this goroutine
  learns of: the merge of the snapshot loses nothing there.
  `SeparateCountersGrow` (`GrowOnly`) and `SeparateNoGaps` (`NoGaps`) assume that no
  node is in mode both (`Separate`). `GrowOnly` is false without it (Findings), so
  the race of a node's two goroutines over its own data is the only thing that breaks it.
- `GossipAppProofs`: `KeyFileIsStable` (`KeyFileStable`), `CrashesHeal` (`CrashHeals`),
  `SendersKeepTheirEntries` (`OnlyOthersOverwrite`), `SubscriberStopsPromptly`
  (`StopsPromptly`), and `DirectoryStable`, which is KeyFileStable of PeerIdentity alone. `IdentityInv`
  adds that as long as no overlap was noted, at most one process is creating
  Peer/Peer.json, and then it cannot be read and nobody has a key from it; and that every
  truncated file, also one of -key, which two processes may share, is being
  written, or was cut short, or had two creators. `AppInv` says that no counter
  overtakes the clock (`BehindTheClock`), so that one which starts with the clock starts
  behind all numbers of the earlier starts; that every message that has come bears a number
  of the past, which the counter of its sender has passed (`AllIssued`), so that no two of one
  sender have the same number (`Distinct`); and that every entry is a message that was
  received, under its key (`StoreOK`).

- `PubSubProofs`: `MetricsAreExact` (`MetricsExact`), `PublishedExactlyOnce`
  (`ExactlyOnce`), `SnapshotsCountStamped` (`SnapshotCountsStamped`), `ReceivedIsExact`
  (`ReceivedExact`), `PeersAreBacked` (`PeersHaveMessages`) and `TypesCorrect` (`TypeOK`),
  all from `PubSubInvariant`. The metrics are behind while calls are under way, so `Accounts`
  says by how much: for every call it gives what it has published and not
  yet counted, counted and not yet stamped with a time, and what it has still to do, and
  the books balance with the sums over all goroutines. A sum is a number of
  pairs (`Sum`), so that one that changes in one place changes by as much
  (`SumChanges`). A step of a call has one of eleven shapes (`CallStep`), each with what
  it enters into the books (`Ledger`). `Sending` says which messages of a
  call under way are published: all it is through with, unless its error
  tells otherwise, and none of the others. `RunLoop` ties the loop's number to
  what was sent; `Reading` says that the stored time is covered
  by counters raised before it and that what is stamped is never added to. For the
  subscriber `Received` adds the receivers that hold a message, and that the peers on record
  and the receivers about to record one are together no more than the messages
  counted. TLC finds no violation of `PubSubInv` on the instance of `pubsub`.

Induction over the naturals is available in one form only, as the least
counterexample (`LeastNumber`, from the well-foundedness of <): the sizes of the log are
proved with it.

Only model-checked: `CRDTMain`, whose run is a counterexample; and the liveness
properties (`SelfHealing`, `RequestAnswered`, `StopEnds`, `CancelEnds`,
`ShutdownEnds`), which are beyond the proof system. Every other invariant and action
property of a passing run is a theorem.

## Findings

1. *Convergence with two writers* (`set_converge`). LWWSet.Merge resolves
   concurrent entries by the nodes with the highest entries of their clocks.
   That is not an order on clocks, so the order of merges decides who wins:
   nodes that know the same operations show different elements.
   `CRDT/readme.md` 81 promises the "Same final state regardless of sync order".
   For the same reason `LastWriterWins` fails with two writers: the tie-breaker
   may prefer a concurrent entry that happened before an operation already
   merged.
2. *A counter goes back* (`sync_grow_only`). In mode both, applyCRDTSync
   stores a merge of its snapshot over an increment that the publisher made
   meanwhile. It can happen only if the message carries the node's own counter,
   that is, after a peer has merged and published it. `SnapshotIsFloor` and
   `OthersOnlyGrow` say what still holds.
3. *The final print races with the subscriber* (`crdt_main`). crdtMain iterates
   over the message store before it stops the node, and the store has no lock:
   Go's runtime may end the process there. main.go's own store has a lock.
4. *The copy is not deep* (`store_snapshot`). `MemoryStore.go` 234-240 calls what
   GetAllCRDTs returns "a snapshot of the current state" and "a deep copy". The maps of
   elements are copied, the clocks in them are not (249): PruneVectorClocks reaches
   states that were exported earlier. The theorem `SnapshotsShrinkOnly` says that nothing else does.
5. *Multiple peers without peers* (`multiple_peers`). `README.md` 34 and 73 start several
   instances with the same command line "to see peer-to-peer communication". Without -key
   all of them load Peer/Peer.json and have one ID, and libp2p does not connect a host to its
   own ID. `KeyFileStable` is what makes it so, unless the creations of the file overlap.
   The CRDT nodes of a directory share the key in the same way, whatever their ports, where
   `main_crdt.go` 146-149 promises a unique one for each, and skip each other's
   messages as their own.

More disagreements of a text with the code were met while modelling. The models
contain the behaviour, and no run is about it:

- *Keys that are not unique.* `main.go` 428 announces a unique key; the
  prefix is the same for all senders, so messages of two processes with one sequence
  number replace each other. The numbers start at a clock in nanoseconds and rise by
  one for a message, so that it takes a coincidence. In the setup of two nodes of `app` it
  happens; `OnlyOthersOverwrite` says that a process does not do this to itself.
- *The last publish time goes back.* The time is taken and stored in two
  steps, so of two callers the earlier one may store last (`Publisher.go` 119);
  `README.md` 140 calls it the "Timestamp of last publish". What a snapshot says all the
  same is `SnapshotCountsStamped`.
- *An error that is not counted.* PublishWithRetry returns the
  context's error from its backoff without raising PublishErrors (`Publisher.go` 174),
  which `README.md` 139 calls the "Total publish errors". `MetricsExact` counts these
  calls separately.
- *The key that was created is not the one that is loaded.* When two processes
  create the file at the same time, the one that loads it again (`main.go` 279: "Now
  load the newly created private key") may load the other's.

Not contradicted by any text of the repository is that the
log's byte count drifts. Pruning shrinks a clock that a logged
operation shares, evicting it gives back less than was counted
(`Heap.go` 92), and the log holds ever less; `WithinCapacity` shows that the
error is on the safe side.

## What the models leave out

- uint64 wraps at 2^64; counts are naturals here.
- Validation of lengths and blanks (`helper.go`): inputs are valid ones.
- JSON: counts, clocks and keys survive the round trip as they are; the one
  exception, an empty SyncData that arrives as nil, is modelled.
- A node's own messages, which the receiver skips by NodeID, are not delivered.
- syncCRDTState's export and publish are one step: publishing an old export
  late is the same as delivering it late.
- After Stop the ticker is stopped, so one tick at most can be pending; the
  model allows as many as its bound.
- The condition on ModePublish in receiveCRDTMessage never holds, because a
  publish-only node has no subscriber.
- Two nodes' IDs are taken to differ, in their last six letters too.
- Times: of a subscriber's peers (and GetRecentPeers, which compares them) and of
  log entries. The publisher's clock is a counter, since `SnapshotCountsStamped`
  is about it.
- Reads of a single metric (GetThroughput, GetLastPublishTime,
  GetUniquePeerCount) and GetStats of main.go's store, under its lock.
- Parsing and dialling of bootstrap addresses, mDNS discovery, flags, and the
  layout of what is printed: input and output.
- Peer/Peer.json is read in one step; a partial read of a file that is being
  written is the same unreadable file as an empty one.
- A clock that is set back: GossipSub would start its numbers behind those of an earlier
  start. `clock` only rises, and no two creations of GossipSub read the same nanosecond,
  which favours the code: numbers of two processes meet only when one has published
  more messages than nanoseconds lie between the two starts.
- That libp2p drops a message that was seen before (the same sender and number): the
  model brings no message twice.
- What a failed Publish may have sent: it is taken to have sent nothing.

## Plan

Done: the data types, their replication; the store; the protocol; publisher and
subscriber; identity, main program and shutdown; crdtMain; and the proofs of all
safety properties of the passing runs. Next, in this order:

1. *Compaction of the proofs of PubSub*: the shapes of the steps repeat what the
   actions say.
2. *Input validation* (`helper.go`): pure checks that keep no state; their
   outcome is the choice of the inputs now.

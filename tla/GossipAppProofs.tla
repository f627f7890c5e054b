-------------------------- MODULE GossipAppProofs --------------------------
(***************************************************************************)
(* Proofs about PeerIdentity and GossipApp, for any processes, command     *)
(* lines, key files and bounds: which key a process has, when a key cannot *)
(* be read, and what the message store and the shutdown of the subscriber  *)
(* do.                                                                     *)
(***************************************************************************)
EXTENDS GossipApp, TLAPS, FiniteSetTheorems, SequenceTheorems

Place == {"off", "load", "create", "write", "reload", "loadKey", "createKey", "writeKey",
          "peerID", "up", "unreadable", "failed"}

IdentityTypeOK ==
  /\ file \in [Path -> Nat \cup {Empty}]
  /\ boot \in [Process -> Place]
  /\ host \in [Process -> Nat]
  /\ gen \in [Process -> Nat]
  /\ made \in Nat
  /\ starts \in [Process -> Nat]
  /\ overlap \in [Path -> BOOLEAN]
  /\ torn \in [Path -> BOOLEAN]

\* p has truncated file f and not yet written it.
Writing(p, f) == Creating(p, f) /\ boot[p] \in {"write", "writeKey"}

(* Where a process is says what it has: a key to write, a key for its      *)
(* host, a -key flag.                                                      *)
PlaceOK(p) ==
  /\ boot[p] \in {"write", "writeKey"} => gen[p] # NoKey
  /\ boot[p] = "peerID" => host[p] # NoKey
  /\ boot[p] \in {"load", "reload"} => ~HasFlag(p)
  /\ boot[p] \in {"loadKey", "createKey", "writeKey"} => HasFlag(p)
  /\ boot[p] \in {"create", "write"} /\ HasFlag(p) => host[p] # NoKey

(* As long as no process has met another one that was creating the file:   *)
(* one process at most is creating it, and then nobody has a key from it   *)
(* and it cannot be read; who has a key from it has the one that is in it; *)
(* and who is about to read its own key again can.                         *)
Orderly ==
  ~overlap[PeerJson] =>
    /\ \A p, q \in Process : Creating(p, PeerJson) /\ Creating(q, PeerJson) => p = q
    /\ \A p \in Process : Creating(p, PeerJson) =>
         /\ ~Readable(PeerJson)
         /\ \A q \in Process : ~HasFlag(q) => host[q] = NoKey
    /\ \A p \in Process : boot[p] = "reload" => Readable(PeerJson)

(* Then the hosts of the processes without -key have the key in the file.  *)
HostsHaveFileKey ==
  ~overlap[PeerJson] =>
    \A p \in Process : ~HasFlag(p) /\ host[p] # NoKey => file[PeerJson] = host[p]

(* A truncated file is one that is being written, or whose creation was    *)
(* cut short, or that two processes were creating.                         *)
EmptyExplained ==
  \A f \in Path : file[f] = Empty =>
    overlap[f] \/ torn[f] \/ \E q \in Process : Writing(q, f)

IdentityInv ==
  /\ IdentityTypeOK
  /\ \A p \in Process : PlaceOK(p)
  /\ Orderly
  /\ HostsHaveFileKey
  /\ EmptyExplained
  /\ CrashHeals

Message == [from : Process, start : Nat, seq : Nat]

\* The stores there can be: functions of keys to messages.
Store == UNION {[keys -> Message] : keys \in SUBSET ({"12D3KooW"} \X Nat)}

NodeState ==
  [main : {"none", "serve", "cancel", "wait"}, pub : {"off", "run", "done"},
   sub : {"off", "top", "next", "store", "done"}, stats : {"off", "run", "done"},
   cancelled : BOOLEAN, sig : BOOLEAN, inbox : Seq(Message), msg : Message \cup {NoMsg},
   store : Store, base : Nat, n : Nat, received : SUBSET Message, late : Nat]

AppTypeOK == node \in [Process -> NodeState] /\ clock \in Nat

(* A process that is not there has no goroutines. *)
OffIsOff == \A p \in Process : boot[p] = "off" => node[p] = Off

(* m has come to the node n since its start: it is in the channel, or was  *)
(* received.                                                               *)
Came(n, m) ==
  \/ \E i \in 1 .. Len(n.inbox) : m = n.inbox[i]
  \/ m \in n.received

(* The number of m is one of the past, and one that the counter of its     *)
(* sender, if that has one now, has passed.                                *)
Issued(m) ==
  /\ m.seq <= clock
  /\ node[m.from].main # "none" => m.seq <= node[m.from].base + node[m.from].n

AllIssued == \A q \in Process, m \in Message : Came(node[q], m) => Issued(m)

(* A counter never overtakes the clock, so one that starts with the clock  *)
(* starts behind all numbers that were given out.                          *)
BehindTheClock ==
  \A p \in Process : node[p].main # "none" => node[p].base + node[p].n <= clock

(* Of one sender no two messages that came have the same number. *)
Distinct(n) ==
  \A m1, m2 \in Message :
    Came(n, m1) /\ Came(n, m2) /\ m1.from = m2.from /\ m1.seq = m2.seq => m1 = m2

(* What the handler is through with has an entry, and every entry is a     *)
(* message that was received, under its key.                               *)
StoreOK(n) ==
  /\ n.sub = "store" => n.msg \in n.received
  /\ \A m \in n.received : (n.sub = "store" => m # n.msg) => KeyOf(m) \in DOMAIN n.store
  /\ \A k \in DOMAIN n.store : n.store[k] \in n.received /\ KeyOf(n.store[k]) = k

(* The goroutines and the counter are there only once main serves, and the *)
(* message that is taken after the cancellation is the last one.           *)
LoopOK(n) ==
  /\ n.main = "none" => n.sub = "off" /\ n.pub = "off" /\ n.n = 0
  /\ n.late \in {0, 1}
  /\ n.late = 1 => n.cancelled /\ n.sub \in {"store", "top", "done"}

AppInv ==
  /\ AppTypeOK
  /\ OffIsOff
  /\ AllIssued
  /\ BehindTheClock
  /\ \A p \in Process : Distinct(node[p]) /\ StoreOK(node[p]) /\ LoopOK(node[p])

-----------------------------------------------------------------------------
(* The identities *)

(* The files there are: Peer/Peer.json and those of the -key flags. *)
LEMMA Paths ==
  /\ PeerJson \in Path
  /\ \A p \in Process : HasFlag(p) => KeyFile(p) \in Path
BY DEF Path

(* A process keeps its command line, so the files stay the same. *)
LEMMA CmdKept ==
  ASSUME UNCHANGED cmd
  PROVE  Path' = Path /\ \A p : KeyFile(p)' = KeyFile(p) /\ HasFlag(p)' = HasFlag(p)
BY DEF Path, KeyFile, HasFlag

(* A process that finds no key in a file, and may set out to create it,    *)
(* is the only one to do so, or an overlap is noted (createHost,           *)
(* loadOrGenerateKey, LoadPeerID).                                         *)
LEMMA MissKeepsOrder ==
  ASSUME IdentityInv, UNCHANGED <<cmd, file>>,
         NEW p \in Process, boot[p] \in {"load", "loadKey", "peerID"},
         NEW f \in Path, ~Readable(f),
         NEW place \in {"create", "createKey", "unreadable"}, Misses(p, f, place),
         place = "create" => f = PeerJson, place = "createKey" => f = KeyFile(p)
  PROVE  Orderly'
<1> USE Paths DEF NoFile, Empty, NoKey
<1>1. /\ Path' = Path /\ \A q : KeyFile(q)' = KeyFile(q) /\ HasFlag(q)' = HasFlag(q)
      /\ \A g : Readable(g)' = Readable(g)
  BY CmdKept DEF Readable
<1>2. /\ boot' = [boot EXCEPT ![p] = place] /\ boot \in [Process -> Place]
      /\ UNCHANGED host /\ host \in [Process -> Nat]
      /\ file[PeerJson] \in Nat \cup {Empty}
  BY DEF Misses, Goto, IdentityInv, IdentityTypeOK
<1>3. SUFFICES ASSUME ~overlap'[PeerJson]
               PROVE  Orderly'
  BY DEF Orderly
<1>4. CASE f = PeerJson
  <2>1. ~overlap[PeerJson] /\ \A q \in Process \ {p} : ~Creating(q, PeerJson)
    BY <1>3, <1>4 DEF Misses, IdentityInv, IdentityTypeOK
  <2>2. \A q \in Process : ~HasFlag(q) => host[q] = NoKey
    BY <1>2, <1>4, <2>1 DEF IdentityInv, HostsHaveFileKey, Readable
  <2>3. \A q \in Process \ {p} : ~Creating(q, PeerJson)'
    BY <1>1, <1>2, <2>1 DEF Creating
  <2>4. \A q \in Process : boot'[q] # "reload"
    BY <1>2, <1>4, <2>1 DEF IdentityInv, Orderly
  <2> QED
    BY <1>1, <1>2, <1>4, <2>2, <2>3, <2>4 DEF Orderly
<1>5. CASE f # PeerJson
  <2>1. ~overlap[PeerJson]
    BY <1>3, <1>5 DEF Misses, IdentityInv, IdentityTypeOK
  <2>2. \A q \in Process : Creating(q, PeerJson)' => Creating(q, PeerJson)
    BY <1>1, <1>2, <1>5 DEF Creating
  <2>3. \A q \in Process : boot'[q] = "reload" => boot[q] = "reload"
    BY <1>2
  <2>4. Orderly
    BY DEF IdentityInv
  <2> QED
    BY <1>1, <1>2, <2>1, <2>2, <2>3, <2>4 DEF Orderly
<1> QED
  BY <1>4, <1>5

(* A process without a key does not disturb the others when it starts      *)
(* (main).                                                                 *)
LEMMA StartKeeps ==
  ASSUME IdentityInv, NEW p \in Process, Start(p)
  PROVE  IdentityInv'
<1> USE Paths DEF NoFile, Empty, NoKey
<1>1. Path' = Path /\ \A q : KeyFile(q)' = KeyFile(q) /\ HasFlag(q)' = HasFlag(q)
  BY CmdKept DEF Start
<1>2. IdentityTypeOK'
  BY <1>1 DEF IdentityInv, IdentityTypeOK, Place, PlaceOK, Start, Goto, Readable
<1>3. \A q \in Process : PlaceOK(q)'
  BY <1>1 DEF IdentityInv, IdentityTypeOK, PlaceOK, Start, Goto, Readable
<1>4. Orderly'
  BY <1>1 DEF IdentityInv, IdentityTypeOK, PlaceOK, Orderly, HostsHaveFileKey, Creating,
              Start, Goto, Readable
<1>5. HostsHaveFileKey'
  BY <1>1 DEF IdentityInv, IdentityTypeOK, PlaceOK, Orderly, HostsHaveFileKey, Creating,
              Start, Goto, Readable
<1>6. EmptyExplained'
  BY <1>1 DEF IdentityInv, IdentityTypeOK, PlaceOK, EmptyExplained, Writing, Creating,
              Start, Goto, Readable
<1>7. CrashHeals'
  BY <1>1 DEF IdentityInv, IdentityTypeOK, PlaceOK, CrashHeals, EmptyExplained, Orderly,
              Writing, Creating, Start, Goto, Readable
<1> QED
  BY <1>2, <1>3, <1>4, <1>5, <1>6, <1>7 DEF IdentityInv

(* createHost without -key: who finds a key takes the one that all have,   *)
(* and who finds none is the only one to create the file, or an overlap is *)
(* noted.                                                                  *)
LEMMA LoadPrivateKeyKeeps ==
  ASSUME IdentityInv, NEW p \in Process, LoadPrivateKey(p)
  PROVE  IdentityInv'
<1> USE Paths DEF NoFile, Empty, NoKey
<1>1. Path' = Path /\ \A q : KeyFile(q)' = KeyFile(q) /\ HasFlag(q)' = HasFlag(q)
  BY CmdKept DEF LoadPrivateKey
<1>2. IdentityTypeOK'
  BY <1>1 DEF IdentityInv, IdentityTypeOK, Place, PlaceOK, LoadPrivateKey, Takes, Misses, Goto, Readable
<1>3. \A q \in Process : PlaceOK(q)'
  BY <1>1 DEF IdentityInv, IdentityTypeOK, PlaceOK, LoadPrivateKey, Takes, Misses, Goto, Readable
<1>4. Orderly'
  <2>1. CASE \E place \in {"create"} : Misses(p, PeerJson, place) /\ ~Readable(PeerJson)
    <3>1. UNCHANGED <<cmd, file>> /\ boot[p] \in {"load", "loadKey", "peerID"} /\ PeerJson \in Path
      BY DEF LoadPrivateKey, IdentityInv, PlaceOK
    <3> QED
      BY <2>1, <3>1, MissKeepsOrder
  <2>2. CASE ~\E place \in {"create"} : Misses(p, PeerJson, place) /\ ~Readable(PeerJson)
    BY <1>1, <2>2 DEF IdentityInv, IdentityTypeOK, PlaceOK, Orderly, HostsHaveFileKey, Creating,
                      LoadPrivateKey, Takes, Goto, Readable
  <2> QED
    BY <2>1, <2>2
<1>5. HostsHaveFileKey'
  BY <1>1 DEF IdentityInv, IdentityTypeOK, PlaceOK, Orderly, HostsHaveFileKey, Creating,
              LoadPrivateKey, Takes, Misses, Goto, Readable
<1>6. EmptyExplained'
  BY <1>1 DEF IdentityInv, IdentityTypeOK, PlaceOK, EmptyExplained, Writing, Creating,
              LoadPrivateKey, Takes, Misses, Goto, Readable
<1>7. CrashHeals'
  BY <1>1 DEF IdentityInv, IdentityTypeOK, PlaceOK, CrashHeals, EmptyExplained, Orderly,
              Writing, Creating, LoadPrivateKey, Takes, Misses, Goto, Readable
<1> QED
  BY <1>2, <1>3, <1>4, <1>5, <1>6, <1>7 DEF IdentityInv

(* CreatePeerID truncates the file: nobody has a key from it yet.          *)
LEMMA CreatePeerIDKeeps ==
  ASSUME IdentityInv, NEW p \in Process, CreatePeerID(p)
  PROVE  IdentityInv'
<1> USE Paths DEF NoFile, Empty, NoKey
<1>1. Path' = Path /\ \A q : KeyFile(q)' = KeyFile(q) /\ HasFlag(q)' = HasFlag(q)
  BY CmdKept DEF CreatePeerID
<1>2. IdentityTypeOK'
  BY <1>1 DEF IdentityInv, IdentityTypeOK, Place, PlaceOK, CreatePeerID, Goto, Readable
<1>3. \A q \in Process : PlaceOK(q)'
  BY <1>1 DEF IdentityInv, IdentityTypeOK, PlaceOK, CreatePeerID, Goto, Readable
<1>4. Orderly'
  BY <1>1 DEF IdentityInv, IdentityTypeOK, PlaceOK, Orderly, HostsHaveFileKey, Creating,
              CreatePeerID, Goto, Readable
<1>5. HostsHaveFileKey'
  BY <1>1 DEF IdentityInv, IdentityTypeOK, PlaceOK, Orderly, HostsHaveFileKey, Creating,
              CreatePeerID, Goto, Readable
<1>6. EmptyExplained'
  BY <1>1 DEF IdentityInv, IdentityTypeOK, PlaceOK, EmptyExplained, Writing, Creating,
              CreatePeerID, Goto, Readable
<1>7. CrashHeals'
  BY <1>1 DEF IdentityInv, IdentityTypeOK, PlaceOK, CrashHeals, EmptyExplained, Orderly,
              Writing, Creating, CreatePeerID, Goto, Readable
<1> QED
  BY <1>2, <1>3, <1>4, <1>5, <1>6, <1>7 DEF IdentityInv

(* CreatePeerID writes the file: from now on it can be read.               *)
LEMMA WritePeerJsonKeeps ==
  ASSUME IdentityInv, NEW p \in Process, WritePeerJson(p)
  PROVE  IdentityInv'
<1> USE Paths DEF NoFile, Empty, NoKey
<1>1. Path' = Path /\ \A q : KeyFile(q)' = KeyFile(q) /\ HasFlag(q)' = HasFlag(q)
  BY CmdKept DEF WritePeerJson
<1>2. IdentityTypeOK'
  BY <1>1 DEF IdentityInv, IdentityTypeOK, Place, PlaceOK, WritePeerJson, Goto, Readable
<1>3. \A q \in Process : PlaceOK(q)'
  BY <1>1 DEF IdentityInv, IdentityTypeOK, PlaceOK, WritePeerJson, Goto, Readable
<1>4. Orderly'
  BY <1>1 DEF IdentityInv, IdentityTypeOK, PlaceOK, Orderly, HostsHaveFileKey, Creating,
              WritePeerJson, Goto, Readable
<1>5. HostsHaveFileKey'
  BY <1>1 DEF IdentityInv, IdentityTypeOK, PlaceOK, Orderly, HostsHaveFileKey, Creating,
              WritePeerJson, Goto, Readable
<1>6. EmptyExplained'
  BY <1>1 DEF IdentityInv, IdentityTypeOK, PlaceOK, EmptyExplained, Writing, Creating,
              WritePeerJson, Goto, Readable
<1>7. CrashHeals'
  BY <1>1 DEF IdentityInv, IdentityTypeOK, PlaceOK, CrashHeals, EmptyExplained, Orderly,
              Writing, Creating, WritePeerJson, Goto, Readable
<1> QED
  BY <1>2, <1>3, <1>4, <1>5, <1>6, <1>7 DEF IdentityInv

(* createHost loads the key again that it has just written.                *)
LEMMA ReloadPrivateKeyKeeps ==
  ASSUME IdentityInv, NEW p \in Process, ReloadPrivateKey(p)
  PROVE  IdentityInv'
<1> USE Paths DEF NoFile, Empty, NoKey
<1>1. Path' = Path /\ \A q : KeyFile(q)' = KeyFile(q) /\ HasFlag(q)' = HasFlag(q)
  BY CmdKept DEF ReloadPrivateKey
<1>2. IdentityTypeOK'
  BY <1>1 DEF IdentityInv, IdentityTypeOK, Place, PlaceOK, ReloadPrivateKey, Takes, Goto, Readable
<1>3. \A q \in Process : PlaceOK(q)'
  BY <1>1 DEF IdentityInv, IdentityTypeOK, PlaceOK, ReloadPrivateKey, Takes, Goto, Readable
<1>4. Orderly'
  BY <1>1 DEF IdentityInv, IdentityTypeOK, PlaceOK, Orderly, HostsHaveFileKey, Creating,
              ReloadPrivateKey, Takes, Goto, Readable
<1>5. HostsHaveFileKey'
  BY <1>1 DEF IdentityInv, IdentityTypeOK, PlaceOK, Orderly, HostsHaveFileKey, Creating,
              ReloadPrivateKey, Takes, Goto, Readable
<1>6. EmptyExplained'
  BY <1>1 DEF IdentityInv, IdentityTypeOK, PlaceOK, EmptyExplained, Writing, Creating,
              ReloadPrivateKey, Takes, Goto, Readable
<1>7. CrashHeals'
  BY <1>1 DEF IdentityInv, IdentityTypeOK, PlaceOK, CrashHeals, EmptyExplained, Orderly,
              Writing, Creating, ReloadPrivateKey, Takes, Goto, Readable
<1> QED
  BY <1>2, <1>3, <1>4, <1>5, <1>6, <1>7 DEF IdentityInv

(* loadOrGenerateKey with -key: a truncated file was cut short, or is being*)
(* written by a process that is thereby met.                               *)
LEMMA loadOrGenerateKeyKeeps ==
  ASSUME IdentityInv, NEW p \in Process, loadOrGenerateKey(p)
  PROVE  IdentityInv'
<1> USE Paths DEF NoFile, Empty, NoKey
<1>1. Path' = Path /\ \A q : KeyFile(q)' = KeyFile(q) /\ HasFlag(q)' = HasFlag(q)
  BY CmdKept DEF loadOrGenerateKey
<1>2. IdentityTypeOK'
  BY <1>1 DEF IdentityInv, IdentityTypeOK, Place, PlaceOK, loadOrGenerateKey, Takes, Misses, Goto,
       Readable
<1>3. \A q \in Process : PlaceOK(q)'
  BY <1>1 DEF IdentityInv, IdentityTypeOK, PlaceOK, loadOrGenerateKey, Takes, Misses, Goto, Readable
<1>4. Orderly'
  <2>1. CASE \E place \in {"createKey", "unreadable"} : Misses(p, KeyFile(p), place)
               /\ ~Readable(KeyFile(p))
    <3>1. UNCHANGED <<cmd, file>> /\ boot[p] \in {"load", "loadKey", "peerID"} /\ KeyFile(p) \in Path
      BY DEF loadOrGenerateKey, IdentityInv, PlaceOK
    <3> QED
      BY <2>1, <3>1, MissKeepsOrder
  <2>2. CASE ~\E place \in {"createKey", "unreadable"} : Misses(p, KeyFile(p), place)
               /\ ~Readable(KeyFile(p))
    BY <1>1, <2>2 DEF IdentityInv, IdentityTypeOK, PlaceOK, Orderly, HostsHaveFileKey, Creating,
                      loadOrGenerateKey, Takes, Goto, Readable
  <2> QED
    BY <2>1, <2>2
<1>5. HostsHaveFileKey'
  BY <1>1 DEF IdentityInv, IdentityTypeOK, PlaceOK, Orderly, HostsHaveFileKey, Creating,
              loadOrGenerateKey, Takes, Misses, Goto, Readable
<1>6. EmptyExplained'
  BY <1>1 DEF IdentityInv, IdentityTypeOK, PlaceOK, EmptyExplained, Writing, Creating,
              loadOrGenerateKey, Takes, Misses, Goto, Readable
<1>7. CrashHeals'
  BY <1>1 DEF IdentityInv, IdentityTypeOK, PlaceOK, CrashHeals, EmptyExplained, Orderly,
              Writing, Creating, loadOrGenerateKey, Takes, Misses, Goto, Readable
<1> QED
  BY <1>2, <1>3, <1>4, <1>5, <1>6, <1>7 DEF IdentityInv

(* loadOrGenerateKey truncates the -key file, which may be Peer/Peer.json. *)
LEMMA GenerateKeyKeeps ==
  ASSUME IdentityInv, NEW p \in Process, GenerateKey(p)
  PROVE  IdentityInv'
<1> USE Paths DEF NoFile, Empty, NoKey
<1>1. Path' = Path /\ \A q : KeyFile(q)' = KeyFile(q) /\ HasFlag(q)' = HasFlag(q)
  BY CmdKept DEF GenerateKey
<1>2. IdentityTypeOK'
  BY <1>1 DEF IdentityInv, IdentityTypeOK, Place, PlaceOK, GenerateKey, Goto, Readable
<1>3. \A q \in Process : PlaceOK(q)'
  BY <1>1 DEF IdentityInv, IdentityTypeOK, PlaceOK, GenerateKey, Goto, Readable
<1>4. Orderly'
  BY <1>1 DEF IdentityInv, IdentityTypeOK, PlaceOK, Orderly, HostsHaveFileKey, Creating,
              GenerateKey, Goto, Readable
<1>5. HostsHaveFileKey'
  BY <1>1 DEF IdentityInv, IdentityTypeOK, PlaceOK, Orderly, HostsHaveFileKey, Creating,
              GenerateKey, Goto, Readable
<1>6. EmptyExplained'
  BY <1>1 DEF IdentityInv, IdentityTypeOK, PlaceOK, EmptyExplained, Writing, Creating,
              GenerateKey, Goto, Readable
<1>7. CrashHeals'
  BY <1>1 DEF IdentityInv, IdentityTypeOK, PlaceOK, CrashHeals, EmptyExplained, Orderly,
              Writing, Creating, GenerateKey, Goto, Readable
<1> QED
  BY <1>2, <1>3, <1>4, <1>5, <1>6, <1>7 DEF IdentityInv

(* loadOrGenerateKey writes the -key file and takes the key as it is.      *)
LEMMA WriteKeyKeeps ==
  ASSUME IdentityInv, NEW p \in Process, WriteKey(p)
  PROVE  IdentityInv'
<1> USE Paths DEF NoFile, Empty, NoKey
<1>1. Path' = Path /\ \A q : KeyFile(q)' = KeyFile(q) /\ HasFlag(q)' = HasFlag(q)
  BY CmdKept DEF WriteKey
<1>2. IdentityTypeOK'
  BY <1>1 DEF IdentityInv, IdentityTypeOK, Place, PlaceOK, WriteKey, Goto, Readable
<1>3. \A q \in Process : PlaceOK(q)'
  BY <1>1 DEF IdentityInv, IdentityTypeOK, PlaceOK, WriteKey, Goto, Readable
<1>4. Orderly'
  BY <1>1 DEF IdentityInv, IdentityTypeOK, PlaceOK, Orderly, HostsHaveFileKey, Creating,
              WriteKey, Goto, Readable
<1>5. HostsHaveFileKey'
  BY <1>1 DEF IdentityInv, IdentityTypeOK, PlaceOK, Orderly, HostsHaveFileKey, Creating,
              WriteKey, Goto, Readable
<1>6. EmptyExplained'
  BY <1>1 DEF IdentityInv, IdentityTypeOK, PlaceOK, EmptyExplained, Writing, Creating,
              WriteKey, Goto, Readable
<1>7. CrashHeals'
  BY <1>1 DEF IdentityInv, IdentityTypeOK, PlaceOK, CrashHeals, EmptyExplained, Orderly,
              Writing, Creating, WriteKey, Goto, Readable
<1> QED
  BY <1>2, <1>3, <1>4, <1>5, <1>6, <1>7 DEF IdentityInv

(* LoadPeerID creates the file only when there is none, and then nobody has*)
(* a key from it.                                                          *)
LEMMA LoadPeerIDKeeps ==
  ASSUME IdentityInv, NEW p \in Process, LoadPeerID(p)
  PROVE  IdentityInv'
<1> USE Paths DEF NoFile, Empty, NoKey
<1>1. Path' = Path /\ \A q : KeyFile(q)' = KeyFile(q) /\ HasFlag(q)' = HasFlag(q)
  BY CmdKept DEF LoadPeerID
<1>2. IdentityTypeOK'
  BY <1>1 DEF IdentityInv, IdentityTypeOK, Place, PlaceOK, LoadPeerID, Misses, Goto, Readable
<1>3. \A q \in Process : PlaceOK(q)'
  BY <1>1 DEF IdentityInv, IdentityTypeOK, PlaceOK, LoadPeerID, Misses, Goto, Readable
<1>4. Orderly'
  <2>1. CASE \E place \in {"create"} : Misses(p, PeerJson, place) /\ ~Readable(PeerJson)
    <3>1. UNCHANGED <<cmd, file>> /\ boot[p] \in {"load", "loadKey", "peerID"} /\ PeerJson \in Path
      BY DEF LoadPeerID, IdentityInv, PlaceOK
    <3> QED
      BY <2>1, <3>1, MissKeepsOrder
  <2>2. CASE ~\E place \in {"create"} : Misses(p, PeerJson, place) /\ ~Readable(PeerJson)
    BY <1>1, <2>2 DEF IdentityInv, IdentityTypeOK, PlaceOK, Orderly, HostsHaveFileKey, Creating,
                      LoadPeerID, Goto, Readable
  <2> QED
    BY <2>1, <2>2
<1>5. HostsHaveFileKey'
  BY <1>1 DEF IdentityInv, IdentityTypeOK, PlaceOK, Orderly, HostsHaveFileKey, Creating,
              LoadPeerID, Misses, Goto, Readable
<1>6. EmptyExplained'
  BY <1>1 DEF IdentityInv, IdentityTypeOK, PlaceOK, EmptyExplained, Writing, Creating,
              LoadPeerID, Misses, Goto, Readable
<1>7. CrashHeals'
  BY <1>1 DEF IdentityInv, IdentityTypeOK, PlaceOK, CrashHeals, EmptyExplained, Orderly,
              Writing, Creating, LoadPeerID, Misses, Goto, Readable
<1> QED
  BY <1>2, <1>3, <1>4, <1>5, <1>6, <1>7 DEF IdentityInv

(* A failed write leaves a truncated file, and this is noted.              *)
LEMMA WriteFailsKeeps ==
  ASSUME IdentityInv, NEW p \in Process, WriteFails(p)
  PROVE  IdentityInv'
<1> USE Paths DEF NoFile, Empty, NoKey
<1>1. Path' = Path /\ \A q : KeyFile(q)' = KeyFile(q) /\ HasFlag(q)' = HasFlag(q)
  BY CmdKept DEF WriteFails
<1>2. IdentityTypeOK'
  BY <1>1 DEF IdentityInv, IdentityTypeOK, Place, PlaceOK, WriteFails, CutShort, Goto, Readable
<1>3. \A q \in Process : PlaceOK(q)'
  BY <1>1 DEF IdentityInv, IdentityTypeOK, PlaceOK, WriteFails, CutShort, Goto, Readable
<1>4. Orderly'
  BY <1>1 DEF IdentityInv, IdentityTypeOK, PlaceOK, Orderly, HostsHaveFileKey, Creating,
              WriteFails, CutShort, Goto, Readable
<1>5. HostsHaveFileKey'
  BY <1>1 DEF IdentityInv, IdentityTypeOK, PlaceOK, Orderly, HostsHaveFileKey, Creating,
              WriteFails, CutShort, Goto, Readable
<1>6. EmptyExplained'
  BY <1>1 DEF IdentityInv, IdentityTypeOK, PlaceOK, EmptyExplained, Writing, Creating,
              WriteFails, CutShort, Goto, Readable
<1>7. CrashHeals'
  BY <1>1 DEF IdentityInv, IdentityTypeOK, PlaceOK, CrashHeals, EmptyExplained, Orderly,
              Writing, Creating, WriteFails, CutShort, Goto, Readable
<1> QED
  BY <1>2, <1>3, <1>4, <1>5, <1>6, <1>7 DEF IdentityInv

(* So does the end of a process in the middle of a write.                  *)
LEMMA EndsKeeps ==
  ASSUME IdentityInv, NEW p \in Process, Ends(p)
  PROVE  IdentityInv'
<1> USE Paths DEF NoFile, Empty, NoKey
<1>1. Path' = Path /\ \A q : KeyFile(q)' = KeyFile(q) /\ HasFlag(q)' = HasFlag(q)
  BY CmdKept DEF Ends
<1>2. IdentityTypeOK'
  BY <1>1 DEF IdentityInv, IdentityTypeOK, Place, PlaceOK, Ends, CutShort, Goto, Readable
<1>3. \A q \in Process : PlaceOK(q)'
  BY <1>1 DEF IdentityInv, IdentityTypeOK, PlaceOK, Ends, CutShort, Goto, Readable
<1>4. Orderly'
  BY <1>1 DEF IdentityInv, IdentityTypeOK, PlaceOK, Orderly, HostsHaveFileKey, Creating,
              Ends, CutShort, Goto, Readable
<1>5. HostsHaveFileKey'
  BY <1>1 DEF IdentityInv, IdentityTypeOK, PlaceOK, Orderly, HostsHaveFileKey, Creating,
              Ends, CutShort, Goto, Readable
<1>6. EmptyExplained'
  BY <1>1 DEF IdentityInv, IdentityTypeOK, PlaceOK, EmptyExplained, Writing, Creating,
              Ends, CutShort, Goto, Readable
<1>7. CrashHeals'
  BY <1>1 DEF IdentityInv, IdentityTypeOK, PlaceOK, CrashHeals, EmptyExplained, Orderly,
              Writing, Creating, Ends, CutShort, Goto, Readable
<1> QED
  BY <1>2, <1>3, <1>4, <1>5, <1>6, <1>7 DEF IdentityInv

(* Of the variables of PeerIdentity the fault counter is bound to nothing. *)
IdentityStep ==
  \/ \E p \in Process : Start(p) \/ Boot(p) \/ WriteFails(p) \/ Ends(p)
  \/ UNCHANGED <<cmd, file, boot, host, gen, made, starts, overlap, torn>>

(* What the directory holds at the beginning, files with keys or none, is  *)
(* in order (main).                                                        *)
LEMMA IdentityInitially ==
  ASSUME IdentityInit
  PROVE  IdentityInv
<1> USE Paths DEF NoFile, Empty, NoKey
<1>1. PICK s \in Setup :
        /\ file = [f \in Path |-> IF f \in DOMAIN s.dir THEN s.dir[f] ELSE NoFile]
        /\ made = Cardinality(DOMAIN s.dir)
  BY DEF IdentityInit
<1>2. /\ \A f \in Path : file[f] \in Nat
      /\ file \in [Path -> Nat \cup {Empty}]
      /\ made \in Nat
  BY <1>1, SetupAssumption, FS_CardinalityType
<1>3. \A p \in Process : boot[p] = "off" /\ host[p] = NoKey
  BY DEF IdentityInit
<1>4. IdentityTypeOK
  BY <1>2 DEF IdentityInit, IdentityTypeOK, Place
<1>5. (\A p \in Process : PlaceOK(p)) /\ Orderly /\ HostsHaveFileKey /\ CrashHeals
  BY <1>3 DEF PlaceOK, Orderly, HostsHaveFileKey, CrashHeals, Creating
<1>6. EmptyExplained
  BY <1>2 DEF EmptyExplained
<1> QED
  BY <1>4, <1>5, <1>6 DEF IdentityInv

(* Every step of a process on its way to its key keeps the order. *)
LEMMA IdentityKept ==
  ASSUME IdentityInv, IdentityStep
  PROVE  IdentityInv'
<1>1. ASSUME NEW p \in Process, Start(p) \/ Boot(p) \/ WriteFails(p) \/ Ends(p)
      PROVE  IdentityInv'
  <2>1. CASE Start(p) \/ WriteFails(p) \/ Ends(p)
    BY <2>1, StartKeeps, WriteFailsKeeps, EndsKeeps
  <2>2. CASE Boot(p)
    BY <2>2, LoadPrivateKeyKeeps, CreatePeerIDKeeps, WritePeerJsonKeeps, ReloadPrivateKeyKeeps,
       loadOrGenerateKeyKeeps, GenerateKeyKeeps, WriteKeyKeeps, LoadPeerIDKeeps DEF Boot
  <2> QED
    BY <1>1, <2>1, <2>2
<1>2. CASE UNCHANGED <<cmd, file, boot, host, gen, made, starts, overlap, torn>>
  <2>1. Path' = Path /\ \A q : KeyFile(q)' = KeyFile(q) /\ HasFlag(q)' = HasFlag(q)
    BY <1>2, CmdKept
  <2> QED
    BY <1>2, <2>1 DEF IdentityInv, IdentityTypeOK, PlaceOK, Orderly, HostsHaveFileKey,
                      EmptyExplained, CrashHeals, Writing, Creating, Readable
<1> QED
  BY <1>1, <1>2 DEF IdentityStep

(* What KeyFileStable says of a step. *)
KeyFileKept ==
  ~overlap'[PeerJson] =>
    /\ Readable(PeerJson) => file'[PeerJson] = file[PeerJson]
    /\ \A p \in Process :
         ~HasFlag(p) /\ host'[p] # NoKey => host'[p] = file'[PeerJson]

(* Only a process that is creating the file changes it, and then it could  *)
(* not be read (CreatePeerID, GenerateKey).                                *)
LEMMA KeyFileIsKept ==
  ASSUME IdentityInv, IdentityStep, IdentityInv'
  PROVE  KeyFileKept
<1>1. SUFFICES ASSUME ~overlap'[PeerJson]
               PROVE  KeyFileKept
  BY DEF KeyFileKept
<1>2. cmd' = cmd
  BY DEF IdentityStep, Start, Boot, LoadPrivateKey, CreatePeerID, WritePeerJson, ReloadPrivateKey,
         loadOrGenerateKey, GenerateKey, WriteKey, LoadPeerID, WriteFails, Ends
<1>3. \A p \in Process : ~HasFlag(p) /\ host'[p] # NoKey => host'[p] = file'[PeerJson]
  BY <1>1, <1>2, CmdKept DEF IdentityInv, HostsHaveFileKey
<1>4. ~overlap[PeerJson]
  BY <1>1, Paths DEF IdentityInv, IdentityTypeOK, IdentityStep, Start, Boot, LoadPrivateKey,
     CreatePeerID, WritePeerJson, ReloadPrivateKey, loadOrGenerateKey, GenerateKey, WriteKey,
     LoadPeerID, WriteFails, Ends, Misses, Takes
<1>5. \A p \in Process : Creating(p, PeerJson) => ~Readable(PeerJson)
  BY <1>4 DEF IdentityInv, Orderly
<1>6. ASSUME NEW p \in Process, CreatePeerID(p) \/ WritePeerJson(p) \/ GenerateKey(p) \/ WriteKey(p)
      PROVE  file'[PeerJson] = file[PeerJson] \/ Creating(p, PeerJson)
  <2>1. file \in [Path -> Nat \cup {Empty}]
    BY DEF IdentityInv, IdentityTypeOK
  <2>2. CASE CreatePeerID(p) \/ WritePeerJson(p)
    BY <2>2 DEF CreatePeerID, WritePeerJson, Creating
  <2>3. CASE GenerateKey(p) \/ WriteKey(p)
    <3>1. boot[p] \in {"createKey", "writeKey"}
      BY <2>3 DEF GenerateKey, WriteKey
    <3>2. PICK key : file' = [file EXCEPT ![KeyFile(p)] = key]
      BY <2>3 DEF GenerateKey, WriteKey
    <3> QED
      BY <2>1, <3>1, <3>2 DEF Creating
  <2> QED
    BY <1>6, <2>2, <2>3
<1>7. UNCHANGED file \/ \E p \in Process :
        CreatePeerID(p) \/ WritePeerJson(p) \/ GenerateKey(p) \/ WriteKey(p)
  BY DEF IdentityStep, Start, Boot, LoadPrivateKey, ReloadPrivateKey, loadOrGenerateKey,
         LoadPeerID, WriteFails, Ends
<1> QED
  BY <1>3, <1>5, <1>6, <1>7 DEF KeyFileKept

(* PeerIdentity by itself, whatever program runs in the processes: unless  *)
(* creations of it overlapped, Peer/Peer.json stays as it is once it holds *)
(* a key, and that is the key of every process without -key (createHost,   *)
(* CreatePeerID, LoadPeerID).                                              *)
THEOREM DirectoryStable == IdentitySpec => KeyFileStable
<1>1. ASSUME IdentityInv, [IdentityNext]_idVars
      PROVE  IdentityInv' /\ KeyFileKept
  <2>1. IdentityStep
    BY <1>1 DEF IdentityNext, IdentityStep, idVars
  <2> QED
    BY <1>1, <2>1, IdentityKept, KeyFileIsKept
<1> QED
  BY <1>1, IdentityInitially, PTL DEF IdentitySpec, KeyFileStable, KeyFileKept

-----------------------------------------------------------------------------
(* The program *)

(* A process that is off has no goroutines that could take a step. *)
LEMMA OffFields ==
  /\ Off \in NodeState /\ Off.main = "none" /\ Off.pub = "off" /\ Off.sub = "off" /\ Off.stats = "off"
  /\ ~Off.cancelled /\ Off.inbox = <<>> /\ Off.store = EmptyStore /\ Off.base = 0 /\ Off.n = 0
  /\ Off.received = {} /\ Off.late = 0
<1>1. EmptyStore \in [{} -> Message] /\ {} \in SUBSET ({"12D3KooW"} \X Nat)
  BY DEF EmptyStore
<1>2. EmptyStore \in Store
  BY <1>1, Zenon DEF Store
<1> QED
  BY <1>2, EmptySeq DEF Off, NodeState

(* A key is the first part of the peer ID, the same for every message, and *)
(* the number (startSubscriberWithStore).                                  *)
LEMMA Keys ==
  ASSUME NEW m \in Message
  PROVE  /\ KeyOf(m) \in {"12D3KooW"} \X Nat
         /\ \A m2 \in Message : KeyOf(m2) = KeyOf(m) => m2.seq = m.seq
BY DEF KeyOf, Message

(* A store with one more entry, or another one under the key               *)
(* (MessageStore.Add).                                                     *)
LEMMA Added ==
  ASSUME NEW store \in Store, NEW m \in Message
  PROVE  /\ Add(store, KeyOf(m), m) \in Store
         /\ DOMAIN Add(store, KeyOf(m), m) = DOMAIN store \cup {KeyOf(m)}
         /\ Add(store, KeyOf(m), m)[KeyOf(m)] = m
         /\ \A k \in DOMAIN store \ {KeyOf(m)} : Add(store, KeyOf(m), m)[k] = store[k]
<1>1. PICK key : key = KeyOf(m) /\ key \in {"12D3KooW"} \X Nat
  BY Keys
<1>2. PICK keys \in SUBSET ({"12D3KooW"} \X Nat) : store \in [keys -> Message]
  BY DEF Store
<1>3. /\ keys \cup {key} \in SUBSET ({"12D3KooW"} \X Nat)
      /\ Add(store, key, m) \in [keys \cup {key} -> Message]
  BY <1>1, <1>2 DEF Add
<1>4. Add(store, key, m) \in Store
  BY <1>3, Zenon DEF Store
<1> QED
  BY <1>1, <1>2, <1>4 DEF Add

(* A step of one process that brings it no message that it has not yet,    *)
(* and leaves its counter, keeps the numbers in order.                     *)
LEMMA LocalStep ==
  ASSUME AppInv, UNCHANGED <<boot, clock>>,
         NEW p \in Process, NEW new \in NodeState, Becomes(p, new), boot[p] # "off",
         new.base = node[p].base, new.n = node[p].n,
         new.main = "none" <=> node[p].main = "none",
         \A m \in Message : Came(new, m) => Came(node[p], m),
         StoreOK(new), LoopOK(new)
  PROVE  AppInv'
<1>1. /\ node \in [Process -> NodeState]
      /\ node' = [node EXCEPT ![p] = new]
  BY DEF AppInv, AppTypeOK, Becomes
<1>2. node'[p] = new /\ \A q \in Process \ {p} : node'[q] = node[q]
  BY <1>1
<1>3. AppTypeOK'
  BY <1>1 DEF AppInv, AppTypeOK
<1>4. OffIsOff'
  BY <1>2 DEF AppInv, OffIsOff
<1>5. AllIssued'
  <2>1. \A m \in Message : Issued(m) => Issued(m)'
    BY <1>2 DEF Issued, Message
  <2>2. \A q \in Process, m \in Message : Came(node'[q], m) => Came(node[q], m)
    BY <1>2
  <2> QED
    BY <2>1, <2>2 DEF AppInv, AllIssued
<1>6. BehindTheClock'
  BY <1>2 DEF AppInv, BehindTheClock
<1>7. Distinct(new)
  BY DEF AppInv, Distinct
<1>8. \A q \in Process : Distinct(node'[q]) /\ StoreOK(node'[q]) /\ LoopOK(node'[q])
  BY <1>2, <1>7 DEF AppInv
<1> QED
  BY <1>3, <1>4, <1>5, <1>6, <1>8 DEF AppInv

(* A step that touches no messages at all is such a step. *)
LEMMA QuietStep ==
  ASSUME AppInv, UNCHANGED <<boot, clock>>,
         NEW p \in Process, NEW new \in NodeState, Becomes(p, new), boot[p] # "off",
         new.inbox = node[p].inbox, new.msg = node[p].msg, new.store = node[p].store,
         new.received = node[p].received, new.late = node[p].late,
         new.base = node[p].base, new.n = node[p].n,
         new.main = "none" <=> node[p].main = "none",
         new.sub = "store" <=> node[p].sub = "store",
         new.main = "none" => new.sub = "off" /\ new.pub = "off",
         new.late = 1 => new.cancelled /\ new.sub \in {"store", "top", "done"}
  PROVE  AppInv'
<1>1. StoreOK(node[p]) /\ LoopOK(node[p])
  BY DEF AppInv
<1>2. \A m \in Message : Came(new, m) => Came(node[p], m)
  BY DEF Came
<1>3. StoreOK(new) /\ LoopOK(new)
  BY <1>1 DEF StoreOK, LoopOK
<1> QED
  BY <1>2, <1>3, LocalStep

(* main and the goroutines, but for a message: a signal, the end of the    *)
(* goroutines, the cancellation (main, run, startSubscriberWithStore,      *)
(* printStatsPeriodically).                                                *)
LEMMA QuietSteps ==
  ASSUME AppInv, NEW p \in Process,
         \/ Signal(p) \/ FinalPrint(p) \/ CancelAll(p) \/ PublisherStops(p)
         \/ SubHead(p) \/ SubNextFails(p) \/ StatsStop(p)
  PROVE  AppInv'
<1>1. node[p] \in NodeState /\ (boot[p] = "off" => node[p] = Off)
      /\ (node[p].late = 1 => node[p].cancelled /\ node[p].sub \in {"store", "top", "done"})
      /\ node[p].late \in {0, 1}
      /\ (node[p].main = "none" => node[p].sub = "off" /\ node[p].pub = "off")
  BY DEF AppInv, AppTypeOK, OffIsOff, LoopOK
<1>2. CASE Signal(p)
  <2> DEFINE new == [node[p] EXCEPT !.sig = TRUE]
  <2>1. Becomes(p, new) /\ boot[p] # "off" /\ UNCHANGED <<boot, clock>>
    BY <1>1, <1>2, OffFields DEF Signal, outside, idVars
  <2>2. /\ new \in NodeState
        /\ new.inbox = node[p].inbox /\ new.msg = node[p].msg /\ new.store = node[p].store
        /\ new.received = node[p].received /\ new.late = node[p].late
        /\ new.base = node[p].base /\ new.n = node[p].n
        /\ new.main = "none" <=> node[p].main = "none"
        /\ new.sub = "store" <=> node[p].sub = "store"
        /\ new.main = "none" => new.sub = "off" /\ new.pub = "off"
        /\ new.late = 1 => new.cancelled /\ new.sub \in {"store", "top", "done"}
    BY <1>1, <1>2 DEF Signal, NodeState
  <2> QED
    BY <2>1, <2>2, QuietStep
<1>3. CASE FinalPrint(p)
  <2> DEFINE new == [node[p] EXCEPT !.main = "cancel"]
  <2>1. Becomes(p, new) /\ boot[p] # "off" /\ UNCHANGED <<boot, clock>>
    BY <1>1, <1>3, OffFields DEF FinalPrint, outside, idVars
  <2>2. /\ new \in NodeState
        /\ new.inbox = node[p].inbox /\ new.msg = node[p].msg /\ new.store = node[p].store
        /\ new.received = node[p].received /\ new.late = node[p].late
        /\ new.base = node[p].base /\ new.n = node[p].n
        /\ new.main = "none" <=> node[p].main = "none"
        /\ new.sub = "store" <=> node[p].sub = "store"
        /\ new.main = "none" => new.sub = "off" /\ new.pub = "off"
        /\ new.late = 1 => new.cancelled /\ new.sub \in {"store", "top", "done"}
    BY <1>1, <1>3 DEF FinalPrint, NodeState
  <2> QED
    BY <2>1, <2>2, QuietStep
<1>4. CASE CancelAll(p)
  <2> DEFINE new == [node[p] EXCEPT !.main = "wait", !.cancelled = TRUE]
  <2>1. Becomes(p, new) /\ boot[p] # "off" /\ UNCHANGED <<boot, clock>>
    BY <1>1, <1>4, OffFields DEF CancelAll, outside, idVars
  <2>2. /\ new \in NodeState
        /\ new.inbox = node[p].inbox /\ new.msg = node[p].msg /\ new.store = node[p].store
        /\ new.received = node[p].received /\ new.late = node[p].late
        /\ new.base = node[p].base /\ new.n = node[p].n
        /\ new.main = "none" <=> node[p].main = "none"
        /\ new.sub = "store" <=> node[p].sub = "store"
        /\ new.main = "none" => new.sub = "off" /\ new.pub = "off"
        /\ new.late = 1 => new.cancelled /\ new.sub \in {"store", "top", "done"}
    BY <1>1, <1>4 DEF CancelAll, NodeState
  <2> QED
    BY <2>1, <2>2, QuietStep
<1>5. CASE PublisherStops(p)
  <2> DEFINE new == [node[p] EXCEPT !.pub = "done"]
  <2>1. Becomes(p, new) /\ boot[p] # "off" /\ UNCHANGED <<boot, clock>>
    BY <1>1, <1>5, OffFields DEF PublisherStops, outside, idVars
  <2>2. /\ new \in NodeState
        /\ new.inbox = node[p].inbox /\ new.msg = node[p].msg /\ new.store = node[p].store
        /\ new.received = node[p].received /\ new.late = node[p].late
        /\ new.base = node[p].base /\ new.n = node[p].n
        /\ new.main = "none" <=> node[p].main = "none"
        /\ new.sub = "store" <=> node[p].sub = "store"
        /\ new.main = "none" => new.sub = "off" /\ new.pub = "off"
        /\ new.late = 1 => new.cancelled /\ new.sub \in {"store", "top", "done"}
    BY <1>1, <1>5 DEF PublisherStops, NodeState
  <2> QED
    BY <2>1, <2>2, QuietStep
<1>6. CASE SubHead(p)
  <2> DEFINE new == [node[p] EXCEPT !.sub = IF node[p].cancelled THEN "done" ELSE "next"]
  <2>1. Becomes(p, new) /\ boot[p] # "off" /\ UNCHANGED <<boot, clock>>
    BY <1>1, <1>6, OffFields DEF SubHead, outside, idVars
  <2>2. /\ new \in NodeState
        /\ new.inbox = node[p].inbox /\ new.msg = node[p].msg /\ new.store = node[p].store
        /\ new.received = node[p].received /\ new.late = node[p].late
        /\ new.base = node[p].base /\ new.n = node[p].n
        /\ new.main = "none" <=> node[p].main = "none"
        /\ new.sub = "store" <=> node[p].sub = "store"
        /\ new.main = "none" => new.sub = "off" /\ new.pub = "off"
        /\ new.late = 1 => new.cancelled /\ new.sub \in {"store", "top", "done"}
    BY <1>1, <1>6 DEF SubHead, NodeState
  <2> QED
    BY <2>1, <2>2, QuietStep
<1>7. CASE StatsStop(p)
  <2> DEFINE new == [node[p] EXCEPT !.stats = "done"]
  <2>1. Becomes(p, new) /\ boot[p] # "off" /\ UNCHANGED <<boot, clock>>
    BY <1>1, <1>7, OffFields DEF StatsStop, outside, idVars
  <2>2. /\ new \in NodeState
        /\ new.inbox = node[p].inbox /\ new.msg = node[p].msg /\ new.store = node[p].store
        /\ new.received = node[p].received /\ new.late = node[p].late
        /\ new.base = node[p].base /\ new.n = node[p].n
        /\ new.main = "none" <=> node[p].main = "none"
        /\ new.sub = "store" <=> node[p].sub = "store"
        /\ new.main = "none" => new.sub = "off" /\ new.pub = "off"
        /\ new.late = 1 => new.cancelled /\ new.sub \in {"store", "top", "done"}
    BY <1>1, <1>7 DEF StatsStop, NodeState
  <2> QED
    BY <2>1, <2>2, QuietStep
<1>8. CASE SubNextFails(p)
  <2>1. PICK place \in {"top", "done"} :
          /\ Becomes(p, [node[p] EXCEPT !.sub = place])
          /\ UNCHANGED <<boot, clock>>
    BY <1>8 DEF SubNextFails, Fault, outside, idVars
  <2> DEFINE new == [node[p] EXCEPT !.sub = place]
  <2>2. boot[p] # "off" /\ node[p].sub = "next"
    BY <1>1, <1>8, OffFields DEF SubNextFails
  <2>3. /\ new \in NodeState
        /\ new.inbox = node[p].inbox /\ new.msg = node[p].msg /\ new.store = node[p].store
        /\ new.received = node[p].received /\ new.late = node[p].late
        /\ new.base = node[p].base /\ new.n = node[p].n
        /\ new.main = "none" <=> node[p].main = "none"
        /\ new.sub = "store" <=> node[p].sub = "store"
        /\ new.main = "none" => new.sub = "off" /\ new.pub = "off"
        /\ new.late = 1 => new.cancelled /\ new.sub \in {"store", "top", "done"}
    BY <1>1, <2>2 DEF NodeState
  <2> QED
    BY <2>1, <2>2, <2>3, QuietStep
<1> QED
  BY <1>2, <1>3, <1>4, <1>5, <1>6, <1>7, <1>8

(* main serves: the counter starts with the clock, so behind every number  *)
(* that was given out, in an earlier start of the process too (NewGossip-  *)
(* Sub in main).                                                           *)
LEMMA ServeKeeps ==
  ASSUME AppInv, NEW p \in Process, Serve(p)
  PROVE  AppInv'
<1> DEFINE old == node[p]
           pub == Started(cmd[p].mode \in {"publisher", "both"})
           sub == IF cmd[p].mode \in {"subscriber", "both"} THEN "top" ELSE "off"
           new == [old EXCEPT !.main = "serve", !.pub = pub, !.sub = sub, !.stats = "run",
                              !.base = clock]
<1>1. /\ node \in [Process -> NodeState] /\ clock \in Nat
      /\ old \in NodeState /\ Distinct(old) /\ StoreOK(old) /\ LoopOK(old)
      /\ old.main = "none" /\ UNCHANGED boot /\ node' = [node EXCEPT ![p] = new]
  BY DEF AppInv, AppTypeOK, Serve, Becomes, idVars
<1>2. PICK d \in Nat \ {0} : clock' = clock + d
  BY ClockAssumption DEF Serve
<1>3. pub \in {"off", "run"} /\ sub \in {"off", "top"}
  BY DEF Started
<1>4. old.sub = "off" /\ old.n = 0 /\ old.late = 0
  BY <1>1 DEF LoopOK
<1> HIDE DEF pub, sub
<1>5. /\ new \in NodeState
      /\ new.inbox = old.inbox /\ new.store = old.store /\ new.received = old.received
      /\ new.msg = old.msg /\ new.late = old.late /\ new.n = 0 /\ new.base = clock
      /\ new.sub = sub /\ new.main = "serve"
  BY <1>1, <1>3, <1>4 DEF NodeState
<1> HIDE DEF new
<1>6. node'[p] = new /\ \A q \in Process \ {p} : node'[q] = node[q]
  BY <1>1
<1>7. clock' \in Nat /\ clock < clock'
  BY <1>1, <1>2
<1>8. AppTypeOK'
  BY <1>1, <1>5, <1>7 DEF AppTypeOK
<1>9. OffIsOff'
  BY <1>1, <1>6 DEF AppInv, OffIsOff, Serve
<1>10. \A q \in Process, m \in Message : Came(node'[q], m) => Came(node[q], m)
  BY <1>5, <1>6 DEF Came
<1>11. AllIssued'
  <2>1. ASSUME NEW m \in Message, Issued(m)
        PROVE  Issued(m)'
    <3>1. m.seq \in Nat /\ m.from \in Process /\ m.seq <= clock
      BY <2>1 DEF Message, Issued
    <3>2. m.seq <= clock'
      BY <1>1, <1>7, <3>1
    <3>3. CASE m.from = p
      <4>1. node'[m.from].base = clock /\ node'[m.from].n = 0
        BY <1>5, <1>6, <3>3
      <4>2. m.seq <= node'[m.from].base + node'[m.from].n
        BY <1>1, <3>1, <4>1
      <4> QED
        BY <3>2, <4>2 DEF Issued
    <3>4. CASE m.from # p
      BY <1>6, <2>1, <3>1, <3>2, <3>4 DEF Issued
    <3> QED
      BY <3>3, <3>4
  <2> QED
    BY <1>10, <2>1 DEF AppInv, AllIssued
<1>12. BehindTheClock'
  <2>1. ASSUME NEW q \in Process, node'[q].main # "none"
        PROVE  node'[q].base + node'[q].n <= clock'
    <3>1. CASE q = p
      BY <1>1, <1>5, <1>6, <1>7, <3>1
    <3>2. CASE q # p
      <4>1. node'[q] = node[q] /\ node[q].base \in Nat /\ node[q].n \in Nat
        BY <1>1, <1>6, <3>2 DEF NodeState
      <4>2. node[q].base + node[q].n <= clock
        BY <2>1, <4>1 DEF AppInv, BehindTheClock
      <4> QED
        BY <1>1, <1>7, <4>1, <4>2
    <3> QED
      BY <3>1, <3>2
  <2> QED
    BY <2>1 DEF BehindTheClock
<1>13. Distinct(new) /\ StoreOK(new) /\ LoopOK(new)
  BY <1>1, <1>3, <1>4, <1>5 DEF Distinct, Came, StoreOK, LoopOK
<1>14. \A q \in Process : Distinct(node'[q]) /\ StoreOK(node'[q]) /\ LoopOK(node'[q])
  BY <1>6, <1>13 DEF AppInv
<1> QED
  BY <1>8, <1>9, <1>11, <1>12, <1>14 DEF AppInv

(* Next returns a message: it goes from the channel to the handler.  After *)
(* the cancellation it is the last one (Next in startSubscriberWithStore). *)
LEMMA SubNextKeeps ==
  ASSUME AppInv, NEW p \in Process, SubNext(p)
  PROVE  AppInv'
<1> DEFINE old  == node[p]
           late == IF old.cancelled THEN old.late + 1 ELSE old.late
           new  == [old EXCEPT !.sub = "store", !.msg = Head(old.inbox), !.inbox = Tail(old.inbox),
                               !.received = old.received \cup {Head(old.inbox)}, !.late = late]
<1>1. old \in NodeState /\ StoreOK(old) /\ LoopOK(old)
  BY DEF AppInv, AppTypeOK
<1>2. /\ Becomes(p, new) /\ UNCHANGED <<boot, clock>>
      /\ old.sub = "next" /\ old.inbox # <<>> /\ old.inbox \in Seq(Message)
      /\ old.received \in SUBSET Message /\ old.late \in Nat
  BY <1>1 DEF SubNext, outside, idVars, NodeState
<1>3. boot[p] # "off"
  BY <1>2, OffFields DEF AppInv, OffIsOff
<1>4. /\ Head(old.inbox) \in Message /\ Head(old.inbox) = old.inbox[1]
      /\ Tail(old.inbox) \in Seq(Message) /\ Len(Tail(old.inbox)) = Len(old.inbox) - 1
      /\ Len(old.inbox) \in Nat \ {0}
      /\ \A i \in 1 .. Len(Tail(old.inbox)) : Tail(old.inbox)[i] = old.inbox[i + 1]
  BY <1>2, HeadTailProperties, EmptySeq, LenProperties
<1>5. late \in Nat /\ old.late = 0 /\ late \in {0, 1} /\ (late = 1 => old.cancelled)
  BY <1>1, <1>2 DEF LoopOK
<1> HIDE DEF late
<1>6. /\ new \in NodeState
      /\ new.sub = "store" /\ new.msg = Head(old.inbox) /\ new.inbox = Tail(old.inbox)
      /\ new.received = old.received \cup {Head(old.inbox)}
      /\ new.store = old.store /\ new.base = old.base /\ new.n = old.n
      /\ new.cancelled = old.cancelled /\ new.late = late
      /\ new.main = old.main /\ new.pub = old.pub
  BY <1>1, <1>2, <1>4, <1>5 DEF NodeState
<1> HIDE DEF new
<1>7. \A m \in Message : Came(new, m) => Came(old, m)
  <2>1. \A i \in 1 .. Len(new.inbox) : i + 1 \in 1 .. Len(old.inbox) /\ new.inbox[i] = old.inbox[i + 1]
    BY <1>4, <1>6
  <2>2. 1 \in 1 .. Len(old.inbox) /\ new.received = old.received \cup {old.inbox[1]}
    BY <1>4, <1>6
  <2> QED
    BY <2>1, <2>2 DEF Came
<1>8. StoreOK(new)
  BY <1>1, <1>2, <1>6 DEF StoreOK
<1>9. LoopOK(new)
  BY <1>1, <1>2, <1>5, <1>6 DEF LoopOK
<1> QED
  BY <1>2, <1>3, <1>6, <1>7, <1>8, <1>9, LocalStep DEF new

(* The handler stores the message: from now on there is an entry under its *)
(* key, and no other entry has changed (MessageStore.Add).                 *)
LEMMA SubStoreKeeps ==
  ASSUME AppInv, NEW p \in Process, SubStore(p)
  PROVE  AppInv'
<1> DEFINE old == node[p]
           store == Add(old.store, KeyOf(old.msg), old.msg)
           new == [old EXCEPT !.sub = "top", !.msg = NoMsg, !.store = store]
<1>1. /\ old \in NodeState /\ StoreOK(old) /\ LoopOK(old)
      /\ Becomes(p, new) /\ UNCHANGED <<boot, clock>> /\ old.sub = "store"
  BY DEF AppInv, AppTypeOK, SubStore, outside, idVars
<1>2. PICK msg \in Message : msg = old.msg /\ msg \in old.received
  BY <1>1 DEF StoreOK, NodeState
<1>3. boot[p] # "off"
  BY <1>1, OffFields DEF AppInv, OffIsOff
<1>4. PICK key : key = KeyOf(msg)
  OBVIOUS
<1>5. /\ store \in Store /\ DOMAIN store = DOMAIN old.store \cup {key} /\ store[key] = msg
      /\ \A k \in DOMAIN old.store \ {key} : store[k] = old.store[k]
  <2>1. old.store \in Store
    BY <1>1 DEF NodeState
  <2> QED
    BY <1>2, <1>4, <2>1, Added
<1> HIDE DEF store
<1>6. /\ new \in NodeState
      /\ new.sub = "top" /\ new.inbox = old.inbox /\ new.received = old.received
      /\ new.store = store /\ new.base = old.base /\ new.n = old.n
      /\ new.cancelled = old.cancelled /\ new.late = old.late
      /\ new.main = old.main /\ new.pub = old.pub
  BY <1>1, <1>5 DEF NodeState
<1> HIDE DEF new
<1>7. \A m \in Message : Came(new, m) => Came(old, m)
  BY <1>6 DEF Came
<1>8. StoreOK(new)
  <2>1. ASSUME NEW m \in new.received
        PROVE  KeyOf(m) \in DOMAIN new.store
    BY <1>1, <1>2, <1>4, <1>5, <1>6 DEF StoreOK
  <2>2. ASSUME NEW k \in DOMAIN new.store
        PROVE  new.store[k] \in new.received /\ KeyOf(new.store[k]) = k
    <3>1. CASE k = key
      BY <1>2, <1>4, <1>5, <1>6, <3>1
    <3>2. CASE k # key
      BY <1>1, <1>5, <1>6, <3>2 DEF StoreOK
    <3> QED
      BY <3>1, <3>2
  <2> QED
    BY <1>6, <2>1, <2>2 DEF StoreOK
<1>9. LoopOK(new)
  BY <1>1, <1>6 DEF LoopOK
<1> QED
  BY <1>1, <1>3, <1>6, <1>7, <1>8, <1>9, LocalStep DEF new

(* A publisher's tick: the number is one more than every one that its      *)
(* counter has given, and the clock has gone on by then (publishMessage).  *)
LEMMA TickKeeps ==
  ASSUME AppInv, starts \in [Process -> Nat], NEW p \in Process, Tick(p)
  PROVE  AppInv'
<1>1. PICK reached \in SUBSET Listeners(p) :
        node' = [q \in Process |->
                  [node[q] EXCEPT !.inbox = IF q \in reached THEN Append(@, NextMsg(p)) ELSE @,
                                  !.n     = IF q = p THEN @ + 1 ELSE @]]
  BY DEF Tick
<1>2. /\ node \in [Process -> NodeState] /\ clock \in Nat /\ UNCHANGED boot
      /\ node[p] \in NodeState /\ node[p].pub = "run" /\ node[p].base \in Nat /\ node[p].n \in Nat
  BY DEF AppInv, AppTypeOK, Tick, idVars, NodeState
<1>3. boot[p] # "off" /\ node[p].main # "none"
  BY <1>2, OffFields DEF AppInv, OffIsOff, LoopOK
<1>4. PICK d \in Nat \ {0} : clock' = clock + d
  BY ClockAssumption DEF Tick
<1>5. PICK seq \in Nat : seq = node[p].base + node[p].n + 1
  BY <1>2
<1>6. PICK msg \in Message : msg = NextMsg(p) /\ msg.from = p /\ msg.seq = seq
  <2>1. NextMsg(p) = [from |-> p, start |-> starts[p], seq |-> seq] /\ starts[p] \in Nat
    BY <1>5 DEF NextMsg
  <2>2. [from |-> p, start |-> starts[p], seq |-> seq] \in Message
    BY <2>1 DEF Message
  <2> QED
    BY <2>1, <2>2
<1>7. clock' \in Nat /\ clock < clock' /\ seq <= clock'
  <2>1. node[p].base + node[p].n <= clock
    BY <1>3 DEF AppInv, BehindTheClock
  <2> QED
    BY <1>2, <1>4, <1>5, <2>1
<1>8. ASSUME NEW q \in Process
      PROVE  /\ node'[q] \in NodeState
             /\ node'[q].inbox = IF q \in reached THEN Append(node[q].inbox, msg) ELSE node[q].inbox
             /\ node'[q].n = IF q = p THEN node[q].n + 1 ELSE node[q].n
             /\ node'[q].base = node[q].base /\ node'[q].main = node[q].main
             /\ node'[q].sub = node[q].sub /\ node'[q].pub = node[q].pub
             /\ node'[q].msg = node[q].msg /\ node'[q].store = node[q].store
             /\ node'[q].received = node[q].received
             /\ node'[q].late = node[q].late /\ node'[q].cancelled = node[q].cancelled
  <2> DEFINE inbox == IF q \in reached THEN Append(node[q].inbox, msg) ELSE node[q].inbox
             n     == IF q = p THEN node[q].n + 1 ELSE node[q].n
  <2>1. node[q] \in NodeState /\ node[q].inbox \in Seq(Message) /\ node[q].n \in Nat
    BY <1>2 DEF NodeState
  <2>2. inbox \in Seq(Message) /\ n \in Nat
    BY <1>6, <2>1, AppendProperties
  <2>3. node'[q] = [node[q] EXCEPT !.inbox = inbox, !.n = n]
    BY <1>1, <1>6
  <2> HIDE DEF inbox, n
  <2>4. /\ node'[q] \in NodeState /\ node'[q].inbox = inbox /\ node'[q].n = n
        /\ node'[q].base = node[q].base /\ node'[q].main = node[q].main
        /\ node'[q].sub = node[q].sub /\ node'[q].pub = node[q].pub
        /\ node'[q].msg = node[q].msg /\ node'[q].store = node[q].store
        /\ node'[q].received = node[q].received
        /\ node'[q].late = node[q].late /\ node'[q].cancelled = node[q].cancelled
    BY <2>1, <2>2, <2>3 DEF NodeState
  <2> QED
    BY <2>4 DEF inbox, n
<1>9. ASSUME NEW q \in Process, NEW m \in Message, Came(node'[q], m)
      PROVE  Came(node[q], m) \/ m = msg
  <2>1. CASE q \notin reached \/ m \in node'[q].received
    BY <1>8, <1>9, <2>1 DEF Came
  <2>2. CASE q \in reached /\ m \notin node'[q].received
    <3>1. PICK s, t : s = node[q].inbox /\ t = node'[q].inbox /\ s \in Seq(Message)
      BY <1>2 DEF NodeState
    <3>2. t = Append(s, msg)
      BY <1>8, <2>2, <3>1
    <3>3. /\ Len(s) \in Nat /\ Len(t) = Len(s) + 1
          /\ \A i \in 1 .. Len(s) + 1 : t[i] = IF i = Len(s) + 1 THEN msg ELSE s[i]
      BY <3>2, AppendProperties, LenProperties
    <3>4. PICK i \in 1 .. Len(s) + 1 : m = t[i]
      BY <1>9, <2>2, <3>1, <3>3 DEF Came
    <3>5. m = msg \/ (i \in 1 .. Len(s) /\ m = s[i])
      BY <3>3, <3>4
    <3> QED
      BY <3>1, <3>5 DEF Came
  <2> QED
    BY <2>1, <2>2
<1>10. AppTypeOK'
  <2>1. node' = [q \in Process |-> node'[q]]
    BY <1>1
  <2> QED
    BY <1>7, <1>8, <2>1 DEF AppTypeOK
<1>11. OffIsOff'
  <2>1. ASSUME NEW q \in Process, boot[q] = "off"
        PROVE  node'[q] = Off
    <3>1. node[q] = Off /\ q # p /\ q \notin reached
      BY <1>3, <2>1, OffFields DEF AppInv, OffIsOff, Listeners
    <3>2. node'[q] = [node[q] EXCEPT !.inbox = @, !.n = @]
      BY <1>1, <3>1
    <3> QED
      BY <3>1, <3>2 DEF Off
  <2> QED
    BY <1>2, <2>1 DEF OffIsOff
<1>12. AllIssued'
  <2>1. ASSUME NEW m \in Message, Issued(m) \/ m = msg
        PROVE  Issued(m)'
    <3>1. m.seq \in Nat /\ m.from \in Process /\ m.seq <= clock'
      BY <1>2, <1>6, <1>7, <2>1 DEF Message, Issued
    <3>2. node[m.from].base \in Nat /\ node[m.from].n \in Nat
      BY <1>2, <3>1 DEF NodeState
    <3>3. /\ node'[m.from].main = node[m.from].main /\ node'[m.from].base = node[m.from].base
          /\ node'[m.from].n = IF m.from = p THEN node[m.from].n + 1 ELSE node[m.from].n
      BY <1>8, <3>1
    <3>4. node[m.from].main # "none" => m.seq <= node'[m.from].base + node'[m.from].n
      BY <1>5, <1>6, <2>1, <3>1, <3>2, <3>3 DEF Issued
    <3> QED
      BY <3>1, <3>3, <3>4 DEF Issued
  <2> QED
    BY <1>9, <2>1 DEF AppInv, AllIssued
<1>13. BehindTheClock'
  <2>1. ASSUME NEW q \in Process, node'[q].main # "none"
        PROVE  node'[q].base + node'[q].n <= clock'
    <3>1. node[q].base \in Nat /\ node[q].n \in Nat /\ node[q].base + node[q].n <= clock
      BY <1>2, <1>8, <2>1 DEF AppInv, BehindTheClock, NodeState
    <3>2. CASE q = p
      BY <1>5, <1>7, <1>8, <3>1, <3>2
    <3>3. CASE q # p
      BY <1>2, <1>7, <1>8, <3>1, <3>3
    <3> QED
      BY <3>2, <3>3
  <2> QED
    BY <2>1 DEF BehindTheClock
<1>14. ASSUME NEW q \in Process, NEW m \in Message, Came(node[q], m), m.from = p
       PROVE  m.seq # msg.seq
  <2>1. m.seq \in Nat /\ m.seq <= node[p].base + node[p].n
    BY <1>3, <1>14 DEF AppInv, AllIssued, Issued, Message
  <2> QED
    BY <1>2, <1>5, <1>6, <2>1
<1>15. ASSUME NEW q \in Process
       PROVE  Distinct(node'[q]) /\ StoreOK(node'[q]) /\ LoopOK(node'[q])
  <2>1. Distinct(node[q]) /\ StoreOK(node[q]) /\ LoopOK(node[q])
    BY DEF AppInv
  <2>2. Distinct(node'[q])
    BY <1>6, <1>9, <1>14, <2>1 DEF Distinct
  <2>3. StoreOK(node'[q])
    BY <1>8, <2>1 DEF StoreOK
  <2>4. node'[q].main = "none" => node'[q].n = 0
    BY <1>3, <1>8, <2>1 DEF LoopOK
  <2>5. LoopOK(node'[q])
    BY <1>8, <2>1, <2>4 DEF LoopOK
  <2> QED
    BY <2>2, <2>3, <2>5
<1> QED
  BY <1>10, <1>11, <1>12, <1>13, <1>15 DEF AppInv

(* A node that is off has received nothing. *)
LEMMA OffOK == Distinct(Off) /\ StoreOK(Off) /\ LoopOK(Off) /\ \A m : ~Came(Off, m)
<1>1. Len(Off.inbox) = 0
  BY OffFields, EmptySeq
<1>2. DOMAIN Off.store = {}
  BY OffFields DEF EmptyStore
<1>3. \A m : ~Came(Off, m)
  BY <1>1, OffFields DEF Came
<1> QED
  BY <1>2, <1>3, OffFields DEF Distinct, StoreOK, LoopOK

(* A process ends and takes its store and its counter with it.  The        *)
(* numbers it has given out are behind the clock (main).                   *)
LEMMA EndKeeps ==
  ASSUME AppInv, IdentityInv, NEW p \in Process, Ends(p), Becomes(p, Off), UNCHANGED clock
  PROVE  AppInv'
<1>1. /\ node \in [Process -> NodeState] /\ boot \in [Process -> Place]
      /\ node' = [node EXCEPT ![p] = Off] /\ boot' = [boot EXCEPT ![p] = "off"]
  BY DEF AppInv, AppTypeOK, IdentityInv, IdentityTypeOK, Becomes, Ends, Goto
<1>2. node'[p] = Off /\ \A q \in Process \ {p} : node'[q] = node[q]
  BY <1>1
<1>3. AppTypeOK'
  BY <1>1, OffFields DEF AppInv, AppTypeOK
<1>4. OffIsOff'
  BY <1>1 DEF AppInv, OffIsOff
<1>5. AllIssued'
  <2>1. \A q \in Process, m \in Message : Came(node'[q], m) => Came(node[q], m)
    BY <1>2, OffOK
  <2>2. \A m \in Message : Issued(m) => Issued(m)'
    BY <1>2, OffFields DEF Issued, Message
  <2> QED
    BY <2>1, <2>2 DEF AppInv, AllIssued
<1>6. BehindTheClock'
  BY <1>2, OffFields DEF AppInv, BehindTheClock
<1>7. \A q \in Process : Distinct(node'[q]) /\ StoreOK(node'[q]) /\ LoopOK(node'[q])
  BY <1>2, OffOK DEF AppInv
<1> QED
  BY <1>3, <1>4, <1>5, <1>6, <1>7 DEF AppInv

(* The steps on the way to a key leave the goroutines alone (main,         *)
(* createHost).                                                            *)
LEMMA BootKeeps ==
  ASSUME AppInv, IdentityInv, NEW p \in Process, Start(p) \/ WriteFails(p) \/ Boot(p),
         UNCHANGED <<node, clock>>
  PROVE  AppInv'
<1>1. PICK place \in Place \ {"off"} : boot' = [boot EXCEPT ![p] = place]
  BY DEF Start, WriteFails, Boot, LoadPrivateKey, CreatePeerID, WritePeerJson, ReloadPrivateKey,
         loadOrGenerateKey, GenerateKey, WriteKey, LoadPeerID, Takes, Misses, Goto, Place
<1>2. OffIsOff'
  BY <1>1 DEF AppInv, OffIsOff, IdentityInv, IdentityTypeOK
<1> QED
  BY <1>2 DEF AppInv, AppTypeOK, AllIssued, Issued, BehindTheClock

(* For PeerIdentity every step of the program is one of its own, or none. *)
LEMMA StepOfIdentity ==
  ASSUME [Next]_appVars
  PROVE  IdentityStep
<1>1. ASSUME NEW p \in Process,
             \/ Tick(p) \/ Signal(p) \/ Serve(p) \/ FinalPrint(p) \/ CancelAll(p)
             \/ PublisherStops(p) \/ SubHead(p) \/ SubNext(p) \/ SubNextFails(p) \/ SubStore(p)
             \/ StatsStop(p)
      PROVE  IdentityStep
  BY <1>1 DEF IdentityStep, Tick, Signal, Serve, FinalPrint, CancelAll, PublisherStops, SubHead,
              SubNext, SubNextFails, SubStore, StatsStop, Fault, outside, idVars
<1>2. ASSUME NEW p \in Process,
             \/ Start(p) \/ WriteFails(p) \/ Boot(p) \/ Goodbye(p) \/ Exits(p) \/ Crash(p)
      PROVE  IdentityStep
  BY <1>2 DEF IdentityStep, Goodbye, Exits, Crash
<1>3. CASE UNCHANGED appVars
  BY <1>3 DEF IdentityStep, appVars, idVars
<1> QED
  BY <1>1, <1>2, <1>3 DEF Next, Progress

(* Every step of the program keeps both invariants. *)
LEMMA AppKept ==
  ASSUME IdentityInv, AppInv, [Next]_appVars
  PROVE  IdentityInv' /\ AppInv'
<1>1. IdentityInv'
  BY StepOfIdentity, IdentityKept
<1>2. ASSUME NEW p \in Process,
             \/ (Start(p) \/ WriteFails(p)) /\ UNCHANGED <<node, clock>>
             \/ Progress(p)
             \/ Tick(p) \/ Signal(p) \/ Crash(p)
      PROVE  AppInv'
  <2>1. CASE (Start(p) \/ WriteFails(p) \/ Boot(p)) /\ UNCHANGED <<node, clock>>
    BY <2>1, BootKeeps
  <2>2. CASE Goodbye(p) \/ Exits(p) \/ Crash(p)
    BY <2>2, EndKeeps DEF Goodbye, Exits, Crash
  <2>3. CASE Tick(p)
    BY <2>3, TickKeeps DEF IdentityInv, IdentityTypeOK
  <2>4. CASE Serve(p) \/ SubNext(p) \/ SubStore(p)
    BY <2>4, ServeKeeps, SubNextKeeps, SubStoreKeeps
  <2>5. CASE \/ Signal(p) \/ FinalPrint(p) \/ CancelAll(p) \/ PublisherStops(p)
             \/ SubHead(p) \/ SubNextFails(p) \/ StatsStop(p)
    BY <2>5, QuietSteps
  <2> QED
    BY <1>2, <2>1, <2>2, <2>3, <2>4, <2>5 DEF Progress
<1>3. CASE UNCHANGED appVars
  BY <1>1, <1>3 DEF appVars, idVars, AppInv, AppTypeOK, OffIsOff, AllIssued, Issued, BehindTheClock
<1> QED
  BY <1>1, <1>2, <1>3 DEF Next

(* Nothing has come and nothing is running at first. *)
LEMMA AppInitially ==
  ASSUME Init
  PROVE  IdentityInv /\ AppInv
<1>1. IdentityInv
  BY IdentityInitially DEF Init
<1>2. \A p \in Process : node[p] = Off
  BY DEF Init
<1>3. AppTypeOK
  BY OffFields DEF Init, AppTypeOK
<1>4. OffIsOff /\ BehindTheClock
  BY <1>2, OffFields DEF OffIsOff, BehindTheClock
<1>5. AllIssued /\ \A p \in Process : Distinct(node[p]) /\ StoreOK(node[p]) /\ LoopOK(node[p])
  BY <1>2, OffOK DEF AllIssued
<1> QED
  BY <1>1, <1>3, <1>4, <1>5 DEF AppInv

(* The two invariants hold throughout. *)
THEOREM AppInvariant == Spec => [](IdentityInv /\ AppInv)
BY AppInitially, AppKept, PTL DEF Spec

(* In the processes of main.go, too, Peer/Peer.json stays as it is once it *)
(* holds a key, and that is the key of every process without -key, unless  *)
(* creations of the file overlapped (createHost, CreatePeerID,             *)
(* LoadPeerID).                                                            *)
THEOREM KeyFileIsStable == Spec => KeyFileStable
<1>1. ASSUME IdentityInv, IdentityInv', [Next]_appVars
      PROVE  KeyFileKept
  BY <1>1, StepOfIdentity, KeyFileIsKept
<1> QED
  BY <1>1, AppInvariant, PTL DEF Spec, KeyFileStable, KeyFileKept

(* A key cannot be read only when another process was creating the file,   *)
(* or, with -key, when its creation was cut short (createHost against      *)
(* loadOrGenerateKey).                                                     *)
THEOREM CrashesHeal == Spec => []CrashHeals
<1>1. IdentityInv => CrashHeals
  BY DEF IdentityInv
<1> QED
  BY <1>1, AppInvariant, PTL

(* The messages of one process never replace each other in a store, not    *)
(* even after a restart, however the clock goes on: all that has its key   *)
(* is of another process (startSubscriberWithStore, MessageStore.Add).     *)
THEOREM SendersKeepTheirEntries == Spec => []OnlyOthersOverwrite
<1>1. ASSUME AppInv
      PROVE  OnlyOthersOverwrite
  <2>1. ASSUME NEW p \in Process, NEW m \in Handled(p), NEW entry, entry = node[p].store[KeyOf(m)]
        PROVE  entry = m \/ entry.from # m.from
    <3>1. /\ m \in node[p].received /\ (node[p].sub = "store" => m # node[p].msg)
          /\ node[p].received \in SUBSET Message /\ Distinct(node[p]) /\ StoreOK(node[p])
      BY <1>1 DEF Handled, AppInv, AppTypeOK, NodeState
    <3>2. KeyOf(m) \in DOMAIN node[p].store
      BY <3>1 DEF StoreOK
    <3>3. entry \in node[p].received /\ KeyOf(entry) = KeyOf(m)
      BY <2>1, <3>1, <3>2 DEF StoreOK
    <3>4. m \in Message /\ entry \in Message /\ entry.seq = m.seq
      BY <3>1, <3>3, Keys
    <3> QED
      BY <3>1, <3>3, <3>4 DEF Distinct, Came
  <2> QED
    BY <2>1 DEF OnlyOthersOverwrite
<1> QED
  BY <1>1, AppInvariant, PTL

(* At most one message is taken after the cancellation, for any size of    *)
(* the channel (startSubscriberWithStore).                                 *)
THEOREM SubscriberStopsPromptly == Spec => []StopsPromptly
<1>1. AppInv => StopsPromptly
  BY DEF AppInv, LoopOK, StopsPromptly
<1> QED
  BY <1>1, AppInvariant, PTL
=============================================================================

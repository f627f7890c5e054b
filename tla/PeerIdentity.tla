---------------------------- MODULE PeerIdentity ----------------------------
(***************************************************************************)
(* How the processes that are started in one directory get their keys:     *)
(* Peer/Peer.go with createHost and loadOrGenerateKey of main.go.  Without *)
(* -key a process takes the key in Peer/Peer.json, which the first one     *)
(* creates; with -key the one in a file of its own, which it creates.      *)
(*                                                                         *)
(* Files are read in one step.  os.WriteFile first truncates the file and  *)
(* then writes it; other processes run in between, and a crash there       *)
(* leaves a file that cannot be read.                                      *)
(***************************************************************************)
EXTENDS Integers, FiniteSets

CONSTANTS Process,
          Setup,     \* the setups: a command line for every process, with a
                     \* bound on its starts, and the key files that there are
          MaxFaults  \* bound on the failures that the system inflicts

ASSUME FaultAssumption == MaxFaults \in Nat

\* Finitely many key files from before, and a key in each of them.
ASSUME SetupAssumption ==
  \A s \in Setup : /\ IsFiniteSet(DOMAIN s.dir)
                   /\ \A f \in DOMAIN s.dir : s.dir[f] \in Nat \ {0}

PeerJson == "Peer/Peer.json"

\* A file holds a key, which is a positive number, or
NoFile == 0
Empty  == -1
NoKey  == 0

VARIABLES cmd,      \* cmd[p] is p's command line: its -key flag, "" for none, and more
          file,     \* the content of each file
          boot,     \* boot[p] is where p is on its way to its key
          host,     \* host[p] is the key, and so the ID, of p's host
          gen,      \* gen[p] is the key that p has generated since its start
          made,     \* how many keys were generated
          starts,   \* how often each process was started
          faults,   \* the failures so far
          overlap,  \* history: one process met another that was creating the file
          torn      \* history: creating the file was cut short

idVars == <<cmd, file, boot, host, gen, made, starts, faults, overlap, torn>>

KeyFile(p) == cmd[p].key

HasFlag(p) == KeyFile(p) # ""

Path == {PeerJson} \cup {KeyFile(p) : p \in {p \in Process : HasFlag(p)}}

\* A directory with or without key files from before.
IdentityInit ==
  /\ \E s \in Setup :
       /\ cmd  = s.cmd
       /\ file = [f \in Path |-> IF f \in DOMAIN s.dir THEN s.dir[f] ELSE NoFile]
       /\ made = Cardinality(DOMAIN s.dir)
  /\ boot    = [p \in Process |-> "off"]
  /\ host    = [p \in Process |-> NoKey]
  /\ gen     = [p \in Process |-> NoKey]
  /\ starts  = [p \in Process |-> 0]
  /\ faults  = 0
  /\ overlap = [f \in Path |-> FALSE]
  /\ torn    = [f \in Path |-> FALSE]

Readable(f) == file[f] \notin {NoFile, Empty}

Goto(p, place) == boot' = [boot EXCEPT ![p] = place]

Start(p) ==
  /\ boot[p] = "off"
  /\ starts[p] < cmd[p].starts
  /\ starts' = [starts EXCEPT ![p] = @ + 1]
  /\ Goto(p, IF HasFlag(p) THEN "loadKey" ELSE "load")
  /\ UNCHANGED <<cmd, file, host, gen, made, faults, overlap, torn>>

\* p is creating file f.
Creating(p, f) ==
  \/ f = PeerJson /\ boot[p] \in {"create", "write"}
  \/ f = KeyFile(p) /\ boot[p] \in {"createKey", "writeKey"}

\* p finds that file f holds no key, maybe because another one is creating it.
Misses(p, f, place) ==
  /\ Goto(p, place)
  /\ overlap' = [overlap EXCEPT ![f] = @ \/ \E q \in Process \ {p} : Creating(q, f)]
  /\ UNCHANGED host

\* p takes the key in file f for its host.
Takes(p, f) ==
  /\ host' = [host EXCEPT ![p] = file[f]]
  /\ Goto(p, "peerID")
  /\ UNCHANGED overlap

\* Faulty variant: a file that cannot be read is an error.
LoadPrivateKeyStrict(p) ==
  /\ boot[p] = "load"
  /\ \/ Readable(PeerJson) /\ Takes(p, PeerJson)
     \/ file[PeerJson] = Empty /\ Goto(p, "unreadable") /\ UNCHANGED <<host, overlap>>
     \/ file[PeerJson] = NoFile /\ Misses(p, PeerJson, "create")
  /\ UNCHANGED <<cmd, file, gen, made, starts, faults, torn>>

(* createHost without -key: whatever is wrong with the file, a new one is  *)
(* created.                                                                *)
LoadPrivateKey(p) ==
  /\ boot[p] = "load"
  /\ \/ Readable(PeerJson) /\ Takes(p, PeerJson)
     \/ ~Readable(PeerJson) /\ Misses(p, PeerJson, "create")
  /\ UNCHANGED <<cmd, file, gen, made, starts, faults, torn>>

(* CreatePeerID: a key is generated and the file truncated, *)
CreatePeerID(p) ==
  /\ boot[p] = "create"
  /\ made' = made + 1
  /\ gen'  = [gen EXCEPT ![p] = made']
  /\ file' = [file EXCEPT ![PeerJson] = Empty]
  /\ Goto(p, "write")
  /\ UNCHANGED <<cmd, host, starts, faults, overlap, torn>>

(* and written.  createHost then loads it again; LoadPeerID does not. *)
WritePeerJson(p) ==
  /\ boot[p] = "write"
  /\ file' = [file EXCEPT ![PeerJson] = gen[p]]
  /\ Goto(p, IF host[p] = NoKey THEN "reload" ELSE "up")
  /\ UNCHANGED <<cmd, host, gen, made, starts, faults, overlap, torn>>

(* The key that is loaded need not be the one that was written. *)
ReloadPrivateKey(p) ==
  /\ boot[p] = "reload"
  /\ \/ Readable(PeerJson) /\ Takes(p, PeerJson)
     \/ ~Readable(PeerJson) /\ Goto(p, "unreadable") /\ UNCHANGED <<host, overlap>>
  /\ UNCHANGED <<cmd, file, gen, made, starts, faults, torn>>

(* With -key: a file that is there but cannot be read is an error. *)
loadOrGenerateKey(p) ==
  /\ boot[p] = "loadKey"
  /\ \/ Readable(KeyFile(p)) /\ Takes(p, KeyFile(p))
     \/ file[KeyFile(p)] = Empty /\ Misses(p, KeyFile(p), "unreadable")
     \/ file[KeyFile(p)] = NoFile /\ Misses(p, KeyFile(p), "createKey")
  /\ UNCHANGED <<cmd, file, gen, made, starts, faults, torn>>

GenerateKey(p) ==
  /\ boot[p] = "createKey"
  /\ made' = made + 1
  /\ gen'  = [gen EXCEPT ![p] = made']
  /\ file' = [file EXCEPT ![KeyFile(p)] = Empty]
  /\ Goto(p, "writeKey")
  /\ UNCHANGED <<cmd, host, starts, faults, overlap, torn>>

(* The generated key is used as it is. *)
WriteKey(p) ==
  /\ boot[p] = "writeKey"
  /\ file' = [file EXCEPT ![KeyFile(p)] = gen[p]]
  /\ host' = [host EXCEPT ![p] = gen[p]]
  /\ Goto(p, "peerID")
  /\ UNCHANGED <<cmd, gen, made, starts, faults, overlap, torn>>

\* Faulty variant: a new file every time.
LoadPeerIDCreates(p) ==
  /\ boot[p] = "peerID"
  /\ Misses(p, PeerJson, "create")
  /\ UNCHANGED <<cmd, file, gen, made, starts, faults, torn>>

(* LoadPeerID, only for the log: it creates the file when there is none.   *)
(* That it cannot be read is logged.                                       *)
LoadPeerID(p) ==
  /\ boot[p] = "peerID"
  /\ \/ file[PeerJson] = NoFile /\ Misses(p, PeerJson, "create")
     \/ file[PeerJson] # NoFile /\ Goto(p, "up") /\ UNCHANGED <<host, overlap>>
  /\ UNCHANGED <<cmd, file, gen, made, starts, faults, torn>>

\* Creating a file was cut short: if it was truncated already, it stays so.
CutShort(p) ==
  torn' = [f \in Path |->
             torn[f] \/ (Creating(p, f) /\ boot[p] \in {"write", "writeKey"})]

(* os.WriteFile fails.  For LoadPeerID that is only logged. *)
WriteFails(p) ==
  /\ boot[p] \in {"create", "write", "createKey", "writeKey"}
  /\ faults < MaxFaults
  /\ faults' = faults + 1
  /\ CutShort(p)
  /\ gen' = [gen EXCEPT ![p] = NoKey]
  /\ Goto(p, IF host[p] = NoKey THEN "failed" ELSE "up")
  /\ UNCHANGED <<cmd, file, host, made, starts, overlap>>

(* The process ends: log.Fatalf, a return from main, or a crash. *)
Ends(p) ==
  /\ boot[p] # "off"
  /\ Goto(p, "off")
  /\ host' = [host EXCEPT ![p] = NoKey]
  /\ gen'  = [gen EXCEPT ![p] = NoKey]
  /\ CutShort(p)
  /\ UNCHANGED <<cmd, file, made, starts, faults, overlap>>

Boot(p) ==
  \/ LoadPrivateKey(p) \/ CreatePeerID(p) \/ WritePeerJson(p) \/ ReloadPrivateKey(p)
  \/ loadOrGenerateKey(p) \/ GenerateKey(p) \/ WriteKey(p)
  \/ LoadPeerID(p)

IdentityNext == \E p \in Process : Start(p) \/ Boot(p) \/ WriteFails(p) \/ Ends(p)

IdentitySpec == IdentityInit /\ [][IdentityNext]_idVars

-----------------------------------------------------------------------------

(* Unless two processes create it at the same time, Peer/Peer.json is      *)
(* never replaced once it holds a key: a process without -key has the key  *)
(* that is in it, and gets the same ID when it is started again, across    *)
(* crashes, failed writes and the starts of other processes (createHost,   *)
(* CreatePeerID, LoadPeerID).                                              *)
KeyFileStable ==
  [][~overlap'[PeerJson] =>
       /\ Readable(PeerJson) => file'[PeerJson] = file[PeerJson]
       /\ \A p \in Process :
            ~HasFlag(p) /\ host'[p] # NoKey => host'[p] = file'[PeerJson]]_idVars

(* A process fails to read a key only when another one was creating the    *)
(* file at the same time, or when it was started with -key and creating    *)
(* that file was cut short before.  In particular a crash never keeps a    *)
(* process without -key from starting again (createHost against            *)
(* loadOrGenerateKey).                                                     *)
CrashHeals ==
  \A p \in Process : boot[p] = "unreadable" =>
    IF HasFlag(p) THEN overlap[KeyFile(p)] \/ torn[KeyFile(p)] ELSE overlap[PeerJson]
=============================================================================

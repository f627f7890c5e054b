------------------------------ MODULE CRDTMain ------------------------------
(***************************************************************************)
(* crdtMain of main_crdt.go with the message store of CRDTSync/types.go    *)
(* and the printers of CRDTSync/utils.go: the subscriber goroutine stores  *)
(* every message of another node, the statistics goroutine counts them,    *)
(* and main prints them all before it stops the node.                      *)
(*                                                                         *)
(* The store is a map without a lock.  A write takes time; Go's runtime    *)
(* ends the process ("concurrent map iteration and map write") when an     *)
(* iteration meets one, if it notices, which it need not.  The length of a *)
(* map may be read at any time.                                            *)
(***************************************************************************)
EXTENDS Integers, FiniteSets

CONSTANTS CRDTPrintStore, \* the -crdtprint flag
          MaxMsgs         \* bound on the messages of other nodes

VARIABLES main,       \* "serve", "print", "iterate", "stop", "done", or "killed"
          sig,        \* a signal is in the channel
          cancelled,  \* the node's own context is: NewNode makes it, Stop cancels it
          sub,        \* the subscriber goroutine: "next", "write" or "done"
          stats,      \* the statistics goroutine: "run" or "done"
          messages,   \* the message store
          due,        \* the keys that were there when main began to print
          printed,    \* the keys that main has printed
          shown,      \* how many messages the statistics have shown last
          arrived     \* how many messages have arrived

vars == <<main, sig, cancelled, sub, stats, messages, due, printed, shown, arrived>>

Init ==
  /\ main = "serve" /\ sub = "next" /\ stats = "run"
  /\ sig = FALSE /\ cancelled = FALSE
  /\ messages = {} /\ due = {} /\ printed = {} /\ shown = 0 /\ arrived = 0

Running == main \notin {"done", "killed"}

-----------------------------------------------------------------------------
(* The goroutines *)

(* A message of another node, taken even if the context is cancelled at    *)
(* the same time.  Its key has the time at which it was sent; Add begins.  *)
AddBegins ==
  /\ Running /\ sub = "next"
  /\ arrived < MaxMsgs
  /\ arrived' = arrived + 1
  /\ sub' = "write"
  /\ UNCHANGED <<main, sig, cancelled, stats, messages, due, printed, shown>>

Add ==
  /\ Running /\ sub = "write"
  /\ messages' = messages \cup {arrived}
  /\ sub' = "next"
  /\ UNCHANGED <<main, sig, cancelled, stats, due, printed, shown, arrived>>

SubscriberStops ==
  /\ Running /\ sub = "next" /\ cancelled
  /\ sub' = "done"
  /\ UNCHANGED <<main, sig, cancelled, stats, messages, due, printed, shown, arrived>>

Count == Cardinality(messages)

PrintStats ==
  /\ Running /\ stats = "run"
  /\ shown' = Count
  /\ UNCHANGED <<main, sig, cancelled, sub, stats, messages, due, printed, arrived>>

StatsPrinterStops ==
  /\ Running /\ stats = "run" /\ cancelled
  /\ stats' = "done"
  /\ UNCHANGED <<main, sig, cancelled, sub, messages, due, printed, shown, arrived>>

-----------------------------------------------------------------------------
(* main *)

Signal ==
  /\ Running /\ ~sig
  /\ sig' = TRUE
  /\ UNCHANGED <<main, cancelled, sub, stats, messages, due, printed, shown, arrived>>

(* The signal, or five seconds with -crdtprint: PrintFinalState begins,    *)
(* with the goroutines still running.                                      *)
Shutdown ==
  /\ main = "serve"
  /\ sig \/ CRDTPrintStore
  /\ main' = "print"
  /\ UNCHANGED <<sig, cancelled, sub, stats, messages, due, printed, shown, arrived>>

\* After PrintFinalState: with -crdtprint main returns, without Stop.
AfterPrint == IF CRDTPrintStore THEN "done" ELSE "stop"

PrintMessageStore ==
  /\ main = "print"
  /\ main' = IF Count = 0 THEN AfterPrint ELSE "iterate"
  /\ due'  = messages
  /\ UNCHANGED <<sig, cancelled, sub, stats, messages, printed, shown, arrived>>

(* The iteration over GetAll: one key after the other, in any order; new   *)
(* keys may or may not turn up.                                            *)
PrintMessage ==
  /\ main = "iterate"
  /\ \/ \E key \in messages \ printed : printed' = printed \cup {key} /\ UNCHANGED main
     \/ due \subseteq printed /\ main' = AfterPrint /\ UNCHANGED printed
     \/ sub = "write" /\ main' = "killed" /\ UNCHANGED printed
  /\ UNCHANGED <<sig, cancelled, sub, stats, messages, due, shown, arrived>>

(* Stop cancels the context; crdtMain does not wait for the goroutines. *)
Stop ==
  /\ main = "stop" /\ ~cancelled
  /\ cancelled' = TRUE
  /\ UNCHANGED <<main, sig, sub, stats, messages, due, printed, shown, arrived>>

Return ==
  /\ main = "stop" /\ cancelled
  /\ main' = "done"
  /\ UNCHANGED <<sig, cancelled, sub, stats, messages, due, printed, shown, arrived>>

Next ==
  \/ AddBegins \/ Add \/ SubscriberStops \/ PrintStats \/ StatsPrinterStops
  \/ Signal \/ Shutdown \/ PrintMessageStore \/ PrintMessage \/ Stop \/ Return

Spec == Init /\ [][Next]_vars

-----------------------------------------------------------------------------

(* README.md, line 150: "The application handles graceful shutdown on      *)
(* SIGINT/SIGTERM signals".  The runtime never ends the process while it   *)
(* prints its final state (PrintMessageStore against receiveCRDTMessage).  *)
GracefulShutdown == main # "killed"
=============================================================================

----------------------------- MODULE Publisher -----------------------------
(***************************************************************************)
(* A publisher of Publisher/Publisher.go.  It is driven in one of two      *)
(* ways: StartPublisher makes one of its own and runs its loop; NewPub-    *)
(* lisher gives one to a program, whose goroutines call PublishCustom-     *)
(* Message, PublishBatch and PublishWithRetry and read the metrics.        *)
(*                                                                         *)
(* The metrics are four separate atomics.  Every atomic operation, every   *)
(* Publish and every look at the clock is a step of its own.  A message is *)
(* its length; its identity is the call that it belongs to.                *)
(***************************************************************************)
EXTENDS Integers, Sequences, FiniteSets

CONSTANTS Caller,      \* the goroutines that call the methods
          Length,      \* the lengths of custom messages
          TickLength,  \* the length of the loop's messages
          Batch,       \* the arguments of PublishBatch, sequences of lengths
          MaxRetries,  \* the arguments of PublishWithRetry
          MaxCalls,    \* bound on the calls, the ticks of the loop among them
          MaxFaults    \* bound on the publishes that fail for no reason of ours

ASSUME PublisherAssumption ==
  /\ Length \subseteq Nat /\ TickLength \in Nat /\ Batch \subseteq Seq(Nat) /\ MaxRetries \subseteq Int
  /\ MaxCalls \in Nat /\ MaxFaults \in Nat
  /\ IsFiniteSet(Caller) /\ "run" \notin Caller

VARIABLES driver,     \* "run" for StartPublisher, "api" for NewPublisher, or "none"
          call,       \* call[g] is where goroutine g is in its call
          counter,    \* the loop's message number
          cancelled,  \* the context is cancelled
          metrics,    \* PublisherMetrics
          clock,      \* external: the time, advanced by every look at it
          reader,     \* a call of GetMetrics: its next load, 4 when it has returned
          sent,       \* external: the messages that the topic has taken, in order
          calls,      \* history: every call, and how it ended
          stamped,    \* history: what each call had counted when it looked at the clock
          faults

pubVars == <<driver, call, counter, cancelled, metrics, clock, reader, sent, calls,
             stamped, faults>>

Goroutine == Caller \cup {"run"}

Idle == [pc |-> "idle", kind |-> "none", id |-> 0, msgs |-> <<>>, i |-> 1, attempt |-> 0,
         max |-> 0, successCount |-> 0, totalBytes |-> 0, err |-> "nil", stamp |-> 0]

NoMetrics == [MessagesPublished |-> 0, PublishErrors |-> 0, BytesPublished |-> 0,
              lastPublishTime |-> 0]

PublisherInit ==
  /\ call      = [g \in Goroutine |-> Idle]
  /\ counter   = 0
  /\ cancelled = FALSE
  /\ metrics   = NoMetrics
  /\ clock     = 0
  /\ reader    = [pc |-> 1, got |-> NoMetrics]
  /\ sent      = <<>>
  /\ calls     = <<>>
  /\ stamped   = <<>>
  /\ faults    = 0

-----------------------------------------------------------------------------
(* The calls *)

(* Goroutine g begins a call with the messages msgs. *)
Begin(g, kind, msgs, max, first) ==
  /\ call[g].pc = "idle"
  /\ Len(calls) < MaxCalls
  /\ call' = [call EXCEPT ![g] = [Idle EXCEPT !.pc = first, !.kind = kind, !.msgs = msgs,
                                              !.id = Len(calls) + 1, !.max = max]]
  /\ calls' = Append(calls, [kind |-> kind, msgs |-> msgs, outcome |-> "running"])
  /\ UNCHANGED <<driver, counter, cancelled, metrics, clock, reader, sent, stamped, faults>>

(* The loop takes a tick; with the context cancelled, select may still.    *)
(* The message carries the loop's counter.                                 *)
publishMessage ==
  /\ driver = "run"
  /\ Begin("run", "tick", <<TickLength>>, 0, "publish")

PublishCustomMessage(g) ==
  /\ driver = "api"
  /\ \E len \in Length : Begin(g, "custom", <<len>>, 0, "publish")

PublishBatch(g) ==
  /\ driver = "api"
  /\ \E msgs \in Batch : Begin(g, "batch", msgs, 0, IF msgs = <<>> THEN "return" ELSE "publish")

\* A negative maxRetries makes no attempt at all.
PublishWithRetry(g) ==
  /\ driver = "api"
  /\ \E len \in Length, max \in MaxRetries :
       Begin(g, "retry", <<len>>, max, IF max < 0 THEN "fail" ELSE "publish")

(* The loop returns when it sees the context cancelled. *)
Done == [Idle EXCEPT !.pc = "done"]

runStops ==
  /\ driver = "run"
  /\ call["run"].pc = "idle"
  /\ cancelled
  /\ call' = [call EXCEPT !["run"] = Done]
  /\ UNCHANGED <<driver, counter, cancelled, metrics, clock, reader, sent, calls, stamped, faults>>

-----------------------------------------------------------------------------
(* The steps of a call *)

MoreMessages(c) == c.kind = "batch" /\ c.i < Len(c.msgs)

\* Where a call goes on when message i is through: in PublishBatch the metrics
\* are updated at the end, and only if some message was published.
AfterMessage(c) ==
  CASE MoreMessages(c)                         -> [c EXCEPT !.pc = "publish", !.i = @ + 1]
    [] ~MoreMessages(c) /\ c.successCount > 0  -> [c EXCEPT !.pc = "messages"]
    [] OTHER                                   -> [c EXCEPT !.pc = "return"]

\* The text of a message: the loop's has its number.
Text(c) == [call |-> c.id, i |-> c.i, len |-> c.msgs[c.i],
            number |-> IF c.kind = "tick" THEN counter ELSE -1]

PublishSucceeds(g) ==
  LET c == call[g]
  IN  /\ c.pc = "publish"
      /\ sent' = Append(sent, Text(c))
      /\ call' = [call EXCEPT ![g] =
                    AfterMessage([c EXCEPT !.successCount = @ + 1,
                                           !.totalBytes = @ + c.msgs[c.i]])]
      /\ UNCHANGED <<driver, counter, cancelled, metrics, clock, reader, calls, stamped, faults>>

\* Publish returns an error: by a fault, or because the context is cancelled.
\* External: the topic has then not taken the message.
Fails == \/ cancelled /\ UNCHANGED faults
         \/ ~cancelled /\ faults < MaxFaults /\ faults' = faults + 1

PublishFails(g) ==
  /\ call[g].pc = "publish"
  /\ Fails
  /\ call' = [call EXCEPT ![g].pc =
                IF call[g].attempt < call[g].max THEN "backoff" ELSE "fail"]
  /\ UNCHANGED <<driver, counter, cancelled, metrics, clock, reader, sent, calls, stamped>>

\* Faulty variant: the retry does not count its attempts.
BackoffEndsUncounted(g) ==
  /\ call[g].pc = "backoff"
  /\ call' = [call EXCEPT ![g].pc = "publish"]
  /\ UNCHANGED <<driver, counter, cancelled, metrics, clock, reader, sent, calls, stamped, faults>>

(* The backoff ends with the next attempt *)
BackoffEnds(g) ==
  /\ call[g].pc = "backoff"
  /\ call' = [call EXCEPT ![g].pc = "publish", ![g].attempt = @ + 1]
  /\ UNCHANGED <<driver, counter, cancelled, metrics, clock, reader, sent, calls, stamped, faults>>

(* or because the context is cancelled; then no error is counted. *)
BackoffCancelled(g) ==
  /\ call[g].pc = "backoff"
  /\ cancelled
  /\ call' = [call EXCEPT ![g].pc = "return", ![g].err = "cancelled"]
  /\ UNCHANGED <<driver, counter, cancelled, metrics, clock, reader, sent, calls, stamped, faults>>

(* The error is counted: by the method, or by the loop for publishMessage. *)
CountError(g) ==
  /\ call[g].pc = "fail"
  /\ metrics' = [metrics EXCEPT !.PublishErrors = @ + 1]
  /\ call' = [call EXCEPT ![g] = AfterMessage([@ EXCEPT !.err = "error"])]
  /\ UNCHANGED <<driver, counter, cancelled, clock, reader, sent, calls, stamped, faults>>

\* Faulty variant: one message per call.
AddMessagesOne(g) ==
  /\ call[g].pc = "messages"
  /\ metrics' = [metrics EXCEPT !.MessagesPublished = @ + 1]
  /\ call' = [call EXCEPT ![g].pc = "bytes"]
  /\ UNCHANGED <<driver, counter, cancelled, clock, reader, sent, calls, stamped, faults>>

AddMessages(g) ==
  /\ call[g].pc = "messages"
  /\ metrics' = [metrics EXCEPT !.MessagesPublished = @ + call[g].successCount]
  /\ call' = [call EXCEPT ![g].pc = "bytes"]
  /\ UNCHANGED <<driver, counter, cancelled, clock, reader, sent, calls, stamped, faults>>

AddBytes(g) ==
  /\ call[g].pc = "bytes"
  /\ metrics' = [metrics EXCEPT !.BytesPublished = @ + call[g].totalBytes]
  /\ call' = [call EXCEPT ![g].pc = "now"]
  /\ UNCHANGED <<driver, counter, cancelled, clock, reader, sent, calls, stamped, faults>>

Now(g) ==
  /\ call[g].pc = "now"
  /\ clock'   = clock + 1
  /\ stamped' = Append(stamped, [messages |-> call[g].successCount, bytes |-> call[g].totalBytes])
  /\ call'    = [call EXCEPT ![g].pc = "time", ![g].stamp = clock']
  /\ UNCHANGED <<driver, counter, cancelled, metrics, reader, sent, calls, faults>>

\* Faulty variant: the time of the next publish is stored.
StoreTimeNext(g) ==
  /\ call[g].pc = "time"
  /\ metrics' = [metrics EXCEPT !.lastPublishTime = call[g].stamp + 1]
  /\ call' = [call EXCEPT ![g].pc = "return"]
  /\ UNCHANGED <<driver, counter, cancelled, clock, reader, sent, calls, stamped, faults>>

\* Two calls may store their times in the other order.
StoreTime(g) ==
  /\ call[g].pc = "time"
  /\ metrics' = [metrics EXCEPT !.lastPublishTime = call[g].stamp]
  /\ call' = [call EXCEPT ![g].pc = "return"]
  /\ UNCHANGED <<driver, counter, cancelled, clock, reader, sent, calls, stamped, faults>>

\* Faulty variant: the loop goes on to the next number after an error too.
ReturnNextNumber(g) ==
  LET c == call[g]
  IN  /\ c.pc = "return"
      /\ calls' = [calls EXCEPT ![c.id].outcome = c.err]
      /\ counter' = IF c.kind = "tick" THEN counter + 1 ELSE counter
      /\ call' = [call EXCEPT ![g] = Idle]
      /\ UNCHANGED <<driver, cancelled, metrics, clock, reader, sent, stamped, faults>>

(* The call returns.  The loop's counter advances when there is no error. *)
Return(g) ==
  LET c == call[g]
  IN  /\ c.pc = "return"
      /\ calls' = [calls EXCEPT ![c.id].outcome = c.err]
      /\ counter' = IF c.kind = "tick" /\ c.err = "nil" THEN counter + 1 ELSE counter
      /\ call' = [call EXCEPT ![g] = Idle]
      /\ UNCHANGED <<driver, cancelled, metrics, clock, reader, sent, stamped, faults>>

-----------------------------------------------------------------------------
(* GetMetrics: one load after the other, lastPublishTime first.  The load  *)
(* of PublishErrors is left out: it is related to no other.                *)

\* Faulty variant: the fields in the order of the struct.
LoadOrderOfStruct == <<"MessagesPublished", "lastPublishTime", "BytesPublished">>

LoadOrder == <<"lastPublishTime", "MessagesPublished", "BytesPublished">>

\* A call changes nothing for the others: one call, at any moment, stands for all.
GetMetrics ==
  /\ driver = "api"
  /\ reader.pc \in DOMAIN LoadOrder
  /\ reader' = [pc  |-> reader.pc + 1,
                got |-> [reader.got EXCEPT ![LoadOrder[reader.pc]] = metrics[LoadOrder[reader.pc]]]]
  /\ UNCHANGED <<driver, call, counter, cancelled, metrics, clock, sent, calls, stamped, faults>>

(* The program cancels the context. *)
Cancel ==
  /\ ~cancelled
  /\ cancelled' = TRUE
  /\ UNCHANGED <<driver, call, counter, metrics, clock, reader, sent, calls, stamped, faults>>

-----------------------------------------------------------------------------

Step(g) ==
  \/ PublishSucceeds(g) \/ PublishFails(g) \/ BackoffEnds(g) \/ BackoffCancelled(g)
  \/ CountError(g) \/ AddMessages(g) \/ AddBytes(g) \/ Now(g) \/ StoreTime(g) \/ Return(g)

PublisherNext ==
  \/ publishMessage \/ runStops \/ Cancel
  \/ GetMetrics
  \/ \E g \in Caller : PublishCustomMessage(g) \/ PublishBatch(g) \/ PublishWithRetry(g)
  \/ \E g \in Goroutine : Step(g)

(* While a call is under way some goroutine goes on: Publish returns and   *)
(* timers fire.  The loop looks at its context.  Nobody is bound to call   *)
(* or to cancel.                                                           *)
PublisherFairness == WF_pubVars(runStops \/ \E g \in Goroutine : Step(g))

-----------------------------------------------------------------------------

\* The sum of a function to Nat: so many pairs <<x, i>> there are, i in 1 .. f[x].
Sum(f) == Cardinality(UNION {{x} \X (1 .. f[x]) : x \in DOMAIN f})

NoCall == \A g \in Goroutine : call[g].pc \in {"idle", "done"}

(* Every call is at a place of its method, and the clock is ahead of every *)
(* time that was taken from it.                                            *)
PublisherTypeOK ==
  /\ \A g \in Goroutine :
       /\ call[g].pc \in {"idle", "publish", "fail", "backoff", "messages", "bytes", "now",
                          "time", "return", "done"}
       /\ call[g].pc \notin {"idle", "done"} => call[g].id \in DOMAIN calls
       /\ call[g].stamp \in 0 .. clock
  /\ \A m \in DOMAIN metrics : metrics[m] \in Nat
  /\ metrics.lastPublishTime \in 0 .. clock
  /\ Len(stamped) = clock
  /\ reader.pc \in 1 .. 4

(* The metrics account for every message.  They never run ahead of what    *)
(* was published, in messages or in bytes; and when no call is under way   *)
(* they have caught up with it, and every message handed over was counted  *)
(* once, as published or as an error, but for a retry that was cancelled   *)
(* in its backoff (publishMessage, run, PublishCustomMessage, Publish-     *)
(* Batch, PublishWithRetry).                                               *)
MetricsExact ==
  LET bytes == Sum([k \in DOMAIN sent |-> sent[k].len])
      handed == Sum([k \in DOMAIN calls |-> Len(calls[k].msgs)])
      givenUp == {k \in DOMAIN calls : calls[k].outcome = "cancelled"}
  IN  /\ metrics.MessagesPublished <= Len(sent)
      /\ metrics.BytesPublished <= bytes
      /\ NoCall =>
           /\ metrics.MessagesPublished = Len(sent)
           /\ metrics.BytesPublished = bytes
           /\ handed = metrics.MessagesPublished + metrics.PublishErrors + Cardinality(givenUp)

TimesSent(k, i) == Cardinality({j \in DOMAIN sent : sent[j].call = k /\ sent[j].i = i})

(* What a caller is told is true: a call that returns nil has published    *)
(* each of its messages exactly once; one that returns an error has left   *)
(* one out, and published none twice, however often it was tried; and the  *)
(* loop's messages bear the numbers 0, 1, 2, ... without gap or repetition *)
(* (PublishWithRetry, PublishBatch, run).                                  *)
ExactlyOnce ==
  /\ \A k \in DOMAIN calls :
       LET told == calls[k].outcome
           times == {TimesSent(k, i) : i \in DOMAIN calls[k].msgs}
       IN  /\ told = "nil" => times \subseteq {1}
           /\ told # "nil" => times \subseteq {0, 1}
           /\ told \in {"error", "cancelled"} => 0 \in times
  /\ driver = "run" => \A j \in DOMAIN sent : sent[j].number = j - 1

(* A snapshot of the metrics, though read in four pieces while others      *)
(* publish, counts in full every call that had looked at the clock by the  *)
(* snapshot's own lastPublishTime, and so every call that had returned by  *)
(* then; and it counts nothing that was not published.  What it may miss   *)
(* are messages of calls under way: published, but not counted yet (Get-   *)
(* Metrics reads the time first; the publishers store it last).            *)
SnapshotCountsStamped ==
  LET seen == 1 .. reader.got.lastPublishTime
  IN  reader.pc = 4 =>
        /\ Sum([t \in seen |-> stamped[t].messages]) <= reader.got.MessagesPublished
        /\ Sum([t \in seen |-> stamped[t].bytes]) <= reader.got.BytesPublished
        /\ reader.got.MessagesPublished <= Len(sent)
        /\ reader.got.BytesPublished <= Sum([k \in DOMAIN sent |-> sent[k].len])
=============================================================================

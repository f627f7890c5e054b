---------------------------- MODULE PubSubProofs ----------------------------
(***************************************************************************)
(* Proofs about PubSub, for any number of calling goroutines, any          *)
(* messages, batches and retries, and any number of peers and calls: the   *)
(* metrics of the publisher and of the subscriber, what a caller of the    *)
(* publisher is told, and what a snapshot of the metrics may show.         *)
(***************************************************************************)
EXTENDS PubSub, FunctionTheorems, FiniteSetTheorems, SequenceTheorems, TLAPS

-----------------------------------------------------------------------------
(* Sums *)

Column(f, x) == {x} \X (1 .. f[x])

Columns(f, T) == UNION {Column(f, x) : x \in T}

(* A sum over goroutines, calls or messages counts the pairs of all their  *)
(* columns.                                                                *)
LEMMA SumOfColumns ==
  ASSUME NEW f, NEW T, T = DOMAIN f
  PROVE  Sum(f) = Cardinality(Columns(f, T))
BY DEF Sum, Columns, Column

(* The column of x has f[x] pairs. *)
LEMMA ColumnSize ==
  ASSUME NEW f, NEW x, f[x] \in Nat
  PROVE  IsFiniteSet(Column(f, x)) /\ Cardinality(Column(f, x)) = f[x]
<1>1. PICK n \in Nat : n = f[x]
  OBVIOUS
<1>2. IsFiniteSet(1 .. n) /\ Cardinality(1 .. n) = n
  BY FS_Interval
<1>3. IsFiniteSet({x}) /\ Cardinality({x}) = 1
  BY FS_Singleton
<1>4. IsFiniteSet({x} \X (1 .. n)) /\ Cardinality({x} \X (1 .. n)) = 1 * n
  BY <1>2, <1>3, FS_Product
<1> QED
  BY <1>1, <1>4 DEF Column

(* A sum over finitely many numbers is a number. *)
LEMMA ColumnsFinite ==
  ASSUME NEW f, NEW T, IsFiniteSet(T), \A x \in T : f[x] \in Nat
  PROVE  IsFiniteSet(Columns(f, T)) /\ Cardinality(Columns(f, T)) \in Nat
<1> DEFINE C == {Column(f, x) : x \in T}
           h == [x \in T |-> Column(f, x)]
<1>1. h \in Surjection(T, C)
  BY DEF Surjection
<1>2. IsFiniteSet(C)
  <2> HIDE DEF h, C
  <2> QED
    BY <1>1, FS_Surjection
<1>3. \A c \in C : IsFiniteSet(c)
  BY ColumnSize
<1>4. IsFiniteSet(UNION C)
  <2> HIDE DEF C
  <2> QED
    BY <1>2, <1>3, FS_UNION
<1> QED
  BY <1>4, FS_CardinalityType DEF Columns

(* One more goroutine, call or message adds its own number. *)
LEMMA ColumnsAdd ==
  ASSUME NEW f, NEW T, NEW x, x \notin T, IsFiniteSet(T), \A y \in T \cup {x} : f[y] \in Nat
  PROVE  Cardinality(Columns(f, T \cup {x})) = Cardinality(Columns(f, T)) + f[x]
<1>1. Columns(f, T \cup {x}) = Columns(f, T) \cup Column(f, x)
  BY DEF Columns
<1>2. Columns(f, T) \cap Column(f, x) = {}
  BY DEF Columns, Column
<1>3. IsFiniteSet(Columns(f, T)) /\ Cardinality(Columns(f, T)) \in Nat
  BY ColumnsFinite
<1>4. IsFiniteSet(Column(f, x)) /\ Cardinality(Column(f, x)) = f[x] /\ f[x] \in Nat
  BY ColumnSize
<1>5. Cardinality(Columns(f, T) \cup Column(f, x))
        = Cardinality(Columns(f, T)) + Cardinality(Column(f, x))
            - Cardinality(Columns(f, T) \cap Column(f, x))
  BY <1>3, <1>4, FS_Union
<1>6. Cardinality(Columns(f, T) \cap Column(f, x)) = 0
  BY <1>2, FS_EmptySet
<1>7. PICK old, all : old = Cardinality(Columns(f, T)) /\ all = Cardinality(Columns(f, T \cup {x}))
                        /\ old \in Nat
  BY <1>3
<1>8. all = old + f[x] - 0
  BY <1>1, <1>4, <1>5, <1>6, <1>7
<1>9. all = old + f[x]
  BY <1>4, <1>8
<1> QED
  BY <1>7, <1>9

(* A sum is a number. *)
LEMMA SumType ==
  ASSUME NEW T, IsFiniteSet(T), NEW f \in [T -> Nat]
  PROVE  Sum(f) \in Nat
BY SumOfColumns, ColumnsFinite

(* A sum of nothing but zeros is zero. *)
LEMMA SumZero ==
  ASSUME NEW T, NEW f \in [T -> Nat], \A x \in T : f[x] = 0
  PROVE  Sum(f) = 0
<1>1. Columns(f, T) = {}
  BY DEF Columns, Column
<1> QED
  BY <1>1, SumOfColumns, FS_EmptySet

(* When one number of a sum changes, the sum changes by as much. *)
LEMMA SumChanges ==
  ASSUME NEW T, IsFiniteSet(T), NEW f \in [T -> Nat], NEW h \in [T -> Nat], NEW x \in T,
         \A y \in T \ {x} : h[y] = f[y]
  PROVE  Sum(h) + f[x] = Sum(f) + h[x] /\ Sum(h) \in Nat /\ Sum(f) \in Nat
<1> DEFINE R == T \ {x}
<1>1. IsFiniteSet(R) /\ x \notin R /\ T = R \cup {x}
  BY FS_RemoveElement
<1>2. Columns(h, R) = Columns(f, R)
  <2>1. \A y \in R : Column(h, y) = Column(f, y)
    BY DEF Column
  <2> QED
    BY <2>1 DEF Columns
<1> HIDE DEF R
<1>3. Cardinality(Columns(f, R \cup {x})) = Cardinality(Columns(f, R)) + f[x]
  BY <1>1, ColumnsAdd
<1>4. Cardinality(Columns(h, R \cup {x})) = Cardinality(Columns(h, R)) + h[x]
  BY <1>1, ColumnsAdd
<1>5. Cardinality(Columns(f, R)) \in Nat
  BY <1>1, ColumnsFinite
<1>6. Sum(f) = Cardinality(Columns(f, T)) /\ Sum(h) = Cardinality(Columns(h, T))
  BY SumOfColumns
<1>7. f[x] \in Nat /\ h[x] \in Nat
  OBVIOUS
<1> QED
  BY <1>1, <1>2, <1>3, <1>4, <1>5, <1>6, <1>7

\* h is f with one more number, at x.
OneMore(T, x, f, h) == /\ IsFiniteSet(T) /\ x \notin T /\ f \in [T -> Nat] /\ h \in [T \cup {x} -> Nat]
                       /\ \A y \in T : h[y] = f[y]

(* When one number is added to a sum, the sum grows by it. *)
LEMMA SumGrows ==
  ASSUME NEW T, NEW x, NEW f, NEW h, OneMore(T, x, f, h)
  PROVE  Sum(h) = Sum(f) + h[x] /\ Sum(h) \in Nat /\ Sum(f) \in Nat
<1> USE DEF OneMore
<1>1. Columns(h, T) = Columns(f, T)
  <2>1. \A y \in T : Column(h, y) = Column(f, y)
    BY DEF Column
  <2> QED
    BY <2>1 DEF Columns
<1>2. Cardinality(Columns(h, T \cup {x})) = Cardinality(Columns(h, T)) + h[x]
  BY ColumnsAdd
<1>3. Cardinality(Columns(f, T)) \in Nat
  BY ColumnsFinite
<1>4. Sum(f) = Cardinality(Columns(f, T)) /\ Sum(h) = Cardinality(Columns(h, T \cup {x}))
  BY SumOfColumns
<1>5. h[x] \in Nat
  OBVIOUS
<1> QED
  BY <1>1, <1>2, <1>3, <1>4, <1>5

(* The sum of a part is no more than that of the whole. *)
LEMMA SumOfPart ==
  ASSUME NEW T, IsFiniteSet(T), NEW R \in SUBSET T, NEW f \in [T -> Nat], NEW h \in [R -> Nat],
         \A y \in R : h[y] <= f[y]
  PROVE  Sum(h) <= Sum(f) /\ Sum(h) \in Nat /\ Sum(f) \in Nat
<1>1. Columns(h, R) \subseteq Columns(f, T)
  <2>1. ASSUME NEW y \in R PROVE Column(h, y) \subseteq Column(f, y)
    <3>1. h[y] \in Nat /\ f[y] \in Nat /\ h[y] <= f[y]
      OBVIOUS
    <3>2. 1 .. h[y] \subseteq 1 .. f[y]
      BY <3>1
    <3> QED
      BY <3>2 DEF Column
  <2> QED
    BY <2>1 DEF Columns
<1>2. IsFiniteSet(Columns(f, T)) /\ Cardinality(Columns(f, T)) \in Nat
  BY ColumnsFinite
<1>3. IsFiniteSet(R)
  BY FS_Subset
<1>4. Cardinality(Columns(h, R)) \in Nat
  BY <1>3, ColumnsFinite
<1>5. Cardinality(Columns(h, R)) <= Cardinality(Columns(f, T))
  BY <1>1, <1>2, FS_Subset
<1> QED
  BY <1>2, <1>4, <1>5, SumOfColumns

(* The sum over a log that grows by an entry. *)
LEMMA SumOfLog ==
  ASSUME NEW n \in Nat, NEW f \in [1 .. n -> Nat], NEW h \in [1 .. n + 1 -> Nat],
         \A y \in 1 .. n : h[y] = f[y]
  PROVE  Sum(h) = Sum(f) + h[n + 1] /\ Sum(h) \in Nat /\ Sum(f) \in Nat
<1>1. IsFiniteSet(1 .. n) /\ n + 1 \notin 1 .. n /\ 1 .. n + 1 = (1 .. n) \cup {n + 1}
  <2>1. IsFiniteSet(1 .. n)
    BY FS_Interval
  <2>2. n + 1 \notin 1 .. n
    OBVIOUS
  <2>3. 1 .. n + 1 = (1 .. n) \cup {n + 1}
    OBVIOUS
  <2> QED
    BY <2>1, <2>2, <2>3
<1>2. OneMore(1 .. n, n + 1, f, h)
  BY <1>1 DEF OneMore
<1> QED
  BY <1>2, SumGrows, Zenon


-----------------------------------------------------------------------------
(* The calls of the publisher *)

PubPC == {"idle", "publish", "fail", "backoff", "messages", "bytes", "now", "time", "return", "done"}

Kind == {"none", "tick", "custom", "batch", "retry"}

CallRecord ==
  [pc : PubPC, kind : Kind, id : Nat, msgs : Seq(Nat), i : Nat \ {0}, attempt : Nat, max : Int,
   successCount : Nat, totalBytes : Nat, err : {"nil", "error", "cancelled"}, stamp : Nat]

Active(c) == c.pc \notin {"idle", "done"}

\* A call that is not through with its message i.
AtMessage(c) == c.pc \in {"publish", "backoff", "fail"}

\* What a call knows about itself.
CallOK(c) ==
  /\ c \in CallRecord
  /\ Active(c) /\ c.kind # "batch" => Len(c.msgs) = 1
  /\ AtMessage(c) => c.i <= Len(c.msgs)
  /\ AtMessage(c) /\ c.kind # "batch" => c.successCount = 0 /\ c.err = "nil"
  /\ c.kind = "batch" => c.max = 0
  /\ c.pc = "backoff" => c.kind # "batch"
  /\ c.successCount = 0 => c.totalBytes = 0
  /\ c.err = "cancelled" => c.pc = "return" /\ c.kind # "batch"
  /\ ~Active(c) => c.err = "nil"

\* The messages of a call that are neither published, nor errors, nor given up;
\* the messages and bytes that it has published and not yet counted; and those
\* that it has counted before it looked at the clock.
Outstanding(c) ==
  IF AtMessage(c) THEN Len(c.msgs) - c.i + 1
  ELSE IF c.pc = "return" /\ c.err = "cancelled" THEN 1 ELSE 0

UncountedMessages(c) == IF AtMessage(c) \/ c.pc = "messages" THEN c.successCount ELSE 0

UncountedBytes(c) == IF AtMessage(c) \/ c.pc \in {"messages", "bytes"} THEN c.totalBytes ELSE 0

UnstampedMessages(c) == IF c.pc \in {"bytes", "now"} THEN c.successCount ELSE 0

UnstampedBytes(c) == IF c.pc = "now" THEN c.totalBytes ELSE 0

(* Nothing is outstanding between calls. *)
LEMMA IdleOK ==
  /\ CallOK(Idle) /\ CallOK(Done) /\ Idle.pc = "idle" /\ Done.pc = "done" /\ ~Active(Idle) /\ ~Active(Done)
  /\ Idle.stamp = 0 /\ Done.stamp = 0
<1>1. <<>> \in Seq(Nat) /\ 0 \in Nat /\ 0 \in Int /\ 1 \in Nat \ {0}
  OBVIOUS
<1>2. Idle \in CallRecord /\ ~Active(Idle) /\ ~AtMessage(Idle) /\ Idle.kind = "none" /\ Idle.totalBytes = 0
        /\ Idle.err = "nil" /\ Idle.pc = "idle" /\ Idle.stamp = 0
  BY <1>1 DEF CallRecord, Idle, PubPC, Kind, Active, AtMessage
<1>3. PICK e : e = Done
  OBVIOUS
<1>4. e = [Idle EXCEPT !.pc = "done"]
  BY <1>3 DEF Done
<1>5. e \in CallRecord /\ ~Active(e) /\ ~AtMessage(e) /\ e.kind = "none" /\ e.totalBytes = 0
        /\ e.err = "nil" /\ e.pc = "done" /\ e.stamp = 0
  BY <1>2, <1>4 DEF CallRecord, PubPC, Active, AtMessage
<1>6. CallOK(Idle)
  BY <1>2 DEF CallOK
<1>7. CallOK(e)
  BY <1>5 DEF CallOK
<1> QED
  BY <1>2, <1>3, <1>5, <1>6, <1>7

(* What is outstanding is a number of messages or bytes. *)
LEMMA MeasuresAreNumbers ==
  ASSUME NEW c, CallOK(c)
  PROVE  /\ Outstanding(c) \in Nat
         /\ UncountedMessages(c) \in Nat /\ UncountedBytes(c) \in Nat
         /\ UnstampedMessages(c) \in Nat /\ UnstampedBytes(c) \in Nat
<1>1. c.i \in Nat \ {0} /\ Len(c.msgs) \in Nat /\ c.successCount \in Nat /\ c.totalBytes \in Nat
  BY DEF CallOK, CallRecord
<1>2. AtMessage(c) => c.i <= Len(c.msgs)
  BY DEF CallOK
<1>3. AtMessage(c) => Len(c.msgs) - c.i + 1 \in Nat
  BY <1>1, <1>2
<1> QED
  BY <1>1, <1>3 DEF Outstanding, UncountedMessages, UncountedBytes, UnstampedMessages, UnstampedBytes

(* Between calls nothing is outstanding. *)
LEMMA NothingOutstanding ==
  ASSUME NEW c, ~Active(c)
  PROVE  /\ Outstanding(c) = 0
         /\ UncountedMessages(c) = 0 /\ UncountedBytes(c) = 0
         /\ UnstampedMessages(c) = 0 /\ UnstampedBytes(c) = 0
BY DEF Outstanding, UncountedMessages, UncountedBytes, UnstampedMessages, UnstampedBytes, Active, AtMessage

(* AfterMessage: the next message of a batch, or the end of the messages. *)
LEMMA AfterMessageIs ==
  ASSUME NEW c \in CallRecord, NEW d, d = AfterMessage(c), c.i <= Len(c.msgs),
         c.kind # "batch" => Len(c.msgs) = 1
  PROVE  /\ d \in CallRecord
         /\ d.kind = c.kind /\ d.id = c.id /\ d.msgs = c.msgs /\ d.attempt = c.attempt
         /\ d.max = c.max /\ d.successCount = c.successCount /\ d.totalBytes = c.totalBytes
         /\ d.err = c.err /\ d.stamp = c.stamp
         /\ \/ d.pc = "publish" /\ d.i = c.i + 1 /\ d.i <= Len(d.msgs) /\ c.kind = "batch"
            \/ d.pc = "messages" /\ c.successCount > 0 /\ d.i = c.i /\ c.i = Len(c.msgs)
            \/ d.pc = "return" /\ c.successCount = 0 /\ d.i = c.i /\ c.i = Len(c.msgs)
<1>1. /\ c.i \in Nat \ {0} /\ Len(c.msgs) \in Nat /\ c.successCount \in Nat
      /\ c = [pc |-> c.pc, kind |-> c.kind, id |-> c.id, msgs |-> c.msgs, i |-> c.i,
              attempt |-> c.attempt, max |-> c.max, successCount |-> c.successCount,
              totalBytes |-> c.totalBytes, err |-> c.err, stamp |-> c.stamp]
  BY DEF CallRecord
<1>0. ~MoreMessages(c) => c.i = Len(c.msgs)
  <2>1. PICK k \in Nat \ {0}, l \in Nat : k = c.i /\ l = Len(c.msgs)
    BY <1>1
  <2>2. MoreMessages(c) <=> c.kind = "batch" /\ k < l
    BY <2>1 DEF MoreMessages
  <2>3. k <= l /\ (c.kind # "batch" => l = 1)
    BY <2>1
  <2>4. ~MoreMessages(c) => k = l
    BY <2>2, <2>3
  <2> QED
    BY <2>1, <2>4
<1>2. CASE MoreMessages(c)
  <2>1. d = [c EXCEPT !.pc = "publish", !.i = @ + 1]
    BY <1>2 DEF AfterMessage
  <2>2. c.kind = "batch" /\ c.i + 1 <= Len(c.msgs) /\ c.i + 1 \in Nat \ {0}
    BY <1>1, <1>2 DEF MoreMessages
  <2> QED
    BY <2>1, <2>2 DEF CallRecord, PubPC
<1>3. CASE ~MoreMessages(c) /\ c.successCount > 0
  <2>1. d = [c EXCEPT !.pc = "messages"]
    BY <1>3 DEF AfterMessage
  <2>2. c.i = Len(c.msgs)
    BY <1>0, <1>3
  <2> QED
    BY <1>3, <2>1, <2>2 DEF CallRecord, PubPC
<1>4. CASE ~MoreMessages(c) /\ ~(c.successCount > 0)
  <2>1. d = [c EXCEPT !.pc = "return"]
    BY <1>4 DEF AfterMessage
  <2>2. c.i = Len(c.msgs) /\ c.successCount = 0
    BY <1>0, <1>1, <1>4
  <2> QED
    BY <2>1, <2>2 DEF CallRecord, PubPC
<1> QED
  BY <1>2, <1>3, <1>4

-----------------------------------------------------------------------------
(* The steps of a call, each by what it does to the record c of the call:  *)
(* d is the record after it.                                               *)

Kept(c, d) == d.kind = c.kind /\ d.id = c.id /\ d.msgs = c.msgs

\* The call is through with its message i.
Through(c, d) ==
  /\ AtMessage(c) /\ Active(c) /\ Active(d) /\ Kept(c, d)
  /\ c.i \in 1 .. Len(c.msgs)
  /\ \/ AtMessage(d) /\ d.i = c.i + 1
     \/ ~AtMessage(d) /\ c.i = Len(c.msgs)

\* The call goes on, and with the same message.
Stays(c, d) ==
  /\ Active(c) /\ Active(d) /\ Kept(c, d)
  /\ (AtMessage(d) <=> AtMessage(c)) /\ d.i = c.i /\ d.err = c.err

\* By how much the measures of the call fall (or grow, where negative).
Falls(c, d, out, msgs, bytes, umsgs, ubytes) ==
  /\ Outstanding(c) = Outstanding(d) + out
  /\ UncountedMessages(c) = UncountedMessages(d) + msgs
  /\ UncountedBytes(c) = UncountedBytes(d) + bytes
  /\ UnstampedMessages(c) = UnstampedMessages(d) + umsgs
  /\ UnstampedBytes(c) = UnstampedBytes(d) + ubytes

(* Publish takes message i (PublishCustomMessage, PublishBatch, Publish-   *)
(* WithRetry, publishMessage).                                             *)
LEMMA SucceedsIs ==
  ASSUME NEW c, CallOK(c), c.pc = "publish", NEW d,
         d = AfterMessage([c EXCEPT !.successCount = @ + 1, !.totalBytes = @ + c.msgs[c.i]])
  PROVE  /\ CallOK(d) /\ Through(c, d) /\ d.err = c.err /\ d.stamp = c.stamp
         /\ c.msgs[c.i] \in Nat
         /\ Falls(c, d, 1, -1, -c.msgs[c.i], 0, 0)
<1>1. c \in CallRecord /\ AtMessage(c) /\ Active(c) /\ c.i <= Len(c.msgs)
        /\ (c.kind # "batch" => Len(c.msgs) = 1) /\ c.err # "cancelled"
        /\ (c.kind # "batch" => c.successCount = 0 /\ c.err = "nil")
  BY DEF CallOK, AtMessage, Active
<1>2. /\ c.i \in Nat \ {0} /\ Len(c.msgs) \in Nat /\ c.successCount \in Nat /\ c.totalBytes \in Nat
      /\ c.msgs \in Seq(Nat)
  BY <1>1 DEF CallRecord
<1>3. c.i \in 1 .. Len(c.msgs)
  BY <1>1, <1>2
<1>4. PICK n \in Nat : n = c.msgs[c.i]
  BY <1>2, <1>3, ElementOfSeq
<1>5. PICK s \in Nat, t \in Nat : s = c.successCount + 1 /\ t = c.totalBytes + n
  BY <1>2
<1>6. PICK b : b = [c EXCEPT !.successCount = s, !.totalBytes = t]
  OBVIOUS
<1>7. d = AfterMessage(b)
  BY <1>4, <1>5, <1>6
<1>8. /\ b \in CallRecord /\ b.kind = c.kind /\ b.id = c.id /\ b.msgs = c.msgs /\ b.i = c.i
      /\ b.max = c.max /\ b.err = c.err /\ b.stamp = c.stamp /\ b.successCount = s /\ b.totalBytes = t
  BY <1>1, <1>6 DEF CallRecord
<1>9. /\ d \in CallRecord
      /\ d.kind = c.kind /\ d.id = c.id /\ d.msgs = c.msgs
      /\ d.max = c.max /\ d.successCount = s /\ d.totalBytes = t
      /\ d.err = c.err /\ d.stamp = c.stamp
      /\ \/ d.pc = "publish" /\ d.i = c.i + 1 /\ d.i <= Len(d.msgs) /\ c.kind = "batch"
         \/ d.pc = "messages" /\ c.i = Len(c.msgs)
         \/ d.pc = "return" /\ s = 0
  BY <1>1, <1>7, <1>8, AfterMessageIs
<1>10. s > 0 /\ s # 0
  BY <1>2, <1>5
<1>11. CASE d.pc = "publish" /\ d.i = c.i + 1 /\ d.i <= Len(d.msgs) /\ c.kind = "batch"
  <2>1. AtMessage(d) /\ Active(d)
    BY <1>11 DEF AtMessage, Active
  <2>2. CallOK(d)
    BY <1>1, <1>9, <1>10, <1>11, <2>1 DEF CallOK
  <2>3. Through(c, d)
    BY <1>1, <1>3, <1>9, <1>11, <2>1 DEF Through, Kept
  <2>4. Len(c.msgs) - c.i + 1 = (Len(c.msgs) - (c.i + 1) + 1) + 1
    BY <1>2
  <2>5. Outstanding(c) = Outstanding(d) + 1
    BY <1>1, <1>9, <1>11, <2>1, <2>4 DEF Outstanding
  <2>6. c.successCount = s + -1 /\ c.totalBytes = t + -n
    BY <1>2, <1>5
  <2>7. Falls(c, d, 1, -1, -n, 0, 0)
    <3>1. /\ UnstampedMessages(c) = UnstampedMessages(d) + 0 /\ UnstampedBytes(c) = UnstampedBytes(d) + 0
      BY <1>1, <1>9, <1>11, <2>1 DEF UnstampedMessages, UnstampedBytes, AtMessage
    <3>2. UncountedMessages(c) = UncountedMessages(d) + -1 /\ UncountedBytes(c) = UncountedBytes(d) + -n
      BY <1>1, <1>9, <1>11, <2>1, <2>6 DEF UncountedMessages, UncountedBytes, AtMessage
    <3> QED
      BY <2>5, <3>1, <3>2 DEF Falls
  <2> QED
    BY <1>4, <1>9, <2>2, <2>3, <2>7
<1>12. CASE d.pc = "messages" /\ c.i = Len(c.msgs)
  <2>1. ~AtMessage(d) /\ Active(d)
    BY <1>12 DEF AtMessage, Active
  <2>2. CallOK(d)
    BY <1>1, <1>9, <1>10, <1>12, <2>1 DEF CallOK
  <2>3. Through(c, d)
    BY <1>1, <1>3, <1>9, <1>12, <2>1 DEF Through, Kept
  <2>4. Len(c.msgs) - c.i + 1 = 0 + 1
    BY <1>2, <1>12
  <2>5. Outstanding(c) = Outstanding(d) + 1
    BY <1>1, <1>9, <1>12, <2>1, <2>4 DEF Outstanding
  <2>6. c.successCount = s + -1 /\ c.totalBytes = t + -n
    BY <1>2, <1>5
  <2>8. UncountedMessages(c) = c.successCount /\ UncountedBytes(c) = c.totalBytes
          /\ UnstampedMessages(c) = 0 /\ UnstampedBytes(c) = 0
    BY <1>1 DEF UncountedMessages, UncountedBytes, UnstampedMessages, UnstampedBytes
  <2>9. UncountedMessages(d) = s /\ UncountedBytes(d) = t
          /\ UnstampedMessages(d) = 0 /\ UnstampedBytes(d) = 0
    BY <1>9, <1>12 DEF UncountedMessages, UncountedBytes, UnstampedMessages, UnstampedBytes
  <2>7. Falls(c, d, 1, -1, -n, 0, 0)
    BY <2>5, <2>6, <2>8, <2>9 DEF Falls
  <2> QED
    BY <1>4, <1>9, <2>2, <2>3, <2>7
<1> QED
  BY <1>9, <1>10, <1>11, <1>12

(* The error of message i is counted. *)
LEMMA CountErrorIs ==
  ASSUME NEW c, CallOK(c), c.pc = "fail", NEW d, d = AfterMessage([c EXCEPT !.err = "error"])
  PROVE  /\ CallOK(d) /\ Through(c, d) /\ d.err = "error" /\ d.stamp = c.stamp
         /\ Falls(c, d, 1, 0, 0, 0, 0)
<1>1. c \in CallRecord /\ AtMessage(c) /\ Active(c) /\ c.i <= Len(c.msgs)
        /\ (c.kind # "batch" => Len(c.msgs) = 1)
        /\ (c.kind # "batch" => c.successCount = 0)
        /\ (c.successCount = 0 => c.totalBytes = 0)
  BY DEF CallOK, AtMessage, Active
<1>2. /\ c.i \in Nat \ {0} /\ Len(c.msgs) \in Nat /\ c.successCount \in Nat /\ c.totalBytes \in Nat
      /\ c.msgs \in Seq(Nat)
  BY <1>1 DEF CallRecord
<1>3. c.i \in 1 .. Len(c.msgs)
  BY <1>1, <1>2
<1>6. PICK b : b = [c EXCEPT !.err = "error"]
  OBVIOUS
<1>7. d = AfterMessage(b)
  BY <1>6
<1>8. /\ b \in CallRecord /\ b.kind = c.kind /\ b.id = c.id /\ b.msgs = c.msgs /\ b.i = c.i
      /\ b.max = c.max /\ b.err = "error" /\ b.stamp = c.stamp
      /\ b.successCount = c.successCount /\ b.totalBytes = c.totalBytes
  BY <1>1, <1>6 DEF CallRecord
<1>9. /\ d \in CallRecord
      /\ d.kind = c.kind /\ d.id = c.id /\ d.msgs = c.msgs
      /\ d.max = c.max /\ d.successCount = c.successCount /\ d.totalBytes = c.totalBytes
      /\ d.err = "error" /\ d.stamp = c.stamp
      /\ \/ d.pc = "publish" /\ d.i = c.i + 1 /\ d.i <= Len(d.msgs) /\ c.kind = "batch"
         \/ d.pc = "messages" /\ c.i = Len(c.msgs)
         \/ d.pc = "return" /\ c.i = Len(c.msgs) /\ c.successCount = 0
  BY <1>1, <1>7, <1>8, AfterMessageIs
<1>11. CASE d.pc = "publish" /\ d.i = c.i + 1 /\ d.i <= Len(d.msgs) /\ c.kind = "batch"
  <2>1. AtMessage(d) /\ Active(d)
    BY <1>11 DEF AtMessage, Active
  <2>2. CallOK(d)
    BY <1>1, <1>9, <1>11, <2>1 DEF CallOK
  <2>3. Through(c, d)
    BY <1>1, <1>3, <1>9, <1>11, <2>1 DEF Through, Kept
  <2>4. Len(c.msgs) - c.i + 1 = (Len(c.msgs) - (c.i + 1) + 1) + 1
    BY <1>2
  <2>5. Outstanding(c) = Outstanding(d) + 1
    BY <1>1, <1>9, <1>11, <2>1, <2>4 DEF Outstanding
  <2>6. c.successCount = c.successCount + 0 /\ c.totalBytes = c.totalBytes + 0
    BY <1>2
  <2>7. Falls(c, d, 1, 0, 0, 0, 0)
    BY <1>1, <1>9, <1>11, <2>1, <2>5, <2>6
       DEF Falls, UncountedMessages, UncountedBytes, UnstampedMessages, UnstampedBytes, AtMessage
  <2> QED
    BY <1>9, <2>2, <2>3, <2>7
<1>12. CASE /\ c.i = Len(c.msgs)
            /\ d.pc = "messages" \/ (d.pc = "return" /\ c.successCount = 0)
  <2>1. ~AtMessage(d) /\ Active(d)
    BY <1>12 DEF AtMessage, Active
  <2>2. CallOK(d)
    BY <1>1, <1>9, <1>12, <2>1 DEF CallOK
  <2>3. Through(c, d)
    BY <1>1, <1>3, <1>9, <1>12, <2>1 DEF Through, Kept
  <2>4. Len(c.msgs) - c.i + 1 = 0 + 1
    BY <1>2, <1>12
  <2>5. Outstanding(c) = Outstanding(d) + 1
    BY <1>1, <1>9, <1>12, <2>1, <2>4 DEF Outstanding
  <2>6. c.successCount = c.successCount + 0 /\ c.totalBytes = c.totalBytes + 0
    BY <1>2
  <2>7. Falls(c, d, 1, 0, 0, 0, 0)
    BY <1>1, <1>9, <1>12, <2>1, <2>5, <2>6
       DEF Falls, UncountedMessages, UncountedBytes, UnstampedMessages, UnstampedBytes, AtMessage
  <2> QED
    BY <1>9, <2>2, <2>3, <2>7
<1> QED
  BY <1>9, <1>11, <1>12


\* A step at message i that accounts for nothing.
Retried(c, d, p, a) ==
  /\ p \in {"publish", "backoff", "fail"} /\ (p = "backoff" => c.kind # "batch")
  /\ a \in Nat /\ d = [c EXCEPT !.pc = p, !.attempt = a]

Unaccounted(c, d) == CallOK(d) /\ Stays(c, d) /\ d.stamp = c.stamp /\ Falls(c, d, 0, 0, 0, 0, 0)

(* Publish fails, or the next attempt begins: nothing is accounted for.    *)
LEMMA TriesIs ==
  ASSUME NEW c, NEW d, NEW p, NEW a, CallOK(c), AtMessage(c), Retried(c, d, p, a)
  PROVE  Unaccounted(c, d)
<1>0. /\ p \in {"publish", "backoff", "fail"} /\ (p = "backoff" => c.kind # "batch")
      /\ a \in Nat /\ d = [c EXCEPT !.pc = p, !.attempt = a]
  BY DEF Retried
<1>1. c \in CallRecord /\ Active(c) /\ c.err # "cancelled"
  BY DEF CallOK, AtMessage, Active
<1>2. /\ d \in CallRecord /\ d.kind = c.kind /\ d.id = c.id /\ d.msgs = c.msgs /\ d.i = c.i
      /\ d.max = c.max /\ d.err = c.err /\ d.stamp = c.stamp /\ d.pc = p
      /\ d.successCount = c.successCount /\ d.totalBytes = c.totalBytes
  BY <1>0, <1>1 DEF CallRecord, PubPC
<1>3. AtMessage(d) /\ Active(d)
  BY <1>0, <1>2 DEF AtMessage, Active
<1>4. CallOK(d)
  BY <1>0, <1>1, <1>2, <1>3 DEF CallOK
<1>5. Stays(c, d)
  BY <1>1, <1>2, <1>3 DEF Stays, Kept
<1>6. Outstanding(d) = Outstanding(c)
  BY <1>2, <1>3 DEF Outstanding
<1>7. /\ UncountedMessages(d) = UncountedMessages(c) /\ UncountedBytes(d) = UncountedBytes(c)
  BY <1>2, <1>3 DEF UncountedMessages, UncountedBytes
<1>8. UnstampedMessages(d) = UnstampedMessages(c) /\ UnstampedBytes(d) = UnstampedBytes(c)
  BY <1>2, <1>3 DEF UnstampedMessages, UnstampedBytes, AtMessage
<1>9. Falls(c, d, 0, 0, 0, 0, 0)
  <2>1. /\ Outstanding(d) \in Nat
        /\ UncountedMessages(d) \in Nat /\ UncountedBytes(d) \in Nat
        /\ UnstampedMessages(d) \in Nat /\ UnstampedBytes(d) \in Nat
    BY <1>4, MeasuresAreNumbers
  <2> QED
    BY <1>6, <1>7, <1>8, <2>1 DEF Falls
<1> QED
  BY <1>2, <1>4, <1>5, <1>9 DEF Unaccounted

(* A retry is cancelled in its backoff: its message is given up, which is  *)
(* accounted for when the call returns.                                    *)
LEMMA CancelledIs ==
  ASSUME NEW c, CallOK(c), c.pc = "backoff", NEW d, d = [c EXCEPT !.pc = "return", !.err = "cancelled"]
  PROVE  /\ CallOK(d) /\ Through(c, d) /\ d.err = "cancelled" /\ d.stamp = c.stamp
         /\ Falls(c, d, 0, 0, 0, 0, 0)
<1>1. /\ c \in CallRecord /\ AtMessage(c) /\ Active(c) /\ c.i <= Len(c.msgs) /\ c.kind # "batch"
      /\ Len(c.msgs) = 1 /\ c.successCount = 0 /\ c.totalBytes = 0
  BY DEF CallOK, AtMessage, Active
<1>2. c.i \in Nat \ {0}
  BY <1>1 DEF CallRecord
<1>3. c.i = 1 /\ c.i \in 1 .. Len(c.msgs) /\ Len(c.msgs) - c.i + 1 = 1
  BY <1>1, <1>2
<1>4. /\ d \in CallRecord /\ d.kind = c.kind /\ d.id = c.id /\ d.msgs = c.msgs /\ d.i = c.i
      /\ d.max = c.max /\ d.err = "cancelled" /\ d.stamp = c.stamp /\ d.pc = "return"
      /\ d.successCount = 0 /\ d.totalBytes = 0
  BY <1>1 DEF CallRecord, PubPC
<1>5. ~AtMessage(d) /\ Active(d)
  BY <1>4 DEF AtMessage, Active
<1>6. CallOK(d)
  BY <1>1, <1>4, <1>5 DEF CallOK
<1>7. Through(c, d)
  BY <1>1, <1>3, <1>4, <1>5 DEF Through, Kept
<1>8. Outstanding(c) = 1 /\ Outstanding(d) = 1
  BY <1>1, <1>3, <1>4, <1>5 DEF Outstanding
<1>9. /\ UncountedMessages(c) = 0 /\ UncountedBytes(c) = 0 /\ UnstampedMessages(c) = 0 /\ UnstampedBytes(c) = 0
  BY <1>1 DEF UncountedMessages, UncountedBytes, UnstampedMessages, UnstampedBytes
<1>10. /\ UncountedMessages(d) = 0 /\ UncountedBytes(d) = 0 /\ UnstampedMessages(d) = 0 /\ UnstampedBytes(d) = 0
  BY <1>4 DEF UncountedMessages, UncountedBytes, UnstampedMessages, UnstampedBytes
<1>11. Falls(c, d, 0, 0, 0, 0, 0)
  BY <1>8, <1>9, <1>10 DEF Falls
<1> QED
  BY <1>4, <1>6, <1>7, <1>11

Update(c, p) ==
  \/ c.pc = "messages" /\ p = "bytes"
  \/ c.pc = "bytes" /\ p = "now"
  \/ c.pc = "now" /\ p = "time"
  \/ c.pc = "time" /\ p = "return"

Put(c, d, p, t) == d = [c EXCEPT !.pc = p, !.stamp = t]

Updated(c, d) ==
  /\ c.pc = "messages" => Falls(c, d, 0, c.successCount, 0, -c.successCount, 0)
  /\ c.pc = "bytes" => Falls(c, d, 0, 0, c.totalBytes, 0, -c.totalBytes)
  /\ c.pc = "now" => Falls(c, d, 0, 0, 0, c.successCount, c.totalBytes)
  /\ c.pc = "time" => Falls(c, d, 0, 0, 0, 0, 0)

(* The updates of the metrics come one after the other: messages, bytes,   *)
(* the look at the clock and the time.                                     *)
LEMMA UpdateIs ==
  ASSUME NEW c, CallOK(c), NEW p, Update(c, p),
         NEW t \in Nat, NEW d, Put(c, d, p, t)
  PROVE  /\ CallOK(d) /\ Stays(c, d) /\ d.stamp = t
         /\ Updated(c, d)
<1>0. \/ c.pc = "messages" /\ p = "bytes"
      \/ c.pc = "bytes" /\ p = "now"
      \/ c.pc = "now" /\ p = "time"
      \/ c.pc = "time" /\ p = "return"
  BY DEF Update
<1>1. c \in CallRecord /\ ~AtMessage(c) /\ Active(c) /\ c.err # "cancelled" /\ p \in PubPC
  BY <1>0 DEF CallOK, AtMessage, Active, PubPC
<1>2. /\ d \in CallRecord /\ d.kind = c.kind /\ d.id = c.id /\ d.msgs = c.msgs /\ d.i = c.i
      /\ d.max = c.max /\ d.err = c.err /\ d.stamp = t /\ d.pc = p
      /\ d.successCount = c.successCount /\ d.totalBytes = c.totalBytes
  BY <1>1 DEF CallRecord, Put
<1>3. ~AtMessage(d) /\ Active(d)
  BY <1>0, <1>2 DEF AtMessage, Active
<1>4. CallOK(d)
  BY <1>0, <1>1, <1>2, <1>3 DEF CallOK
<1>5. Stays(c, d)
  BY <1>1, <1>2, <1>3 DEF Stays, Kept
<1>6. Outstanding(d) = 0 /\ Outstanding(c) = 0
  BY <1>1, <1>2, <1>3 DEF Outstanding
<1>7. PICK n \in Nat, b \in Nat : n = c.successCount /\ b = c.totalBytes
  BY <1>1 DEF CallRecord
<1>8. n = 0 + n /\ b = 0 + b /\ n = n + 0 /\ b = b + 0 /\ 0 = n + -n /\ 0 = b + -b
  OBVIOUS
<1>9. CASE c.pc = "messages" /\ p = "bytes"
  <2>1. UncountedMessages(c) = n /\ UncountedBytes(c) = b /\ UnstampedMessages(c) = 0 /\ UnstampedBytes(c) = 0
    BY <1>7, <1>9 DEF UncountedMessages, UncountedBytes, UnstampedMessages, UnstampedBytes, AtMessage
  <2>2. UncountedMessages(d) = 0 /\ UncountedBytes(d) = b /\ UnstampedMessages(d) = n /\ UnstampedBytes(d) = 0
    BY <1>2, <1>7, <1>9 DEF UncountedMessages, UncountedBytes, UnstampedMessages, UnstampedBytes, AtMessage
  <2>3. Falls(c, d, 0, n, 0, -n, 0)
    BY <1>6, <1>8, <2>1, <2>2 DEF Falls
  <2> QED
    BY <1>2, <1>4, <1>5, <1>7, <1>9, <2>3 DEF Updated
<1>10. CASE c.pc = "bytes" /\ p = "now"
  <2>1. UncountedMessages(c) = 0 /\ UncountedBytes(c) = b /\ UnstampedMessages(c) = n /\ UnstampedBytes(c) = 0
    BY <1>7, <1>10 DEF UncountedMessages, UncountedBytes, UnstampedMessages, UnstampedBytes, AtMessage
  <2>2. UncountedMessages(d) = 0 /\ UncountedBytes(d) = 0 /\ UnstampedMessages(d) = n /\ UnstampedBytes(d) = b
    BY <1>2, <1>7, <1>10 DEF UncountedMessages, UncountedBytes, UnstampedMessages, UnstampedBytes, AtMessage
  <2>3. Falls(c, d, 0, 0, b, 0, -b)
    BY <1>6, <1>8, <2>1, <2>2 DEF Falls
  <2> QED
    BY <1>2, <1>4, <1>5, <1>7, <1>10, <2>3 DEF Updated
<1>11. CASE c.pc = "now" /\ p = "time"
  <2>1. UncountedMessages(c) = 0 /\ UncountedBytes(c) = 0 /\ UnstampedMessages(c) = n /\ UnstampedBytes(c) = b
    BY <1>7, <1>11 DEF UncountedMessages, UncountedBytes, UnstampedMessages, UnstampedBytes, AtMessage
  <2>2. UncountedMessages(d) = 0 /\ UncountedBytes(d) = 0 /\ UnstampedMessages(d) = 0 /\ UnstampedBytes(d) = 0
    BY <1>2, <1>11 DEF UncountedMessages, UncountedBytes, UnstampedMessages, UnstampedBytes, AtMessage
  <2>3. Falls(c, d, 0, 0, 0, n, b)
    BY <1>6, <1>8, <2>1, <2>2 DEF Falls
  <2> QED
    BY <1>2, <1>4, <1>5, <1>7, <1>11, <2>3 DEF Updated
<1>12. CASE c.pc = "time" /\ p = "return"
  <2>1. UncountedMessages(c) = 0 /\ UncountedBytes(c) = 0 /\ UnstampedMessages(c) = 0 /\ UnstampedBytes(c) = 0
    BY <1>12 DEF UncountedMessages, UncountedBytes, UnstampedMessages, UnstampedBytes, AtMessage
  <2>2. UncountedMessages(d) = 0 /\ UncountedBytes(d) = 0 /\ UnstampedMessages(d) = 0 /\ UnstampedBytes(d) = 0
    BY <1>2, <1>12 DEF UncountedMessages, UncountedBytes, UnstampedMessages, UnstampedBytes, AtMessage
  <2>3. Falls(c, d, 0, 0, 0, 0, 0)
    BY <1>6, <2>1, <2>2 DEF Falls
  <2> QED
    BY <1>2, <1>4, <1>5, <1>12, <2>3 DEF Updated
<1> QED
  BY <1>0, <1>9, <1>10, <1>11, <1>12


\* Every method but PublishBatch has one message; an empty batch returns at once.
StartOK(kind, msgs, max, first) ==
  /\ kind # "batch" => Len(msgs) = 1
  /\ kind = "batch" => max = 0
  /\ \/ first \in {"publish", "fail"} /\ Len(msgs) >= 1
     \/ first = "return" /\ Len(msgs) = 0

(* A call begins with all its messages outstanding (Begin of the methods). *)
LEMMA BeginIs ==
  ASSUME NEW kind \in Kind, NEW msgs \in Seq(Nat), NEW max \in Int, NEW first, NEW id \in Nat, NEW d,
         d = [pc |-> first, kind |-> kind, id |-> id, msgs |-> msgs, i |-> 1, attempt |-> 0,
              max |-> max, successCount |-> 0, totalBytes |-> 0, err |-> "nil", stamp |-> 0],
         StartOK(kind, msgs, max, first)
  PROVE  /\ CallOK(d) /\ Active(d) /\ d.id = id /\ d.kind = kind /\ d.msgs = msgs
         /\ d.i = 1 /\ d.err = "nil" /\ d.stamp = 0
         /\ AtMessage(d) \/ Len(d.msgs) = 0
         /\ Outstanding(d) = Len(msgs)
         /\ UncountedMessages(d) = 0 /\ UncountedBytes(d) = 0
         /\ UnstampedMessages(d) = 0 /\ UnstampedBytes(d) = 0
<1>0. first \in PubPC /\ 1 \in Nat \ {0} /\ 0 \in Nat
  BY DEF StartOK, PubPC
<1>2. /\ d \in CallRecord /\ d.kind = kind /\ d.id = id /\ d.msgs = msgs /\ d.i = 1
      /\ d.max = max /\ d.err = "nil" /\ d.stamp = 0 /\ d.pc = first
      /\ d.successCount = 0 /\ d.totalBytes = 0
  BY <1>0 DEF CallRecord
<1>3. PICK l \in Nat : l = Len(msgs)
  OBVIOUS
<1>4. Active(d)
  BY <1>2 DEF Active, StartOK
<1>5. AtMessage(d) \/ (d.pc = "return" /\ l = 0)
  BY <1>2, <1>3 DEF AtMessage, StartOK
<1>6. AtMessage(d) => d.i <= l /\ l - d.i + 1 = l
  BY <1>2, <1>3 DEF AtMessage, StartOK
<1>7. CallOK(d)
  BY <1>2, <1>3, <1>4, <1>6 DEF CallOK, StartOK
<1>8. Outstanding(d) = l
  BY <1>2, <1>3, <1>5, <1>6 DEF Outstanding
<1>9. /\ UncountedMessages(d) = 0 /\ UncountedBytes(d) = 0
      /\ UnstampedMessages(d) = 0 /\ UnstampedBytes(d) = 0
  BY <1>2 DEF UncountedMessages, UncountedBytes, UnstampedMessages, UnstampedBytes
<1> QED
  BY <1>2, <1>3, <1>4, <1>5, <1>7, <1>8, <1>9

-----------------------------------------------------------------------------
(* The shapes of the publisher's steps *)

CallsOK == call \in [Goroutine -> CallRecord] /\ \A g \in Goroutine : CallOK(call[g])

Moves(g, d) ==
  /\ g \in Goroutine /\ CallOK(call[g]) /\ CallOK(d)
  /\ call' = [call EXCEPT ![g] = d]

Entry(d) == [kind |-> d.kind, msgs |-> d.msgs, outcome |-> "running"]

Begins(g, d) ==
  /\ Moves(g, d) /\ ~Active(call[g]) /\ Active(d)
  /\ d.id = Len(calls) + 1 /\ d.i = 1 /\ d.err = "nil" /\ d.stamp = 0
  /\ driver \in {"run", "api"} /\ (driver = "run" => g = "run" /\ d.kind = "tick")
  /\ AtMessage(d) \/ Len(d.msgs) = 0
  /\ Outstanding(d) = Len(d.msgs)
  /\ UncountedMessages(d) = 0 /\ UncountedBytes(d) = 0
  /\ UnstampedMessages(d) = 0 /\ UnstampedBytes(d) = 0
  /\ calls' = Append(calls, Entry(d))
  /\ UNCHANGED <<driver, counter, metrics, clock, reader, sent, stamped>>

Stops(g, d) ==
  /\ Moves(g, d) /\ ~Active(call[g]) /\ ~Active(d) /\ d.stamp = 0
  /\ UNCHANGED <<driver, counter, metrics, clock, reader, sent, calls, stamped>>

Sends(g, d) ==
  /\ Moves(g, d) /\ Through(call[g], d) /\ d.err = call[g].err /\ d.stamp = call[g].stamp
  /\ call[g].msgs[call[g].i] \in Nat
  /\ Falls(call[g], d, 1, -1, -call[g].msgs[call[g].i], 0, 0)
  /\ sent' = Append(sent, Text(call[g]))
  /\ UNCHANGED <<driver, counter, metrics, clock, reader, calls, stamped>>

Errs(g, d) ==
  /\ Moves(g, d) /\ Through(call[g], d) /\ d.err = "error" /\ d.stamp = call[g].stamp
  /\ Falls(call[g], d, 1, 0, 0, 0, 0)
  /\ metrics' = [metrics EXCEPT !.PublishErrors = @ + 1]
  /\ UNCHANGED <<driver, counter, clock, reader, sent, calls, stamped>>

GivesUp(g, d) ==
  /\ Moves(g, d) /\ Through(call[g], d) /\ d.err = "cancelled" /\ d.stamp = call[g].stamp
  /\ Falls(call[g], d, 0, 0, 0, 0, 0)
  /\ UNCHANGED <<driver, counter, metrics, clock, reader, sent, calls, stamped>>

Tries(g, d) ==
  /\ Moves(g, d) /\ Stays(call[g], d) /\ d.stamp = call[g].stamp
  /\ Falls(call[g], d, 0, 0, 0, 0, 0)
  /\ UNCHANGED <<driver, counter, metrics, clock, reader, sent, calls, stamped>>

CountsMessages(g, d) ==
  /\ Moves(g, d) /\ Stays(call[g], d) /\ d.stamp = call[g].stamp
  /\ Falls(call[g], d, 0, call[g].successCount, 0, -call[g].successCount, 0)
  /\ metrics' = [metrics EXCEPT !.MessagesPublished = @ + call[g].successCount]
  /\ UNCHANGED <<driver, counter, clock, reader, sent, calls, stamped>>

CountsBytes(g, d) ==
  /\ Moves(g, d) /\ Stays(call[g], d) /\ d.stamp = call[g].stamp
  /\ Falls(call[g], d, 0, 0, call[g].totalBytes, 0, -call[g].totalBytes)
  /\ metrics' = [metrics EXCEPT !.BytesPublished = @ + call[g].totalBytes]
  /\ UNCHANGED <<driver, counter, clock, reader, sent, calls, stamped>>

Stamps(g, d) ==
  /\ Moves(g, d) /\ Stays(call[g], d) /\ d.stamp = clock + 1
  /\ Falls(call[g], d, 0, 0, 0, call[g].successCount, call[g].totalBytes)
  /\ clock' = clock + 1
  /\ stamped' = Append(stamped, [messages |-> call[g].successCount, bytes |-> call[g].totalBytes])
  /\ UNCHANGED <<driver, counter, metrics, reader, sent, calls>>

StoresTime(g, d) ==
  /\ Moves(g, d) /\ Stays(call[g], d) /\ d.stamp = call[g].stamp
  /\ Falls(call[g], d, 0, 0, 0, 0, 0)
  /\ metrics' = [metrics EXCEPT !.lastPublishTime = call[g].stamp]
  /\ UNCHANGED <<driver, counter, clock, reader, sent, calls, stamped>>

Returns(g, d) ==
  /\ Moves(g, d) /\ Active(call[g]) /\ ~AtMessage(call[g]) /\ ~Active(d) /\ d.stamp = 0
  /\ Falls(call[g], d, IF call[g].err = "cancelled" THEN 1 ELSE 0, 0, 0, 0, 0)
  /\ calls' = [calls EXCEPT ![call[g].id].outcome = call[g].err]
  /\ counter' = IF call[g].kind = "tick" /\ call[g].err = "nil" THEN counter + 1 ELSE counter
  /\ UNCHANGED <<driver, metrics, clock, reader, sent, stamped>>

CallStep(g, d) ==
  \/ Begins(g, d) \/ Stops(g, d) \/ Sends(g, d) \/ Errs(g, d) \/ GivesUp(g, d) \/ Tries(g, d)
  \/ CountsMessages(g, d) \/ CountsBytes(g, d) \/ Stamps(g, d) \/ StoresTime(g, d) \/ Returns(g, d)

\* A step that leaves everything but the context, the faults and the reader.
Reads ==
  /\ reader.pc \in 1 .. 3
  /\ reader' = [pc  |-> reader.pc + 1,
                got |-> [reader.got EXCEPT ![LoadOrder[reader.pc]] = metrics[LoadOrder[reader.pc]]]]
  /\ UNCHANGED <<driver, call, counter, metrics, clock, sent, calls, stamped>>

Rests == UNCHANGED <<driver, call, counter, metrics, clock, reader, sent, calls, stamped>>

(* A call begins: publishMessage, PublishCustomMessage, PublishBatch and   *)
(* PublishWithRetry.                                                       *)
LEMMA BeginShape ==
  ASSUME CallsOK, Len(calls) \in Nat, NEW g \in Goroutine, NEW kind \in Kind, NEW msgs \in Seq(Nat), NEW max \in Int, NEW first,
         StartOK(kind, msgs, max, first),
         driver \in {"run", "api"}, driver = "run" => g = "run" /\ kind = "tick",
         Begin(g, kind, msgs, max, first)
  PROVE  \E d : Begins(g, d)
<1>1. PICK n \in Nat : n = Len(calls) + 1
  OBVIOUS
<1>2. PICK d : d = [Idle EXCEPT !.pc = first, !.kind = kind, !.msgs = msgs, !.id = n, !.max = max]
  OBVIOUS
<1>3. /\ CallOK(d) /\ Active(d) /\ d.id = n /\ d.kind = kind /\ d.msgs = msgs
      /\ d.i = 1 /\ d.err = "nil" /\ d.stamp = 0
      /\ AtMessage(d) \/ Len(d.msgs) = 0
      /\ Outstanding(d) = Len(msgs)
      /\ UncountedMessages(d) = 0 /\ UncountedBytes(d) = 0
      /\ UnstampedMessages(d) = 0 /\ UnstampedBytes(d) = 0
  <2>1. d = [pc |-> first, kind |-> kind, id |-> n, msgs |-> msgs, i |-> 1, attempt |-> 0,
              max |-> max, successCount |-> 0, totalBytes |-> 0, err |-> "nil", stamp |-> 0]
    BY <1>2 DEF Idle
  <2> QED
    BY <2>1, BeginIs
<1>4. /\ call[g].pc = "idle" /\ call' = [call EXCEPT ![g] = d]
      /\ calls' = Append(calls, [kind |-> kind, msgs |-> msgs, outcome |-> "running"])
      /\ UNCHANGED <<driver, counter, metrics, clock, reader, sent, stamped>>
  BY <1>1, <1>2 DEF Begin
<1>5. ~Active(call[g]) /\ CallOK(call[g])
  BY <1>4 DEF Active, CallsOK
<1>6. calls' = Append(calls, Entry(d))
  BY <1>3, <1>4 DEF Entry
<1>7. Moves(g, d)
  BY <1>3, <1>4, <1>5 DEF Moves
<1>8. Begins(g, d)
  BY <1>1, <1>3, <1>4, <1>5, <1>6, <1>7 DEF Begins
<1> QED
  BY <1>8


(* Every step of a call is of one of these shapes. *)
LEMMA StepShape ==
  ASSUME CallsOK, clock \in Nat, NEW g \in Goroutine, Step(g)
  PROVE  \E d : CallStep(g, d)
<1>1. PICK c : c = call[g]
  OBVIOUS
<1>2. /\ CallOK(c) /\ c \in CallRecord /\ c.attempt \in Nat /\ c.stamp \in Nat /\ c.max \in Int
      /\ call \in [Goroutine -> CallRecord]
      /\ c = [pc |-> c.pc, kind |-> c.kind, id |-> c.id, msgs |-> c.msgs, i |-> c.i,
              attempt |-> c.attempt, max |-> c.max, successCount |-> c.successCount,
              totalBytes |-> c.totalBytes, err |-> c.err, stamp |-> c.stamp]
  BY <1>1 DEF CallsOK, CallRecord
<1>0. CallOK(c)
  BY <1>2
<1>3. CASE PublishSucceeds(g)
  <2>1. PICK d : d = AfterMessage([c EXCEPT !.successCount = @ + 1, !.totalBytes = @ + c.msgs[c.i]])
    OBVIOUS
  <2>2. /\ c.pc = "publish" /\ call' = [call EXCEPT ![g] = d] /\ sent' = Append(sent, Text(c))
        /\ UNCHANGED <<driver, counter, metrics, clock, reader, calls, stamped>>
    BY <1>1, <1>3, <2>1 DEF PublishSucceeds
  <2>3. /\ CallOK(d) /\ Through(c, d) /\ d.err = c.err /\ d.stamp = c.stamp /\ c.msgs[c.i] \in Nat
        /\ Falls(c, d, 1, -1, -c.msgs[c.i], 0, 0)
    BY <1>2, <2>1, <2>2, SucceedsIs
  <2>4. Sends(g, d)
    BY <1>1, <1>2, <2>2, <2>3 DEF Sends, Moves
  <2> QED
    BY <2>4 DEF CallStep
<1>4. CASE PublishFails(g)
  <2>1. PICK p : p = IF c.attempt < c.max THEN "backoff" ELSE "fail"
    OBVIOUS
  <2>2. PICK d : d = [c EXCEPT !.pc = p, !.attempt = c.attempt]
    OBVIOUS
  <2>3. d = [c EXCEPT !.pc = p]
    BY <1>2, <2>2
  <2>4. /\ c.pc = "publish" /\ call' = [call EXCEPT ![g] = d]
        /\ UNCHANGED <<driver, counter, metrics, clock, reader, sent, calls, stamped>>
    BY <1>1, <1>2, <1>4, <2>1, <2>3 DEF PublishFails
  <2>5. AtMessage(c) /\ p \in {"publish", "backoff", "fail"} /\ (p = "backoff" => c.kind # "batch")
    <3>1. c.kind = "batch" => ~(c.attempt < c.max)
      BY <1>2 DEF CallOK
    <3> QED
      BY <2>1, <2>4, <3>1 DEF AtMessage
  <2>6. Unaccounted(c, d)
    <3>1. Retried(c, d, p, c.attempt)
      BY <1>2, <2>2, <2>5 DEF Retried
    <3> QED
      BY <1>2, <2>5, <3>1, TriesIs, Zenon
  <2>7. Tries(g, d)
    BY <1>1, <1>2, <2>4, <2>6 DEF Tries, Moves, Unaccounted
  <2> QED
    BY <2>7 DEF CallStep
<1>5. CASE BackoffEnds(g)
  <2>1. PICK a \in Nat : a = c.attempt + 1
    BY <1>2
  <2>2. PICK d : d = [c EXCEPT !.pc = "publish", !.attempt = a]
    OBVIOUS
  <2>3. /\ c.pc = "backoff" /\ call' = [call EXCEPT ![g] = d]
        /\ UNCHANGED <<driver, counter, metrics, clock, reader, sent, calls, stamped>>
    BY <1>1, <1>2, <1>5, <2>1, <2>2 DEF BackoffEnds
  <2>4. AtMessage(c)
    BY <2>3 DEF AtMessage
  <2>5. Unaccounted(c, d)
    <3>1. Retried(c, d, "publish", a)
      BY <2>2 DEF Retried
    <3> QED
      BY <1>2, <2>4, <3>1, TriesIs, Zenon
  <2>6. Tries(g, d)
    BY <1>1, <1>2, <2>3, <2>5 DEF Tries, Moves, Unaccounted
  <2> QED
    BY <2>6 DEF CallStep
<1>6. CASE BackoffCancelled(g)
  <2>2. PICK d : d = [c EXCEPT !.pc = "return", !.err = "cancelled"]
    OBVIOUS
  <2>3. /\ c.pc = "backoff" /\ call' = [call EXCEPT ![g] = d]
        /\ UNCHANGED <<driver, counter, metrics, clock, reader, sent, calls, stamped>>
    BY <1>1, <1>2, <1>6, <2>2 DEF BackoffCancelled
  <2>5. CallOK(d) /\ Through(c, d) /\ d.err = "cancelled" /\ d.stamp = c.stamp /\ Falls(c, d, 0, 0, 0, 0, 0)
    BY <1>2, <2>2, <2>3, CancelledIs
  <2>6. GivesUp(g, d)
    BY <1>1, <1>2, <2>3, <2>5 DEF GivesUp, Moves
  <2> QED
    BY <2>6 DEF CallStep
<1>7. CASE CountError(g)
  <2>2. PICK d : d = AfterMessage([c EXCEPT !.err = "error"])
    OBVIOUS
  <2>3. /\ c.pc = "fail" /\ call' = [call EXCEPT ![g] = d]
        /\ metrics' = [metrics EXCEPT !.PublishErrors = @ + 1]
        /\ UNCHANGED <<driver, counter, clock, reader, sent, calls, stamped>>
    BY <1>1, <1>2, <1>7, <2>2 DEF CountError
  <2>5. CallOK(d) /\ Through(c, d) /\ d.err = "error" /\ d.stamp = c.stamp /\ Falls(c, d, 1, 0, 0, 0, 0)
    BY <1>2, <2>2, <2>3, CountErrorIs
  <2>6. Errs(g, d)
    BY <1>1, <1>2, <2>3, <2>5 DEF Errs, Moves
  <2> QED
    BY <2>6 DEF CallStep
<1>8. CASE AddMessages(g)
  <2>1. PICK t \in Nat : t = c.stamp
    BY <1>2
  <2>2. PICK d : d = [c EXCEPT !.pc = "bytes", !.stamp = t]
    OBVIOUS
  <2>3. d = [c EXCEPT !.pc = "bytes"]
    BY <1>2, <2>1, <2>2
  <2>4. /\ c.pc = "messages" /\ call' = [call EXCEPT ![g] = d]
        /\ metrics' = [metrics EXCEPT !.MessagesPublished = @ + c.successCount]
        /\ UNCHANGED <<driver, counter, clock, reader, sent, calls, stamped>>
    BY <1>1, <1>2, <1>8, <2>3 DEF AddMessages
  <2>5. CallOK(d) /\ Stays(c, d) /\ d.stamp = c.stamp /\ Falls(c, d, 0, c.successCount, 0, -c.successCount, 0)
    <3>1. PICK p : p = "bytes"
      OBVIOUS
    <3>2. Update(c, p) /\ Put(c, d, p, t)
      BY <2>2, <2>4, <3>1 DEF Update, Put
    <3>3. CallOK(d) /\ Stays(c, d) /\ d.stamp = t /\ Updated(c, d)
      BY <1>0, <3>2, UpdateIs
    <3> QED
      BY <2>1, <2>4, <3>3 DEF Updated
  <2>6. CountsMessages(g, d)
    BY <1>1, <1>2, <2>4, <2>5 DEF CountsMessages, Moves
  <2> QED
    BY <2>6 DEF CallStep
<1>9. CASE AddBytes(g)
  <2>1. PICK t \in Nat : t = c.stamp
    BY <1>2
  <2>2. PICK d : d = [c EXCEPT !.pc = "now", !.stamp = t]
    OBVIOUS
  <2>3. d = [c EXCEPT !.pc = "now"]
    BY <1>2, <2>1, <2>2
  <2>4. /\ c.pc = "bytes" /\ call' = [call EXCEPT ![g] = d]
        /\ metrics' = [metrics EXCEPT !.BytesPublished = @ + c.totalBytes]
        /\ UNCHANGED <<driver, counter, clock, reader, sent, calls, stamped>>
    BY <1>1, <1>2, <1>9, <2>3 DEF AddBytes
  <2>5. CallOK(d) /\ Stays(c, d) /\ d.stamp = c.stamp /\ Falls(c, d, 0, 0, c.totalBytes, 0, -c.totalBytes)
    <3>1. PICK p : p = "now"
      OBVIOUS
    <3>2. Update(c, p) /\ Put(c, d, p, t)
      BY <2>2, <2>4, <3>1 DEF Update, Put
    <3>3. CallOK(d) /\ Stays(c, d) /\ d.stamp = t /\ Updated(c, d)
      BY <1>0, <3>2, UpdateIs
    <3> QED
      BY <2>1, <2>4, <3>3 DEF Updated
  <2>6. CountsBytes(g, d)
    BY <1>1, <1>2, <2>4, <2>5 DEF CountsBytes, Moves
  <2> QED
    BY <2>6 DEF CallStep
<1>10. CASE Now(g)
  <2>1. PICK t \in Nat : t = clock + 1
    OBVIOUS
  <2>2. PICK d : d = [c EXCEPT !.pc = "time", !.stamp = t]
    OBVIOUS
  <2>4. /\ c.pc = "now" /\ call' = [call EXCEPT ![g] = d] /\ clock' = clock + 1
        /\ stamped' = Append(stamped, [messages |-> c.successCount, bytes |-> c.totalBytes])
        /\ UNCHANGED <<driver, counter, metrics, reader, sent, calls>>
    BY <1>1, <1>2, <1>10, <2>1, <2>2 DEF Now
  <2>5. CallOK(d) /\ Stays(c, d) /\ d.stamp = t /\ Falls(c, d, 0, 0, 0, c.successCount, c.totalBytes)
    <3>1. PICK p : p = "time"
      OBVIOUS
    <3>2. Update(c, p) /\ Put(c, d, p, t)
      BY <2>2, <2>4, <3>1 DEF Update, Put
    <3>3. CallOK(d) /\ Stays(c, d) /\ d.stamp = t /\ Updated(c, d)
      BY <1>0, <3>2, UpdateIs
    <3> QED
      BY <2>1, <2>4, <3>3 DEF Updated
  <2>6. Stamps(g, d)
    BY <1>1, <1>2, <2>1, <2>4, <2>5 DEF Stamps, Moves
  <2> QED
    BY <2>6 DEF CallStep
<1>11. CASE StoreTime(g)
  <2>1. PICK t \in Nat : t = c.stamp
    BY <1>2
  <2>2. PICK d : d = [c EXCEPT !.pc = "return", !.stamp = t]
    OBVIOUS
  <2>3. d = [c EXCEPT !.pc = "return"]
    BY <1>2, <2>1, <2>2
  <2>4. /\ c.pc = "time" /\ call' = [call EXCEPT ![g] = d]
        /\ metrics' = [metrics EXCEPT !.lastPublishTime = c.stamp]
        /\ UNCHANGED <<driver, counter, clock, reader, sent, calls, stamped>>
    BY <1>1, <1>2, <1>11, <2>3 DEF StoreTime
  <2>5. CallOK(d) /\ Stays(c, d) /\ d.stamp = c.stamp /\ Falls(c, d, 0, 0, 0, 0, 0)
    <3>1. PICK p : p = "return"
      OBVIOUS
    <3>2. Update(c, p) /\ Put(c, d, p, t)
      BY <2>2, <2>4, <3>1 DEF Update, Put
    <3>3. CallOK(d) /\ Stays(c, d) /\ d.stamp = t /\ Updated(c, d)
      BY <1>0, <3>2, UpdateIs
    <3> QED
      BY <2>1, <2>4, <3>3 DEF Updated
  <2>6. StoresTime(g, d)
    BY <1>1, <1>2, <2>4, <2>5 DEF StoresTime, Moves
  <2> QED
    BY <2>6 DEF CallStep
<1>12. CASE Return(g)
  <2>1. PICK d : d = Idle
    OBVIOUS
  <2>2. /\ c.pc = "return" /\ call' = [call EXCEPT ![g] = d]
        /\ calls' = [calls EXCEPT ![c.id].outcome = c.err]
        /\ counter' = IF c.kind = "tick" /\ c.err = "nil" THEN counter + 1 ELSE counter
        /\ UNCHANGED <<driver, metrics, clock, reader, sent, stamped>>
    BY <1>1, <1>12, <2>1 DEF Return
  <2>3. CallOK(d) /\ ~Active(d) /\ d.stamp = 0 /\ Active(c) /\ ~AtMessage(c)
    BY <2>1, <2>2, IdleOK DEF Active, AtMessage
  <2>4. /\ Outstanding(d) = 0 /\ UncountedMessages(d) = 0 /\ UncountedBytes(d) = 0
        /\ UnstampedMessages(d) = 0 /\ UnstampedBytes(d) = 0
    BY <2>3, NothingOutstanding
  <2>5. /\ Outstanding(c) = IF c.err = "cancelled" THEN 1 ELSE 0
        /\ UncountedMessages(c) = 0 /\ UncountedBytes(c) = 0
        /\ UnstampedMessages(c) = 0 /\ UnstampedBytes(c) = 0
    BY <2>2, <2>3 DEF Outstanding, UncountedMessages, UncountedBytes, UnstampedMessages, UnstampedBytes
  <2>6. Falls(c, d, IF c.err = "cancelled" THEN 1 ELSE 0, 0, 0, 0, 0)
    BY <2>4, <2>5 DEF Falls
  <2>7. Returns(g, d)
    BY <1>1, <1>2, <2>2, <2>3, <2>6 DEF Returns, Moves
  <2> QED
    BY <2>7 DEF CallStep
<1> QED
  BY <1>3, <1>4, <1>5, <1>6, <1>7, <1>8, <1>9, <1>10, <1>11, <1>12 DEF Step

(* The messages of a call with one message. *)
LEMMA OneMessage ==
  ASSUME NEW n \in Nat
  PROVE  \E ms \in Seq(Nat) : ms = <<n>> /\ Len(ms) = 1
<1>1. <<n>> \in Seq(Nat) /\ Len(<<n>>) = 1
  OBVIOUS
<1> QED
  BY <1>1

(* So is every step of the publisher, but for the reader's and for the     *)
(* cancellation.                                                           *)
LEMMA PublisherShape ==
  ASSUME CallsOK, clock \in Nat, Len(calls) \in Nat, PublisherNext
  PROVE  (\E g, d : CallStep(g, d)) \/ Reads \/ Rests
<1>0. "run" \in Goroutine /\ Caller \subseteq Goroutine
  BY DEF Goroutine
<1>1. CASE publishMessage
  <2>1. PICK ms \in Seq(Nat) : ms = <<TickLength>> /\ Len(ms) = 1
    BY PublisherAssumption, OneMessage
  <2>3. StartOK("tick", ms, 0, "publish") /\ "tick" \in Kind
    BY <2>1 DEF StartOK, Kind
  <2>4. driver = "run" /\ Begin("run", "tick", ms, 0, "publish")
    BY <1>1, <2>1 DEF publishMessage
  <2>5. \E d : Begins("run", d)
    BY <1>0, <2>3, <2>4, BeginShape
  <2> QED
    BY <2>5 DEF CallStep
<1>2. CASE runStops
  <2>1. PICK d : d = Done
    OBVIOUS
  <2>2. /\ call["run"].pc = "idle" /\ call' = [call EXCEPT !["run"] = d]
        /\ UNCHANGED <<driver, counter, metrics, clock, reader, sent, calls, stamped>>
    BY <1>2, <2>1 DEF runStops
  <2>3. CallOK(d) /\ ~Active(d) /\ d.stamp = 0 /\ ~Active(call["run"]) /\ CallOK(call["run"])
    BY <1>0, <2>1, <2>2, IdleOK DEF Active, CallsOK
  <2>4. Stops("run", d)
    BY <1>0, <2>2, <2>3 DEF Stops, Moves
  <2> QED
    BY <2>4 DEF CallStep
<1>3. CASE Cancel
  BY <1>3 DEF Cancel, Rests
<1>4. CASE GetMetrics
  <2>1. DOMAIN LoadOrder = 1 .. 3
    BY DEF LoadOrder
  <2> QED
    BY <1>4, <2>1 DEF GetMetrics, Reads
<1>5. ASSUME NEW g \in Caller, PublishCustomMessage(g) PROVE \E h, d : CallStep(h, d)
  <2>1. driver = "api" /\ \E len \in Length : Begin(g, "custom", <<len>>, 0, "publish")
    BY <1>5 DEF PublishCustomMessage
  <2>2. PICK len \in Nat : Begin(g, "custom", <<len>>, 0, "publish")
    BY <2>1, PublisherAssumption
  <2>3. PICK ms \in Seq(Nat) : ms = <<len>> /\ Len(ms) = 1
    BY OneMessage
  <2>5. StartOK("custom", ms, 0, "publish") /\ "custom" \in Kind
    BY <2>3 DEF StartOK, Kind
  <2>6. Begin(g, "custom", ms, 0, "publish")
    BY <2>2, <2>3
  <2>7. g \in Goroutine /\ driver # "run" /\ driver \in {"run", "api"}
    BY <1>0, <2>1
  <2>8. \E d : Begins(g, d)
    BY <2>5, <2>6, <2>7, BeginShape
  <2> QED
    BY <2>8 DEF CallStep
<1>6. ASSUME NEW g \in Caller, PublishBatch(g) PROVE \E h, d : CallStep(h, d)
  <2>1. driver = "api" /\ \E ms \in Batch : Begin(g, "batch", ms, 0, IF ms = <<>> THEN "return" ELSE "publish")
    BY <1>6 DEF PublishBatch
  <2>2. PICK ms \in Seq(Nat) : Begin(g, "batch", ms, 0, IF ms = <<>> THEN "return" ELSE "publish")
    BY <2>1, PublisherAssumption
  <2>3. PICK first : first = IF ms = <<>> THEN "return" ELSE "publish"
    OBVIOUS
  <2>4. Len(ms) \in Nat /\ (Len(ms) = 0 <=> ms = <<>>)
    BY EmptySeq
  <2>5. StartOK("batch", ms, 0, first) /\ "batch" \in Kind
    BY <2>3, <2>4 DEF StartOK, Kind
  <2>6. \E d : Begins(g, d)
    BY <1>0, <2>1, <2>2, <2>3, <2>5, BeginShape
  <2> QED
    BY <2>6 DEF CallStep
<1>7. ASSUME NEW g \in Caller, PublishWithRetry(g) PROVE \E h, d : CallStep(h, d)
  <2>1. driver = "api" /\ \E len \in Length, max \in MaxRetries :
           Begin(g, "retry", <<len>>, max, IF max < 0 THEN "fail" ELSE "publish")
    BY <1>7 DEF PublishWithRetry
  <2>2. PICK len \in Nat, max \in Int : Begin(g, "retry", <<len>>, max, IF max < 0 THEN "fail" ELSE "publish")
    BY <2>1, PublisherAssumption
  <2>3. PICK first : first = IF max < 0 THEN "fail" ELSE "publish"
    OBVIOUS
  <2>4. PICK ms \in Seq(Nat) : ms = <<len>> /\ Len(ms) = 1
    BY OneMessage
  <2>6. StartOK("retry", ms, max, first) /\ "retry" \in Kind
    BY <2>3, <2>4 DEF StartOK, Kind
  <2>7. \E d : Begins(g, d)
    BY <1>0, <2>1, <2>2, <2>3, <2>4, <2>6, BeginShape
  <2> QED
    BY <2>7 DEF CallStep
<1>8. ASSUME NEW g \in Goroutine, Step(g) PROVE \E h, d : CallStep(h, d)
  BY <1>8, StepShape
<1> QED
  BY <1>1, <1>2, <1>3, <1>4, <1>5, <1>6, <1>7, <1>8 DEF PublisherNext


-----------------------------------------------------------------------------
(* The types of the publisher *)

MetricsRecord == [MessagesPublished : Nat, PublishErrors : Nat, BytesPublished : Nat, lastPublishTime : Nat]

SentRecord == [call : Nat, i : Nat, len : Nat, number : Int]

CallEntry == [kind : Kind, msgs : Seq(Nat), outcome : {"running", "nil", "error", "cancelled"}]

StampRecord == [messages : Nat, bytes : Nat]

PubTypes ==
  /\ CallsOK
  /\ counter \in Nat /\ clock \in Nat
  /\ metrics \in MetricsRecord
  /\ reader \in [pc : 1 .. 4, got : MetricsRecord]
  /\ sent \in Seq(SentRecord)
  /\ calls \in Seq(CallEntry)
  /\ stamped \in Seq(StampRecord) /\ Len(stamped) = clock

\* The clock is ahead of the times that were taken from it.
Times ==
  /\ metrics.lastPublishTime <= clock
  /\ \A g \in Goroutine : call[g].stamp <= clock

\* A call that is under way has an entry of its own.
Linked ==
  /\ \A g \in Goroutine : Active(call[g]) =>
       /\ call[g].id \in 1 .. Len(calls)
       /\ calls[call[g].id].msgs = call[g].msgs
       /\ calls[call[g].id].outcome = "running"
  /\ \A g, h \in Goroutine : Active(call[g]) /\ Active(call[h]) /\ g # h => call[g].id # call[h].id

(* One goroutine moves, the others stay where they are. *)
LEMMA MovesOne ==
  ASSUME CallsOK, NEW g, NEW d, Moves(g, d)
  PROVE  /\ CallsOK' /\ call'[g] = d /\ g \in Goroutine
         /\ \A h \in Goroutine \ {g} : call'[h] = call[h]
<1>1. g \in Goroutine /\ d \in CallRecord /\ CallOK(d) /\ call' = [call EXCEPT ![g] = d]
        /\ call \in [Goroutine -> CallRecord] /\ \A h \in Goroutine : CallOK(call[h])
  BY DEF Moves, CallsOK, CallOK
<1>2. call' \in [Goroutine -> CallRecord] /\ call'[g] = d /\ \A h \in Goroutine \ {g} : call'[h] = call[h]
  BY <1>1
<1>3. \A h \in Goroutine : CallOK(call'[h])
  <2> TAKE h \in Goroutine
  <2>1. CASE h = g
    BY <1>1, <1>2, <2>1
  <2>2. CASE h # g
    <3>1. call'[h] = call[h]
      BY <1>2, <2>2
    <3> QED
      BY <1>1, <3>1
  <2> QED
    BY <2>1, <2>2
<1>4. CallsOK'
  BY <1>2, <1>3 DEF CallsOK
<1> QED
  BY <1>1, <1>2, <1>4

(* The histories grow at their ends. *)
LEMMA AppendIs ==
  ASSUME NEW S, NEW s \in Seq(S), NEW e \in S, NEW t, t = Append(s, e)
  PROVE  /\ t \in Seq(S) /\ Len(s) \in Nat /\ Len(t) = Len(s) + 1 /\ t[Len(s) + 1] = e
         /\ \A k \in 1 .. Len(s) : t[k] = s[k]
         /\ DOMAIN s = 1 .. Len(s) /\ DOMAIN t = 1 .. Len(s) + 1
<1>1. /\ t \in Seq(S) /\ Len(t) = Len(s) + 1
      /\ \A k \in 1 .. Len(s) : t[k] = s[k]
      /\ t[Len(s) + 1] = e
  BY AppendProperties
<1>2. Len(s) \in Nat /\ DOMAIN s = 1 .. Len(s) /\ DOMAIN t = 1 .. Len(t)
  BY <1>1, LenProperties
<1> QED
  BY <1>1, <1>2

(* An outcome is written into one entry. *)
LEMMA OutcomeIs ==
  ASSUME NEW s \in Seq(CallEntry), NEW k \in 1 .. Len(s), NEW o \in {"nil", "error", "cancelled"},
         NEW t, t = [s EXCEPT ![k].outcome = o]
  PROVE  /\ t \in Seq(CallEntry) /\ Len(t) = Len(s) /\ Len(s) \in Nat
         /\ DOMAIN s = 1 .. Len(s) /\ DOMAIN t = 1 .. Len(s)
         /\ \A j \in 1 .. Len(s) : t[j].msgs = s[j].msgs
         /\ t[k].outcome = o
         /\ \A j \in 1 .. Len(s) : j # k => t[j] = s[j]
<1>1. Len(s) \in Nat /\ DOMAIN s = 1 .. Len(s) /\ \A j \in 1 .. Len(s) : s[j] \in CallEntry
  BY LenProperties, ElementOfSeq
<1>2. PICK e : e = [s[k] EXCEPT !.outcome = o]
  OBVIOUS
<1>3. e \in CallEntry /\ e.msgs = s[k].msgs /\ e.outcome = o
  <2>1. PICK u \in CallEntry : u = s[k]
    BY <1>1
  <2>2. e = [u EXCEPT !.outcome = o]
    BY <1>2, <2>1
  <2>3. e \in CallEntry /\ e.msgs = u.msgs /\ e.outcome = o
    BY <2>2 DEF CallEntry
  <2> QED
    BY <2>1, <2>3
<1>4. t = [s EXCEPT ![k] = e]
  BY <1>2
<1>5. t \in Seq(CallEntry) /\ Len(t) = Len(s) /\ t[k] = e /\ \A j \in 1 .. Len(s) : j # k => t[j] = s[j]
  BY <1>1, <1>3, <1>4, ExceptSeq
<1>6. DOMAIN t = 1 .. Len(s)
  BY <1>5, LenProperties
<1>7. \A j \in 1 .. Len(s) : t[j].msgs = s[j].msgs
  BY <1>3, <1>5
<1> QED
  BY <1>1, <1>3, <1>5, <1>6, <1>7


(* A counter of the metrics is written. *)
LEMMA MetricsWritten ==
  ASSUME NEW m \in MetricsRecord, NEW n \in Nat, NEW w
  PROVE  /\ w = [m EXCEPT !.MessagesPublished = n] =>
              /\ w \in MetricsRecord /\ w.MessagesPublished = n /\ w.PublishErrors = m.PublishErrors
              /\ w.BytesPublished = m.BytesPublished /\ w.lastPublishTime = m.lastPublishTime
         /\ w = [m EXCEPT !.PublishErrors = n] =>
              /\ w \in MetricsRecord /\ w.MessagesPublished = m.MessagesPublished /\ w.PublishErrors = n
              /\ w.BytesPublished = m.BytesPublished /\ w.lastPublishTime = m.lastPublishTime
         /\ w = [m EXCEPT !.BytesPublished = n] =>
              /\ w \in MetricsRecord /\ w.MessagesPublished = m.MessagesPublished
              /\ w.PublishErrors = m.PublishErrors
              /\ w.BytesPublished = n /\ w.lastPublishTime = m.lastPublishTime
         /\ w = [m EXCEPT !.lastPublishTime = n] =>
              /\ w \in MetricsRecord /\ w.MessagesPublished = m.MessagesPublished
              /\ w.PublishErrors = m.PublishErrors
              /\ w.BytesPublished = m.BytesPublished /\ w.lastPublishTime = n
BY DEF MetricsRecord

(* What a step may do to the metrics: PublishErrors, MessagesPublished and *)
(* BytesPublished grow, lastPublishTime is a time that a call has taken.   *)
MetricsStep(g) ==
  LET c == call[g]
      m == metrics
      w == metrics'
  IN  /\ w \in MetricsRecord
      /\ m.MessagesPublished <= w.MessagesPublished /\ m.BytesPublished <= w.BytesPublished
      /\ w.lastPublishTime \in {m.lastPublishTime, c.stamp}

(* The numbers of a call. *)
LEMMA CallNumbers ==
  ASSUME NEW c, CallOK(c)
  PROVE  /\ c.successCount \in Nat /\ c.totalBytes \in Nat /\ c.stamp \in Nat /\ c.id \in Nat
         /\ c.msgs \in Seq(Nat) /\ c.i \in Nat \ {0} /\ Len(c.msgs) \in Nat
         /\ c.kind \in Kind /\ c.err \in {"nil", "error", "cancelled"}
<1>1. c \in CallRecord
  BY DEF CallOK
<1>2. c.msgs \in Seq(Nat)
  BY <1>1 DEF CallRecord
<1>3. Len(c.msgs) \in Nat
  BY <1>2
<1> QED
  BY <1>1, <1>2, <1>3 DEF CallRecord

(* Every step of a call keeps the metrics in order. *)
LEMMA MetricsKept ==
  ASSUME PubTypes, NEW g, NEW d, CallStep(g, d)
  PROVE  MetricsStep(g)
<1>1. PICK m \in MetricsRecord : m = metrics
  BY DEF PubTypes
<1>2. PICK w : w = metrics'
  OBVIOUS
<1>3. /\ m.MessagesPublished \in Nat /\ m.PublishErrors \in Nat /\ m.BytesPublished \in Nat
      /\ m.lastPublishTime \in Nat
  BY DEF MetricsRecord
<1>4. Moves(g, d)
  BY DEF CallStep, Begins, Stops, Sends, Errs, GivesUp, Tries, CountsMessages, CountsBytes, Stamps,
         StoresTime, Returns
<1>5. PICK c : c = call[g]
  OBVIOUS
<1>6. c.successCount \in Nat /\ c.totalBytes \in Nat /\ c.stamp \in Nat
  BY <1>4, <1>5, CallNumbers DEF Moves
<1>7. CASE w = m
  <2>1. m.MessagesPublished <= m.MessagesPublished /\ m.BytesPublished <= m.BytesPublished
    BY <1>3
  <2> QED
    BY <1>1, <1>2, <1>7, <2>1 DEF MetricsStep
<1>8. CASE Errs(g, d)
  <2>1. PICK n \in Nat : n = m.PublishErrors + 1
    BY <1>3
  <2>2. w = [m EXCEPT !.PublishErrors = n]
    BY <1>1, <1>2, <1>8, <2>1 DEF Errs
  <2>3. /\ w \in MetricsRecord /\ w.MessagesPublished = m.MessagesPublished
        /\ w.BytesPublished = m.BytesPublished /\ w.lastPublishTime = m.lastPublishTime
    BY <2>2, MetricsWritten
  <2>4. m.MessagesPublished <= m.MessagesPublished /\ m.BytesPublished <= m.BytesPublished
    BY <1>3
  <2> QED
    BY <1>1, <1>2, <2>3, <2>4 DEF MetricsStep
<1>9. CASE CountsMessages(g, d)
  <2>1. PICK n \in Nat : n = m.MessagesPublished + c.successCount
    BY <1>3, <1>6
  <2>2. w = [m EXCEPT !.MessagesPublished = n]
    BY <1>1, <1>2, <1>5, <1>9, <2>1 DEF CountsMessages
  <2>3. /\ w \in MetricsRecord /\ w.MessagesPublished = n
        /\ w.BytesPublished = m.BytesPublished /\ w.lastPublishTime = m.lastPublishTime
    BY <2>2, MetricsWritten
  <2>4. m.MessagesPublished <= n /\ m.BytesPublished <= m.BytesPublished
    BY <1>3, <1>6, <2>1
  <2> QED
    BY <1>1, <1>2, <2>3, <2>4 DEF MetricsStep
<1>10. CASE CountsBytes(g, d)
  <2>1. PICK n \in Nat : n = m.BytesPublished + c.totalBytes
    BY <1>3, <1>6
  <2>2. w = [m EXCEPT !.BytesPublished = n]
    BY <1>1, <1>2, <1>5, <1>10, <2>1 DEF CountsBytes
  <2>3. /\ w \in MetricsRecord /\ w.MessagesPublished = m.MessagesPublished
        /\ w.BytesPublished = n /\ w.lastPublishTime = m.lastPublishTime
    BY <2>2, MetricsWritten
  <2>4. m.MessagesPublished <= m.MessagesPublished /\ m.BytesPublished <= n
    BY <1>3, <1>6, <2>1
  <2> QED
    BY <1>1, <1>2, <2>3, <2>4 DEF MetricsStep
<1>11. CASE StoresTime(g, d)
  <2>1. PICK n \in Nat : n = c.stamp
    BY <1>6
  <2>2. w = [m EXCEPT !.lastPublishTime = n]
    BY <1>1, <1>2, <1>5, <1>11, <2>1 DEF StoresTime
  <2>3. /\ w \in MetricsRecord /\ w.MessagesPublished = m.MessagesPublished
        /\ w.BytesPublished = m.BytesPublished /\ w.lastPublishTime = n
    BY <2>2, MetricsWritten
  <2>4. m.MessagesPublished <= m.MessagesPublished /\ m.BytesPublished <= m.BytesPublished
    BY <1>3
  <2> QED
    BY <1>1, <1>2, <1>5, <2>1, <2>3, <2>4 DEF MetricsStep
<1>12. CASE Begins(g, d) \/ Stops(g, d) \/ Sends(g, d) \/ GivesUp(g, d) \/ Tries(g, d) \/ Stamps(g, d) \/ Returns(g, d)
  <2>1. UNCHANGED metrics
    BY <1>12 DEF Begins, Stops, Sends, GivesUp, Tries, Stamps, Returns
  <2> QED
    BY <1>1, <1>2, <1>7, <2>1
<1> QED
  BY <1>8, <1>9, <1>10, <1>11, <1>12 DEF CallStep


\* The histories after a step.
Histories ==
  /\ counter' \in Nat /\ clock' \in Nat /\ clock <= clock'
  /\ sent' \in Seq(SentRecord) /\ calls' \in Seq(CallEntry) /\ stamped' \in Seq(StampRecord)
  /\ Len(stamped') = clock'

(* The message on its way: sent by a call, and of the length it was given. *)
LEMMA TextIs ==
  ASSUME PubTypes, NEW c, CallOK(c), c.msgs[c.i] \in Nat
  PROVE  /\ Text(c) \in SentRecord
         /\ Text(c).call = c.id /\ Text(c).i = c.i /\ Text(c).len = c.msgs[c.i]
         /\ c.kind = "tick" => Text(c).number = counter
<1>1. c.id \in Nat /\ c.i \in Nat
  BY CallNumbers
<1>2. counter \in Int /\ -1 \in Int
  BY DEF PubTypes
<1>3. PICK n \in Int : n = IF c.kind = "tick" THEN counter ELSE -1
  BY <1>2
<1>4. PICK x : x = [call |-> c.id, i |-> c.i, len |-> c.msgs[c.i], number |-> n]
  OBVIOUS
<1>5. Text(c) = x
  BY <1>3, <1>4 DEF Text
<1>6. x \in SentRecord /\ x.call = c.id /\ x.i = c.i /\ x.len = c.msgs[c.i] /\ x.number = n
  BY <1>1, <1>4 DEF SentRecord
<1> QED
  BY <1>3, <1>5, <1>6

(* Every step of a call keeps the histories in order. *)
LEMMA HistoriesKept ==
  ASSUME PubTypes, Linked, NEW g, NEW d, CallStep(g, d)
  PROVE  Histories
<1>1. /\ counter \in Nat /\ clock \in Nat
      /\ sent \in Seq(SentRecord) /\ calls \in Seq(CallEntry) /\ stamped \in Seq(StampRecord)
      /\ Len(stamped) = clock /\ clock <= clock
  BY DEF PubTypes
<1>2. Moves(g, d)
  BY DEF CallStep, Begins, Stops, Sends, Errs, GivesUp, Tries, CountsMessages, CountsBytes, Stamps,
         StoresTime, Returns
<1>3. PICK c : c = call[g]
  OBVIOUS
<1>4. CallOK(c) /\ CallOK(d) /\ g \in Goroutine
  BY <1>2, <1>3 DEF Moves
<1>5. CASE Begins(g, d)
  <2>1. Entry(d) \in CallEntry
    <3>1. d.kind \in Kind /\ d.msgs \in Seq(Nat)
      BY <1>4, CallNumbers
    <3> QED
      BY <3>1 DEF Entry, CallEntry
  <2>2. calls' = Append(calls, Entry(d)) /\ UNCHANGED <<counter, clock, sent, stamped>>
    BY <1>5 DEF Begins
  <2>3. calls' \in Seq(CallEntry)
    BY <1>1, <2>1, <2>2, AppendIs
  <2> QED
    BY <1>1, <2>2, <2>3 DEF Histories
<1>6. CASE Sends(g, d)
  <2>1. sent' = Append(sent, Text(c)) /\ UNCHANGED <<counter, clock, calls, stamped>>
          /\ c.msgs[c.i] \in Nat
    BY <1>3, <1>6 DEF Sends
  <2>2. Text(c) \in SentRecord
    BY <1>4, <2>1, TextIs
  <2>3. sent' \in Seq(SentRecord)
    BY <1>1, <2>1, <2>2, AppendIs
  <2> QED
    BY <1>1, <2>1, <2>3 DEF Histories
<1>7. CASE Stamps(g, d)
  <2>1. PICK e : e = [messages |-> c.successCount, bytes |-> c.totalBytes]
    OBVIOUS
  <2>2. stamped' = Append(stamped, e) /\ clock' = clock + 1 /\ UNCHANGED <<counter, calls, sent>>
    BY <1>3, <1>7, <2>1 DEF Stamps
  <2>3. e \in StampRecord
    <3>1. c.successCount \in Nat /\ c.totalBytes \in Nat
      BY <1>4, CallNumbers
    <3> QED
      BY <2>1, <3>1 DEF StampRecord
  <2>4. stamped' \in Seq(StampRecord) /\ Len(stamped') = Len(stamped) + 1
    BY <1>1, <2>2, <2>3, AppendIs
  <2>5. clock + 1 \in Nat /\ clock <= clock + 1
    BY <1>1
  <2> QED
    BY <1>1, <2>2, <2>4, <2>5 DEF Histories
<1>8. CASE Returns(g, d)
  <2>1. /\ Active(c) /\ calls' = [calls EXCEPT ![c.id].outcome = c.err]
        /\ counter' = IF c.kind = "tick" /\ c.err = "nil" THEN counter + 1 ELSE counter
        /\ UNCHANGED <<clock, sent, stamped>>
    BY <1>3, <1>8 DEF Returns
  <2>2. c.id \in 1 .. Len(calls) /\ c.err \in {"nil", "error", "cancelled"}
    BY <1>3, <1>4, <2>1, CallNumbers DEF Linked
  <2>3. calls' \in Seq(CallEntry)
    BY <1>1, <2>1, <2>2, OutcomeIs
  <2>4. counter' \in Nat
    BY <1>1, <2>1
  <2> QED
    BY <1>1, <2>1, <2>3, <2>4 DEF Histories
<1>9. CASE Stops(g, d) \/ Errs(g, d) \/ GivesUp(g, d) \/ Tries(g, d) \/ CountsMessages(g, d) \/ CountsBytes(g, d) \/ StoresTime(g, d)
  <2>1. UNCHANGED <<counter, clock, sent, calls, stamped>>
    BY <1>9 DEF Stops, Errs, GivesUp, Tries, CountsMessages, CountsBytes, StoresTime
  <2> QED
    BY <1>1, <2>1 DEF Histories
<1> QED
  BY <1>5, <1>6, <1>7, <1>8, <1>9 DEF CallStep

(* The types are invariant. *)
LEMMA PubTypesKept ==
  ASSUME PubTypes, Times, Linked, NEW g, NEW d, CallStep(g, d)
  PROVE  PubTypes' /\ Times'
<1>1. Moves(g, d) /\ UNCHANGED reader /\ (d.stamp \in {0, call[g].stamp} \/ d.stamp = clock')
  BY DEF CallStep, Begins, Stops, Sends, Errs, GivesUp, Tries, CountsMessages, CountsBytes, Stamps,
         StoresTime, Returns
<1>2. MetricsStep(g) /\ Histories
  BY MetricsKept, HistoriesKept
<1>3. CallsOK' /\ call'[g] = d /\ g \in Goroutine /\ \A h \in Goroutine \ {g} : call'[h] = call[h]
  BY <1>1, MovesOne DEF PubTypes
<1>4. PubTypes'
  BY <1>1, <1>2, <1>3 DEF PubTypes, MetricsStep, Histories
<1>5. PICK a \in Nat, b \in Nat : a = clock /\ b = clock'
  BY <1>2 DEF PubTypes, Histories
<1>6. a <= b
  BY <1>2, <1>5 DEF Histories
<1>7. ASSUME NEW h \in Goroutine PROVE call[h].stamp \in Nat /\ call[h].stamp <= b
  <2>1. call[h].stamp \in Nat
    BY CallNumbers DEF PubTypes, CallsOK
  <2>2. call[h].stamp <= a
    BY <1>5 DEF Times
  <2> QED
    BY <1>6, <2>1, <2>2
<1>8. ASSUME NEW h \in Goroutine PROVE call'[h].stamp <= b
  <2>1. CASE h = g
    <3>1. d.stamp \in {0, call[g].stamp} \/ d.stamp = b
      BY <1>1, <1>5
    <3> QED
      BY <1>3, <1>7, <2>1, <3>1
  <2>2. CASE h # g
    BY <1>3, <1>7, <2>2
  <2> QED
    BY <2>1, <2>2
<1>9. metrics'.lastPublishTime <= b
  <2>1. metrics.lastPublishTime \in Nat /\ metrics.lastPublishTime <= a
    BY <1>5 DEF PubTypes, MetricsRecord, Times
  <2>2. metrics.lastPublishTime <= b
    BY <1>6, <2>1
  <2>3. metrics'.lastPublishTime \in {metrics.lastPublishTime, call[g].stamp}
    BY <1>2 DEF MetricsStep
  <2> QED
    BY <1>3, <1>7, <2>2, <2>3
<1> QED
  BY <1>4, <1>5, <1>8, <1>9 DEF Times


\* A step in the middle of a call.
GoesOn(g, d) ==
  \/ Sends(g, d) \/ Errs(g, d) \/ GivesUp(g, d) \/ Tries(g, d)
  \/ CountsMessages(g, d) \/ CountsBytes(g, d) \/ Stamps(g, d) \/ StoresTime(g, d)

(* In the middle of a call its messages and its entry stay the same. *)
LEMMA GoesOnIs ==
  ASSUME NEW g, NEW d, GoesOn(g, d)
  PROVE  Moves(g, d) /\ Active(call[g]) /\ Active(d) /\ Kept(call[g], d) /\ UNCHANGED <<calls, counter, driver>>
BY DEF GoesOn, Sends, Errs, GivesUp, Tries, CountsMessages, CountsBytes, Stamps, StoresTime, Through, Stays

(* Every call that is under way keeps its own entry. *)
LEMMA LinkedKept ==
  ASSUME PubTypes, Linked, NEW g, NEW d, CallStep(g, d)
  PROVE  Linked'
<1>1. /\ calls \in Seq(CallEntry) /\ Len(calls) \in Nat /\ DOMAIN calls = 1 .. Len(calls) /\ CallsOK
  BY LenProperties DEF PubTypes
<1>2. CASE Begins(g, d)
  <2>1. /\ Moves(g, d) /\ ~Active(call[g]) /\ Active(d) /\ d.id = Len(calls) + 1
        /\ calls' = Append(calls, Entry(d))
    BY <1>2 DEF Begins
  <2>2. call'[g] = d /\ g \in Goroutine /\ \A h \in Goroutine \ {g} : call'[h] = call[h]
    BY <1>1, <2>1, MovesOne
  <2>3. Entry(d) \in CallEntry /\ Entry(d).msgs = d.msgs /\ Entry(d).outcome = "running"
    <3>1. d.kind \in Kind /\ d.msgs \in Seq(Nat)
      BY <2>1, CallNumbers DEF Moves
    <3> QED
      BY <3>1 DEF Entry, CallEntry
  <2>4. PICK t : t = calls'
    OBVIOUS
  <2>5. Len(t) = Len(calls) + 1 /\ t[Len(calls) + 1] = Entry(d) /\ \A k \in 1 .. Len(calls) : t[k] = calls[k]
    BY <1>1, <2>1, <2>3, <2>4, AppendIs
  <2>6. PICK n \in Nat : n = Len(calls)
    BY <1>1
  <2>7. d.id \in 1 .. n + 1 /\ d.id \notin 1 .. n /\ \A k \in 1 .. n : k \in 1 .. n + 1
    BY <2>1, <2>6
  <2>8. ASSUME NEW h \in Goroutine, Active(call'[h])
        PROVE  call'[h].id \in 1 .. n + 1 /\ t[call'[h].id].msgs = call'[h].msgs
                 /\ t[call'[h].id].outcome = "running"
    <3>1. CASE h = g
      BY <2>1, <2>2, <2>3, <2>5, <2>6, <2>7, <3>1
    <3>2. CASE h # g
      <4>1. call'[h] = call[h]
        BY <2>2, <3>2
      <4>2. call[h].id \in 1 .. n /\ calls[call[h].id].msgs = call[h].msgs
              /\ calls[call[h].id].outcome = "running"
        BY <2>6, <2>8, <4>1 DEF Linked
      <4> QED
        BY <2>5, <2>6, <2>7, <4>1, <4>2
    <3> QED
      BY <3>1, <3>2
  <2>9. ASSUME NEW h \in Goroutine, h # g, Active(call'[h]) PROVE call'[h].id # d.id
    <3>1. call'[h] = call[h]
      BY <2>2, <2>9
    <3>2. call[h].id \in 1 .. n
      BY <2>6, <2>9, <3>1 DEF Linked
    <3> QED
      BY <2>7, <3>1, <3>2
  <2>10. ASSUME NEW k \in Goroutine, NEW h \in Goroutine, Active(call'[k]), Active(call'[h]), k # h
         PROVE  call'[k].id # call'[h].id
    <3>1. CASE k = g
      BY <2>2, <2>9, <2>10, <3>1
    <3>2. CASE h = g
      BY <2>2, <2>9, <2>10, <3>2
    <3>3. CASE k # g /\ h # g
      BY <2>2, <2>10, <3>3 DEF Linked
    <3> QED
      BY <3>1, <3>2, <3>3
  <2>11. Len(t) = n + 1
    BY <2>5, <2>6
  <2> QED
    BY <2>4, <2>8, <2>10, <2>11 DEF Linked
<1>3. CASE Stops(g, d)
  <2>1. Moves(g, d) /\ ~Active(d) /\ UNCHANGED calls
    BY <1>3 DEF Stops
  <2>2. call'[g] = d /\ g \in Goroutine /\ \A h \in Goroutine \ {g} : call'[h] = call[h]
    BY <1>1, <2>1, MovesOne
  <2>3. \A h \in Goroutine : Active(call'[h]) => h # g /\ call'[h] = call[h] /\ Active(call[h])
    BY <2>1, <2>2
  <2> QED
    BY <2>1, <2>3 DEF Linked
<1>4. CASE GoesOn(g, d)
  <2>1. Moves(g, d) /\ Active(call[g]) /\ Active(d) /\ UNCHANGED calls
          /\ d.id = call[g].id /\ d.msgs = call[g].msgs
    BY <1>4, GoesOnIs DEF Kept
  <2>2. call'[g] = d /\ g \in Goroutine /\ \A h \in Goroutine \ {g} : call'[h] = call[h]
    BY <1>1, <2>1, MovesOne
  <2>3. \A h \in Goroutine : Active(call'[h]) =>
           Active(call[h]) /\ call'[h].id = call[h].id /\ call'[h].msgs = call[h].msgs
    BY <2>1, <2>2
  <2> QED
    BY <2>1, <2>3 DEF Linked
<1>5. CASE Returns(g, d)
  <2>1. PICK c : c = call[g]
    OBVIOUS
  <2>2. Moves(g, d) /\ Active(c) /\ ~Active(d) /\ calls' = [calls EXCEPT ![c.id].outcome = c.err]
    BY <1>5, <2>1 DEF Returns
  <2>3. call'[g] = d /\ g \in Goroutine /\ \A h \in Goroutine \ {g} : call'[h] = call[h]
    BY <1>1, <2>2, MovesOne
  <2>4. c.id \in 1 .. Len(calls) /\ c.err \in {"nil", "error", "cancelled"}
    BY <2>1, <2>2, <2>3, CallNumbers DEF Linked, Moves
  <2>5. PICK t : t = calls'
    OBVIOUS
  <2>6. Len(t) = Len(calls) /\ \A j \in 1 .. Len(calls) : j # c.id => t[j] = calls[j]
    BY <1>1, <2>2, <2>4, <2>5, OutcomeIs
  <2>7. \A h \in Goroutine : Active(call'[h]) =>
           h # g /\ call'[h] = call[h] /\ Active(call[h]) /\ call[h].id # c.id
    BY <2>1, <2>2, <2>3 DEF Linked
  <2> QED
    BY <2>5, <2>6, <2>7 DEF Linked
<1> QED
  BY <1>2, <1>3, <1>4, <1>5 DEF CallStep, GoesOn

-----------------------------------------------------------------------------
(* The accounts: what the metrics say against what was done *)

OutstandingOf(k)       == [g \in Goroutine |-> Outstanding(k[g])]
UncountedMessagesOf(k) == [g \in Goroutine |-> UncountedMessages(k[g])]
UncountedBytesOf(k)    == [g \in Goroutine |-> UncountedBytes(k[g])]
UnstampedMessagesOf(k) == [g \in Goroutine |-> UnstampedMessages(k[g])]
UnstampedBytesOf(k)    == [g \in Goroutine |-> UnstampedBytes(k[g])]

SentBytes(s)       == Sum([k \in DOMAIN s |-> s[k].len])
Handed(s)          == Sum([k \in DOMAIN s |-> Len(s[k].msgs)])
GivenUp(s)         == {k \in DOMAIN s : s[k].outcome = "cancelled"}
StampedMessages(s) == Sum([t \in DOMAIN s |-> s[t].messages])
StampedBytes(s)    == Sum([t \in DOMAIN s |-> s[t].bytes])

Accounts ==
  /\ Len(sent) = metrics.MessagesPublished + Sum(UncountedMessagesOf(call))
  /\ SentBytes(sent) = metrics.BytesPublished + Sum(UncountedBytesOf(call))
  /\ metrics.MessagesPublished = StampedMessages(stamped) + Sum(UnstampedMessagesOf(call))
  /\ metrics.BytesPublished = StampedBytes(stamped) + Sum(UnstampedBytesOf(call))
  /\ Handed(calls) = Len(sent) + metrics.PublishErrors + Cardinality(GivenUp(calls))
                       + Sum(OutstandingOf(call))

(* There are finitely many goroutines. *)
LEMMA GoroutinesFinite == IsFiniteSet(Goroutine)
<1>1. IsFiniteSet(Caller)
  BY PublisherAssumption
<1>2. IsFiniteSet(Caller \cup {"run"})
  BY <1>1, FS_AddElement
<1> QED
  BY <1>2 DEF Goroutine

(* One call changes what it owes to the totals, the others nothing. *)
LEMMA TotalsMove ==
  ASSUME NEW k, NEW l, NEW g \in Goroutine, \A h \in Goroutine : CallOK(k[h]) /\ CallOK(l[h]),
         \A h \in Goroutine \ {g} : l[h] = k[h]
  PROVE  /\ Sum(OutstandingOf(l)) + Outstanding(k[g]) = Sum(OutstandingOf(k)) + Outstanding(l[g])
         /\ Sum(UncountedMessagesOf(l)) + UncountedMessages(k[g])
              = Sum(UncountedMessagesOf(k)) + UncountedMessages(l[g])
         /\ Sum(UncountedBytesOf(l)) + UncountedBytes(k[g])
              = Sum(UncountedBytesOf(k)) + UncountedBytes(l[g])
         /\ Sum(UnstampedMessagesOf(l)) + UnstampedMessages(k[g])
              = Sum(UnstampedMessagesOf(k)) + UnstampedMessages(l[g])
         /\ Sum(UnstampedBytesOf(l)) + UnstampedBytes(k[g])
              = Sum(UnstampedBytesOf(k)) + UnstampedBytes(l[g])
<1>1. \A h \in Goroutine :
        /\ Outstanding(k[h]) \in Nat /\ Outstanding(l[h]) \in Nat
        /\ UncountedMessages(k[h]) \in Nat /\ UncountedMessages(l[h]) \in Nat
        /\ UncountedBytes(k[h]) \in Nat /\ UncountedBytes(l[h]) \in Nat
        /\ UnstampedMessages(k[h]) \in Nat /\ UnstampedMessages(l[h]) \in Nat
        /\ UnstampedBytes(k[h]) \in Nat /\ UnstampedBytes(l[h]) \in Nat
  BY MeasuresAreNumbers
<1>2. ASSUME NEW f \in [Goroutine -> Nat], NEW e \in [Goroutine -> Nat], \A h \in Goroutine \ {g} : e[h] = f[h]
      PROVE  Sum(e) + f[g] = Sum(f) + e[g]
  BY <1>2, SumChanges, GoroutinesFinite
<1>3. Sum(OutstandingOf(l)) + Outstanding(k[g]) = Sum(OutstandingOf(k)) + Outstanding(l[g])
  <2>1. PICK f, e : f = OutstandingOf(k) /\ e = OutstandingOf(l)
    OBVIOUS
  <2>2. /\ f \in [Goroutine -> Nat] /\ e \in [Goroutine -> Nat] /\ f[g] = Outstanding(k[g])
        /\ e[g] = Outstanding(l[g]) /\ \A h \in Goroutine \ {g} : e[h] = f[h]
    BY <1>1, <2>1 DEF OutstandingOf
  <2>3. Sum(e) + f[g] = Sum(f) + e[g]
    BY <1>2, <2>2
  <2> QED
    BY <2>1, <2>2, <2>3
<1>4. Sum(UncountedMessagesOf(l)) + UncountedMessages(k[g])
        = Sum(UncountedMessagesOf(k)) + UncountedMessages(l[g])
  <2>1. PICK f, e : f = UncountedMessagesOf(k) /\ e = UncountedMessagesOf(l)
    OBVIOUS
  <2>2. /\ f \in [Goroutine -> Nat] /\ e \in [Goroutine -> Nat] /\ f[g] = UncountedMessages(k[g])
        /\ e[g] = UncountedMessages(l[g]) /\ \A h \in Goroutine \ {g} : e[h] = f[h]
    BY <1>1, <2>1 DEF UncountedMessagesOf
  <2>3. Sum(e) + f[g] = Sum(f) + e[g]
    BY <1>2, <2>2
  <2> QED
    BY <2>1, <2>2, <2>3
<1>5. Sum(UncountedBytesOf(l)) + UncountedBytes(k[g]) = Sum(UncountedBytesOf(k)) + UncountedBytes(l[g])
  <2>1. PICK f, e : f = UncountedBytesOf(k) /\ e = UncountedBytesOf(l)
    OBVIOUS
  <2>2. /\ f \in [Goroutine -> Nat] /\ e \in [Goroutine -> Nat] /\ f[g] = UncountedBytes(k[g])
        /\ e[g] = UncountedBytes(l[g]) /\ \A h \in Goroutine \ {g} : e[h] = f[h]
    BY <1>1, <2>1 DEF UncountedBytesOf
  <2>3. Sum(e) + f[g] = Sum(f) + e[g]
    BY <1>2, <2>2
  <2> QED
    BY <2>1, <2>2, <2>3
<1>6. Sum(UnstampedMessagesOf(l)) + UnstampedMessages(k[g])
        = Sum(UnstampedMessagesOf(k)) + UnstampedMessages(l[g])
  <2>1. PICK f, e : f = UnstampedMessagesOf(k) /\ e = UnstampedMessagesOf(l)
    OBVIOUS
  <2>2. /\ f \in [Goroutine -> Nat] /\ e \in [Goroutine -> Nat] /\ f[g] = UnstampedMessages(k[g])
        /\ e[g] = UnstampedMessages(l[g]) /\ \A h \in Goroutine \ {g} : e[h] = f[h]
    BY <1>1, <2>1 DEF UnstampedMessagesOf
  <2>3. Sum(e) + f[g] = Sum(f) + e[g]
    BY <1>2, <2>2
  <2> QED
    BY <2>1, <2>2, <2>3
<1>7. Sum(UnstampedBytesOf(l)) + UnstampedBytes(k[g]) = Sum(UnstampedBytesOf(k)) + UnstampedBytes(l[g])
  <2>1. PICK f, e : f = UnstampedBytesOf(k) /\ e = UnstampedBytesOf(l)
    OBVIOUS
  <2>2. /\ f \in [Goroutine -> Nat] /\ e \in [Goroutine -> Nat] /\ f[g] = UnstampedBytes(k[g])
        /\ e[g] = UnstampedBytes(l[g]) /\ \A h \in Goroutine \ {g} : e[h] = f[h]
    BY <1>1, <2>1 DEF UnstampedBytesOf
  <2>3. Sum(e) + f[g] = Sum(f) + e[g]
    BY <1>2, <2>2
  <2> QED
    BY <2>1, <2>2, <2>3
<1> QED
  BY <1>3, <1>4, <1>5, <1>6, <1>7


(* The totals of a state are numbers. *)
LEMMA TotalsAreNumbers ==
  ASSUME NEW k, \A h \in Goroutine : CallOK(k[h])
  PROVE  /\ Sum(OutstandingOf(k)) \in Nat
         /\ Sum(UncountedMessagesOf(k)) \in Nat /\ Sum(UncountedBytesOf(k)) \in Nat
         /\ Sum(UnstampedMessagesOf(k)) \in Nat /\ Sum(UnstampedBytesOf(k)) \in Nat
<1>1. \A h \in Goroutine :
        /\ Outstanding(k[h]) \in Nat
        /\ UncountedMessages(k[h]) \in Nat /\ UncountedBytes(k[h]) \in Nat
        /\ UnstampedMessages(k[h]) \in Nat /\ UnstampedBytes(k[h]) \in Nat
  BY MeasuresAreNumbers
<1>2. ASSUME NEW f \in [Goroutine -> Nat] PROVE Sum(f) \in Nat
  BY SumType, GoroutinesFinite
<1>3. /\ OutstandingOf(k) \in [Goroutine -> Nat]
      /\ UncountedMessagesOf(k) \in [Goroutine -> Nat] /\ UncountedBytesOf(k) \in [Goroutine -> Nat]
      /\ UnstampedMessagesOf(k) \in [Goroutine -> Nat] /\ UnstampedBytesOf(k) \in [Goroutine -> Nat]
  BY <1>1 DEF OutstandingOf, UncountedMessagesOf, UncountedBytesOf, UnstampedMessagesOf, UnstampedBytesOf
<1> QED
  BY <1>2, <1>3

\* By how much the totals fall.
TotalsFall(k, l, out, msgs, bytes, umsgs, ubytes) ==
  /\ Sum(OutstandingOf(k)) = Sum(OutstandingOf(l)) + out
  /\ Sum(UncountedMessagesOf(k)) = Sum(UncountedMessagesOf(l)) + msgs
  /\ Sum(UncountedBytesOf(k)) = Sum(UncountedBytesOf(l)) + bytes
  /\ Sum(UnstampedMessagesOf(k)) = Sum(UnstampedMessagesOf(l)) + umsgs
  /\ Sum(UnstampedBytesOf(k)) = Sum(UnstampedBytesOf(l)) + ubytes

(* The totals fall by what the call's own measures fall by. *)
LEMMA TotalsFollow ==
  ASSUME CallsOK, NEW g, NEW d, Moves(g, d), NEW out \in Int, NEW msgs \in Int, NEW bytes \in Int,
         NEW umsgs \in Int, NEW ubytes \in Int, Falls(call[g], d, out, msgs, bytes, umsgs, ubytes)
  PROVE  TotalsFall(call, call', out, msgs, bytes, umsgs, ubytes)
<1>1. PICK k, l : k = call /\ l = call'
  OBVIOUS
<1>2. /\ g \in Goroutine /\ l[g] = d /\ \A h \in Goroutine \ {g} : l[h] = k[h]
      /\ \A h \in Goroutine : CallOK(k[h]) /\ CallOK(l[h])
  BY <1>1, MovesOne DEF CallsOK
<1>3. /\ Sum(OutstandingOf(l)) + Outstanding(k[g]) = Sum(OutstandingOf(k)) + Outstanding(l[g])
      /\ Sum(UncountedMessagesOf(l)) + UncountedMessages(k[g])
           = Sum(UncountedMessagesOf(k)) + UncountedMessages(l[g])
      /\ Sum(UncountedBytesOf(l)) + UncountedBytes(k[g])
           = Sum(UncountedBytesOf(k)) + UncountedBytes(l[g])
      /\ Sum(UnstampedMessagesOf(l)) + UnstampedMessages(k[g])
           = Sum(UnstampedMessagesOf(k)) + UnstampedMessages(l[g])
      /\ Sum(UnstampedBytesOf(l)) + UnstampedBytes(k[g])
           = Sum(UnstampedBytesOf(k)) + UnstampedBytes(l[g])
  BY <1>2, TotalsMove
<1>4. Falls(k[g], l[g], out, msgs, bytes, umsgs, ubytes)
  BY <1>1, <1>2
<1>5. /\ Outstanding(l[g]) \in Nat
      /\ UncountedMessages(l[g]) \in Nat /\ UncountedBytes(l[g]) \in Nat
      /\ UnstampedMessages(l[g]) \in Nat /\ UnstampedBytes(l[g]) \in Nat
  BY <1>2, MeasuresAreNumbers
<1>6. /\ Sum(OutstandingOf(k)) \in Nat /\ Sum(OutstandingOf(l)) \in Nat
      /\ Sum(UncountedMessagesOf(k)) \in Nat /\ Sum(UncountedMessagesOf(l)) \in Nat
      /\ Sum(UncountedBytesOf(k)) \in Nat /\ Sum(UncountedBytesOf(l)) \in Nat
      /\ Sum(UnstampedMessagesOf(k)) \in Nat /\ Sum(UnstampedMessagesOf(l)) \in Nat
      /\ Sum(UnstampedBytesOf(k)) \in Nat /\ Sum(UnstampedBytesOf(l)) \in Nat
  BY <1>2, TotalsAreNumbers
<1>7. ASSUME NEW a \in Nat, NEW b \in Nat, NEW y \in Nat, NEW z, NEW n \in Int, b + z = a + y, z = y + n
      PROVE  a = b + n
  BY <1>7
<1>8. TotalsFall(k, l, out, msgs, bytes, umsgs, ubytes)
  BY <1>3, <1>4, <1>5, <1>6, <1>7 DEF Falls, TotalsFall
<1> QED
  BY <1>1, <1>8

(* One more message has been sent. *)
LEMMA SentGrows ==
  ASSUME NEW s \in Seq(SentRecord), NEW e \in SentRecord, NEW t, t = Append(s, e)
  PROVE  SentBytes(t) = SentBytes(s) + e.len /\ SentBytes(t) \in Nat /\ SentBytes(s) \in Nat
<1>1. /\ t \in Seq(SentRecord) /\ Len(s) \in Nat /\ t[Len(s) + 1] = e
      /\ \A k \in 1 .. Len(s) : t[k] = s[k]
      /\ DOMAIN s = 1 .. Len(s) /\ DOMAIN t = 1 .. Len(s) + 1 /\ Len(t) = Len(s) + 1
  BY AppendIs
<1>2. PICK n \in Nat : n = Len(s)
  BY <1>1
<1>3. PICK f, h : f = [k \in 1 .. n |-> s[k].len] /\ h = [k \in 1 .. n + 1 |-> t[k].len]
  OBVIOUS
<1>4. \A k \in 1 .. n : s[k] \in SentRecord
  BY <1>2, ElementOfSeq
<1>5. \A k \in 1 .. n + 1 : t[k] \in SentRecord
  BY <1>1, <1>2, ElementOfSeq
<1>6. f \in [1 .. n -> Nat] /\ h \in [1 .. n + 1 -> Nat]
  BY <1>3, <1>4, <1>5 DEF SentRecord
<1>7. h[n + 1] = e.len /\ \A k \in 1 .. n : h[k] = f[k]
  BY <1>1, <1>2, <1>3
<1>8. Sum(h) = Sum(f) + h[n + 1] /\ Sum(h) \in Nat /\ Sum(f) \in Nat
  BY <1>6, <1>7, SumOfLog
<1>9. SentBytes(s) = Sum(f) /\ SentBytes(t) = Sum(h)
  BY <1>1, <1>2, <1>3 DEF SentBytes
<1> QED
  BY <1>7, <1>8, <1>9

(* One more publication has its time. *)
LEMMA StampedGrows ==
  ASSUME NEW s \in Seq(StampRecord), NEW e \in StampRecord, NEW t, t = Append(s, e)
  PROVE  /\ StampedMessages(t) = StampedMessages(s) + e.messages
         /\ StampedBytes(t) = StampedBytes(s) + e.bytes
<1>1. /\ t \in Seq(StampRecord) /\ Len(s) \in Nat /\ t[Len(s) + 1] = e
      /\ \A k \in 1 .. Len(s) : t[k] = s[k]
      /\ DOMAIN s = 1 .. Len(s) /\ DOMAIN t = 1 .. Len(s) + 1 /\ Len(t) = Len(s) + 1
  BY AppendIs
<1>2. PICK n \in Nat : n = Len(s)
  BY <1>1
<1>3. (\A k \in 1 .. n : s[k] \in StampRecord) /\ (\A k \in 1 .. n + 1 : t[k] \in StampRecord)
  BY <1>1, <1>2, ElementOfSeq
<1>4. StampedMessages(t) = StampedMessages(s) + e.messages
  <2>1. PICK f, h : f = [k \in 1 .. n |-> s[k].messages] /\ h = [k \in 1 .. n + 1 |-> t[k].messages]
    OBVIOUS
  <2>2. f \in [1 .. n -> Nat] /\ h \in [1 .. n + 1 -> Nat]
    BY <1>3, <2>1 DEF StampRecord
  <2>3. h[n + 1] = e.messages /\ \A k \in 1 .. n : h[k] = f[k]
    BY <1>1, <1>2, <2>1
  <2>4. Sum(h) = Sum(f) + h[n + 1]
    BY <2>2, <2>3, SumOfLog
  <2>5. StampedMessages(s) = Sum(f) /\ StampedMessages(t) = Sum(h)
    BY <1>1, <1>2, <2>1 DEF StampedMessages
  <2> QED
    BY <2>3, <2>4, <2>5
<1>5. StampedBytes(t) = StampedBytes(s) + e.bytes
  <2>1. PICK f, h : f = [k \in 1 .. n |-> s[k].bytes] /\ h = [k \in 1 .. n + 1 |-> t[k].bytes]
    OBVIOUS
  <2>2. f \in [1 .. n -> Nat] /\ h \in [1 .. n + 1 -> Nat]
    BY <1>3, <2>1 DEF StampRecord
  <2>3. h[n + 1] = e.bytes /\ \A k \in 1 .. n : h[k] = f[k]
    BY <1>1, <1>2, <2>1
  <2>4. Sum(h) = Sum(f) + h[n + 1]
    BY <2>2, <2>3, SumOfLog
  <2>5. StampedBytes(s) = Sum(f) /\ StampedBytes(t) = Sum(h)
    BY <1>1, <1>2, <2>1 DEF StampedBytes
  <2> QED
    BY <2>3, <2>4, <2>5
<1> QED
  BY <1>4, <1>5

(* One more call has been handed its messages. *)
LEMMA HandedGrows ==
  ASSUME NEW s \in Seq(CallEntry), NEW e \in CallEntry, e.outcome = "running", NEW t, t = Append(s, e)
  PROVE  Handed(t) = Handed(s) + Len(e.msgs) /\ GivenUp(t) = GivenUp(s)
<1>1. /\ t \in Seq(CallEntry) /\ Len(s) \in Nat /\ t[Len(s) + 1] = e
      /\ \A k \in 1 .. Len(s) : t[k] = s[k]
      /\ DOMAIN s = 1 .. Len(s) /\ DOMAIN t = 1 .. Len(s) + 1 /\ Len(t) = Len(s) + 1
  BY AppendIs
<1>2. PICK n \in Nat : n = Len(s)
  BY <1>1
<1>3. (\A k \in 1 .. n : s[k] \in CallEntry) /\ (\A k \in 1 .. n + 1 : t[k] \in CallEntry)
  BY <1>1, <1>2, ElementOfSeq
<1>4. \A x \in CallEntry : x.msgs \in Seq(Nat)
  BY DEF CallEntry
<1>5. \A x \in CallEntry : Len(x.msgs) \in Nat
  BY <1>4, LenProperties
<1>6. PICK f, h : f = [k \in 1 .. n |-> Len(s[k].msgs)] /\ h = [k \in 1 .. n + 1 |-> Len(t[k].msgs)]
  OBVIOUS
<1>7. f \in [1 .. n -> Nat] /\ h \in [1 .. n + 1 -> Nat]
  BY <1>3, <1>5, <1>6
<1>8. h[n + 1] = Len(e.msgs) /\ \A k \in 1 .. n : h[k] = f[k]
  BY <1>1, <1>2, <1>6
<1>9. Sum(h) = Sum(f) + h[n + 1]
  BY <1>7, <1>8, SumOfLog
<1>10. Handed(s) = Sum(f) /\ Handed(t) = Sum(h)
  BY <1>1, <1>2, <1>6 DEF Handed
<1>11. GivenUp(t) = GivenUp(s)
  BY <1>1 DEF GivenUp
<1> QED
  BY <1>8, <1>9, <1>10, <1>11

Ends(s, t, k, o) ==
  /\ s \in Seq(CallEntry) /\ k \in 1 .. Len(s) /\ o \in {"nil", "error", "cancelled"}
  /\ s[k].outcome = "running" /\ t = [s EXCEPT ![k].outcome = o]

(* A call has returned: it counts as given up if it was cancelled. *)
LEMMA HandedKept ==
  ASSUME NEW s, NEW t, NEW k, NEW o, Ends(s, t, k, o)
  PROVE  /\ Handed(t) = Handed(s)
         /\ o = "cancelled" => Cardinality(GivenUp(t)) = Cardinality(GivenUp(s)) + 1
         /\ o # "cancelled" => Cardinality(GivenUp(t)) = Cardinality(GivenUp(s))
<1>0. /\ s \in Seq(CallEntry) /\ k \in 1 .. Len(s) /\ o \in {"nil", "error", "cancelled"}
      /\ s[k].outcome = "running" /\ t = [s EXCEPT ![k].outcome = o]
  BY DEF Ends
<1>1. /\ Len(t) = Len(s) /\ Len(s) \in Nat /\ DOMAIN s = 1 .. Len(s) /\ DOMAIN t = 1 .. Len(s)
      /\ \A j \in 1 .. Len(s) : t[j].msgs = s[j].msgs
      /\ t[k].outcome = o
      /\ \A j \in 1 .. Len(s) : j # k => t[j] = s[j]
  BY <1>0, OutcomeIs
<1>2. Handed(t) = Handed(s)
  <2>1. PICK n \in Nat : n = Len(s)
    BY <1>1
  <2>2. [j \in 1 .. n |-> Len(t[j].msgs)] = [j \in 1 .. n |-> Len(s[j].msgs)]
    BY <1>1, <2>1
  <2> QED
    BY <1>1, <2>1, <2>2 DEF Handed
<1>3. k \notin GivenUp(s) /\ GivenUp(s) \subseteq 1 .. Len(s)
  BY <1>0, <1>1 DEF GivenUp
<1>4. IsFiniteSet(GivenUp(s)) /\ Cardinality(GivenUp(s)) \in Nat
  <2>1. IsFiniteSet(1 .. Len(s))
    BY <1>1, FS_Interval
  <2>2. IsFiniteSet(GivenUp(s))
    BY <1>3, <2>1, FS_Subset
  <2> QED
    BY <2>2, FS_CardinalityType
<1>5. CASE o = "cancelled"
  <2>1. GivenUp(t) = GivenUp(s) \cup {k}
    BY <1>0, <1>1, <1>5 DEF GivenUp
  <2>2. Cardinality(GivenUp(s) \cup {k}) = Cardinality(GivenUp(s)) + 1
    BY <1>3, <1>4, FS_AddElement
  <2> QED
    BY <1>2, <1>5, <2>1, <2>2
<1>6. CASE o # "cancelled"
  <2>1. GivenUp(t) = GivenUp(s)
    BY <1>1, <1>3, <1>6 DEF GivenUp
  <2> QED
    BY <1>2, <1>4, <1>6, <2>1
<1> QED
  BY <1>5, <1>6


(* What the accounts are about are numbers. *)
LEMMA AccountNumbers ==
  ASSUME PubTypes
  PROVE  /\ metrics.MessagesPublished \in Nat /\ metrics.BytesPublished \in Nat
         /\ metrics.PublishErrors \in Nat /\ metrics.lastPublishTime \in Nat
         /\ Len(sent) \in Nat /\ SentBytes(sent) \in Nat
         /\ StampedMessages(stamped) \in Nat /\ StampedBytes(stamped) \in Nat
         /\ Handed(calls) \in Nat /\ Cardinality(GivenUp(calls)) \in Nat
         /\ Sum(OutstandingOf(call)) \in Nat
         /\ Sum(UncountedMessagesOf(call)) \in Nat /\ Sum(UncountedBytesOf(call)) \in Nat
         /\ Sum(UnstampedMessagesOf(call)) \in Nat /\ Sum(UnstampedBytesOf(call)) \in Nat
<1>1. /\ metrics.MessagesPublished \in Nat /\ metrics.BytesPublished \in Nat
      /\ metrics.PublishErrors \in Nat /\ metrics.lastPublishTime \in Nat
  BY DEF PubTypes, MetricsRecord
<1>2. /\ Sum(OutstandingOf(call)) \in Nat
      /\ Sum(UncountedMessagesOf(call)) \in Nat /\ Sum(UncountedBytesOf(call)) \in Nat
      /\ Sum(UnstampedMessagesOf(call)) \in Nat /\ Sum(UnstampedBytesOf(call)) \in Nat
  BY TotalsAreNumbers DEF PubTypes, CallsOK
<1>3. ASSUME NEW n \in Nat, NEW f \in [1 .. n -> Nat] PROVE Sum(f) \in Nat
  <2>1. IsFiniteSet(1 .. n)
    BY FS_Interval
  <2> QED
    BY <2>1, SumType
<1>4. /\ Len(sent) \in Nat /\ DOMAIN sent = 1 .. Len(sent)
      /\ Len(calls) \in Nat /\ DOMAIN calls = 1 .. Len(calls)
      /\ Len(stamped) \in Nat /\ DOMAIN stamped = 1 .. Len(stamped)
  BY LenProperties DEF PubTypes
<1>5. /\ \A k \in 1 .. Len(sent) : sent[k] \in SentRecord
      /\ \A k \in 1 .. Len(calls) : calls[k] \in CallEntry
      /\ \A k \in 1 .. Len(stamped) : stamped[k] \in StampRecord
  BY ElementOfSeq DEF PubTypes
<1>6. SentBytes(sent) \in Nat
  <2>1. PICK f : f = [k \in 1 .. Len(sent) |-> sent[k].len]
    OBVIOUS
  <2>2. f \in [1 .. Len(sent) -> Nat]
    BY <1>5, <2>1 DEF SentRecord
  <2>3. Sum(f) \in Nat
    BY <1>3, <1>4, <2>2
  <2> QED
    BY <1>4, <2>1, <2>3 DEF SentBytes
<1>7. StampedMessages(stamped) \in Nat
  <2>1. PICK f : f = [k \in 1 .. Len(stamped) |-> stamped[k].messages]
    OBVIOUS
  <2>2. f \in [1 .. Len(stamped) -> Nat]
    BY <1>5, <2>1 DEF StampRecord
  <2>3. Sum(f) \in Nat
    BY <1>3, <1>4, <2>2
  <2> QED
    BY <1>4, <2>1, <2>3 DEF StampedMessages
<1>8. StampedBytes(stamped) \in Nat
  <2>1. PICK f : f = [k \in 1 .. Len(stamped) |-> stamped[k].bytes]
    OBVIOUS
  <2>2. f \in [1 .. Len(stamped) -> Nat]
    BY <1>5, <2>1 DEF StampRecord
  <2>3. Sum(f) \in Nat
    BY <1>3, <1>4, <2>2
  <2> QED
    BY <1>4, <2>1, <2>3 DEF StampedBytes
<1>9. Handed(calls) \in Nat
  <2>1. PICK f : f = [k \in 1 .. Len(calls) |-> Len(calls[k].msgs)]
    OBVIOUS
  <2>2. \A x \in CallEntry : x.msgs \in Seq(Nat)
    BY DEF CallEntry
  <2>3. \A x \in CallEntry : Len(x.msgs) \in Nat
    BY <2>2, LenProperties
  <2>4. f \in [1 .. Len(calls) -> Nat]
    BY <1>5, <2>1, <2>3
  <2>5. Sum(f) \in Nat
    BY <1>3, <1>4, <2>4
  <2> QED
    BY <1>4, <2>1, <2>5 DEF Handed
<1>10. Cardinality(GivenUp(calls)) \in Nat
  <2>1. IsFiniteSet(1 .. Len(calls))
    BY <1>4, FS_Interval
  <2>2. IsFiniteSet(GivenUp(calls))
    BY <1>4, <2>1, FS_Subset DEF GivenUp
  <2> QED
    BY <2>2, FS_CardinalityType
<1> QED
  BY <1>1, <1>2, <1>4, <1>6, <1>7, <1>8, <1>9, <1>10

\* What a step enters into the books: messages and bytes sent, messages, bytes
\* and errors counted, messages and bytes stamped, messages handed over and
\* calls given up.
Ledger(s, b, cm, cb, ce, tm, tb, h, u) ==
  /\ Len(sent') = Len(sent) + s
  /\ SentBytes(sent') = SentBytes(sent) + b
  /\ metrics'.MessagesPublished = metrics.MessagesPublished + cm
  /\ metrics'.BytesPublished = metrics.BytesPublished + cb
  /\ metrics'.PublishErrors = metrics.PublishErrors + ce
  /\ StampedMessages(stamped') = StampedMessages(stamped) + tm
  /\ StampedBytes(stamped') = StampedBytes(stamped) + tb
  /\ Handed(calls') = Handed(calls) + h
  /\ Cardinality(GivenUp(calls')) = Cardinality(GivenUp(calls)) + u

\* What the totals must fall by.
Balanced(s, b, cm, cb, ce, tm, tb, h, u, out, msgs, bytes, umsgs, ubytes) ==
  /\ out = s + ce + u - h
  /\ msgs = cm - s
  /\ bytes = cb - b
  /\ umsgs = tm - cm
  /\ ubytes = tb - cb

(* The books balance when the totals fall by what was entered. *)
LEMMA BooksBalance ==
  ASSUME PubTypes, PubTypes', Accounts,
         NEW s \in Int, NEW b \in Int, NEW cm \in Int, NEW cb \in Int, NEW ce \in Int, NEW tm \in Int,
         NEW tb \in Int, NEW h \in Int, NEW u \in Int,
         Ledger(s, b, cm, cb, ce, tm, tb, h, u),
         NEW out, NEW msgs, NEW bytes, NEW umsgs, NEW ubytes,
         Balanced(s, b, cm, cb, ce, tm, tb, h, u, out, msgs, bytes, umsgs, ubytes),
         TotalsFall(call, call', out, msgs, bytes, umsgs, ubytes)
  PROVE  Accounts'
<1>1. /\ metrics.MessagesPublished \in Nat /\ metrics.BytesPublished \in Nat
      /\ metrics.PublishErrors \in Nat
      /\ Len(sent) \in Nat /\ SentBytes(sent) \in Nat
      /\ StampedMessages(stamped) \in Nat /\ StampedBytes(stamped) \in Nat
      /\ Handed(calls) \in Nat /\ Cardinality(GivenUp(calls)) \in Nat
      /\ Sum(OutstandingOf(call)) \in Nat
      /\ Sum(UncountedMessagesOf(call)) \in Nat /\ Sum(UncountedBytesOf(call)) \in Nat
      /\ Sum(UnstampedMessagesOf(call)) \in Nat /\ Sum(UnstampedBytesOf(call)) \in Nat
  BY AccountNumbers
<1>2. /\ Sum(OutstandingOf(call')) \in Nat
      /\ Sum(UncountedMessagesOf(call')) \in Nat /\ Sum(UncountedBytesOf(call')) \in Nat
      /\ Sum(UnstampedMessagesOf(call')) \in Nat /\ Sum(UnstampedBytesOf(call')) \in Nat
  <2>1. \A g \in Goroutine : CallOK(call'[g])
    BY DEF PubTypes, CallsOK
  <2> QED
    BY <2>1, TotalsAreNumbers
<1>4. Len(sent') = metrics'.MessagesPublished + Sum(UncountedMessagesOf(call'))
  <2>1. Len(sent) = metrics.MessagesPublished + Sum(UncountedMessagesOf(call))
          /\ Sum(UncountedMessagesOf(call)) = Sum(UncountedMessagesOf(call')) + msgs
    BY DEF Accounts, TotalsFall
  <2>3. PICK ll \in Nat, mm \in Nat, xx \in Nat, yy \in Nat :
           ll = Len(sent) /\ mm = metrics.MessagesPublished /\ xx = Sum(UncountedMessagesOf(call)) /\ yy = Sum(UncountedMessagesOf(call'))
    BY <1>1, <1>2, Zenon
  <2>4. ll = mm + xx /\ xx = yy + (cm - s)
    BY <2>1, <2>3 DEF Balanced
  <2>5. ll + s = (mm + cm) + yy
    BY <2>4
  <2>2. Len(sent) + s = (metrics.MessagesPublished + cm) + Sum(UncountedMessagesOf(call'))
    BY <2>3, <2>5
  <2> QED
    BY <2>2 DEF Ledger
<1>5. SentBytes(sent') = metrics'.BytesPublished + Sum(UncountedBytesOf(call'))
  <2>1. SentBytes(sent) = metrics.BytesPublished + Sum(UncountedBytesOf(call))
          /\ Sum(UncountedBytesOf(call)) = Sum(UncountedBytesOf(call')) + bytes
    BY DEF Accounts, TotalsFall
  <2>3. PICK ll \in Nat, mm \in Nat, xx \in Nat, yy \in Nat :
           ll = SentBytes(sent) /\ mm = metrics.BytesPublished /\ xx = Sum(UncountedBytesOf(call)) /\ yy = Sum(UncountedBytesOf(call'))
    BY <1>1, <1>2, Zenon
  <2>4. ll = mm + xx /\ xx = yy + (cb - b)
    BY <2>1, <2>3 DEF Balanced
  <2>5. ll + b = (mm + cb) + yy
    BY <2>4
  <2>2. SentBytes(sent) + b = (metrics.BytesPublished + cb) + Sum(UncountedBytesOf(call'))
    BY <2>3, <2>5
  <2> QED
    BY <2>2 DEF Ledger
<1>6. metrics'.MessagesPublished = StampedMessages(stamped') + Sum(UnstampedMessagesOf(call'))
  <2>1. metrics.MessagesPublished = StampedMessages(stamped) + Sum(UnstampedMessagesOf(call))
          /\ Sum(UnstampedMessagesOf(call)) = Sum(UnstampedMessagesOf(call')) + umsgs
    BY DEF Accounts, TotalsFall
  <2>3. PICK ll \in Nat, mm \in Nat, xx \in Nat, yy \in Nat :
           ll = metrics.MessagesPublished /\ mm = StampedMessages(stamped) /\ xx = Sum(UnstampedMessagesOf(call)) /\ yy = Sum(UnstampedMessagesOf(call'))
    BY <1>1, <1>2, Zenon
  <2>4. ll = mm + xx /\ xx = yy + (tm - cm)
    BY <2>1, <2>3 DEF Balanced
  <2>5. ll + cm = (mm + tm) + yy
    BY <2>4
  <2>2. metrics.MessagesPublished + cm = (StampedMessages(stamped) + tm) + Sum(UnstampedMessagesOf(call'))
    BY <2>3, <2>5
  <2> QED
    BY <2>2 DEF Ledger
<1>7. metrics'.BytesPublished = StampedBytes(stamped') + Sum(UnstampedBytesOf(call'))
  <2>1. metrics.BytesPublished = StampedBytes(stamped) + Sum(UnstampedBytesOf(call))
          /\ Sum(UnstampedBytesOf(call)) = Sum(UnstampedBytesOf(call')) + ubytes
    BY DEF Accounts, TotalsFall
  <2>3. PICK ll \in Nat, mm \in Nat, xx \in Nat, yy \in Nat :
           ll = metrics.BytesPublished /\ mm = StampedBytes(stamped) /\ xx = Sum(UnstampedBytesOf(call)) /\ yy = Sum(UnstampedBytesOf(call'))
    BY <1>1, <1>2, Zenon
  <2>4. ll = mm + xx /\ xx = yy + (tb - cb)
    BY <2>1, <2>3 DEF Balanced
  <2>5. ll + cb = (mm + tb) + yy
    BY <2>4
  <2>2. metrics.BytesPublished + cb = (StampedBytes(stamped) + tb) + Sum(UnstampedBytesOf(call'))
    BY <2>3, <2>5
  <2> QED
    BY <2>2 DEF Ledger
<1>8. Handed(calls') = Len(sent') + metrics'.PublishErrors + Cardinality(GivenUp(calls'))
                         + Sum(OutstandingOf(call'))
  <2>1. Handed(calls) = Len(sent) + metrics.PublishErrors + Cardinality(GivenUp(calls))
                          + Sum(OutstandingOf(call))
          /\ Sum(OutstandingOf(call)) = Sum(OutstandingOf(call')) + out
    BY DEF Accounts, TotalsFall
  <2>2. PICK hd \in Nat, ll \in Nat, ee \in Nat, gg \in Nat, xx \in Nat, yy \in Nat :
           /\ hd = Handed(calls) /\ ll = Len(sent) /\ ee = metrics.PublishErrors
           /\ gg = Cardinality(GivenUp(calls)) /\ xx = Sum(OutstandingOf(call)) /\ yy = Sum(OutstandingOf(call'))
    BY <1>1, <1>2, Zenon
  <2>4. hd = ll + ee + gg + xx /\ xx = yy + (s + ce + u - h)
    BY <2>1, <2>2 DEF Balanced
  <2>5. hd + h = (ll + s) + (ee + ce) + (gg + u) + yy
    BY <2>4
  <2>3. Handed(calls) + h = (Len(sent) + s) + (metrics.PublishErrors + ce)
                              + (Cardinality(GivenUp(calls)) + u) + Sum(OutstandingOf(call'))
    BY <2>2, <2>5
  <2> QED
    BY <2>3 DEF Ledger
<1> QED
  BY <1>4, <1>5, <1>6, <1>7, <1>8 DEF Accounts


(* A step that leaves the histories and the metrics alone enters nothing. *)
LEMMA NoEntry ==
  ASSUME PubTypes, UNCHANGED <<metrics, sent, calls, stamped>>
  PROVE  Ledger(0, 0, 0, 0, 0, 0, 0, 0, 0)
<1>1. ASSUME NEW n \in Nat PROVE n = n + 0
  OBVIOUS
<1> QED
  BY <1>1, AccountNumbers DEF Ledger

(* The accounts are kept by every step of a call. *)
LEMMA AccountsKept ==
  ASSUME PubTypes, PubTypes', Linked, Accounts, NEW g, NEW d, CallStep(g, d)
  PROVE  Accounts'
<1>1. PICK c : c = call[g]
  OBVIOUS
<1>2. Moves(g, d)
  BY DEF CallStep, Begins, Stops, Sends, Errs, GivesUp, Tries, CountsMessages, CountsBytes, Stamps,
         StoresTime, Returns
<1>3. CallOK(c) /\ CallOK(d) /\ g \in Goroutine /\ CallsOK
  BY <1>1, <1>2 DEF Moves, PubTypes
<1>4. /\ c.successCount \in Nat /\ c.totalBytes \in Nat /\ c.stamp \in Nat /\ c.err \in {"nil", "error", "cancelled"}
  BY <1>3, CallNumbers
<1>5. /\ metrics.MessagesPublished \in Nat /\ metrics.BytesPublished \in Nat
      /\ metrics.PublishErrors \in Nat /\ metrics.lastPublishTime \in Nat
      /\ Len(sent) \in Nat /\ SentBytes(sent) \in Nat
      /\ StampedMessages(stamped) \in Nat /\ StampedBytes(stamped) \in Nat
      /\ Handed(calls) \in Nat /\ Cardinality(GivenUp(calls)) \in Nat
  BY AccountNumbers
<1>6. PICK m \in MetricsRecord : m = metrics
  BY DEF PubTypes
<1>7. PICK w : w = metrics'
  OBVIOUS
<1>8. ASSUME NEW n \in Nat PROVE n = n + 0
  OBVIOUS
<1>9. sent \in Seq(SentRecord) /\ calls \in Seq(CallEntry) /\ stamped \in Seq(StampRecord)
  BY DEF PubTypes
<1>10. CASE Begins(g, d)
  <2>1. PICK n \in Nat : n = Len(d.msgs)
    BY <1>3, CallNumbers
  <2>2. /\ Outstanding(c) = 0 /\ UncountedMessages(c) = 0 /\ UncountedBytes(c) = 0
        /\ UnstampedMessages(c) = 0 /\ UnstampedBytes(c) = 0
    BY <1>1, <1>10, NothingOutstanding DEF Begins
  <2>3. /\ Outstanding(d) = n
        /\ UncountedMessages(d) = 0 /\ UncountedBytes(d) = 0
        /\ UnstampedMessages(d) = 0 /\ UnstampedBytes(d) = 0
        /\ calls' = Append(calls, Entry(d)) /\ UNCHANGED <<metrics, sent, stamped>>
    BY <1>10, <2>1 DEF Begins
  <2>4. 0 = n + -n /\ -n \in Int
    OBVIOUS
  <2>5. Falls(call[g], d, -n, 0, 0, 0, 0)
    BY <1>1, <2>2, <2>3, <2>4 DEF Falls
  <2>6. TotalsFall(call, call', -n, 0, 0, 0, 0)
    BY <1>2, <1>3, <2>4, <2>5, TotalsFollow
  <2>7. PICK e \in CallEntry : e = Entry(d) /\ e.msgs = d.msgs /\ e.outcome = "running"
    <3>1. d.kind \in Kind /\ d.msgs \in Seq(Nat)
      BY <1>3, CallNumbers
    <3>2. Entry(d) \in CallEntry /\ Entry(d).msgs = d.msgs /\ Entry(d).outcome = "running"
      BY <3>1 DEF Entry, CallEntry
    <3> QED
      BY <3>2
  <2>8. PICK t : t = calls' /\ t = Append(calls, e)
    BY <2>3, <2>7
  <2>9. Handed(t) = Handed(calls) + n /\ GivenUp(t) = GivenUp(calls)
    BY <1>9, <2>1, <2>7, <2>8, HandedGrows
  <2>10. Ledger(0, 0, 0, 0, 0, 0, 0, n, 0)
    BY <1>5, <1>8, <2>3, <2>8, <2>9 DEF Ledger
  <2>11. -n = 0 + 0 + 0 - n /\ 0 = 0 - 0
    OBVIOUS
  <2>20. Balanced(0, 0, 0, 0, 0, 0, 0, n, 0, -n, 0, 0, 0, 0)
    BY <2>11 DEF Balanced
  <2> QED
    BY <2>6, <2>10, <2>20, BooksBalance
<1>11. CASE Stops(g, d)
  <2>1. /\ Outstanding(c) = 0 /\ UncountedMessages(c) = 0 /\ UncountedBytes(c) = 0
        /\ UnstampedMessages(c) = 0 /\ UnstampedBytes(c) = 0
        /\ Outstanding(d) = 0 /\ UncountedMessages(d) = 0 /\ UncountedBytes(d) = 0
        /\ UnstampedMessages(d) = 0 /\ UnstampedBytes(d) = 0
    BY <1>1, <1>11, NothingOutstanding DEF Stops
  <2>2. Falls(call[g], d, 0, 0, 0, 0, 0)
    BY <1>1, <2>1 DEF Falls
  <2>3. TotalsFall(call, call', 0, 0, 0, 0, 0)
    BY <1>2, <1>3, <2>2, TotalsFollow
  <2>4. Ledger(0, 0, 0, 0, 0, 0, 0, 0, 0)
    BY <1>11, NoEntry DEF Stops
  <2>5. 0 = 0 + 0 + 0 - 0 /\ 0 = 0 - 0
    OBVIOUS
  <2>20. Balanced(0, 0, 0, 0, 0, 0, 0, 0, 0, 0, 0, 0, 0, 0)
    BY <2>5 DEF Balanced
  <2> QED
    BY <2>3, <2>4, <2>20, BooksBalance
<1>12. CASE GivesUp(g, d) \/ Tries(g, d)
  <2>1. Falls(call[g], d, 0, 0, 0, 0, 0) /\ UNCHANGED <<metrics, sent, calls, stamped>>
    BY <1>12 DEF GivesUp, Tries
  <2>2. TotalsFall(call, call', 0, 0, 0, 0, 0)
    BY <1>2, <1>3, <2>1, TotalsFollow
  <2>3. Ledger(0, 0, 0, 0, 0, 0, 0, 0, 0)
    BY <2>1, NoEntry
  <2>4. 0 = 0 + 0 + 0 - 0 /\ 0 = 0 - 0
    OBVIOUS
  <2>20. Balanced(0, 0, 0, 0, 0, 0, 0, 0, 0, 0, 0, 0, 0, 0)
    BY <2>4 DEF Balanced
  <2> QED
    BY <2>2, <2>3, <2>20, BooksBalance
<1>13. CASE Sends(g, d)
  <2>1. PICK n \in Nat : n = c.msgs[c.i]
    BY <1>1, <1>13 DEF Sends
  <2>2. Falls(call[g], d, 1, -1, -n, 0, 0) /\ sent' = Append(sent, Text(c)) /\ UNCHANGED <<metrics, calls, stamped>>
    BY <1>1, <1>13, <2>1 DEF Sends
  <2>3. PICK e \in SentRecord : e = Text(c) /\ e.len = n
    BY <1>3, <2>1, TextIs
  <2>4. PICK t : t = sent' /\ t = Append(sent, e)
    BY <2>2, <2>3
  <2>5. Len(t) = Len(sent) + 1 /\ SentBytes(t) = SentBytes(sent) + n
    <3>1. t = Append(sent, e) /\ sent \in Seq(SentRecord) /\ e.len = n
      BY <1>9, <2>3, <2>4
    <3>2. Len(t) = Len(sent) + 1
      BY <3>1, AppendIs
    <3>3. SentBytes(t) = SentBytes(sent) + e.len
      BY <3>1, SentGrows
    <3> QED
      BY <3>1, <3>2, <3>3
  <2>6. Ledger(1, n, 0, 0, 0, 0, 0, 0, 0)
    BY <1>5, <1>8, <2>2, <2>4, <2>5 DEF Ledger
  <2>7. 1 = 1 + 0 + 0 - 0 /\ -1 = 0 - 1 /\ -n = 0 - n /\ 0 = 0 - 0 /\ -n \in Int /\ -1 \in Int
    OBVIOUS
  <2>8. PICK p \in Int, q \in Int : p = -1 /\ q = -n
    BY <2>7
  <2>9. Falls(call[g], d, 1, p, q, 0, 0)
    BY <2>2, <2>8
  <2>10. TotalsFall(call, call', 1, p, q, 0, 0)
    BY <1>2, <1>3, <2>9, TotalsFollow
  <2>11. 1 = 1 + 0 + 0 - 0 /\ p = 0 - 1 /\ q = 0 - n /\ 0 = 0 - 0
    BY <2>7, <2>8
  <2>20. Balanced(1, n, 0, 0, 0, 0, 0, 0, 0, 1, p, q, 0, 0)
    BY <2>11 DEF Balanced
  <2>21. 0 \in Int /\ 1 \in Int /\ n \in Int
    OBVIOUS
  <2> QED
    BY <2>6, <2>10, <2>20, <2>21, BooksBalance, Zenon
<1>14. CASE Errs(g, d)
  <2>1. PICK n \in Nat : n = m.PublishErrors + 1
    BY <1>5, <1>6
  <2>2. w = [m EXCEPT !.PublishErrors = n] /\ Falls(call[g], d, 1, 0, 0, 0, 0)
          /\ UNCHANGED <<sent, calls, stamped>>
    BY <1>6, <1>7, <1>14, <2>1 DEF Errs
  <2>3. /\ w.PublishErrors = n /\ w.MessagesPublished = m.MessagesPublished
        /\ w.BytesPublished = m.BytesPublished
    BY <2>2, MetricsWritten
  <2>4. Ledger(0, 0, 0, 0, 1, 0, 0, 0, 0)
    BY <1>5, <1>6, <1>7, <1>8, <2>1, <2>2, <2>3 DEF Ledger
  <2>7. Falls(call[g], d, 1, 0, 0, 0, 0)
    BY <2>2
  <2>5. TotalsFall(call, call', 1, 0, 0, 0, 0)
    BY <1>2, <1>3, <2>7, TotalsFollow
  <2>6. 1 = 0 + 1 + 0 - 0 /\ 0 = 0 - 0
    OBVIOUS
  <2>20. Balanced(0, 0, 0, 0, 1, 0, 0, 0, 0, 1, 0, 0, 0, 0)
    BY <2>6 DEF Balanced
  <2> QED
    BY <2>4, <2>5, <2>20, BooksBalance
<1>15. CASE CountsMessages(g, d)
  <2>0. PICK k \in Nat : k = c.successCount
    BY <1>4
  <2>1. PICK n \in Nat : n = m.MessagesPublished + k
    BY <1>5, <1>6
  <2>2. w = [m EXCEPT !.MessagesPublished = n] /\ Falls(call[g], d, 0, k, 0, -k, 0)
          /\ UNCHANGED <<sent, calls, stamped>>
    BY <1>1, <1>6, <1>7, <1>15, <2>0, <2>1 DEF CountsMessages
  <2>3. /\ w.PublishErrors = m.PublishErrors /\ w.MessagesPublished = n
        /\ w.BytesPublished = m.BytesPublished
    BY <2>2, MetricsWritten
  <2>4. Ledger(0, 0, k, 0, 0, 0, 0, 0, 0)
    BY <1>5, <1>6, <1>7, <1>8, <2>1, <2>2, <2>3 DEF Ledger
  <2>5. 0 = 0 + 0 + 0 - 0 /\ k = k - 0 /\ -k = 0 - k /\ 0 = 0 - 0 /\ -k \in Int /\ k \in Int
    OBVIOUS
  <2>6. PICK q \in Int : q = -k
    BY <2>5
  <2>7. Falls(call[g], d, 0, k, 0, q, 0)
    BY <2>2, <2>6
  <2>8. TotalsFall(call, call', 0, k, 0, q, 0)
    BY <1>2, <1>3, <2>5, <2>7, TotalsFollow
  <2>9. 0 = 0 + 0 + 0 - 0 /\ k = k - 0 /\ q = 0 - k /\ 0 = 0 - 0
    BY <2>5, <2>6
  <2>20. Balanced(0, 0, k, 0, 0, 0, 0, 0, 0, 0, k, 0, q, 0)
    BY <2>9 DEF Balanced
  <2> QED
    BY <2>4, <2>8, <2>20, BooksBalance
<1>16. CASE CountsBytes(g, d)
  <2>0. PICK k \in Nat : k = c.totalBytes
    BY <1>4
  <2>1. PICK n \in Nat : n = m.BytesPublished + k
    BY <1>5, <1>6
  <2>2. w = [m EXCEPT !.BytesPublished = n] /\ Falls(call[g], d, 0, 0, k, 0, -k)
          /\ UNCHANGED <<sent, calls, stamped>>
    BY <1>1, <1>6, <1>7, <1>16, <2>0, <2>1 DEF CountsBytes
  <2>3. /\ w.PublishErrors = m.PublishErrors /\ w.MessagesPublished = m.MessagesPublished
        /\ w.BytesPublished = n
    BY <2>2, MetricsWritten
  <2>4. Ledger(0, 0, 0, k, 0, 0, 0, 0, 0)
    BY <1>5, <1>6, <1>7, <1>8, <2>1, <2>2, <2>3 DEF Ledger
  <2>5. 0 = 0 + 0 + 0 - 0 /\ k = k - 0 /\ -k = 0 - k /\ 0 = 0 - 0 /\ -k \in Int /\ k \in Int
    OBVIOUS
  <2>6. PICK q \in Int : q = -k
    BY <2>5
  <2>7. Falls(call[g], d, 0, 0, k, 0, q)
    BY <2>2, <2>6
  <2>8. TotalsFall(call, call', 0, 0, k, 0, q)
    BY <1>2, <1>3, <2>5, <2>7, TotalsFollow
  <2>9. 0 = 0 + 0 + 0 - 0 /\ k = k - 0 /\ q = 0 - k /\ 0 = 0 - 0
    BY <2>5, <2>6
  <2>20. Balanced(0, 0, 0, k, 0, 0, 0, 0, 0, 0, 0, k, 0, q)
    BY <2>9 DEF Balanced
  <2> QED
    BY <2>4, <2>8, <2>20, BooksBalance
<1>17. CASE Stamps(g, d)
  <2>0. PICK k \in Nat, b \in Nat : k = c.successCount /\ b = c.totalBytes
    BY <1>4
  <2>1. PICK e : e = [messages |-> k, bytes |-> b]
    OBVIOUS
  <2>2. e \in StampRecord /\ e.messages = k /\ e.bytes = b
    BY <2>1 DEF StampRecord
  <2>3. stamped' = Append(stamped, e) /\ Falls(call[g], d, 0, 0, 0, k, b)
          /\ UNCHANGED <<metrics, sent, calls>>
    BY <1>1, <1>17, <2>0, <2>1 DEF Stamps
  <2>4. PICK t : t = stamped' /\ t = Append(stamped, e)
    BY <2>3
  <2>5. StampedMessages(t) = StampedMessages(stamped) + k /\ StampedBytes(t) = StampedBytes(stamped) + b
    BY <1>9, <2>2, <2>4, StampedGrows
  <2>6. Ledger(0, 0, 0, 0, 0, k, b, 0, 0)
    BY <1>5, <1>8, <2>3, <2>4, <2>5 DEF Ledger
  <2>7. 0 = 0 + 0 + 0 - 0 /\ k = k - 0 /\ b = b - 0 /\ 0 = 0 - 0 /\ b \in Int /\ k \in Int
    OBVIOUS
  <2>8. TotalsFall(call, call', 0, 0, 0, k, b)
    BY <1>2, <1>3, <2>3, <2>7, TotalsFollow
  <2>20. Balanced(0, 0, 0, 0, 0, k, b, 0, 0, 0, 0, 0, k, b)
    BY <2>7 DEF Balanced
  <2> QED
    BY <2>6, <2>8, <2>20, BooksBalance
<1>18. CASE StoresTime(g, d)
  <2>1. PICK n \in Nat : n = c.stamp
    BY <1>4
  <2>2. w = [m EXCEPT !.lastPublishTime = n] /\ Falls(call[g], d, 0, 0, 0, 0, 0)
          /\ UNCHANGED <<sent, calls, stamped>>
    BY <1>1, <1>6, <1>7, <1>18, <2>1 DEF StoresTime
  <2>3. /\ w.PublishErrors = m.PublishErrors /\ w.MessagesPublished = m.MessagesPublished
        /\ w.BytesPublished = m.BytesPublished
    BY <2>2, MetricsWritten
  <2>4. Ledger(0, 0, 0, 0, 0, 0, 0, 0, 0)
    BY <1>5, <1>6, <1>7, <1>8, <2>2, <2>3 DEF Ledger
  <2>5. TotalsFall(call, call', 0, 0, 0, 0, 0)
    BY <1>2, <1>3, <2>2, TotalsFollow
  <2>6. 0 = 0 + 0 + 0 - 0 /\ 0 = 0 - 0
    OBVIOUS
  <2>20. Balanced(0, 0, 0, 0, 0, 0, 0, 0, 0, 0, 0, 0, 0, 0)
    BY <2>6 DEF Balanced
  <2> QED
    BY <2>4, <2>5, <2>20, BooksBalance
<1>19. CASE Returns(g, d)
  <2>1. PICK u \in Nat : u = IF c.err = "cancelled" THEN 1 ELSE 0
    OBVIOUS
  <2>2. /\ Active(c) /\ Falls(call[g], d, u, 0, 0, 0, 0)
        /\ calls' = [calls EXCEPT ![c.id].outcome = c.err] /\ UNCHANGED <<metrics, sent, stamped>>
    BY <1>1, <1>19, <2>1 DEF Returns
  <2>3. c.id \in 1 .. Len(calls) /\ calls[c.id].outcome = "running"
    BY <1>1, <1>3, <2>2 DEF Linked
  <2>4. PICK t : t = calls' /\ t = [calls EXCEPT ![c.id].outcome = c.err]
    BY <2>2
  <2>5. Handed(t) = Handed(calls) /\ Cardinality(GivenUp(t)) = Cardinality(GivenUp(calls)) + u
    <3>1. PICK k \in 1 .. Len(calls), o \in {"nil", "error", "cancelled"} : k = c.id /\ o = c.err
      BY <1>4, <2>3
    <3>2. t = [calls EXCEPT ![k].outcome = o] /\ calls[k].outcome = "running"
      BY <2>3, <2>4, <3>1
    <3>3. Ends(calls, t, k, o)
      BY <1>9, <3>1, <3>2 DEF Ends
    <3>4. /\ Handed(t) = Handed(calls)
          /\ o = "cancelled" => Cardinality(GivenUp(t)) = Cardinality(GivenUp(calls)) + 1
          /\ o # "cancelled" => Cardinality(GivenUp(t)) = Cardinality(GivenUp(calls))
      BY <3>3, HandedKept, Zenon
    <3>5. Cardinality(GivenUp(calls)) \in Nat
      BY <1>5
    <3> QED
      BY <2>1, <3>1, <3>4, <3>5
  <2>6. Ledger(0, 0, 0, 0, 0, 0, 0, 0, u)
    BY <1>5, <1>8, <2>2, <2>4, <2>5 DEF Ledger
  <2>7. u = 0 + 0 + u - 0 /\ 0 = 0 - 0 /\ u \in Int
    OBVIOUS
  <2>8. TotalsFall(call, call', u, 0, 0, 0, 0)
    BY <1>2, <1>3, <2>2, <2>7, TotalsFollow
  <2>20. Balanced(0, 0, 0, 0, 0, 0, 0, 0, u, u, 0, 0, 0, 0)
    BY <2>7 DEF Balanced
  <2> QED
    BY <2>6, <2>8, <2>20, BooksBalance
<1> QED
  BY <1>10, <1>11, <1>12, <1>13, <1>14, <1>15, <1>16, <1>17, <1>18, <1>19 DEF CallStep


-----------------------------------------------------------------------------
(* What a caller is told *)

Published(s, k, i) == \E j \in 1 .. Len(s) : s[j].call = k /\ s[j].i = i

\* A call under way: of the messages that it is through with all are published,
\* or its error says otherwise; of the others none is.
Tells(s, c) ==
  /\ AtMessage(c) => \A i \in 1 .. Len(c.msgs) : c.i <= i => ~Published(s, c.id, i)
  /\ c.err = "nil" => \A i \in 1 .. Len(c.msgs) : (AtMessage(c) => i < c.i) => Published(s, c.id, i)
  /\ c.err # "nil" => \E i \in 1 .. Len(c.msgs) : (AtMessage(c) => i < c.i) /\ ~Published(s, c.id, i)

\* A call that has returned.
Told(s, k, e) ==
  /\ e.outcome = "nil" => \A i \in 1 .. Len(e.msgs) : Published(s, k, i)
  /\ e.outcome \in {"error", "cancelled"} => \E i \in 1 .. Len(e.msgs) : ~Published(s, k, i)

Once(s) == \A j, l \in 1 .. Len(s) : s[j].call = s[l].call /\ s[j].i = s[l].i => j = l

Sending ==
  /\ \A j \in 1 .. Len(sent) : sent[j].call \in 1 .. Len(calls)
  /\ Once(sent)
  /\ \A g \in Goroutine : Active(call[g]) => Tells(sent, call[g])
  /\ \A k \in 1 .. Len(calls) : Told(sent, k, calls[k])

(* Through with a message that was not published: the error tells.         *)
LEMMA TellsError ==
  ASSUME NEW s, NEW c, NEW d, CallOK(c), CallOK(d), Through(c, d), d.err # "nil", Tells(s, c)
  PROVE  Tells(s, d)
<1>1. /\ d.id = c.id /\ d.msgs = c.msgs /\ AtMessage(c) /\ c.i \in 1 .. Len(c.msgs)
      /\ (AtMessage(d) => d.i = c.i + 1)
  BY DEF Through, Kept
<1>2. PICK n \in Nat, x \in Nat : n = Len(c.msgs) /\ x = c.i
  BY CallNumbers
<1>3. ~Published(s, c.id, x)
  BY <1>1, <1>2 DEF Tells
<1>4. ASSUME AtMessage(d), NEW i \in 1 .. n, d.i <= i PROVE ~Published(s, c.id, i)
  <2>1. x <= i
    BY <1>1, <1>2, <1>4
  <2> QED
    BY <1>1, <1>2, <2>1 DEF Tells
<1>5. x \in 1 .. n /\ (AtMessage(d) => x < d.i)
  BY <1>1, <1>2
<1> QED
  BY <1>1, <1>2, <1>3, <1>4, <1>5 DEF Tells

(* The same message as before: the same is told. *)
LEMMA TellsSame ==
  ASSUME NEW s, NEW c, NEW d, Stays(c, d), Tells(s, c)
  PROVE  Tells(s, d)
BY DEF Stays, Kept, Tells

(* A message has been published: that one and no other. *)
LEMMA PublishedNow ==
  ASSUME NEW s \in Seq(SentRecord), NEW x \in SentRecord, NEW t, t = Append(s, x)
  PROVE  \A k, i : Published(t, k, i) <=> Published(s, k, i) \/ (x.call = k /\ x.i = i)
<1>1. /\ Len(s) \in Nat /\ Len(t) = Len(s) + 1 /\ t[Len(s) + 1] = x
      /\ \A k \in 1 .. Len(s) : t[k] = s[k]
  BY AppendIs
<1>2. PICK n \in Nat : n = Len(s)
  BY <1>1
<1>3. \A j : j \in 1 .. n + 1 <=> j \in 1 .. n \/ j = n + 1
  OBVIOUS
<1>4. /\ Len(t) = n + 1 /\ t[n + 1] = x /\ \A k \in 1 .. n : t[k] = s[k]
  BY <1>1, <1>2
<1> QED
  BY <1>2, <1>3, <1>4 DEF Published

(* Through with a message that has been published. *)
LEMMA TellsSent ==
  ASSUME NEW s, NEW t, NEW c, NEW d, CallOK(c), CallOK(d), Through(c, d), d.err = c.err, Tells(s, c),
         \A i : Published(t, c.id, i) <=> Published(s, c.id, i) \/ c.i = i
  PROVE  Tells(t, d)
<1>1. /\ d.id = c.id /\ d.msgs = c.msgs /\ AtMessage(c) /\ c.i \in 1 .. Len(c.msgs)
      /\ (AtMessage(d) => d.i = c.i + 1) /\ (~AtMessage(d) => c.i = Len(c.msgs))
  BY DEF Through, Kept
<1>2. PICK n \in Nat, x \in Nat : n = Len(c.msgs) /\ x = c.i
  BY CallNumbers
<1>3. ASSUME AtMessage(d), NEW i \in 1 .. n, d.i <= i PROVE ~Published(t, c.id, i)
  <2>1. x <= i /\ x # i
    BY <1>1, <1>2, <1>3
  <2> QED
    BY <1>1, <1>2, <2>1 DEF Tells
<1>4. ASSUME c.err = "nil", NEW i \in 1 .. n, AtMessage(d) => i < d.i PROVE Published(t, c.id, i)
  <2>1. i < x \/ i = x
    <3>1. CASE AtMessage(d)
      BY <1>1, <1>2, <1>4, <3>1
    <3>2. CASE ~AtMessage(d)
      BY <1>1, <1>2, <3>2
    <3> QED
      BY <3>1, <3>2
  <2> QED
    BY <1>2, <1>4, <2>1 DEF Tells
<1>5. ASSUME c.err # "nil" PROVE \E i \in 1 .. n : (AtMessage(d) => i < d.i) /\ ~Published(t, c.id, i)
  <2>1. PICK i \in 1 .. n : i < x /\ ~Published(s, c.id, i)
    BY <1>1, <1>2, <1>5 DEF Tells
  <2>2. i # x /\ (AtMessage(d) => i < d.i)
    BY <1>1, <1>2, <2>1
  <2> QED
    BY <1>2, <2>1, <2>2
<1> QED
  BY <1>1, <1>2, <1>3, <1>4, <1>5 DEF Tells

(* What is told stays true while others publish. *)
LEMMA TellsOthers ==
  ASSUME NEW s, NEW t, NEW c, \A i : Published(t, c.id, i) <=> Published(s, c.id, i), Tells(s, c)
  PROVE  Tells(t, c)
BY DEF Tells

(* So does what a caller was told when its call returned. *)
LEMMA ToldOthers ==
  ASSUME NEW s, NEW t, NEW k, NEW e, \A i : Published(t, k, i) <=> Published(s, k, i), Told(s, k, e)
  PROVE  Told(t, k, e)
BY DEF Told

(* Every step of a call keeps what callers are told. *)
LEMMA SendingKept ==
  ASSUME PubTypes, Linked, Sending, NEW g, NEW d, CallStep(g, d)
  PROVE  Sending'
<1>1. PICK c : c = call[g]
  OBVIOUS
<1>2. Moves(g, d)
  BY DEF CallStep, Begins, Stops, Sends, Errs, GivesUp, Tries, CountsMessages, CountsBytes, Stamps,
         StoresTime, Returns
<1>3. CallOK(c) /\ CallOK(d) /\ g \in Goroutine /\ CallsOK
  BY <1>1, <1>2 DEF Moves, PubTypes
<1>4. call'[g] = d /\ \A h \in Goroutine \ {g} : call'[h] = call[h]
  BY <1>2, <1>3, MovesOne
<1>5. sent \in Seq(SentRecord) /\ calls \in Seq(CallEntry) /\ Len(calls) \in Nat /\ Len(sent) \in Nat
  BY LenProperties DEF PubTypes
<1>6. CASE Begins(g, d)
  <2>1. /\ ~Active(c) /\ Active(d) /\ d.id = Len(calls) + 1 /\ d.i = 1 /\ d.err = "nil"
        /\ AtMessage(d) \/ Len(d.msgs) = 0
        /\ calls' = Append(calls, Entry(d)) /\ UNCHANGED sent
    BY <1>1, <1>6 DEF Begins
  <2>2. PICK e \in CallEntry : e = Entry(d) /\ e.outcome = "running"
    <3>1. d.kind \in Kind /\ d.msgs \in Seq(Nat)
      BY <1>3, CallNumbers
    <3>2. Entry(d) \in CallEntry /\ Entry(d).outcome = "running"
      BY <3>1 DEF Entry, CallEntry
    <3> QED
      BY <3>2
  <2>3. PICK t : t = calls' /\ t = Append(calls, e)
    BY <2>1, <2>2
  <2>4. Len(t) = Len(calls) + 1 /\ t[Len(calls) + 1] = e /\ \A k \in 1 .. Len(calls) : t[k] = calls[k]
    BY <1>5, <2>3, AppendIs
  <2>5. PICK n \in Nat : n = Len(calls)
    BY <1>5
  <2>6. d.id = n + 1 /\ d.id \notin 1 .. n /\ Len(t) = n + 1
          /\ \A k : k \in 1 .. n + 1 <=> k \in 1 .. n \/ k = n + 1
    BY <2>1, <2>4, <2>5
  <2>7. \A i : ~Published(sent, d.id, i)
    BY <2>5, <2>6 DEF Sending, Published
  <2>8. Tells(sent, d)
    <3>1. AtMessage(d) => \A i \in 1 .. Len(d.msgs) : ~(i < d.i)
      BY <2>1
    <3>2. Len(d.msgs) = 0 => \A i \in 1 .. Len(d.msgs) : FALSE
      OBVIOUS
    <3> QED
      BY <2>1, <2>7, <3>1, <3>2 DEF Tells
  <2>9. \A h \in Goroutine : Active(call'[h]) => Tells(sent, call'[h])
    BY <1>4, <2>8 DEF Sending
  <2>10. \A k \in 1 .. n + 1 : Told(sent, k, t[k])
    <3>1. Told(sent, n + 1, e)
      BY <2>2 DEF Told
    <3>2. \A k \in 1 .. n : Told(sent, k, t[k])
      BY <2>4, <2>5 DEF Sending
    <3> QED
      BY <2>4, <2>5, <2>6, <3>1, <3>2
  <2>11. \A j \in 1 .. Len(sent) : sent[j].call \in 1 .. n + 1
    BY <2>5, <2>6 DEF Sending
  <2> QED
    BY <2>1, <2>3, <2>6, <2>9, <2>10, <2>11 DEF Sending
<1>7. CASE Stops(g, d)
  <2>1. ~Active(d) /\ UNCHANGED <<calls, sent>>
    BY <1>7 DEF Stops
  <2>2. \A h \in Goroutine : Active(call'[h]) => Tells(sent, call'[h])
    BY <1>4, <2>1 DEF Sending
  <2> QED
    BY <2>1, <2>2 DEF Sending
<1>8. CASE Errs(g, d) \/ GivesUp(g, d)
  <2>1. Through(c, d) /\ Active(c) /\ d.err # "nil" /\ UNCHANGED <<calls, sent>>
    BY <1>1, <1>8 DEF Errs, GivesUp, Through
  <2>2. Tells(sent, c)
    BY <1>1, <1>3, <2>1 DEF Sending
  <2>3. Tells(sent, d)
    BY <1>3, <2>1, <2>2, TellsError
  <2>4. \A h \in Goroutine : Active(call'[h]) => Tells(sent, call'[h])
    BY <1>4, <2>3 DEF Sending
  <2> QED
    BY <2>1, <2>4 DEF Sending
<1>9. CASE Tries(g, d) \/ CountsMessages(g, d) \/ CountsBytes(g, d) \/ Stamps(g, d) \/ StoresTime(g, d)
  <2>1. Stays(c, d) /\ Active(c) /\ UNCHANGED <<calls, sent>>
    BY <1>1, <1>9 DEF Tries, CountsMessages, CountsBytes, Stamps, StoresTime, Stays
  <2>2. Tells(sent, c)
    BY <1>1, <1>3, <2>1 DEF Sending
  <2>3. Tells(sent, d)
    BY <2>1, <2>2, TellsSame
  <2>4. \A h \in Goroutine : Active(call'[h]) => Tells(sent, call'[h])
    BY <1>4, <2>3 DEF Sending
  <2> QED
    BY <2>1, <2>4 DEF Sending
<1>10. CASE Returns(g, d)
  <2>1. /\ Active(c) /\ ~AtMessage(c) /\ ~Active(d)
        /\ calls' = [calls EXCEPT ![c.id].outcome = c.err] /\ UNCHANGED sent
    BY <1>1, <1>10 DEF Returns
  <2>2. c.id \in 1 .. Len(calls) /\ calls[c.id].msgs = c.msgs /\ c.err \in {"nil", "error", "cancelled"}
    BY <1>1, <1>3, <2>1, CallNumbers DEF Linked
  <2>3. PICK k \in 1 .. Len(calls), o \in {"nil", "error", "cancelled"} : k = c.id /\ o = c.err
    BY <2>2
  <2>4. PICK t : t = calls' /\ t = [calls EXCEPT ![k].outcome = o]
    BY <2>1, <2>3
  <2>5. /\ Len(t) = Len(calls) /\ t[k].outcome = o /\ \A j \in 1 .. Len(calls) : t[j].msgs = calls[j].msgs
        /\ \A j \in 1 .. Len(calls) : j # k => t[j] = calls[j]
    BY <1>5, <2>4, OutcomeIs
  <2>6. Tells(sent, c)
    BY <1>1, <1>3, <2>1 DEF Sending
  <2>7. Told(sent, k, t[k])
    BY <2>1, <2>2, <2>3, <2>5, <2>6 DEF Tells, Told
  <2>8. \A j \in 1 .. Len(calls) : Told(sent, j, t[j])
    BY <2>5, <2>7 DEF Sending
  <2>9. \A h \in Goroutine : Active(call'[h]) => Tells(sent, call'[h])
    BY <1>4, <2>1 DEF Sending
  <2> QED
    BY <2>1, <2>4, <2>5, <2>8, <2>9 DEF Sending
<1>11. CASE Sends(g, d)
  <2>1. /\ Through(c, d) /\ Active(c) /\ AtMessage(c) /\ c.i \in 1 .. Len(c.msgs) /\ d.err = c.err
        /\ c.msgs[c.i] \in Nat /\ sent' = Append(sent, Text(c)) /\ UNCHANGED calls
    BY <1>1, <1>11 DEF Sends, Through
  <2>2. PICK x \in SentRecord : x = Text(c) /\ x.call = c.id /\ x.i = c.i
    BY <1>3, <2>1, TextIs
  <2>3. PICK t : t = sent' /\ t = Append(sent, x)
    BY <2>1, <2>2
  <2>4. \A k, i : Published(t, k, i) <=> Published(sent, k, i) \/ (c.id = k /\ c.i = i)
    <3>1. \A k, i : Published(t, k, i) <=> Published(sent, k, i) \/ (x.call = k /\ x.i = i)
      <4>1. sent \in Seq(SentRecord) /\ t = Append(sent, x)
        BY <1>5, <2>3
      <4> QED
        BY <4>1, PublishedNow
    <3> QED
      BY <2>2, <3>1
  <2>5. /\ c.id \in 1 .. Len(calls) /\ calls[c.id].outcome = "running"
        /\ \A h \in Goroutine \ {g} : Active(call[h]) => call[h].id # c.id
    BY <1>1, <1>3, <2>1 DEF Linked
  <2>6. Tells(sent, c)
    BY <1>1, <1>3, <2>1 DEF Sending
  <2>7. Tells(t, d)
    <3>1. \A i : Published(t, c.id, i) <=> Published(sent, c.id, i) \/ c.i = i
      BY <2>4
    <3> QED
      BY <1>3, <2>1, <2>6, <3>1, TellsSent
  <2>8. ASSUME NEW h \in Goroutine, Active(call'[h]) PROVE Tells(t, call'[h])
    <3>1. CASE h = g
      BY <1>4, <2>7, <3>1
    <3>2. CASE h # g
      <4>1. PICK b : b = call[h] /\ b = call'[h]
        BY <1>4, <3>2
      <4>2. Tells(sent, b) /\ b.id # c.id
        BY <2>5, <2>8, <3>2, <4>1 DEF Sending
      <4>3. \A i : Published(t, b.id, i) <=> Published(sent, b.id, i)
        BY <2>4, <4>2
      <4>4. Tells(t, b)
        BY <4>2, <4>3, TellsOthers
      <4> QED
        BY <4>1, <4>4
    <3> QED
      BY <3>1, <3>2
  <2>9. ASSUME NEW k \in 1 .. Len(calls) PROVE Told(t, k, calls[k])
    <3>1. CASE k = c.id
      BY <2>5, <3>1 DEF Told
    <3>2. CASE k # c.id
      <4>1. \A i : Published(t, k, i) <=> Published(sent, k, i)
        BY <2>4, <3>2
      <4>2. Told(sent, k, calls[k])
        BY DEF Sending
      <4> QED
        BY <4>1, <4>2, ToldOthers
    <3> QED
      BY <3>1, <3>2
  <2>10. PICK n \in Nat : n = Len(sent)
    BY <1>5
  <2>11. Len(t) = n + 1 /\ t[n + 1] = x /\ \A j \in 1 .. n : t[j] = sent[j]
    BY <1>5, <2>3, <2>10, AppendIs
  <2>12. \A j : j \in 1 .. n + 1 <=> j \in 1 .. n \/ j = n + 1
    OBVIOUS
  <2>13. \A j \in 1 .. n : ~(sent[j].call = c.id /\ sent[j].i = c.i)
    <3>1. c.i <= c.i
      BY <1>3, CallNumbers
    <3>2. ~Published(sent, c.id, c.i)
      BY <2>1, <2>6, <3>1 DEF Tells
    <3> QED
      BY <2>10, <3>2 DEF Published
  <2>14. Once(t)
    <3>1. \A j, l \in 1 .. n : sent[j].call = sent[l].call /\ sent[j].i = sent[l].i => j = l
      BY <2>10 DEF Sending, Once
    <3> QED
      BY <2>2, <2>11, <2>12, <2>13, <3>1 DEF Once
  <2>15. \A j \in 1 .. n + 1 : t[j].call \in 1 .. Len(calls)
    <3>1. \A j \in 1 .. n : sent[j].call \in 1 .. Len(calls)
      BY <2>10 DEF Sending
    <3> QED
      BY <2>2, <2>5, <2>11, <2>12, <3>1
  <2> QED
    BY <2>1, <2>3, <2>8, <2>9, <2>11, <2>14, <2>15 DEF Sending
<1> QED
  BY <1>6, <1>7, <1>8, <1>9, <1>10, <1>11 DEF CallStep


-----------------------------------------------------------------------------
(* The numbers of the loop *)

\* The loop has published its message and not yet gone on to the next number.
Ahead(c) == Active(c) /\ ~AtMessage(c) /\ c.err = "nil"

Numbered(s) == \A j \in 1 .. Len(s) : s[j].number = j - 1

RunLoop ==
  driver = "run" =>
    /\ \A g \in Goroutine : Active(call[g]) => g = "run" /\ call[g].kind = "tick"
    /\ Len(sent) = IF Ahead(call["run"]) THEN counter + 1 ELSE counter
    /\ Numbered(sent)

(* Every step of a call keeps the loop's numbers without gap or repetition. *)
LEMMA RunLoopKept ==
  ASSUME PubTypes, RunLoop, NEW g, NEW d, CallStep(g, d)
  PROVE  RunLoop'
<1>1. PICK c : c = call[g]
  OBVIOUS
<1>2. Moves(g, d) /\ UNCHANGED driver
  BY DEF CallStep, Begins, Stops, Sends, Errs, GivesUp, Tries, CountsMessages, CountsBytes, Stamps,
         StoresTime, Returns
<1>3. CallOK(c) /\ CallOK(d) /\ g \in Goroutine /\ CallsOK
  BY <1>1, <1>2 DEF Moves, PubTypes
<1>4. call'[g] = d /\ \A h \in Goroutine \ {g} : call'[h] = call[h]
  BY <1>2, <1>3, MovesOne
<1>5. sent \in Seq(SentRecord) /\ Len(sent) \in Nat /\ counter \in Nat
  BY LenProperties DEF PubTypes
<1> SUFFICES ASSUME driver = "run"
    PROVE  /\ \A h \in Goroutine : Active(call'[h]) => h = "run" /\ call'[h].kind = "tick"
           /\ Len(sent') = IF Ahead(call'["run"]) THEN counter' + 1 ELSE counter'
           /\ Numbered(sent')
  BY <1>2 DEF RunLoop
<1>6. /\ \A h \in Goroutine : Active(call[h]) => h = "run" /\ call[h].kind = "tick"
      /\ Len(sent) = IF Ahead(call["run"]) THEN counter + 1 ELSE counter
      /\ Numbered(sent)
  BY DEF RunLoop
<1>7. "run" \in Goroutine
  BY DEF Goroutine
<1>8. CASE Begins(g, d)
  <2>2. g = "run" /\ d.kind = "tick" /\ ~Active(c) /\ Active(d) /\ UNCHANGED <<sent, counter>>
          /\ (AtMessage(d) \/ Len(d.msgs) = 0)
    BY <1>1, <1>8 DEF Begins
  <2>3. AtMessage(d)
    <3>1. Len(d.msgs) = 1
      BY <1>3, <2>2 DEF CallOK
    <3> QED
      BY <2>2, <3>1
  <2>4. ~Ahead(c) /\ ~Ahead(d)
    BY <2>2, <2>3 DEF Ahead
  <2> QED
    BY <1>1, <1>4, <1>6, <2>2, <2>4
<1>9. CASE Stops(g, d)
  <2>1. ~Active(c) /\ ~Active(d) /\ UNCHANGED <<sent, counter>>
    BY <1>1, <1>9 DEF Stops
  <2>2. Ahead(call'["run"]) <=> Ahead(call["run"])
    BY <1>1, <1>4, <1>7, <2>1 DEF Ahead
  <2> QED
    BY <1>4, <1>6, <2>1, <2>2
<1>10. CASE GoesOn(g, d)
  <2>1. Active(c) /\ Active(d) /\ Kept(c, d) /\ UNCHANGED counter
    BY <1>1, <1>10, GoesOnIs
  <2>2. g = "run" /\ c.kind = "tick" /\ d.kind = "tick"
    BY <1>1, <1>3, <1>6, <2>1 DEF Kept
  <2>3. \A h \in Goroutine : Active(call'[h]) => h = "run" /\ call'[h].kind = "tick"
    BY <1>4, <1>6, <2>2
  <2>4. call'["run"] = d /\ call["run"] = c
    BY <1>1, <1>4, <2>2
  <2>5. CASE Tries(g, d) \/ CountsMessages(g, d) \/ CountsBytes(g, d) \/ Stamps(g, d) \/ StoresTime(g, d)
    <3>1. Stays(c, d) /\ UNCHANGED sent
      BY <1>1, <2>5 DEF Tries, CountsMessages, CountsBytes, Stamps, StoresTime
    <3>2. Ahead(d) <=> Ahead(c)
      BY <3>1 DEF Stays, Ahead
    <3> QED
      BY <1>6, <2>1, <2>3, <2>4, <3>1, <3>2
  <2>6. CASE Errs(g, d) \/ GivesUp(g, d)
    <3>1. Through(c, d) /\ d.err # "nil" /\ UNCHANGED sent
      BY <1>1, <2>6 DEF Errs, GivesUp
    <3>2. ~Ahead(c) /\ ~Ahead(d)
      BY <3>1 DEF Through, Ahead
    <3> QED
      BY <1>6, <2>1, <2>3, <2>4, <3>1, <3>2
  <2>7. CASE Sends(g, d)
    <3>1. /\ Through(c, d) /\ d.err = c.err /\ c.msgs[c.i] \in Nat /\ sent' = Append(sent, Text(c))
      BY <1>1, <2>7 DEF Sends
    <3>2. AtMessage(c) /\ c.i \in 1 .. Len(c.msgs) /\ d.msgs = c.msgs /\ (AtMessage(d) => d.i = c.i + 1)
      BY <3>1 DEF Through, Kept
    <3>3. Len(c.msgs) = 1 /\ c.err = "nil" /\ (AtMessage(d) => d.i <= Len(d.msgs))
      BY <1>3, <2>1, <2>2, <3>2 DEF CallOK
    <3>4. c.i = 1
      BY <3>2, <3>3
    <3>5. ~AtMessage(d)
      BY <3>2, <3>3, <3>4
    <3>6. ~Ahead(c) /\ Ahead(d)
      BY <2>1, <3>1, <3>2, <3>3, <3>5 DEF Ahead
    <3>7. Len(sent) = counter
      BY <1>6, <2>4, <3>6
    <3>8. PICK x \in SentRecord : x = Text(c) /\ x.number = counter
      BY <1>3, <2>2, <3>1, TextIs
    <3>9. PICK t : t = sent' /\ t = Append(sent, x)
      BY <3>1, <3>8
    <3>10. Len(t) = Len(sent) + 1 /\ t[Len(sent) + 1] = x /\ \A j \in 1 .. Len(sent) : t[j] = sent[j]
      BY <1>5, <3>9, AppendIs
    <3>11. PICK n \in Nat : n = counter
      BY <1>5
    <3>12. Len(t) = n + 1 /\ t[n + 1] = x /\ \A j \in 1 .. n : t[j] = sent[j]
      BY <3>7, <3>10, <3>11
    <3>13. n = (n + 1) - 1 /\ \A j : j \in 1 .. n + 1 <=> j \in 1 .. n \/ j = n + 1
      OBVIOUS
    <3>14. \A j \in 1 .. n : sent[j].number = j - 1
      BY <1>6, <3>7, <3>11 DEF Numbered
    <3>15. Numbered(t)
      BY <3>8, <3>11, <3>12, <3>13, <3>14 DEF Numbered
    <3> QED
      BY <2>1, <2>3, <2>4, <3>6, <3>9, <3>11, <3>12, <3>15
  <2> QED
    BY <1>10, <2>5, <2>6, <2>7 DEF GoesOn
<1>11. CASE Returns(g, d)
  <2>1. /\ Active(c) /\ ~AtMessage(c) /\ ~Active(d) /\ UNCHANGED sent
        /\ counter' = IF c.kind = "tick" /\ c.err = "nil" THEN counter + 1 ELSE counter
    BY <1>1, <1>11 DEF Returns
  <2>2. g = "run" /\ c.kind = "tick"
    BY <1>1, <1>3, <1>6, <2>1
  <2>3. call'["run"] = d /\ call["run"] = c
    BY <1>1, <1>4, <2>2
  <2>4. ~Ahead(d) /\ (Ahead(c) <=> c.err = "nil")
    BY <2>1 DEF Ahead
  <2>5. \A h \in Goroutine : Active(call'[h]) => h = "run" /\ call'[h].kind = "tick"
    BY <1>4, <1>6, <2>1
  <2> QED
    BY <1>6, <2>1, <2>2, <2>3, <2>4, <2>5
<1> QED
  BY <1>8, <1>9, <1>10, <1>11 DEF CallStep, GoesOn


-----------------------------------------------------------------------------
(* What a reader of the metrics sees *)

SeenMessages(s, n) == Sum([t \in 1 .. n |-> s[t].messages])

SeenBytes(s, n) == Sum([t \in 1 .. n |-> s[t].bytes])

Reading ==
  /\ reader.pc >= 2 => reader.got.lastPublishTime <= clock
  /\ reader.pc >= 3 =>
       /\ SeenMessages(stamped, reader.got.lastPublishTime) <= reader.got.MessagesPublished
       /\ reader.got.MessagesPublished <= metrics.MessagesPublished
  /\ reader.pc >= 4 =>
       /\ SeenBytes(stamped, reader.got.lastPublishTime) <= reader.got.BytesPublished
       /\ reader.got.BytesPublished <= metrics.BytesPublished

(* What was published up to a time is part of what was published. *)
LEMMA SeenIsPart ==
  ASSUME NEW s \in Seq(StampRecord), NEW n \in Nat, n <= Len(s)
  PROVE  /\ SeenMessages(s, n) <= StampedMessages(s) /\ SeenMessages(s, n) \in Nat
         /\ SeenBytes(s, n) <= StampedBytes(s) /\ SeenBytes(s, n) \in Nat
<1>1. PICK l \in Nat : l = Len(s) /\ DOMAIN s = 1 .. l
  BY LenProperties
<1>2. \A k \in 1 .. l : s[k] \in StampRecord
  BY <1>1, ElementOfSeq
<1>3. IsFiniteSet(1 .. l) /\ 1 .. n \subseteq 1 .. l
  <2>1. IsFiniteSet(1 .. l)
    BY FS_Interval
  <2> QED
    BY <1>1, <2>1
<1>4. PICK T, R : T = 1 .. l /\ R = 1 .. n
  OBVIOUS
<1>5. IsFiniteSet(T) /\ R \in SUBSET T
  BY <1>3, <1>4
<1>6. ASSUME NEW f \in [T -> Nat], NEW h \in [R -> Nat], \A y \in R : h[y] <= f[y]
      PROVE  Sum(h) <= Sum(f) /\ Sum(h) \in Nat
  BY <1>5, <1>6, SumOfPart
<1>7. SeenMessages(s, n) <= StampedMessages(s) /\ SeenMessages(s, n) \in Nat
  <2>1. PICK f, h : f = [k \in T |-> s[k].messages] /\ h = [k \in R |-> s[k].messages]
    OBVIOUS
  <2>2. \A k \in T : s[k].messages \in Nat
    BY <1>2, <1>4 DEF StampRecord
  <2>3. f \in [T -> Nat] /\ h \in [R -> Nat] /\ \A y \in R : h[y] = f[y] /\ h[y] \in Nat
    BY <1>5, <2>1, <2>2
  <2>4. \A y \in R : h[y] <= f[y]
    <3>1. \A k \in Nat : k <= k
      OBVIOUS
    <3> QED
      BY <2>3, <3>1
  <2>5. Sum(h) <= Sum(f) /\ Sum(h) \in Nat
    BY <1>6, <2>3, <2>4
  <2> QED
    BY <1>1, <1>4, <2>1, <2>5 DEF SeenMessages, StampedMessages
<1>8. SeenBytes(s, n) <= StampedBytes(s) /\ SeenBytes(s, n) \in Nat
  <2>1. PICK f, h : f = [k \in T |-> s[k].bytes] /\ h = [k \in R |-> s[k].bytes]
    OBVIOUS
  <2>2. \A k \in T : s[k].bytes \in Nat
    BY <1>2, <1>4 DEF StampRecord
  <2>3. f \in [T -> Nat] /\ h \in [R -> Nat] /\ \A y \in R : h[y] = f[y] /\ h[y] \in Nat
    BY <1>5, <2>1, <2>2
  <2>4. \A y \in R : h[y] <= f[y]
    <3>1. \A k \in Nat : k <= k
      OBVIOUS
    <3> QED
      BY <2>3, <3>1
  <2>5. Sum(h) <= Sum(f) /\ Sum(h) \in Nat
    BY <1>6, <2>3, <2>4
  <2> QED
    BY <1>1, <1>4, <2>1, <2>5 DEF SeenBytes, StampedBytes
<1> QED
  BY <1>7, <1>8

(* What was published up to a time is never added to. *)
LEMMA SeenKept ==
  ASSUME PubTypes, NEW g, NEW d, CallStep(g, d), NEW n \in Nat, n <= clock
  PROVE  SeenMessages(stamped', n) = SeenMessages(stamped, n) /\ SeenBytes(stamped', n) = SeenBytes(stamped, n)
<1>1. CASE UNCHANGED stamped
  BY <1>1
<1>2. CASE Stamps(g, d)
  <2>1. PICK c : c = call[g] /\ CallOK(c)
    BY <1>2 DEF Stamps, Moves
  <2>2. PICK e : e = [messages |-> c.successCount, bytes |-> c.totalBytes]
    OBVIOUS
  <2>3. e \in StampRecord
    <3>1. c.successCount \in Nat /\ c.totalBytes \in Nat
      BY <2>1, CallNumbers
    <3> QED
      BY <2>2, <3>1 DEF StampRecord
  <2>4. PICK t : t = stamped' /\ t = Append(stamped, e)
    BY <1>2, <2>1, <2>2 DEF Stamps
  <2>5. Len(stamped) \in Nat /\ Len(stamped) = clock /\ \A k \in 1 .. Len(stamped) : t[k] = stamped[k]
    BY <2>3, <2>4, AppendIs DEF PubTypes
  <2>6. \A k \in 1 .. n : t[k] = stamped[k]
    BY <2>5
  <2>7. /\ [k \in 1 .. n |-> t[k].messages] = [k \in 1 .. n |-> stamped[k].messages]
        /\ [k \in 1 .. n |-> t[k].bytes] = [k \in 1 .. n |-> stamped[k].bytes]
    BY <2>6
  <2> QED
    BY <2>4, <2>7 DEF SeenMessages, SeenBytes
<1>3. UNCHANGED stamped \/ Stamps(g, d)
  BY DEF CallStep, Begins, Stops, Sends, Errs, GivesUp, Tries, CountsMessages, CountsBytes,
         StoresTime, Returns
<1> QED
  BY <1>1, <1>2, <1>3

(* Every step of a call keeps a snapshot, or the part that is read.        *)
LEMMA ReadingKept ==
  ASSUME PubTypes, Linked, Reading, NEW g, NEW d, CallStep(g, d)
  PROVE  Reading'
<1>1. UNCHANGED reader
  BY DEF CallStep, Begins, Stops, Sends, Errs, GivesUp, Tries, CountsMessages, CountsBytes, Stamps,
         StoresTime, Returns
<1>2. /\ metrics.MessagesPublished <= metrics'.MessagesPublished
      /\ metrics.BytesPublished <= metrics'.BytesPublished
      /\ metrics'.MessagesPublished \in Nat /\ metrics'.BytesPublished \in Nat
  BY MetricsKept DEF MetricsStep, MetricsRecord
<1>3. metrics.MessagesPublished \in Nat /\ metrics.BytesPublished \in Nat
  BY DEF PubTypes, MetricsRecord
<1>4. clock \in Nat /\ clock' \in Nat /\ clock <= clock'
  BY HistoriesKept DEF Histories, PubTypes
<1>5. PICK n \in Nat, m \in Nat, b \in Nat :
        n = reader.got.lastPublishTime /\ m = reader.got.MessagesPublished /\ b = reader.got.BytesPublished
  BY DEF PubTypes, MetricsRecord
<1>6. reader.pc \in 1 .. 4
  BY DEF PubTypes
<1>7. reader.pc >= 2 => n <= clock /\ n <= clock'
  BY <1>4, <1>5 DEF Reading
<1>8. reader.pc >= 2 =>
        SeenMessages(stamped', n) = SeenMessages(stamped, n) /\ SeenBytes(stamped', n) = SeenBytes(stamped, n)
  BY <1>7, SeenKept
<1>9. reader.pc >= 3 => SeenMessages(stamped', n) <= m /\ m <= metrics'.MessagesPublished
  <2>1. reader.pc >= 3 => reader.pc >= 2
    BY <1>6
  <2>2. reader.pc >= 3 => SeenMessages(stamped, n) <= m /\ m <= metrics.MessagesPublished
    BY <1>5 DEF Reading
  <2>3. m <= metrics.MessagesPublished => m <= metrics'.MessagesPublished
    BY <1>2, <1>3
  <2> QED
    BY <1>8, <2>1, <2>2, <2>3
<1>10. reader.pc >= 4 => SeenBytes(stamped', n) <= b /\ b <= metrics'.BytesPublished
  <2>1. reader.pc >= 4 => reader.pc >= 2
    BY <1>6
  <2>2. reader.pc >= 4 => SeenBytes(stamped, n) <= b /\ b <= metrics.BytesPublished
    BY <1>5 DEF Reading
  <2>3. b <= metrics.BytesPublished => b <= metrics'.BytesPublished
    BY <1>2, <1>3
  <2> QED
    BY <1>8, <2>1, <2>2, <2>3
<1> QED
  BY <1>1, <1>5, <1>7, <1>9, <1>10 DEF Reading

(* A load of GetMetrics: the time comes first, then what covers it. *)
LEMMA ReadsOK ==
  ASSUME PubTypes, Times, Accounts, Reading, Reads
  PROVE  Reading' /\ reader' \in [pc : 1 .. 4, got : MetricsRecord]
<1>1. PICK p \in 1 .. 3, a \in MetricsRecord, m \in MetricsRecord :
         p = reader.pc /\ a = reader.got /\ m = metrics
  BY DEF PubTypes, Reads
<1>2. PICK w : w = [a EXCEPT ![LoadOrder[p]] = m[LoadOrder[p]]]
  OBVIOUS
<1>3. reader' = [pc |-> p + 1, got |-> w] /\ UNCHANGED <<metrics, clock, stamped>>
  BY <1>1, <1>2 DEF Reads
<1>4. /\ m.MessagesPublished \in Nat /\ m.BytesPublished \in Nat /\ m.lastPublishTime \in Nat
      /\ a.MessagesPublished \in Nat /\ a.BytesPublished \in Nat /\ a.lastPublishTime \in Nat
  BY DEF MetricsRecord
<1>5. m.lastPublishTime <= clock /\ clock = Len(stamped) /\ stamped \in Seq(StampRecord) /\ clock \in Nat
  BY <1>1 DEF Times, PubTypes
<1>6. StampedMessages(stamped) <= m.MessagesPublished /\ StampedBytes(stamped) <= m.BytesPublished
        /\ StampedMessages(stamped) \in Nat /\ StampedBytes(stamped) \in Nat
  <2>1. /\ m.MessagesPublished = StampedMessages(stamped) + Sum(UnstampedMessagesOf(call))
        /\ m.BytesPublished = StampedBytes(stamped) + Sum(UnstampedBytesOf(call))
    BY <1>1 DEF Accounts
  <2>2. /\ StampedMessages(stamped) \in Nat /\ StampedBytes(stamped) \in Nat
        /\ Sum(UnstampedMessagesOf(call)) \in Nat /\ Sum(UnstampedBytesOf(call)) \in Nat
    BY AccountNumbers
  <2> QED
    BY <2>1, <2>2
<1>7. CASE p = 1
  <2>1. w = [a EXCEPT !.lastPublishTime = m.lastPublishTime]
    BY <1>2, <1>7 DEF LoadOrder
  <2>2. w \in MetricsRecord /\ w.lastPublishTime = m.lastPublishTime
    BY <1>4, <2>1, MetricsWritten
  <2>3. reader'.pc = 2 /\ reader'.got = w /\ reader' \in [pc : 1 .. 4, got : MetricsRecord]
    BY <1>3, <1>7, <2>2
  <2> QED
    BY <1>3, <1>5, <2>2, <2>3 DEF Reading
<1>8. CASE p = 2
  <2>1. w = [a EXCEPT !.MessagesPublished = m.MessagesPublished]
    BY <1>2, <1>8 DEF LoadOrder
  <2>2. w \in MetricsRecord /\ w.lastPublishTime = a.lastPublishTime /\ w.MessagesPublished = m.MessagesPublished
    BY <1>4, <2>1, MetricsWritten
  <2>3. reader'.pc = 3 /\ reader'.got = w /\ reader' \in [pc : 1 .. 4, got : MetricsRecord]
    BY <1>3, <1>8, <2>2
  <2>4. a.lastPublishTime <= clock
    BY <1>1, <1>8 DEF Reading
  <2>5. SeenMessages(stamped, a.lastPublishTime) <= StampedMessages(stamped)
          /\ SeenMessages(stamped, a.lastPublishTime) \in Nat
    BY <1>4, <1>5, <2>4, SeenIsPart
  <2>6. SeenMessages(stamped, a.lastPublishTime) <= m.MessagesPublished
          /\ m.MessagesPublished <= m.MessagesPublished
    BY <1>4, <1>6, <2>5
  <2> QED
    BY <1>1, <1>3, <2>2, <2>3, <2>4, <2>6 DEF Reading
<1>9. CASE p = 3
  <2>1. w = [a EXCEPT !.BytesPublished = m.BytesPublished]
    BY <1>2, <1>9 DEF LoadOrder
  <2>2. /\ w \in MetricsRecord /\ w.lastPublishTime = a.lastPublishTime
        /\ w.MessagesPublished = a.MessagesPublished /\ w.BytesPublished = m.BytesPublished
    BY <1>4, <2>1, MetricsWritten
  <2>3. reader'.pc = 4 /\ reader'.got = w /\ reader' \in [pc : 1 .. 4, got : MetricsRecord]
    BY <1>3, <1>9, <2>2
  <2>4. /\ a.lastPublishTime <= clock
        /\ SeenMessages(stamped, a.lastPublishTime) <= a.MessagesPublished
        /\ a.MessagesPublished <= m.MessagesPublished
    BY <1>1, <1>9 DEF Reading
  <2>5. SeenBytes(stamped, a.lastPublishTime) <= StampedBytes(stamped)
          /\ SeenBytes(stamped, a.lastPublishTime) \in Nat
    BY <1>4, <1>5, <2>4, SeenIsPart
  <2>6. SeenBytes(stamped, a.lastPublishTime) <= m.BytesPublished
          /\ m.BytesPublished <= m.BytesPublished
    BY <1>4, <1>6, <2>5
  <2> QED
    BY <1>1, <1>3, <2>2, <2>3, <2>4, <2>6 DEF Reading
<1> QED
  BY <1>7, <1>8, <1>9



-----------------------------------------------------------------------------
(* The invariant of the publisher *)

PubInv == PubTypes /\ Times /\ Linked /\ Accounts /\ Sending /\ RunLoop /\ Reading

(* While no call is under way nothing is outstanding at all. *)
LEMMA NoCallNothing ==
  ASSUME NEW k, \A g \in Goroutine : ~Active(k[g])
  PROVE  /\ Sum(OutstandingOf(k)) = 0
         /\ Sum(UncountedMessagesOf(k)) = 0 /\ Sum(UncountedBytesOf(k)) = 0
         /\ Sum(UnstampedMessagesOf(k)) = 0 /\ Sum(UnstampedBytesOf(k)) = 0
<1>1. \A g \in Goroutine :
        /\ Outstanding(k[g]) = 0
        /\ UncountedMessages(k[g]) = 0 /\ UncountedBytes(k[g]) = 0
        /\ UnstampedMessages(k[g]) = 0 /\ UnstampedBytes(k[g]) = 0
  BY NothingOutstanding
<1>2. ASSUME NEW f, f = [g \in Goroutine |-> 0] PROVE Sum(f) = 0
  <2>1. f \in [Goroutine -> Nat] /\ \A g \in Goroutine : f[g] = 0
    BY <1>2
  <2> QED
    BY <2>1, SumZero
<1>3. /\ OutstandingOf(k) = [g \in Goroutine |-> 0]
      /\ UncountedMessagesOf(k) = [g \in Goroutine |-> 0] /\ UncountedBytesOf(k) = [g \in Goroutine |-> 0]
      /\ UnstampedMessagesOf(k) = [g \in Goroutine |-> 0] /\ UnstampedBytesOf(k) = [g \in Goroutine |-> 0]
  BY <1>1 DEF OutstandingOf, UncountedMessagesOf, UncountedBytesOf, UnstampedMessagesOf, UnstampedBytesOf
<1> QED
  BY <1>2, <1>3

(* The histories of a publisher that is new are empty. *)
LEMMA NothingYet ==
  /\ SentBytes(<<>>) = 0 /\ Handed(<<>>) = 0
  /\ StampedMessages(<<>>) = 0 /\ StampedBytes(<<>>) = 0
  /\ Cardinality(GivenUp(<<>>)) = 0
<1>1. DOMAIN <<>> = {}
  OBVIOUS
<1>2. ASSUME NEW f, DOMAIN f = {}, f \in [{} -> Nat] PROVE Sum(f) = 0
  BY <1>2, SumZero
<1>3. GivenUp(<<>>) = {}
  BY <1>1 DEF GivenUp
<1>4. Cardinality(GivenUp(<<>>)) = 0
  BY <1>3, FS_EmptySet
<1>5. SentBytes(<<>>) = 0
  <2>1. PICK f : f = [k \in {} |-> <<>>[k].len]
    OBVIOUS
  <2>2. DOMAIN f = {} /\ f \in [{} -> Nat]
    BY <2>1
  <2> QED
    BY <1>1, <1>2, <2>1, <2>2 DEF SentBytes
<1>6. Handed(<<>>) = 0
  <2>1. PICK f : f = [k \in {} |-> Len(<<>>[k].msgs)]
    OBVIOUS
  <2>2. DOMAIN f = {} /\ f \in [{} -> Nat]
    BY <2>1
  <2> QED
    BY <1>1, <1>2, <2>1, <2>2 DEF Handed
<1>7. StampedMessages(<<>>) = 0
  <2>1. PICK f : f = [k \in {} |-> <<>>[k].messages]
    OBVIOUS
  <2>2. DOMAIN f = {} /\ f \in [{} -> Nat]
    BY <2>1
  <2> QED
    BY <1>1, <1>2, <2>1, <2>2 DEF StampedMessages
<1>8. StampedBytes(<<>>) = 0
  <2>1. PICK f : f = [k \in {} |-> <<>>[k].bytes]
    OBVIOUS
  <2>2. DOMAIN f = {} /\ f \in [{} -> Nat]
    BY <2>1
  <2> QED
    BY <1>1, <1>2, <2>1, <2>2 DEF StampedBytes
<1> QED
  BY <1>4, <1>5, <1>6, <1>7, <1>8

(* A new publisher satisfies the invariant (newPublisher). *)
LEMMA PubInvInit ==
  ASSUME PublisherInit
  PROVE  PubInv
<1>1. /\ \A g \in Goroutine : call[g] = Idle /\ CallOK(call[g]) /\ ~Active(call[g]) /\ call[g].stamp = 0
      /\ call \in [Goroutine -> CallRecord]
  <2>1. call = [g \in Goroutine |-> Idle] /\ Idle \in CallRecord
    BY IdleOK DEF PublisherInit, CallOK
  <2> QED
    BY <2>1, IdleOK
<1>2. NoMetrics \in MetricsRecord
  BY DEF NoMetrics, MetricsRecord
<1>3. /\ metrics.MessagesPublished = 0 /\ metrics.BytesPublished = 0 /\ metrics.PublishErrors = 0
      /\ metrics.lastPublishTime = 0
  BY DEF PublisherInit, NoMetrics
<1>4. /\ sent = <<>> /\ calls = <<>> /\ stamped = <<>> /\ clock = 0 /\ counter = 0 /\ metrics = NoMetrics
      /\ reader = [pc |-> 1, got |-> NoMetrics]
  BY DEF PublisherInit
<1>5. Len(sent) = 0 /\ Len(calls) = 0 /\ Len(stamped) = 0
  BY <1>4
<1>6. PubTypes
  <2>1. sent \in Seq(SentRecord) /\ calls \in Seq(CallEntry) /\ stamped \in Seq(StampRecord)
    BY <1>4
  <2>2. reader \in [pc : 1 .. 4, got : MetricsRecord] /\ reader.pc = 1
    BY <1>2, <1>4
  <2>3. CallsOK
    BY <1>1 DEF CallsOK
  <2> QED
    BY <1>2, <1>4, <1>5, <2>1, <2>2, <2>3 DEF PubTypes
<1>7. Times
  BY <1>1, <1>3, <1>4 DEF Times
<1>8. Linked
  BY <1>1 DEF Linked
<1>9. Accounts
  <2>1. /\ Sum(OutstandingOf(call)) = 0
        /\ Sum(UncountedMessagesOf(call)) = 0 /\ Sum(UncountedBytesOf(call)) = 0
        /\ Sum(UnstampedMessagesOf(call)) = 0 /\ Sum(UnstampedBytesOf(call)) = 0
    BY <1>1, NoCallNothing
  <2>2. /\ SentBytes(sent) = 0 /\ Handed(calls) = 0 /\ StampedMessages(stamped) = 0
        /\ StampedBytes(stamped) = 0 /\ Cardinality(GivenUp(calls)) = 0
    BY <1>4, NothingYet
  <2> QED
    BY <1>3, <1>5, <2>1, <2>2 DEF Accounts
<1>10. 1 .. Len(sent) = {} /\ 1 .. Len(calls) = {}
  BY <1>5
<1>11. Sending
  BY <1>1, <1>10 DEF Sending, Once
<1>12. RunLoop
  <2>1. "run" \in Goroutine
    BY DEF Goroutine
  <2>2. ~Ahead(call["run"])
    BY <1>1, <2>1 DEF Ahead
  <2>3. Numbered(sent)
    BY <1>10 DEF Numbered
  <2> QED
    BY <1>1, <1>4, <1>5, <2>2, <2>3 DEF RunLoop
<1>13. Reading
  <2>1. reader.pc = 1
    BY <1>4
  <2> QED
    BY <2>1 DEF Reading
<1> QED
  BY <1>6, <1>7, <1>8, <1>9, <1>11, <1>12, <1>13 DEF PubInv

(* Nothing but the context and the faults changes. *)
LEMMA PubInvRests ==
  ASSUME PubInv, Rests
  PROVE  PubInv'
<1>1. UNCHANGED <<driver, call, counter, metrics, clock, reader, sent, calls, stamped>>
  BY DEF Rests
<1>2. PubTypes' /\ Times' /\ Linked'
  BY <1>1 DEF PubInv, PubTypes, CallsOK, Times, Linked
<1>3. Accounts'
  BY <1>1 DEF PubInv, Accounts
<1>4. Sending' /\ RunLoop' /\ Reading'
  BY <1>1 DEF PubInv, Sending, RunLoop, Reading
<1> QED
  BY <1>2, <1>3, <1>4 DEF PubInv

(* Every step of the publisher keeps its invariant. *)
LEMMA PubInvNext ==
  ASSUME PubInv, PublisherNext
  PROVE  PubInv'
<1>1. PubTypes /\ Times /\ Linked /\ Accounts /\ Sending /\ RunLoop /\ Reading
  BY DEF PubInv
<1>2. (\E g, d : CallStep(g, d)) \/ Reads \/ Rests
  <2>1. CallsOK /\ clock \in Nat /\ Len(calls) \in Nat
    BY <1>1, LenProperties DEF PubTypes
  <2> QED
    BY <2>1, PublisherShape
<1>3. CASE \E g, d : CallStep(g, d)
  <2>1. PICK g, d : CallStep(g, d)
    BY <1>3
  <2>2. PubTypes' /\ Times'
    BY <1>1, <2>1, PubTypesKept
  <2>3. Linked' /\ Sending' /\ RunLoop' /\ Reading'
    BY <1>1, <2>1, LinkedKept, SendingKept, RunLoopKept, ReadingKept
  <2>4. Accounts'
    BY <1>1, <2>1, <2>2, AccountsKept
  <2> QED
    BY <2>2, <2>3, <2>4 DEF PubInv
<1>4. CASE Reads
  <2>1. UNCHANGED <<driver, call, counter, metrics, clock, sent, calls, stamped>>
    BY <1>4 DEF Reads
  <2>2. Reading' /\ reader' \in [pc : 1 .. 4, got : MetricsRecord]
    BY <1>1, <1>4, ReadsOK
  <2>3. PubTypes' /\ Times' /\ Linked'
    BY <1>1, <2>1, <2>2 DEF PubTypes, CallsOK, Times, Linked
  <2>4. Accounts'
    BY <1>1, <2>1 DEF Accounts
  <2>5. Sending' /\ RunLoop'
    BY <1>1, <2>1 DEF Sending, RunLoop
  <2> QED
    BY <2>2, <2>3, <2>4, <2>5 DEF PubInv
<1>5. CASE Rests
  BY <1>5, PubInvRests
<1> QED
  BY <1>2, <1>3, <1>4, <1>5



-----------------------------------------------------------------------------
(* What the publisher's invariant says *)

(* Calls are at a place of their method, and the clock is ahead. *)
LEMMA PubTypeOK ==
  ASSUME PubInv
  PROVE  PublisherTypeOK
<1>1. PubTypes /\ Times /\ Linked
  BY DEF PubInv
<1>2. clock \in Nat /\ DOMAIN calls = 1 .. Len(calls) /\ Len(stamped) = clock /\ reader.pc \in 1 .. 4
  BY <1>1, LenProperties DEF PubTypes
<1>3. ASSUME NEW g \in Goroutine
      PROVE  call[g].pc \in PubPC /\ (Active(call[g]) => call[g].id \in DOMAIN calls) /\ call[g].stamp \in 0 .. clock
  <2>1. call[g].stamp \in Nat /\ call[g].pc \in PubPC
    BY <1>1 DEF PubTypes, CallsOK, CallRecord
  <2>2. call[g].stamp <= clock
    BY <1>1 DEF Times
  <2>3. Active(call[g]) => call[g].id \in DOMAIN calls
    BY <1>1, <1>2 DEF Linked
  <2> QED
    BY <1>2, <2>1, <2>2, <2>3
<1>4. \A m \in DOMAIN metrics : metrics[m] \in Nat
  BY <1>1 DEF PubTypes, MetricsRecord
<1>5. metrics.lastPublishTime \in 0 .. clock
  <2>1. metrics.lastPublishTime \in Nat /\ metrics.lastPublishTime <= clock
    BY <1>1 DEF PubTypes, MetricsRecord, Times
  <2> QED
    BY <1>2, <2>1
<1> QED
  BY <1>2, <1>3, <1>4, <1>5 DEF PublisherTypeOK, PubPC, Active

(* The accounts say what the metrics promise. *)
LEMMA PubMetricsExact ==
  ASSUME PubInv
  PROVE  MetricsExact
<1>1. PubTypes /\ Accounts
  BY DEF PubInv
<1>2. /\ metrics.MessagesPublished \in Nat /\ metrics.BytesPublished \in Nat
      /\ metrics.PublishErrors \in Nat /\ Len(sent) \in Nat /\ SentBytes(sent) \in Nat
      /\ Handed(calls) \in Nat /\ Cardinality(GivenUp(calls)) \in Nat
      /\ Sum(OutstandingOf(call)) \in Nat
      /\ Sum(UncountedMessagesOf(call)) \in Nat /\ Sum(UncountedBytesOf(call)) \in Nat
  BY <1>1, AccountNumbers
<1>3. PICK m \in Nat, b \in Nat, e \in Nat, l \in Nat, sb \in Nat, h \in Nat, u \in Nat, out \in Nat,
           um \in Nat, ub \in Nat :
        /\ m = metrics.MessagesPublished /\ b = metrics.BytesPublished /\ e = metrics.PublishErrors
        /\ l = Len(sent) /\ sb = SentBytes(sent) /\ h = Handed(calls) /\ u = Cardinality(GivenUp(calls))
        /\ out = Sum(OutstandingOf(call)) /\ um = Sum(UncountedMessagesOf(call))
        /\ ub = Sum(UncountedBytesOf(call))
  BY <1>2
<1>4. l = m + um /\ sb = b + ub /\ h = l + e + u + out
  BY <1>1, <1>3 DEF Accounts
<1>5. m <= l /\ b <= sb
  BY <1>4
<1>6. NoCall => m = l /\ b = sb /\ h = m + e + u
  <2>1. NoCall => \A g \in Goroutine : ~Active(call[g])
    BY DEF NoCall, Active
  <2>2. NoCall => out = 0 /\ um = 0 /\ ub = 0
    BY <1>3, <2>1, NoCallNothing
  <2> QED
    BY <1>4, <2>2
<1> QED
  BY <1>3, <1>5, <1>6 DEF MetricsExact, SentBytes, Handed, GivenUp

(* A message is published once or not at all. *)
LEMMA SentOnce ==
  ASSUME NEW k, NEW i, Once(sent), DOMAIN sent = 1 .. Len(sent)
  PROVE  /\ Published(sent, k, i) => TimesSent(k, i) = 1
         /\ ~Published(sent, k, i) => TimesSent(k, i) = 0
<1>1. PICK S : S = {j \in DOMAIN sent : sent[j].call = k /\ sent[j].i = i}
  OBVIOUS
<1>2. TimesSent(k, i) = Cardinality(S)
  BY <1>1 DEF TimesSent
<1>3. ASSUME Published(sent, k, i) PROVE Cardinality(S) = 1
  <2>1. PICK j \in 1 .. Len(sent) : sent[j].call = k /\ sent[j].i = i
    BY <1>3 DEF Published
  <2>2. S = {j}
    BY <1>1, <2>1 DEF Once
  <2> QED
    BY <2>2, FS_Singleton
<1>4. ASSUME ~Published(sent, k, i) PROVE Cardinality(S) = 0
  <2>1. S = {}
    BY <1>1, <1>4 DEF Published
  <2> QED
    BY <2>1, FS_EmptySet
<1> QED
  BY <1>2, <1>3, <1>4

(* Callers are told the truth, and the loop's numbers have no gap. *)
LEMMA PubExactlyOnce ==
  ASSUME PubInv
  PROVE  ExactlyOnce
<1>1. PubTypes /\ Sending /\ RunLoop
  BY DEF PubInv
<1>2. /\ DOMAIN sent = 1 .. Len(sent) /\ DOMAIN calls = 1 .. Len(calls) /\ calls \in Seq(CallEntry)
      /\ Once(sent)
  BY <1>1, LenProperties DEF PubTypes, Sending
<1>3. ASSUME NEW k \in DOMAIN calls, NEW told, told = calls[k].outcome,
             NEW times, times = {TimesSent(k, i) : i \in DOMAIN calls[k].msgs}
      PROVE  /\ told = "nil" => times \subseteq {1}
             /\ told # "nil" => times \subseteq {0, 1}
             /\ told \in {"error", "cancelled"} => 0 \in times
  <2>1. PICK e : e = calls[k]
    OBVIOUS
  <2>2. e \in CallEntry
    BY <1>2, <2>1, ElementOfSeq
  <2>3. DOMAIN e.msgs = 1 .. Len(e.msgs)
    <3>1. e.msgs \in Seq(Nat)
      BY <2>2 DEF CallEntry
    <3> QED
      BY <3>1, LenProperties
  <2>4. Told(sent, k, e)
    BY <1>1, <1>2, <2>1 DEF Sending
  <2>5. \A i : /\ Published(sent, k, i) => TimesSent(k, i) = 1
               /\ ~Published(sent, k, i) => TimesSent(k, i) = 0
    BY <1>2, SentOnce
  <2>6. times = {TimesSent(k, i) : i \in 1 .. Len(e.msgs)} /\ told = e.outcome
    BY <1>3, <2>1, <2>3
  <2>7. times \subseteq {0, 1}
    BY <2>5, <2>6
  <2>8. told = "nil" => times \subseteq {1}
    BY <2>4, <2>5, <2>6 DEF Told
  <2>9. told \in {"error", "cancelled"} => 0 \in times
    BY <2>4, <2>5, <2>6 DEF Told
  <2> QED
    BY <2>7, <2>8, <2>9
<1>4. driver = "run" => \A j \in DOMAIN sent : sent[j].number = j - 1
  BY <1>1, <1>2 DEF RunLoop, Numbered
<1> QED
  BY <1>3, <1>4 DEF ExactlyOnce

(* A snapshot covers its own time. *)
LEMMA PubSnapshot ==
  ASSUME PubInv
  PROVE  SnapshotCountsStamped
<1>1. PubTypes /\ Accounts /\ Reading /\ MetricsExact
  BY PubMetricsExact DEF PubInv
<1>2. /\ metrics.MessagesPublished <= Len(sent) /\ metrics.BytesPublished <= SentBytes(sent)
      /\ metrics.MessagesPublished \in Nat /\ metrics.BytesPublished \in Nat
      /\ Len(sent) \in Nat /\ SentBytes(sent) \in Nat
  BY <1>1, AccountNumbers DEF MetricsExact, SentBytes
<1>3. PICK n \in Nat, m \in Nat, b \in Nat :
        n = reader.got.lastPublishTime /\ m = reader.got.MessagesPublished /\ b = reader.got.BytesPublished
  BY <1>1 DEF PubTypes, MetricsRecord
<1>4. ASSUME reader.pc = 4
      PROVE  /\ SeenMessages(stamped, n) <= m /\ SeenBytes(stamped, n) <= b
             /\ m <= metrics.MessagesPublished /\ b <= metrics.BytesPublished
  BY <1>1, <1>3, <1>4 DEF Reading
<1>5. ASSUME reader.pc = 4 PROVE m <= Len(sent) /\ b <= SentBytes(sent)
  BY <1>2, <1>4, <1>5
<1> QED
  BY <1>3, <1>4, <1>5 DEF SnapshotCountsStamped, SeenMessages, SeenBytes, SentBytes



-----------------------------------------------------------------------------
(* The receivers of the subscription *)

SubPC == {"idle", "top", "next", "failed", "invalid", "count", "peer", "handle", "done"}

InMessage == [from : Peer, len : Nat]

RecvRecord == [pc : SubPC, msg : InMessage \cup {NoMsg}]

SubRecord == [MessagesReceived : Nat, ReceiveErrors : 0 .. MaxErrors, ValidationErrors : Nat,
              uniquePeers : SUBSET Peer]

TakenRecord == [good : Nat, bad : Nat, peers : SUBSET Peer]

\* A receiver that has a message knows its sender.
HasMessage(r) == r.pc \in {"count", "peer", "invalid"}

SubTypes ==
  /\ recv \in [Receiver -> RecvRecord]
  /\ subMetrics \in SubRecord /\ IsFiniteSet(subMetrics.uniquePeers)
  /\ observer \in [pc : 1 .. 3, got : SubRecord] /\ IsFiniteSet(observer.got.uniquePeers)
  /\ inbox \in Seq(InMessage)
  /\ taken \in TakenRecord

\* The receivers that are at p, and the senders that are still to be tracked.
Waiting(k, p) == {g \in Receiver : k[g].pc = p}

Untracked(k) == {k[g].msg.from : g \in Waiting(k, "count") \cup Waiting(k, "peer")}

Received ==
  /\ subMetrics.MessagesReceived + Cardinality(Waiting(recv, "count")) = taken.good
  /\ subMetrics.ValidationErrors + Cardinality(Waiting(recv, "invalid")) = taken.bad
  /\ subMetrics.uniquePeers \cup Untracked(recv) = taken.peers
  /\ Cardinality(subMetrics.uniquePeers) + Cardinality(Waiting(recv, "peer"))
       <= subMetrics.MessagesReceived

Observing ==
  /\ observer.pc >= 2 => Cardinality(observer.got.uniquePeers) <= subMetrics.MessagesReceived
  /\ observer.pc >= 3 => Cardinality(observer.got.uniquePeers) <= observer.got.MessagesReceived

\* Receiver g goes on as x, the others stay where they are.
Turns(g, x) ==
  /\ g \in Receiver /\ x \in RecvRecord /\ recv'[g] = x
  /\ recv' \in [Receiver -> RecvRecord]
  /\ \A h \in Receiver \ {g} : recv'[h] = recv[h]

Passes(g, x) ==
  /\ Turns(g, x) /\ ~HasMessage(recv[g]) /\ ~HasMessage(x)
  /\ subMetrics' \in SubRecord
  /\ subMetrics'.MessagesReceived = subMetrics.MessagesReceived
  /\ subMetrics'.ValidationErrors = subMetrics.ValidationErrors
  /\ subMetrics'.uniquePeers = subMetrics.uniquePeers
  /\ UNCHANGED <<observer, inbox, taken>>

Takes(g, x) ==
  /\ Turns(g, x) /\ ~HasMessage(recv[g]) /\ x.msg \in InMessage
  /\ inbox' \in Seq(InMessage) /\ taken' \in TakenRecord
  /\ \/ /\ x.pc = "count" /\ taken'.good = taken.good + 1 /\ taken'.bad = taken.bad
        /\ taken'.peers = taken.peers \cup {x.msg.from}
     \/ /\ x.pc = "invalid" /\ taken'.good = taken.good /\ taken'.bad = taken.bad + 1
        /\ taken'.peers = taken.peers
  /\ UNCHANGED <<subMetrics, observer>>

CountsInvalid(g, x) ==
  /\ Turns(g, x) /\ recv[g].pc = "invalid" /\ ~HasMessage(x)
  /\ subMetrics' \in SubRecord
  /\ subMetrics'.MessagesReceived = subMetrics.MessagesReceived
  /\ subMetrics'.ValidationErrors = subMetrics.ValidationErrors + 1
  /\ subMetrics'.uniquePeers = subMetrics.uniquePeers
  /\ UNCHANGED <<observer, inbox, taken>>

CountsReceived(g, x) ==
  /\ Turns(g, x) /\ recv[g].pc = "count" /\ x.pc = "peer" /\ x.msg = recv[g].msg
  /\ subMetrics' \in SubRecord
  /\ subMetrics'.MessagesReceived = subMetrics.MessagesReceived + 1
  /\ subMetrics'.ValidationErrors = subMetrics.ValidationErrors
  /\ subMetrics'.uniquePeers = subMetrics.uniquePeers
  /\ UNCHANGED <<observer, inbox, taken>>

TracksPeer(g, x) ==
  /\ Turns(g, x) /\ recv[g].pc = "peer" /\ ~HasMessage(x)
  /\ subMetrics' \in SubRecord
  /\ subMetrics'.MessagesReceived = subMetrics.MessagesReceived
  /\ subMetrics'.ValidationErrors = subMetrics.ValidationErrors
  /\ subMetrics'.uniquePeers = subMetrics.uniquePeers \cup {recv[g].msg.from}
  /\ UNCHANGED <<observer, inbox, taken>>

ReceiverStep(g, x) ==
  Passes(g, x) \/ Takes(g, x) \/ CountsInvalid(g, x) \/ CountsReceived(g, x) \/ TracksPeer(g, x)

Observes ==
  /\ observer.pc \in 1 .. 2
  /\ observer' = [pc  |-> observer.pc + 1,
                  got |-> [observer.got EXCEPT ![ReadOrder[observer.pc]] =
                                                  subMetrics[ReadOrder[observer.pc]]]]
  /\ UNCHANGED <<recv, subMetrics, inbox, taken>>

\* A step that leaves everything but the contents of the channel.
Fills == inbox' \in Seq(InMessage) /\ UNCHANGED <<recv, subMetrics, observer, taken>>

(* There are finitely many receivers. *)
LEMMA ReceiversFinite == IsFiniteSet(Receiver)
<1>1. IsFiniteSet(Handler)
  BY SubscriberAssumption
<1>2. IsFiniteSet(Handler \cup {"run"})
  BY <1>1, FS_AddElement
<1> QED
  BY <1>2 DEF Receiver

(* The receivers that wait somewhere are finitely many. *)
LEMMA WaitingFinite ==
  ASSUME NEW k, NEW p
  PROVE  IsFiniteSet(Waiting(k, p)) /\ Cardinality(Waiting(k, p)) \in Nat
<1>1. Waiting(k, p) \subseteq Receiver
  BY DEF Waiting
<1>2. IsFiniteSet(Waiting(k, p))
  BY <1>1, ReceiversFinite, FS_Subset
<1> QED
  BY <1>2, FS_CardinalityType

\* One receiver comes to p, leaves it, or passes by.
OneMoves(k, l, g, p) ==
  /\ k[g].pc # p /\ l[g].pc # p => Cardinality(Waiting(l, p)) = Cardinality(Waiting(k, p))
  /\ k[g].pc # p /\ l[g].pc = p => Cardinality(Waiting(l, p)) = Cardinality(Waiting(k, p)) + 1
  /\ k[g].pc = p /\ l[g].pc # p => Cardinality(Waiting(k, p)) = Cardinality(Waiting(l, p)) + 1

(* The receivers that wait somewhere change by the one that moves. *)
LEMMA WaitingMoves ==
  ASSUME NEW k, NEW l, NEW g \in Receiver, \A h \in Receiver \ {g} : l[h] = k[h], NEW p
  PROVE  OneMoves(k, l, g, p)
<1>1. ASSUME k[g].pc # p, l[g].pc # p PROVE Waiting(l, p) = Waiting(k, p)
  BY <1>1 DEF Waiting
<1>2. ASSUME k[g].pc # p, l[g].pc = p PROVE Cardinality(Waiting(l, p)) = Cardinality(Waiting(k, p)) + 1
  <2>1. Waiting(l, p) = Waiting(k, p) \cup {g} /\ g \notin Waiting(k, p)
    BY <1>2 DEF Waiting
  <2> QED
    BY <2>1, WaitingFinite, FS_AddElement
<1>3. ASSUME k[g].pc = p, l[g].pc # p PROVE Cardinality(Waiting(k, p)) = Cardinality(Waiting(l, p)) + 1
  <2>1. Waiting(k, p) = Waiting(l, p) \cup {g} /\ g \notin Waiting(l, p)
    BY <1>3 DEF Waiting
  <2> QED
    BY <2>1, WaitingFinite, FS_AddElement
<1> QED
  BY <1>1, <1>2, <1>3 DEF OneMoves

(* The counters are written one at a time. *)
LEMMA SubWritten ==
  ASSUME NEW m \in SubRecord, NEW n \in Nat, NEW e \in 0 .. MaxErrors, NEW P \in SUBSET Peer, NEW w
  PROVE  /\ w = [m EXCEPT !.MessagesReceived = n] =>
              /\ w \in SubRecord /\ w.MessagesReceived = n /\ w.ValidationErrors = m.ValidationErrors
              /\ w.uniquePeers = m.uniquePeers
         /\ w = [m EXCEPT !.ValidationErrors = n] =>
              /\ w \in SubRecord /\ w.MessagesReceived = m.MessagesReceived /\ w.ValidationErrors = n
              /\ w.uniquePeers = m.uniquePeers
         /\ w = [m EXCEPT !.ReceiveErrors = e] =>
              /\ w \in SubRecord /\ w.MessagesReceived = m.MessagesReceived
              /\ w.ValidationErrors = m.ValidationErrors /\ w.uniquePeers = m.uniquePeers
         /\ w = [m EXCEPT !.uniquePeers = P] =>
              /\ w \in SubRecord /\ w.MessagesReceived = m.MessagesReceived
              /\ w.ValidationErrors = m.ValidationErrors /\ w.uniquePeers = P
BY DEF SubRecord

(* Goto and Leave turn one receiver. *)
LEMMA TurnsIs ==
  ASSUME SubTypes, NEW g \in Receiver, NEW p \in SubPC
  PROVE  /\ Goto(g, p) => \E x : Turns(g, x) /\ x.pc = p /\ x.msg = recv[g].msg
         /\ Leave(g) => \E x : Turns(g, x) /\ x.pc \in {"top", "idle"}
<1>1. ASSUME NEW x \in RecvRecord, recv' = [recv EXCEPT ![g] = x] PROVE Turns(g, x)
  BY <1>1 DEF Turns, SubTypes
<1>2. PICK r \in RecvRecord : r = recv[g]
  BY DEF SubTypes
<1>3. ASSUME Goto(g, p) PROVE \E x : Turns(g, x) /\ x.pc = p /\ x.msg = recv[g].msg
  <2>1. PICK x : x = [r EXCEPT !.pc = p]
    OBVIOUS
  <2>2. x \in RecvRecord /\ x.pc = p /\ x.msg = r.msg
    BY <2>1 DEF RecvRecord
  <2>3. recv' = [recv EXCEPT ![g] = x]
    BY <1>2, <1>3, <2>1 DEF Goto
  <2> QED
    BY <1>1, <1>2, <2>2, <2>3
<1>4. ASSUME Leave(g) PROVE \E x : Turns(g, x) /\ x.pc \in {"top", "idle"}
  <2>1. PICK x : x = [pc |-> IF g = "run" THEN "top" ELSE "idle", msg |-> NoMsg]
    OBVIOUS
  <2>2. x \in RecvRecord /\ x.pc \in {"top", "idle"}
    BY <2>1 DEF RecvRecord, SubPC
  <2>3. recv' = [recv EXCEPT ![g] = x]
    BY <1>4, <2>1 DEF Leave
  <2> QED
    BY <1>1, <2>2, <2>3
<1> QED
  BY <1>3, <1>4


(* The first message of the channel, and what is left of it. *)
LEMMA HeadIs ==
  ASSUME SubTypes, inbox # <<>>
  PROVE  Head(inbox) \in InMessage /\ Tail(inbox) \in Seq(InMessage)
BY HeadTailProperties DEF SubTypes

(* validateMessage: a message that names its sender is counted as received *)
(* exactly when its length is legal.                                       *)
LEMMA ValidIs ==
  ASSUME NEW m \in InMessage
  PROVE  validateMessage(m) <=> m.len \in 1 .. MaxLength
<1>1. m.len \in Nat /\ m.from \in Peer /\ MaxLength \in Nat
  BY SubscriberAssumption DEF InMessage
<1>2. m.from # ""
  BY <1>1, PeerAssumption
<1>3. m.len > 0 /\ m.len <= MaxLength <=> m.len \in 1 .. MaxLength
  BY <1>1
<1> QED
  BY <1>2, <1>3 DEF validateMessage

(* Next returns a message: it is noted as it is judged. *)
LEMMA TakesIs ==
  ASSUME SubTypes, NEW g \in Receiver, NextReturns(g)
  PROVE  \E x : Takes(g, x)
<1>1. PICK m \in InMessage : m = Head(inbox)
  BY HeadIs DEF NextReturns
<1>2. PICK x : x = [msg |-> m, pc |-> IF validateMessage(m) THEN "count" ELSE "invalid"]
  OBVIOUS
<1>3. /\ x \in RecvRecord /\ x.msg = m
      /\ validateMessage(m) => x.pc = "count"
      /\ ~validateMessage(m) => x.pc = "invalid"
  BY <1>2 DEF RecvRecord, SubPC
<1>4. recv' = [recv EXCEPT ![g] = x] /\ taken' = Noted(m) /\ inbox' = Tail(inbox)
        /\ recv[g].pc = "next" /\ UNCHANGED <<subMetrics, observer>>
  BY <1>1, <1>2 DEF NextReturns
<1>5. Turns(g, x)
  BY <1>3, <1>4 DEF Turns, SubTypes
<1>6. inbox' \in Seq(InMessage)
  BY <1>4, HeadIs DEF NextReturns
<1>7. ~HasMessage(recv[g])
  BY <1>4 DEF HasMessage
<1>8. m.from \in Peer
  BY DEF InMessage
<1>9. PICK t \in TakenRecord : t = taken
  BY DEF SubTypes
<1>10. t.good \in Nat /\ t.bad \in Nat /\ t.peers \in SUBSET Peer
  BY DEF TakenRecord
<1>11. CASE validateMessage(m)
  <2>0. t.peers \cup {m.from} \in SUBSET Peer
    BY <1>8, <1>10
  <2>1. PICK n \in Nat : n = t.good + 1
    BY <1>10
  <2>4. PICK P \in SUBSET Peer : P = t.peers \cup {m.from}
    BY <2>0
  <2>2. taken' = [t EXCEPT !.good = n, !.peers = P]
    BY <1>4, <1>9, <1>11, <2>1, <2>4, ValidIs DEF Noted
  <2>3. taken' \in TakenRecord /\ taken'.good = n /\ taken'.bad = t.bad /\ taken'.peers = P
    BY <2>2 DEF TakenRecord
  <2> QED
    BY <1>3, <1>4, <1>5, <1>6, <1>7, <1>9, <1>11, <2>1, <2>3, <2>4 DEF Takes
<1>12. CASE ~validateMessage(m)
  <2>1. PICK n \in Nat : n = t.bad + 1
    BY <1>10
  <2>2. taken' = [t EXCEPT !.bad = n]
    BY <1>4, <1>9, <1>12, <2>1, ValidIs DEF Noted
  <2>3. taken' \in TakenRecord /\ taken'.good = t.good /\ taken'.bad = n /\ taken'.peers = t.peers
    BY <2>2 DEF TakenRecord
  <2> QED
    BY <1>3, <1>4, <1>5, <1>6, <1>7, <1>9, <1>12, <2>1, <2>3 DEF Takes
<1> QED
  BY <1>11, <1>12

\* Every receiver that is to track a sender has a message that names one.
Named == \A g \in Receiver : recv[g].pc \in {"count", "peer"} => recv[g].msg \in InMessage

(* Every step of a receiver is of one of these shapes. *)
LEMMA ReceiveShape ==
  ASSUME SubTypes, Named, NEW g \in Receiver, Receive(g)
  PROVE  \E x : ReceiverStep(g, x)
<1>1. PICK m \in SubRecord : m = subMetrics
  BY DEF SubTypes
<1>2. m.MessagesReceived \in Nat /\ m.ValidationErrors \in Nat /\ m.uniquePeers \in SUBSET Peer
  BY DEF SubRecord
<1>3. 0 \in 0 .. MaxErrors /\ {} \in SUBSET Peer
  BY SubscriberAssumption
<1>4. CASE NextReturns(g)
  BY <1>4, TakesIs DEF ReceiverStep
<1>5. CASE NextFails(g)
  <2>1. PICK p : p = IF g = "run" THEN "failed" ELSE "idle"
    OBVIOUS
  <2>2. p \in SubPC /\ p \notin {"count", "peer", "invalid"}
    BY <2>1 DEF SubPC
  <2>3. Goto(g, p) /\ recv[g].pc = "next" /\ UNCHANGED <<subMetrics, observer, inbox, taken>>
    BY <1>5, <2>1 DEF NextFails
  <2>4. PICK x : Turns(g, x) /\ x.pc = p
    BY <2>2, <2>3, TurnsIs
  <2>5. ~HasMessage(recv[g]) /\ ~HasMessage(x) /\ subMetrics' \in SubRecord
    BY <1>1, <2>2, <2>3, <2>4 DEF HasMessage
  <2>6. Passes(g, x)
    BY <2>3, <2>4, <2>5 DEF Passes
  <2> QED
    BY <2>6 DEF ReceiverStep
<1>6. CASE CountInvalid(g)
  <2>1. PICK n \in Nat : n = m.ValidationErrors + 1
    BY <1>2
  <2>2. /\ Leave(g) /\ recv[g].pc = "invalid" /\ subMetrics' = [m EXCEPT !.ValidationErrors = n]
        /\ UNCHANGED <<observer, inbox, taken>>
    BY <1>1, <1>6, <2>1 DEF CountInvalid
  <2>3. "top" \in SubPC
    BY DEF SubPC
  <2>4. PICK x : Turns(g, x) /\ x.pc \in {"top", "idle"}
    BY <2>2, <2>3, TurnsIs
  <2>5. ~HasMessage(x)
    BY <2>4 DEF HasMessage
  <2>6. /\ subMetrics' \in SubRecord /\ subMetrics'.MessagesReceived = m.MessagesReceived
        /\ subMetrics'.ValidationErrors = n /\ subMetrics'.uniquePeers = m.uniquePeers
    BY <1>3, <2>2, SubWritten
  <2>7. CountsInvalid(g, x)
    BY <1>1, <2>1, <2>2, <2>4, <2>5, <2>6 DEF CountsInvalid
  <2> QED
    BY <2>7 DEF ReceiverStep
<1>7. CASE CountReceived(g)
  <2>1. PICK n \in Nat : n = m.MessagesReceived + 1
    BY <1>2
  <2>2. /\ Goto(g, "peer") /\ recv[g].pc = "count" /\ subMetrics' = [m EXCEPT !.MessagesReceived = n]
        /\ UNCHANGED <<observer, inbox, taken>>
    BY <1>1, <1>7, <2>1 DEF CountReceived
  <2>3. "peer" \in SubPC
    BY DEF SubPC
  <2>4. PICK x : Turns(g, x) /\ x.pc = "peer" /\ x.msg = recv[g].msg
    BY <2>2, <2>3, TurnsIs
  <2>5. /\ subMetrics' \in SubRecord /\ subMetrics'.MessagesReceived = n
        /\ subMetrics'.ValidationErrors = m.ValidationErrors /\ subMetrics'.uniquePeers = m.uniquePeers
    BY <1>3, <2>2, SubWritten
  <2>6. CountsReceived(g, x)
    BY <1>1, <2>1, <2>2, <2>4, <2>5 DEF CountsReceived
  <2> QED
    BY <2>6 DEF ReceiverStep
<1>8. CASE TrackPeer(g)
  <2>1. recv[g].pc = "peer" /\ recv[g].msg.from \in Peer
    BY <1>8 DEF TrackPeer, Named, InMessage
  <2>2. PICK P \in SUBSET Peer : P = m.uniquePeers \cup {recv[g].msg.from}
    BY <1>2, <2>1
  <2>3. /\ Goto(g, "handle") /\ subMetrics' = [m EXCEPT !.uniquePeers = P]
        /\ UNCHANGED <<observer, inbox, taken>>
    BY <1>1, <1>8, <2>2 DEF TrackPeer
  <2>4. "handle" \in SubPC
    BY DEF SubPC
  <2>5. PICK x : Turns(g, x) /\ x.pc = "handle"
    BY <2>3, <2>4, TurnsIs
  <2>6. ~HasMessage(x)
    BY <2>5 DEF HasMessage
  <2>7. /\ subMetrics' \in SubRecord /\ subMetrics'.MessagesReceived = m.MessagesReceived
        /\ subMetrics'.ValidationErrors = m.ValidationErrors /\ subMetrics'.uniquePeers = P
    BY <1>3, <2>3, SubWritten
  <2>8. TracksPeer(g, x)
    BY <1>1, <2>1, <2>2, <2>3, <2>5, <2>6, <2>7 DEF TracksPeer
  <2> QED
    BY <2>8 DEF ReceiverStep
<1>9. CASE Handle(g)
  <2>1. Leave(g) /\ recv[g].pc = "handle" /\ UNCHANGED <<subMetrics, observer, inbox, taken>>
    BY <1>9 DEF Handle
  <2>2. "top" \in SubPC
    BY DEF SubPC
  <2>3. PICK x : Turns(g, x) /\ x.pc \in {"top", "idle"}
    BY <2>1, <2>2, TurnsIs
  <2>4. ~HasMessage(recv[g]) /\ ~HasMessage(x) /\ subMetrics' \in SubRecord
    BY <1>1, <2>1, <2>3 DEF HasMessage
  <2>5. Passes(g, x)
    BY <2>1, <2>3, <2>4 DEF Passes
  <2> QED
    BY <2>5 DEF ReceiverStep
<1> QED
  BY <1>4, <1>5, <1>6, <1>7, <1>8, <1>9 DEF Receive

(* The loop of the subscriber: its head and its errors pass by. *)
LEMMA LoopShape ==
  ASSUME SubTypes, LoopHead \/ LoopError \/ \E g \in Handler : ProcessMessageWithHandler(g)
  PROVE  \E g, x : ReceiverStep(g, x)
<1>1. PICK m \in SubRecord : m = subMetrics
  BY DEF SubTypes
<1>2. "run" \in Receiver /\ Handler \subseteq Receiver
  BY DEF Receiver
<1>3. ASSUME NEW g \in Receiver, NEW p \in {"done", "next", "top"}, Goto(g, p), ~HasMessage(recv[g]),
             subMetrics' \in SubRecord,
             subMetrics'.MessagesReceived = m.MessagesReceived,
             subMetrics'.ValidationErrors = m.ValidationErrors,
             subMetrics'.uniquePeers = m.uniquePeers,
             UNCHANGED <<observer, inbox, taken>>
      PROVE  \E x : ReceiverStep(g, x)
  <2>1. p \in SubPC
    BY DEF SubPC
  <2>2. PICK x : Turns(g, x) /\ x.pc = p
    BY <1>3, <2>1, TurnsIs
  <2>3. ~HasMessage(x)
    BY <2>2 DEF HasMessage
  <2>4. Passes(g, x)
    BY <1>1, <1>3, <2>2, <2>3 DEF Passes
  <2> QED
    BY <2>4 DEF ReceiverStep
<1>4. CASE LoopHead
  <2>1. PICK p : p = IF ctxDone THEN "done" ELSE "next"
    OBVIOUS
  <2>2. /\ Goto("run", p) /\ recv["run"].pc = "top" /\ subMetrics' = m
        /\ UNCHANGED <<observer, inbox, taken>>
    BY <1>1, <1>4, <2>1 DEF LoopHead
  <2>3. ~HasMessage(recv["run"]) /\ p \in {"done", "next", "top"}
    BY <2>1, <2>2 DEF HasMessage
  <2> QED
    BY <1>2, <1>3, <2>2, <2>3
<1>5. CASE LoopError
  <2>1. recv["run"].pc = "failed" /\ UNCHANGED <<observer, inbox, taken>>
    BY <1>5 DEF LoopError
  <2>2. ~HasMessage(recv["run"])
    BY <2>1 DEF HasMessage
  <2>3. CASE ctxDone /\ Goto("run", "done") /\ UNCHANGED subMetrics
    <3>1. subMetrics' = m
      BY <1>1, <2>3
    <3> QED
      BY <1>2, <1>3, <2>1, <2>2, <2>3, <3>1
  <2>4. CASE /\ ~ctxDone /\ subMetrics.ReceiveErrors < MaxErrors
             /\ subMetrics' = [subMetrics EXCEPT !.ReceiveErrors = @ + 1]
             /\ Goto("run", "top")
    <3>1. m.ReceiveErrors \in 0 .. MaxErrors /\ m.ReceiveErrors < MaxErrors /\ MaxErrors \in Nat
      BY <1>1, <2>4, SubscriberAssumption DEF SubRecord
    <3>2. PICK e \in 0 .. MaxErrors : e = m.ReceiveErrors + 1
      BY <3>1
    <3>3. subMetrics' = [m EXCEPT !.ReceiveErrors = e]
      BY <1>1, <2>4, <3>2
    <3>4. /\ subMetrics' \in SubRecord /\ subMetrics'.MessagesReceived = m.MessagesReceived
          /\ subMetrics'.ValidationErrors = m.ValidationErrors /\ subMetrics'.uniquePeers = m.uniquePeers
      <4>1. 0 \in Nat /\ {} \in SUBSET Peer
        OBVIOUS
      <4> QED
        BY <3>3, <4>1, SubWritten
    <3> QED
      BY <1>2, <1>3, <2>1, <2>2, <2>4, <3>4
  <2> QED
    BY <1>5, <2>3, <2>4 DEF LoopError
<1>6. CASE \E g \in Handler : ProcessMessageWithHandler(g)
  <2>1. PICK g \in Handler : ProcessMessageWithHandler(g)
    BY <1>6
  <2>2. /\ Goto(g, "next") /\ recv[g].pc = "idle" /\ subMetrics' = m
        /\ UNCHANGED <<observer, inbox, taken>>
    BY <1>1, <2>1 DEF ProcessMessageWithHandler
  <2>3. ~HasMessage(recv[g])
    BY <2>2 DEF HasMessage
  <2> QED
    BY <1>2, <1>3, <2>2, <2>3
<1> QED
  BY <1>4, <1>5, <1>6

(* Every step of the subscriber is of one of these shapes. *)
LEMMA SubscriberShape ==
  ASSUME SubTypes, Named, SubscriberNext
  PROVE  (\E g, x : ReceiverStep(g, x)) \/ Observes \/ Fills
<1>1. CASE CancelContext \/ CancelSubscription
  BY <1>1 DEF CancelContext, CancelSubscription, Fills, SubTypes
<1>2. CASE LoopHead \/ LoopError \/ \E g \in Handler : ProcessMessageWithHandler(g)
  BY <1>2, LoopShape
<1>3. CASE \E g \in Receiver : Receive(g)
  BY <1>3, ReceiveShape
<1>4. CASE GetSubMetrics
  <2>1. DOMAIN ReadOrder = 1 .. 2
    BY DEF ReadOrder
  <2> QED
    BY <1>4, <2>1 DEF GetSubMetrics, Observes
<1>5. "run" \in Receiver /\ Handler \subseteq Receiver
  BY DEF Receiver
<1> QED
  BY <1>1, <1>2, <1>3, <1>4, <1>5 DEF SubscriberNext, Loop


(* A receiver that is turned has a message only if it took one. *)
LEMMA NamedKept ==
  ASSUME SubTypes, Named, NEW g, NEW x, ReceiverStep(g, x)
  PROVE  Named'
<1>1. Turns(g, x)
  BY DEF ReceiverStep, Passes, Takes, CountsInvalid, CountsReceived, TracksPeer
<1>2. g \in Receiver /\ recv'[g] = x /\ \A h \in Receiver \ {g} : recv'[h] = recv[h]
  BY <1>1 DEF Turns
<1>3. x.pc \in {"count", "peer"} => x.msg \in InMessage
  BY <1>2 DEF ReceiverStep, Passes, Takes, CountsInvalid, CountsReceived, TracksPeer, HasMessage, Named
<1> QED
  BY <1>2, <1>3 DEF Named

(* The types of the subscriber are invariant. *)
LEMMA SubTypesKept ==
  ASSUME SubTypes, NEW g, NEW x, ReceiverStep(g, x)
  PROVE  SubTypes'
<1>1. recv' \in [Receiver -> RecvRecord] /\ UNCHANGED observer
  BY DEF ReceiverStep, Passes, Takes, CountsInvalid, CountsReceived, TracksPeer, Turns
<1>2. subMetrics' \in SubRecord
  BY DEF ReceiverStep, Passes, Takes, CountsInvalid, CountsReceived, TracksPeer, SubTypes
<1>3. inbox' \in Seq(InMessage) /\ taken' \in TakenRecord
  BY DEF ReceiverStep, Passes, Takes, CountsInvalid, CountsReceived, TracksPeer, SubTypes
<1>4. IsFiniteSet(subMetrics'.uniquePeers)
  <2>1. PICK P : P = subMetrics.uniquePeers /\ IsFiniteSet(P)
    BY DEF SubTypes
  <2>2. subMetrics'.uniquePeers = P \/ subMetrics'.uniquePeers = P \cup {recv[g].msg.from}
    BY <2>1 DEF ReceiverStep, Passes, Takes, CountsInvalid, CountsReceived, TracksPeer
  <2>3. IsFiniteSet(P \cup {recv[g].msg.from})
    BY <2>1, FS_AddElement
  <2> QED
    BY <2>1, <2>2, <2>3
<1> QED
  BY <1>1, <1>2, <1>3, <1>4 DEF SubTypes

(* What is counted, and what waits to be counted, are numbers. *)
LEMMA ReceivedNumbers ==
  ASSUME SubTypes
  PROVE  /\ subMetrics.MessagesReceived \in Nat /\ subMetrics.ValidationErrors \in Nat
         /\ taken.good \in Nat /\ taken.bad \in Nat
         /\ Cardinality(subMetrics.uniquePeers) \in Nat
         /\ Cardinality(Waiting(recv, "count")) \in Nat /\ Cardinality(Waiting(recv, "peer")) \in Nat
         /\ Cardinality(Waiting(recv, "invalid")) \in Nat
<1>1. IsFiniteSet(subMetrics.uniquePeers)
  BY DEF SubTypes
<1>2. Cardinality(subMetrics.uniquePeers) \in Nat
  BY <1>1, FS_CardinalityType
<1>3. /\ Cardinality(Waiting(recv, "count")) \in Nat /\ Cardinality(Waiting(recv, "peer")) \in Nat
      /\ Cardinality(Waiting(recv, "invalid")) \in Nat
  BY WaitingFinite
<1> QED
  BY <1>2, <1>3 DEF SubTypes, SubRecord, TakenRecord

\* A receiver that has a sender to track.
HasSender(r) == r.pc \in {"count", "peer"}

(* One receiver takes a sender, gives one up, or keeps it. *)
LEMMA UntrackedMoves ==
  ASSUME NEW k, NEW l, NEW g \in Receiver, \A h \in Receiver \ {g} : l[h] = k[h], NEW P
  PROVE  /\ ~HasSender(k[g]) /\ ~HasSender(l[g]) => Untracked(l) = Untracked(k)
         /\ ~HasSender(k[g]) /\ HasSender(l[g]) => Untracked(l) = Untracked(k) \cup {l[g].msg.from}
         /\ HasSender(k[g]) /\ HasSender(l[g]) /\ l[g].msg = k[g].msg => Untracked(l) = Untracked(k)
         /\ HasSender(k[g]) /\ ~HasSender(l[g]) =>
              P \cup {k[g].msg.from} \cup Untracked(l) = P \cup Untracked(k)
<1>1. \A y : y \in Untracked(k) <=> \E h \in Receiver : HasSender(k[h]) /\ y = k[h].msg.from
  BY DEF Untracked, Waiting, HasSender
<1>2. \A y : y \in Untracked(l) <=> \E h \in Receiver : HasSender(l[h]) /\ y = l[h].msg.from
  BY DEF Untracked, Waiting, HasSender
<1>3. ASSUME ~HasSender(k[g]), ~HasSender(l[g]) PROVE Untracked(l) = Untracked(k)
  <2>1. \A h \in Receiver : HasSender(l[h]) <=> HasSender(k[h])
    BY <1>3
  <2>2. \A h \in Receiver : HasSender(k[h]) => l[h] = k[h]
    BY <1>3
  <2>3. \A y : y \in Untracked(l) <=> y \in Untracked(k)
    BY <1>1, <1>2, <2>1, <2>2
  <2> QED
    BY <2>3
<1>4. ASSUME ~HasSender(k[g]), HasSender(l[g]) PROVE Untracked(l) = Untracked(k) \cup {l[g].msg.from}
  BY <1>1, <1>2, <1>4
<1>5. ASSUME HasSender(k[g]), HasSender(l[g]), l[g].msg = k[g].msg PROVE Untracked(l) = Untracked(k)
  <2>1. \A h \in Receiver : HasSender(l[h]) <=> HasSender(k[h])
    BY <1>5
  <2>2. \A h \in Receiver : HasSender(k[h]) => l[h].msg = k[h].msg
    BY <1>5
  <2>3. \A y : y \in Untracked(l) <=> y \in Untracked(k)
    BY <1>1, <1>2, <2>1, <2>2
  <2> QED
    BY <2>3
<1>6. ASSUME HasSender(k[g]), ~HasSender(l[g])
      PROVE  P \cup {k[g].msg.from} \cup Untracked(l) = P \cup Untracked(k)
  BY <1>1, <1>2, <1>6
<1> QED
  BY <1>3, <1>4, <1>5, <1>6

(* Every step of a receiver keeps the counts and the peers. *)
LEMMA ReceivedKept ==
  ASSUME SubTypes, Received, NEW g, NEW x, ReceiverStep(g, x)
  PROVE  Received' /\ subMetrics.MessagesReceived <= subMetrics'.MessagesReceived
<1>1. Turns(g, x) /\ SubTypes'
  BY SubTypesKept DEF ReceiverStep, Passes, Takes, CountsInvalid, CountsReceived, TracksPeer
<1>2. g \in Receiver /\ recv'[g] = x /\ \A h \in Receiver \ {g} : recv'[h] = recv[h]
  BY <1>1 DEF Turns
<1>3. PICK r, k, l : r = recv[g] /\ k = recv /\ l = recv'
  OBVIOUS
<1>4. k[g] = r /\ l[g] = x /\ \A h \in Receiver \ {g} : l[h] = k[h]
  BY <1>2, <1>3
<1>5. PICK m \in Nat, v \in Nat, good \in Nat, bad \in Nat, u \in Nat, cnt \in Nat, pr \in Nat, inv \in Nat :
        /\ m = subMetrics.MessagesReceived /\ v = subMetrics.ValidationErrors
        /\ good = taken.good /\ bad = taken.bad /\ u = Cardinality(subMetrics.uniquePeers)
        /\ cnt = Cardinality(Waiting(k, "count")) /\ pr = Cardinality(Waiting(k, "peer"))
        /\ inv = Cardinality(Waiting(k, "invalid"))
  BY <1>3, ReceivedNumbers
<1>6. PICK cnt2 \in Nat, pr2 \in Nat, inv2 \in Nat :
        /\ cnt2 = Cardinality(Waiting(l, "count")) /\ pr2 = Cardinality(Waiting(l, "peer"))
        /\ inv2 = Cardinality(Waiting(l, "invalid"))
  BY WaitingFinite
<1>7. m + cnt = good /\ v + inv = bad /\ u + pr <= m
  BY <1>3, <1>5 DEF Received
<1>8. PICK P, Q : P = subMetrics.uniquePeers /\ Q = taken.peers
  OBVIOUS
<1>9. P \cup Untracked(k) = Q /\ IsFiniteSet(P) /\ u = Cardinality(P)
  BY <1>3, <1>5, <1>8 DEF Received, SubTypes
<1>0. ASSUME NEW p
      PROVE  /\ r.pc # p /\ x.pc # p => Cardinality(Waiting(l, p)) = Cardinality(Waiting(k, p))
             /\ r.pc # p /\ x.pc = p => Cardinality(Waiting(l, p)) = Cardinality(Waiting(k, p)) + 1
             /\ r.pc = p /\ x.pc # p => Cardinality(Waiting(k, p)) = Cardinality(Waiting(l, p)) + 1
  <2>1. g \in Receiver /\ \A h \in Receiver \ {g} : l[h] = k[h]
    BY <1>2, <1>4
  <2>2. OneMoves(k, l, g, p)
    BY <2>1, WaitingMoves
  <2> QED
    BY <1>4, <2>2 DEF OneMoves
<1>10. /\ r.pc # "count" /\ x.pc # "count" => cnt2 = cnt
       /\ r.pc # "count" /\ x.pc = "count" => cnt2 = cnt + 1
       /\ r.pc = "count" /\ x.pc # "count" => cnt = cnt2 + 1
  BY <1>0, <1>5, <1>6
<1>11. /\ r.pc # "peer" /\ x.pc # "peer" => pr2 = pr
       /\ r.pc # "peer" /\ x.pc = "peer" => pr2 = pr + 1
       /\ r.pc = "peer" /\ x.pc # "peer" => pr = pr2 + 1
  BY <1>0, <1>5, <1>6
<1>12. /\ r.pc # "invalid" /\ x.pc # "invalid" => inv2 = inv
       /\ r.pc # "invalid" /\ x.pc = "invalid" => inv2 = inv + 1
       /\ r.pc = "invalid" /\ x.pc # "invalid" => inv = inv2 + 1
  BY <1>0, <1>5, <1>6
<1>13. /\ ~HasSender(r) /\ ~HasSender(x) => Untracked(l) = Untracked(k)
       /\ ~HasSender(r) /\ HasSender(x) => Untracked(l) = Untracked(k) \cup {x.msg.from}
       /\ HasSender(r) /\ HasSender(x) /\ x.msg = r.msg => Untracked(l) = Untracked(k)
       /\ HasSender(r) /\ ~HasSender(x) => P \cup {r.msg.from} \cup Untracked(l) = P \cup Untracked(k)
  BY <1>2, <1>4, UntrackedMoves
<1>14. ASSUME subMetrics'.MessagesReceived + cnt2 = taken'.good,
              subMetrics'.ValidationErrors + inv2 = taken'.bad,
              subMetrics'.uniquePeers \cup Untracked(l) = taken'.peers,
              Cardinality(subMetrics'.uniquePeers) + pr2 <= subMetrics'.MessagesReceived
       PROVE  Received'
  BY <1>3, <1>6, <1>14 DEF Received
<1>15. CASE Passes(g, x)
  <2>1. /\ subMetrics'.MessagesReceived = m /\ subMetrics'.ValidationErrors = v
        /\ subMetrics'.uniquePeers = P /\ taken'.good = good /\ taken'.bad = bad /\ taken'.peers = Q
        /\ ~HasMessage(r) /\ ~HasMessage(x)
    BY <1>3, <1>5, <1>8, <1>15 DEF Passes
  <2>2. cnt2 = cnt /\ pr2 = pr /\ inv2 = inv
    BY <1>10, <1>11, <1>12, <2>1 DEF HasMessage
  <2>3. Untracked(l) = Untracked(k)
    BY <1>13, <2>1 DEF HasMessage, HasSender
  <2> QED
    BY <1>5, <1>7, <1>9, <1>14, <2>1, <2>2, <2>3
<1>16. CASE Takes(g, x)
  <2>1. /\ subMetrics'.MessagesReceived = m /\ subMetrics'.ValidationErrors = v
        /\ subMetrics'.uniquePeers = P /\ ~HasMessage(r)
    BY <1>3, <1>5, <1>8, <1>16 DEF Takes
  <2>2. CASE x.pc = "count"
    <3>1. taken'.good = good + 1 /\ taken'.bad = bad /\ taken'.peers = Q \cup {x.msg.from}
      BY <1>5, <1>8, <1>16, <2>2 DEF Takes
    <3>2. cnt2 = cnt + 1 /\ pr2 = pr /\ inv2 = inv
      BY <1>10, <1>11, <1>12, <2>1, <2>2 DEF HasMessage
    <3>3. Untracked(l) = Untracked(k) \cup {x.msg.from}
      BY <1>13, <2>1, <2>2 DEF HasMessage, HasSender
    <3>4. P \cup Untracked(l) = Q \cup {x.msg.from}
      BY <1>9, <3>3
    <3>5. m + cnt2 = good + 1
      BY <1>7, <3>2
    <3> QED
      BY <1>5, <1>7, <1>9, <1>14, <2>1, <3>1, <3>2, <3>4, <3>5
  <2>3. CASE x.pc = "invalid"
    <3>1. taken'.good = good /\ taken'.bad = bad + 1 /\ taken'.peers = Q
      BY <1>5, <1>8, <1>16, <2>3 DEF Takes
    <3>2. cnt2 = cnt /\ pr2 = pr /\ inv2 = inv + 1
      BY <1>10, <1>11, <1>12, <2>1, <2>3 DEF HasMessage
    <3>3. Untracked(l) = Untracked(k)
      BY <1>13, <2>1, <2>3 DEF HasMessage, HasSender
    <3>4. v + inv2 = bad + 1
      BY <1>7, <3>2
    <3> QED
      BY <1>5, <1>7, <1>9, <1>14, <2>1, <3>1, <3>2, <3>3, <3>4
  <2> QED
    BY <1>16, <2>2, <2>3 DEF Takes
<1>17. CASE CountsInvalid(g, x)
  <2>1. /\ subMetrics'.MessagesReceived = m /\ subMetrics'.ValidationErrors = v + 1
        /\ subMetrics'.uniquePeers = P /\ taken'.good = good /\ taken'.bad = bad /\ taken'.peers = Q
        /\ r.pc = "invalid" /\ ~HasMessage(x)
    BY <1>3, <1>5, <1>8, <1>17 DEF CountsInvalid
  <2>2. cnt2 = cnt /\ pr2 = pr /\ inv = inv2 + 1
    BY <1>10, <1>11, <1>12, <2>1 DEF HasMessage
  <2>3. Untracked(l) = Untracked(k)
    BY <1>13, <2>1 DEF HasMessage, HasSender
  <2>4. v + 1 + inv2 = bad
    BY <1>7, <2>2
  <2> QED
    BY <1>5, <1>7, <1>9, <1>14, <2>1, <2>2, <2>3, <2>4
<1>18. CASE CountsReceived(g, x)
  <2>1. /\ subMetrics'.MessagesReceived = m + 1 /\ subMetrics'.ValidationErrors = v
        /\ subMetrics'.uniquePeers = P /\ taken'.good = good /\ taken'.bad = bad /\ taken'.peers = Q
        /\ r.pc = "count" /\ x.pc = "peer" /\ x.msg = r.msg
    BY <1>3, <1>5, <1>8, <1>18 DEF CountsReceived
  <2>2. cnt = cnt2 + 1 /\ pr2 = pr + 1 /\ inv2 = inv
    BY <1>10, <1>11, <1>12, <2>1
  <2>3. Untracked(l) = Untracked(k)
    BY <1>13, <2>1 DEF HasSender
  <2>4. m + 1 + cnt2 = good /\ u + pr2 <= m + 1
    BY <1>7, <2>2
  <2>5. m <= m + 1
    OBVIOUS
  <2> QED
    BY <1>5, <1>7, <1>9, <1>14, <2>1, <2>2, <2>3, <2>4, <2>5
<1>19. CASE TracksPeer(g, x)
  <2>0. PICK y : y = r.msg.from
    OBVIOUS
  <2>1. /\ subMetrics'.MessagesReceived = m /\ subMetrics'.ValidationErrors = v
        /\ subMetrics'.uniquePeers = P \cup {y} /\ taken'.good = good /\ taken'.bad = bad
        /\ taken'.peers = Q /\ r.pc = "peer" /\ ~HasMessage(x)
    BY <1>3, <1>5, <1>8, <1>19, <2>0 DEF TracksPeer
  <2>2. cnt2 = cnt /\ pr = pr2 + 1 /\ inv2 = inv
    BY <1>10, <1>11, <1>12, <2>1 DEF HasMessage
  <2>3. P \cup {y} \cup Untracked(l) = Q
    BY <1>9, <1>13, <2>0, <2>1 DEF HasMessage, HasSender
  <2>4. PICK w \in Nat : w = Cardinality(P \cup {y}) /\ w <= u + 1
    <3>1. Cardinality(P \cup {y}) = IF y \in P THEN Cardinality(P) ELSE Cardinality(P) + 1
      BY <1>9, FS_AddElement
    <3> QED
      BY <1>9, <3>1
  <2>5. w + pr2 <= m
    BY <1>7, <2>2, <2>4
  <2> QED
    BY <1>5, <1>7, <1>14, <2>1, <2>2, <2>3, <2>4, <2>5
<1> QED
  BY <1>15, <1>16, <1>17, <1>18, <1>19 DEF ReceiverStep

(* Every step of a receiver keeps what an observer may conclude. *)
LEMMA ObservingKept ==
  ASSUME SubTypes, Received, Observing, NEW g, NEW x, ReceiverStep(g, x)
  PROVE  Observing'
<1>1. UNCHANGED observer /\ subMetrics.MessagesReceived <= subMetrics'.MessagesReceived
  BY ReceivedKept DEF ReceiverStep, Passes, Takes, CountsInvalid, CountsReceived, TracksPeer
<1>2. subMetrics.MessagesReceived \in Nat /\ subMetrics'.MessagesReceived \in Nat
  BY SubTypesKept, ReceivedNumbers DEF SubTypes, SubRecord
<1>3. PICK n \in Nat : n = Cardinality(observer.got.uniquePeers)
  BY FS_CardinalityType DEF SubTypes
<1>4. n <= subMetrics.MessagesReceived => n <= subMetrics'.MessagesReceived
  BY <1>1, <1>2
<1> QED
  BY <1>1, <1>3, <1>4 DEF Observing


(* A read of GetMetrics: the peers come first, then the messages. *)
LEMMA ObservesOK ==
  ASSUME SubTypes, Received, Observing, Observes
  PROVE  SubTypes' /\ Observing'
<1>1. PICK p \in 1 .. 2, a \in SubRecord, m \in SubRecord :
         p = observer.pc /\ a = observer.got /\ m = subMetrics
  BY DEF SubTypes, Observes
<1>2. PICK w : w = [a EXCEPT ![ReadOrder[p]] = m[ReadOrder[p]]]
  OBVIOUS
<1>3. observer' = [pc |-> p + 1, got |-> w] /\ UNCHANGED <<recv, subMetrics, inbox, taken>>
  BY <1>1, <1>2 DEF Observes
<1>4. PICK n \in Nat, u \in Nat, b \in Nat :
         /\ n = m.MessagesReceived /\ u = Cardinality(m.uniquePeers) /\ b = Cardinality(a.uniquePeers)
         /\ IsFiniteSet(m.uniquePeers) /\ IsFiniteSet(a.uniquePeers)
  BY <1>1, FS_CardinalityType DEF SubTypes, SubRecord
<1>5. u <= n
  <2>1. PICK q \in Nat : q = Cardinality(Waiting(recv, "peer"))
    BY WaitingFinite
  <2>2. u + q <= n
    BY <1>1, <1>4, <2>1 DEF Received
  <2> QED
    BY <2>2
<1>6. 0 \in 0 .. MaxErrors /\ m.uniquePeers \in SUBSET Peer /\ {} \in SUBSET Peer
  BY SubscriberAssumption DEF SubRecord
<1>7. ASSUME w \in SubRecord, IsFiniteSet(w.uniquePeers)
      PROVE  SubTypes' /\ observer'.pc = p + 1 /\ observer'.got = w
  <2>1. observer' \in [pc : 1 .. 3, got : SubRecord] /\ observer'.pc = p + 1 /\ observer'.got = w
    BY <1>3, <1>7
  <2> QED
    BY <1>3, <1>7, <2>1 DEF SubTypes
<1>8. CASE p = 1
  <2>1. w = [a EXCEPT !.uniquePeers = m.uniquePeers]
    BY <1>2, <1>8 DEF ReadOrder
  <2>2. w \in SubRecord /\ w.uniquePeers = m.uniquePeers
    BY <1>6, <2>1, SubWritten
  <2>3. SubTypes' /\ observer'.pc = 2 /\ observer'.got = w
    BY <1>4, <1>7, <1>8, <2>2
  <2> QED
    BY <1>1, <1>3, <1>4, <1>5, <2>2, <2>3 DEF Observing
<1>9. CASE p = 2
  <2>1. w = [a EXCEPT !.MessagesReceived = n]
    BY <1>2, <1>4, <1>9 DEF ReadOrder
  <2>2. w \in SubRecord /\ w.uniquePeers = a.uniquePeers /\ w.MessagesReceived = n
    BY <1>6, <2>1, SubWritten
  <2>3. SubTypes' /\ observer'.pc = 3 /\ observer'.got = w
    BY <1>4, <1>7, <1>9, <2>2
  <2>4. b <= n
    BY <1>1, <1>4, <1>9 DEF Observing
  <2> QED
    BY <1>1, <1>3, <1>4, <2>2, <2>3, <2>4 DEF Observing
<1> QED
  BY <1>8, <1>9

-----------------------------------------------------------------------------
(* The invariant of the subscriber *)

SubInv == SubTypes /\ Named /\ Received /\ Observing

(* A new subscriber satisfies the invariant (newSubscriber). *)
LEMMA SubInvInit ==
  ASSUME SubscriberInit
  PROVE  SubInv
<1>1. PICK m : m = NoSubMetrics
  OBVIOUS
<1>2. /\ m \in SubRecord /\ m.MessagesReceived = 0 /\ m.ValidationErrors = 0 /\ m.uniquePeers = {}
  BY <1>1, SubscriberAssumption DEF NoSubMetrics, SubRecord
<1>3. /\ subMetrics = m /\ observer = [pc |-> 1, got |-> m] /\ inbox = <<>>
      /\ taken = [good |-> 0, bad |-> 0, peers |-> {}]
  BY <1>1 DEF SubscriberInit
<1>4. ASSUME NEW g \in Receiver
      PROVE  recv[g].pc \in {"top", "idle"} /\ recv[g] \in RecvRecord
  <2>1. PICK x : x = [pc |-> IF g = "run" THEN "top" ELSE "idle", msg |-> NoMsg]
    OBVIOUS
  <2>2. x \in RecvRecord /\ x.pc \in {"top", "idle"}
    BY <2>1 DEF RecvRecord, SubPC
  <2> QED
    BY <2>1, <2>2 DEF SubscriberInit
<1>5. recv \in [Receiver -> RecvRecord]
  <2>1. recv = [g \in Receiver |-> recv[g]]
    BY DEF SubscriberInit
  <2> QED
    BY <1>4, <2>1
<1>6. IsFiniteSet({}) /\ Cardinality({}) = 0
  BY FS_EmptySet
<1>7. SubTypes
  <2>1. observer \in [pc : 1 .. 3, got : SubRecord] /\ observer.got = m
    BY <1>2, <1>3
  <2>2. taken \in TakenRecord
    BY <1>3 DEF TakenRecord
  <2>3. inbox \in Seq(InMessage)
    BY <1>3
  <2> QED
    BY <1>2, <1>3, <1>5, <1>6, <2>1, <2>2, <2>3 DEF SubTypes
<1>8. Waiting(recv, "count") = {} /\ Waiting(recv, "peer") = {} /\ Waiting(recv, "invalid") = {}
  BY <1>4 DEF Waiting
<1>9. Untracked(recv) = {}
  BY <1>8 DEF Untracked
<1>10. Received
  <2>1. /\ subMetrics.MessagesReceived = 0 /\ subMetrics.ValidationErrors = 0 /\ subMetrics.uniquePeers = {}
        /\ taken.good = 0 /\ taken.bad = 0 /\ taken.peers = {}
    BY <1>2, <1>3
  <2>2. /\ Cardinality(Waiting(recv, "count")) = 0 /\ Cardinality(Waiting(recv, "peer")) = 0
        /\ Cardinality(Waiting(recv, "invalid")) = 0 /\ Cardinality(subMetrics.uniquePeers) = 0
    BY <1>6, <1>8, <2>1
  <2>3. subMetrics.uniquePeers \cup Untracked(recv) = taken.peers
    BY <1>9, <2>1
  <2> QED
    BY <2>1, <2>2, <2>3 DEF Received
<1>11. Observing
  BY <1>3 DEF Observing
<1>12. Named
  BY <1>4 DEF Named
<1> QED
  BY <1>7, <1>10, <1>11, <1>12 DEF SubInv

(* A message arrives in the channel, or nothing happens. *)
LEMMA SubInvFills ==
  ASSUME SubInv, Fills
  PROVE  SubInv'
<1>1. UNCHANGED <<recv, subMetrics, observer, taken>> /\ inbox' \in Seq(InMessage)
  BY DEF Fills
<1>2. SubTypes' /\ Named'
  BY <1>1 DEF SubInv, SubTypes, Named
<1>3. Received' /\ Observing'
  BY <1>1 DEF SubInv, Received, Observing
<1> QED
  BY <1>2, <1>3 DEF SubInv

(* Every step of the subscriber keeps its invariant. *)
LEMMA SubInvNext ==
  ASSUME SubInv, SubscriberNext
  PROVE  SubInv'
<1>1. SubTypes /\ Named /\ Received /\ Observing
  BY DEF SubInv
<1>2. (\E g, x : ReceiverStep(g, x)) \/ Observes \/ Fills
  BY <1>1, SubscriberShape
<1>3. CASE \E g, x : ReceiverStep(g, x)
  <2>1. PICK g, x : ReceiverStep(g, x)
    BY <1>3
  <2>2. SubTypes' /\ Named' /\ Received' /\ Observing'
    BY <1>1, <2>1, SubTypesKept, NamedKept, ReceivedKept, ObservingKept
  <2> QED
    BY <2>2 DEF SubInv
<1>4. CASE Observes
  <2>1. UNCHANGED <<recv, subMetrics, taken>>
    BY <1>4 DEF Observes
  <2>2. SubTypes' /\ Observing'
    BY <1>1, <1>4, ObservesOK
  <2>3. Received' /\ Named'
    BY <1>1, <2>1 DEF Received, Named
  <2> QED
    BY <2>2, <2>3 DEF SubInv
<1>5. CASE Fills
  BY <1>5, SubInvFills
<1> QED
  BY <1>2, <1>3, <1>4, <1>5

(* Receivers are at a place of their loop or call. *)
LEMMA SubTypeOK ==
  ASSUME SubInv
  PROVE  SubscriberTypeOK
<1>1. SubTypes
  BY DEF SubInv
<1>2. \A g \in Receiver : recv[g].pc \in SubPC
  BY <1>1 DEF SubTypes, RecvRecord
<1>3. subMetrics.ReceiveErrors \in 0 .. MaxErrors
  BY <1>1 DEF SubTypes, SubRecord
<1>4. observer.pc \in 1 .. 3
  BY <1>1 DEF SubTypes
<1> QED
  BY <1>2, <1>3, <1>4 DEF SubscriberTypeOK, SubPC

(* Every message is counted once, and its sender is on record. *)
LEMMA SubReceivedExact ==
  ASSUME SubInv
  PROVE  ReceivedExact
<1>1. Received
  BY DEF SubInv
<1>2. \A p : At(p) = Waiting(recv, p)
  BY DEF At, Waiting
<1>3. At("count") = {} /\ At("peer") = {} => Untracked(recv) = {}
  BY <1>2 DEF Untracked
<1>4. /\ subMetrics.uniquePeers \subseteq taken.peers
      /\ At("count") = {} /\ At("peer") = {} => subMetrics.uniquePeers = taken.peers
  BY <1>1, <1>3 DEF Received
<1> QED
  BY <1>1, <1>2, <1>4 DEF Received, ReceivedExact

(* A snapshot lists no more peers than it counts messages. *)
LEMMA SubPeersHaveMessages ==
  ASSUME SubInv
  PROVE  PeersHaveMessages
BY DEF SubInv, Observing, PeersHaveMessages

-----------------------------------------------------------------------------
(* The two on one topic *)

PubSubInv == PubInv /\ SubInv

(* A message that arrives names its sender and has a length. *)
LEMMA ArrivesIs ==
  ASSUME SubInv, NEW p \in Peer, NEW len \in Nat, Arrives(p, len)
  PROVE  Fills
<1>1. PICK m : m = [from |-> p, len |-> len]
  OBVIOUS
<1>2. m \in InMessage
  BY <1>1 DEF InMessage
<1>3. inbox \in Seq(InMessage) /\ inbox' = Append(inbox, m) /\ UNCHANGED <<recv, subMetrics, observer, taken>>
  BY <1>1 DEF Arrives, SubInv, SubTypes
<1>4. inbox' \in Seq(InMessage)
  BY <1>2, <1>3, AppendProperties
<1> QED
  BY <1>3, <1>4 DEF Fills

(* A subscriber that stays as it is. *)
LEMMA SubUnchanged ==
  ASSUME SubInv, UNCHANGED subVars
  PROVE  Fills
BY DEF SubInv, SubTypes, subVars, Fills

(* What the topic hands over from our own publisher is what it took last. *)
LEMMA DeliverIs ==
  ASSUME SubInv, PubInv, PubInv', PublisherNext, Deliver
  PROVE  Fills
<1>1. CASE sent' # sent /\ Arrives(Self, sent'[Len(sent')].len)
  <2>1. PICK s : s = sent'
    OBVIOUS
  <2>2. s \in Seq(SentRecord)
    BY <2>1 DEF PubInv, PubTypes
  <2>3. Len(s) \in Nat /\ DOMAIN s = 1 .. Len(s)
    BY <2>2, LenProperties
  <2>4. s # <<>>
    <3>1. Len(sent) <= Len(s) /\ Len(sent) \in Nat
      <4>1. (\E g, d : CallStep(g, d)) \/ Reads \/ Rests
        <5>1. CallsOK /\ clock \in Nat /\ Len(calls) \in Nat
          BY LenProperties DEF PubInv, PubTypes
        <5> QED
          BY <5>1, PublisherShape
      <4>2. PICK g, d : CallStep(g, d)
        BY <1>1, <4>1 DEF Reads, Rests
      <4>3. PubTypes /\ Linked /\ sent \in Seq(SentRecord)
        BY DEF PubInv, PubTypes
      <4>4. Sends(g, d)
        BY <1>1, <4>2 DEF CallStep, Begins, Stops, Errs, GivesUp, Tries, CountsMessages,
                          CountsBytes, Stamps, StoresTime, Returns
      <4>5. PICK x : s = Append(sent, x)
        BY <2>1, <4>4 DEF Sends
      <4>6. Len(sent) \in Nat /\ Len(s) = Len(sent) + 1
        BY <4>3, <4>5, LenProperties
      <4> QED
        BY <4>6
    <3>2. s = <<>> => Len(s) = 0
      OBVIOUS
    <3>3. sent \in Seq(SentRecord)
      BY DEF PubInv, PubTypes
    <3>4. Len(sent) = 0 => sent = <<>>
      BY <3>3, EmptySeq
    <3> QED
      BY <1>1, <2>1, <3>1, <3>2, <3>4
  <2>5. Len(s) \in 1 .. Len(s)
    BY <2>2, <2>3, <2>4, EmptySeq
  <2>6. s[Len(s)].len \in Nat
    <3>1. PICK n : n = Len(s) /\ n \in 1 .. Len(s)
      BY <2>5
    <3>2. s[n] \in SentRecord
      BY <2>2, <3>1, ElementOfSeq
    <3>3. s[n].len \in Nat
      BY <3>2 DEF SentRecord
    <3> QED
      BY <3>1, <3>3
  <2> QED
    BY <1>1, <2>1, <2>6, PeerAssumption, ArrivesIs
<1>2. CASE UNCHANGED subVars
  BY <1>2, SubUnchanged
<1> QED
  BY <1>1, <1>2 DEF Deliver

(* A message of another program has a length. *)
LEMMA ForeignIs ==
  ASSUME SubInv, Foreign
  PROVE  Fills
<1>1. PICK p \in Peer, len \in {0, 1, MaxLength + 1} : Arrives(p, len)
  BY DEF Foreign
<1>2. len \in Nat
  BY SubscriberAssumption
<1> QED
  BY <1>1, <1>2, ArrivesIs

(* A publisher that stays as it is. *)
LEMMA PubUnchanged ==
  ASSUME PubInv, UNCHANGED pubVars
  PROVE  PubInv'
<1>1. Rests
  BY DEF pubVars, Rests
<1> QED
  BY <1>1, PubInvRests

(* Publisher and subscriber, and the topic between them, always satisfy    *)
(* their invariants: the inductive invariant of the system.                *)
THEOREM PubSubInvariant == Spec => []PubSubInv
<1>1. Init => PubSubInv
  BY PubInvInit, SubInvInit DEF Init, PubSubInv
<1>2. PubSubInv /\ [Next]_vars => PubSubInv'
  <2> SUFFICES ASSUME PubSubInv, [Next]_vars PROVE PubSubInv'
    OBVIOUS
  <2>1. PubInv /\ SubInv
    BY DEF PubSubInv
  <2>2. CASE PublisherNext /\ Deliver
    <3>1. PubInv'
      BY <2>1, <2>2, PubInvNext
    <3>2. Fills
      BY <2>1, <2>2, <3>1, DeliverIs
    <3>3. SubInv'
      BY <2>1, <3>2, SubInvFills
    <3> QED
      BY <3>1, <3>3 DEF PubSubInv
  <2>3. CASE Foreign
    <3>1. PubInv'
      BY <2>1, <2>3, PubUnchanged DEF Foreign
    <3>2. SubInv'
      BY <2>1, <2>3, ForeignIs, SubInvFills
    <3> QED
      BY <3>1, <3>2 DEF PubSubInv
  <2>4. CASE SubscriberNext /\ UNCHANGED pubVars
    BY <2>1, <2>4, SubInvNext, PubUnchanged DEF PubSubInv
  <2>5. CASE UNCHANGED vars
    <3>1. UNCHANGED pubVars /\ UNCHANGED subVars
      BY <2>5 DEF vars
    <3> QED
      BY <2>1, <3>1, PubUnchanged, SubUnchanged, SubInvFills DEF PubSubInv
  <2> QED
    BY <2>2, <2>3, <2>4, <2>5 DEF Next
<1> QED
  BY <1>1, <1>2, PTL DEF Spec

(* Every call of the publisher and every receiver of the subscriber is at  *)
(* a place of its method, and the clock is ahead of every time that was    *)
(* taken from it (Publisher.go, Subscriber.go).                            *)
THEOREM TypesCorrect == Spec => []TypeOK
<1>1. PubSubInv => TypeOK
  BY PubTypeOK, SubTypeOK DEF PubSubInv, TypeOK
<1> QED
  BY <1>1, PubSubInvariant, PTL

(* The publisher's metrics never run ahead of what was published and catch *)
(* up with it when no call is under way; every message handed over is then *)
(* counted once (publishMessage, PublishCustomMessage, PublishBatch,       *)
(* PublishWithRetry).                                                      *)
THEOREM MetricsAreExact == Spec => []MetricsExact
<1>1. PubSubInv => MetricsExact
  BY PubMetricsExact DEF PubSubInv
<1> QED
  BY <1>1, PubSubInvariant, PTL

(* What a caller is told is true, and the loop's messages bear the numbers *)
(* 0, 1, 2, ... (PublishWithRetry, PublishBatch, run).                     *)
THEOREM PublishedExactlyOnce == Spec => []ExactlyOnce
<1>1. PubSubInv => ExactlyOnce
  BY PubExactlyOnce DEF PubSubInv
<1> QED
  BY <1>1, PubSubInvariant, PTL

(* A snapshot of the publisher's metrics counts in full every call that    *)
(* had looked at the clock by the lastPublishTime it shows, and nothing    *)
(* that was not published.  Of the calls under way it may miss messages    *)
(* (GetMetrics of the publisher).                                          *)
THEOREM SnapshotsCountStamped == Spec => []SnapshotCountsStamped
<1>1. PubSubInv => SnapshotCountsStamped
  BY PubSnapshot DEF PubSubInv
<1> QED
  BY <1>1, PubSubInvariant, PTL

(* Every message that Next returned is counted once by the subscriber, and *)
(* its peers are those of the messages it received (receiveMessage,        *)
(* validateMessage, ProcessMessageWithHandler).                            *)
THEOREM ReceivedIsExact == Spec => []ReceivedExact
<1>1. PubSubInv => ReceivedExact
  BY SubReceivedExact DEF PubSubInv
<1> QED
  BY <1>1, PubSubInvariant, PTL

(* A snapshot of the subscriber's metrics never lists more peers than it   *)
(* counts messages (GetMetrics of the subscriber).                         *)
THEOREM PeersAreBacked == Spec => []PeersHaveMessages
<1>1. PubSubInv => PeersHaveMessages
  BY SubPeersHaveMessages DEF PubSubInv
<1> QED
  BY <1>1, PubSubInvariant, PTL
=============================================================================

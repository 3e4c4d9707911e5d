------------------------- MODULE WriteBehindProofs --------------------------
(***************************************************************************)
(* Theorems about WriteBehind for every queue capacity, every choice of    *)
(* batch sizes, any number of records and of starts, and appends that may  *)
(* or may not throw.                                                       *)
(*                                                                         *)
(* Pipeline is five sequences end to end.  The inductive invariant speaks  *)
(* of the five one by one: each increases, all of one comes before all of  *)
(* the next (OrderInv), and together with the dropped records they are     *)
(* what was enqueued (CountInv).  ControlInv says who may have a batch in  *)
(* hand: never the worker and the caller of stop() at once.                *)
(***************************************************************************)
EXTENDS WriteBehind, SequenceTheorems, TLAPS

\* A thread has a batch only while it appends; stop() appends when the worker is gone, and a
\* worker that is gone has left no batch.  A set that holds the store lock has a record.
ControlInv ==
    /\ running_ => owner = "idle" /\ worker \notin {"none", "exited"}
    /\ ~running_ /\ owner = "idle" => worker = "none"
    /\ owner = "append" => worker = "none"
    /\ worker # "append" => batch["worker"] = <<>>
    /\ owner # "append" => batch["owner"] = <<>>
    /\ worker = "none" => current_batch_ = <<>>
    /\ setter = "locked" => enqueued < MaxRecords

Increasing(s) == \A i, j \in DOMAIN s : i < j => s[i] < s[j]
Before(s, t) == \A x \in ToSet(s), y \in ToSet(t) : x < y

OrderInv ==
    /\ Increasing(wal) /\ Increasing(current_batch_) /\ Increasing(dirty_queue_)
    /\ \A f \in Flushers : Increasing(batch[f])
    /\ \A f \in Flushers :
        /\ Before(wal, batch[f])
        /\ Before(batch[f], current_batch_)
        /\ Before(batch[f], dirty_queue_)
    /\ Before(batch["worker"], batch["owner"])
    /\ Before(wal, current_batch_) /\ Before(wal, dirty_queue_)
    /\ Before(current_batch_, dirty_queue_)

\* The records in the pipeline.
Under == ToSet(wal) \cup ToSet(batch["worker"]) \cup ToSet(batch["owner"])
           \cup ToSet(current_batch_) \cup ToSet(dirty_queue_)

CountInv ==
    /\ Under \cup dropped = 1..enqueued
    /\ Under \cap dropped = {}

IInv == TypeOK /\ ControlInv /\ OrderInv /\ CountInv

-----------------------------------------------------------------------------
(* Increasing sequences. *)

\* The elements of a sequence.
LEMMA SetOf ==
    ASSUME NEW S, NEW s \in Seq(S)
    PROVE  /\ Len(s) \in Nat
           /\ DOMAIN s = 1..Len(s)
           /\ \A i \in 1..Len(s) : s[i] \in S /\ s[i] \in ToSet(s)
           /\ \A x \in ToSet(s) : \E i \in 1..Len(s) : x = s[i]
           /\ ToSet(s) \subseteq S
  BY LenProperties, ElementOfSeq DEF ToSet

\* Nothing is in the empty sequence.
LEMMA EmptyFacts ==
    /\ ToSet(<<>>) = {} /\ Increasing(<<>>)
    /\ \A s : Before(<<>>, s) /\ Before(s, <<>>)
  BY DEF ToSet, Increasing, Before

\* A sequence before another one shares nothing with it.
LEMMA Disjoint ==
    ASSUME NEW s, NEW t, ToSet(s) \subseteq Int, ToSet(t) \subseteq Int, Before(s, t)
    PROVE  ToSet(s) \cap ToSet(t) = {}
  <1> SUFFICES ASSUME NEW y \in ToSet(s), y \in ToSet(t) PROVE FALSE
    OBVIOUS
  <1>1. y \in Int /\ y < y
    BY DEF Before
  <1> QED
    BY <1>1

\* What an append adds.
LEMMA AppendFacts ==
    ASSUME NEW s \in Seq(Records), NEW x \in Records
    PROVE  /\ Append(s, x) \in Seq(Records)
           /\ Len(Append(s, x)) = Len(s) + 1
           /\ ToSet(Append(s, x)) = ToSet(s) \cup {x}
           /\ Increasing(s) /\ (\A y \in ToSet(s) : y < x) => Increasing(Append(s, x))
  <1>1. /\ Append(s, x) \in Seq(Records)
        /\ Len(s) \in Nat
        /\ Len(Append(s, x)) = Len(s) + 1
        /\ DOMAIN s = 1..Len(s)
        /\ DOMAIN Append(s, x) = 1..(Len(s) + 1)
        /\ \A i \in 1..Len(s) : Append(s, x)[i] = s[i]
        /\ Append(s, x)[Len(s) + 1] = x
    BY AppendProperties, LenProperties
  <1>2. ToSet(Append(s, x)) = ToSet(s) \cup {x}
    BY <1>1 DEF ToSet
  <1>3. ASSUME Increasing(s), \A y \in ToSet(s) : y < x
        PROVE  Increasing(Append(s, x))
    <2> SUFFICES ASSUME NEW i \in 1..(Len(s) + 1), NEW j \in 1..(Len(s) + 1), i < j
                 PROVE  Append(s, x)[i] < Append(s, x)[j]
      BY <1>1 DEF Increasing
    <2>1. i \in 1..Len(s) /\ Append(s, x)[i] = s[i] /\ s[i] \in ToSet(s)
      BY <1>1 DEF ToSet
    <2>2. CASE j \in 1..Len(s)
      BY <1>1, <1>3, <2>1, <2>2 DEF Increasing
    <2>3. CASE j = Len(s) + 1
      BY <1>1, <1>3, <2>1, <2>3
    <2> QED
      BY <1>1, <2>2, <2>3
  <1> QED
    BY <1>1, <1>2, <1>3

\* The head of an increasing sequence comes before the rest.
LEMMA HeadFacts ==
    ASSUME NEW s \in Seq(Records), s # <<>>, Increasing(s)
    PROVE  /\ Head(s) \in Records
           /\ Tail(s) \in Seq(Records)
           /\ Len(s) \in Nat /\ Len(Tail(s)) = Len(s) - 1
           /\ Increasing(Tail(s))
           /\ ToSet(s) = {Head(s)} \cup ToSet(Tail(s))
           /\ \A y \in ToSet(Tail(s)) : Head(s) < y
           /\ Head(s) \notin ToSet(Tail(s))
  <1>1. /\ Head(s) \in Records /\ Tail(s) \in Seq(Records)
        /\ Len(s) \in Nat \ {0} /\ Len(Tail(s)) = Len(s) - 1
        /\ DOMAIN s = 1..Len(s) /\ DOMAIN Tail(s) = 1..(Len(s) - 1)
        /\ \A i \in 1..(Len(s) - 1) : Tail(s)[i] = s[i + 1]
        /\ Head(s) = s[1]
    BY HeadTailProperties, LenProperties, EmptySeq
  <1>2. Increasing(Tail(s))
    BY <1>1 DEF Increasing
  <1>3. ToSet(s) = {Head(s)} \cup ToSet(Tail(s))
    <2>1. ASSUME NEW i \in 1..Len(s) PROVE s[i] \in {Head(s)} \cup ToSet(Tail(s))
      <3>1. CASE i = 1
        BY <3>1, <1>1
      <3>2. CASE i # 1
        <4>1. i - 1 \in 1..(Len(s) - 1) /\ Tail(s)[i - 1] = s[i]
          BY <3>2, <1>1
        <4> QED
          BY <4>1, <1>1 DEF ToSet
      <3> QED
        BY <3>1, <3>2
    <2>2. ASSUME NEW i \in 1..(Len(s) - 1) PROVE Tail(s)[i] \in ToSet(s)
      BY <2>2, <1>1 DEF ToSet
    <2>3. Head(s) \in ToSet(s)
      BY <1>1 DEF ToSet
    <2> QED
      BY <1>1, <2>1, <2>2, <2>3 DEF ToSet
  <1>4. ASSUME NEW y \in ToSet(Tail(s)) PROVE Head(s) < y
    <2>1. PICK i \in 1..(Len(s) - 1) : y = s[i + 1]
      BY <1>1 DEF ToSet
    <2> QED
      BY <1>1, <2>1 DEF Increasing
  <1>5. Head(s) \notin ToSet(Tail(s))
    BY <1>1, <1>4 DEF Records
  <1> QED
    BY <1>1, <1>2, <1>3, <1>4, <1>5

\* Two increasing sequences, one before the other, are one increasing sequence.
LEMMA ConcatFacts ==
    ASSUME NEW s \in Seq(Records), NEW t \in Seq(Records)
    PROVE  /\ s \o t \in Seq(Records)
           /\ ToSet(s \o t) = ToSet(s) \cup ToSet(t)
           /\ Increasing(s) /\ Increasing(t) /\ Before(s, t) => Increasing(s \o t)
  <1> DEFINE n == Len(s) + Len(t)
  <1>1. /\ s \o t \in Seq(Records)
        /\ Len(s) \in Nat /\ Len(t) \in Nat
        /\ DOMAIN s = 1..Len(s) /\ DOMAIN t = 1..Len(t) /\ DOMAIN (s \o t) = 1..n
        /\ \A i \in 1..n : (s \o t)[i] = IF i <= Len(s) THEN s[i] ELSE t[i - Len(s)]
    BY ConcatProperties, LenProperties
  <1>2. ToSet(s \o t) = ToSet(s) \cup ToSet(t)
    <2>1. ASSUME NEW i \in 1..n PROVE (s \o t)[i] \in ToSet(s) \cup ToSet(t)
      BY <1>1 DEF ToSet
    <2>2. ASSUME NEW i \in 1..Len(s) PROVE s[i] \in ToSet(s \o t)
      BY <1>1 DEF ToSet
    <2>3. ASSUME NEW i \in 1..Len(t) PROVE t[i] \in ToSet(s \o t)
      <3>1. Len(s) + i \in 1..n /\ (s \o t)[Len(s) + i] = t[i]
        BY <1>1
      <3> QED
        BY <1>1, <3>1 DEF ToSet
    <2> QED
      BY <1>1, <2>1, <2>2, <2>3 DEF ToSet
  <1>3. ASSUME Increasing(s), Increasing(t), Before(s, t) PROVE Increasing(s \o t)
    <2> SUFFICES ASSUME NEW i \in 1..n, NEW j \in 1..n, i < j
                 PROVE  (s \o t)[i] < (s \o t)[j]
      BY <1>1 DEF Increasing
    <2>1. CASE j <= Len(s)
      BY <1>1, <1>3, <2>1 DEF Increasing
    <2>2. CASE i <= Len(s) /\ ~(j <= Len(s))
      <3>1. s[i] \in ToSet(s) /\ t[j - Len(s)] \in ToSet(t)
        BY <1>1, <2>2 DEF ToSet
      <3> QED
        BY <1>1, <1>3, <2>2, <3>1 DEF Before
    <2>3. CASE ~(i <= Len(s)) /\ ~(j <= Len(s))
      <3>1. i - Len(s) \in 1..Len(t) /\ j - Len(s) \in 1..Len(t) /\ i - Len(s) < j - Len(s)
        BY <1>1, <2>3
      <3>2. t[i - Len(s)] < t[j - Len(s)]
        BY <1>1, <1>3, <3>1 DEF Increasing
      <3> QED
        BY <1>1, <2>3, <3>2
    <2> QED
      BY <1>1, <2>1, <2>2, <2>3
  <1> QED
    BY <1>1, <1>2, <1>3

-----------------------------------------------------------------------------
(* The invariant holds initially and every action preserves it. *)

\* What the assumptions on the constants give the leaves below.
LEMMA Constants ==
    /\ QueueMax \in Nat \ {0} /\ MaxRecords \in Nat /\ MaxStarts \in Nat
    /\ BatchSizes \subseteq Nat
    /\ Flushers = {"worker", "owner"}
    /\ Records = 1..MaxRecords
  BY WriteBehindAssumption DEF Flushers, Records

\* The constructor: nothing is under way.
LEMMA InitIInv == Init => IInv
  <1> SUFFICES ASSUME Init PROVE IInv
    OBVIOUS
  <1>1. TypeOK
    <2>1. running_ \in BOOLEAN /\ flush_due \in BOOLEAN
      BY DEF Init
    <2>2. /\ dirty_queue_ \in Seq(Records) /\ Len(dirty_queue_) <= QueueMax
          /\ current_batch_ \in Seq(Records) /\ wal \in Seq(Records)
          /\ batch \in [Flushers -> Seq(Records)]
      BY Constants DEF Init
    <2>3. starts \in 0..MaxStarts /\ enqueued \in 0..MaxRecords
      BY Constants DEF Init
    <2> QED
      BY <2>1, <2>2, <2>3 DEF Init, TypeOK
  <1>2. ControlInv
    BY DEF Init, ControlInv, Flushers
  <1>3. OrderInv
    BY EmptyFacts DEF Init, OrderInv, Flushers
  <1>4. CountInv
    BY EmptyFacts DEF Init, CountInv, Under, Flushers
  <1> QED
    BY <1>1, <1>2, <1>3, <1>4 DEF IInv

\* Steps of callers, of the clock and of control flow that move no record.
LEMMA QuietStep ==
    ASSUME IInv, \/ SetLock \/ GetCall \/ Get \/ (\E n \in BatchSizes : SetBatchSize(n))
                 \/ WorkerLoop \/ WorkerPopTimeout \/ WorkerFlushed \/ IntervalElapses
                 \/ Start \/ StopCall \/ StopReturn
    PROVE  IInv'
  <1> USE DEF IInv, store
  <1>1. UNCHANGED <<dirty_queue_, current_batch_, batch, enqueued, wal, dropped>>
    BY DEF SetLock, GetCall, Get, SetBatchSize, WorkerLoop, WorkerPopTimeout, WorkerFlushed,
           IntervalElapses, Start, StopCall, StopReturn
  <1>2. OrderInv' /\ CountInv'
    BY <1>1 DEF OrderInv, CountInv, Under
  <1>3. ControlInv'
    BY <1>1 DEF ControlInv, TypeOK, SetLock, GetCall, Get, SetBatchSize, WorkerLoop,
           WorkerPopTimeout, WorkerFlushed, IntervalElapses, Start, StopCall, StopReturn
  <1>4. TypeOK'
    <2>1. CASE SetLock \/ GetCall \/ Get
      BY <2>1 DEF SetLock, GetCall, Get, TypeOK
    <2>2. CASE \E n \in BatchSizes : SetBatchSize(n)
      BY <2>2 DEF SetBatchSize, TypeOK
    <2>3. CASE WorkerLoop \/ WorkerPopTimeout \/ WorkerFlushed
      BY <2>3 DEF WorkerLoop, WorkerPopTimeout, WorkerFlushed, TypeOK
    <2>4. CASE IntervalElapses
      BY <2>4 DEF IntervalElapses, TypeOK
    <2>5. CASE Start
      <3>1. starts' \in 0..MaxStarts
        BY <2>5, Constants DEF Start, TypeOK
      <3>2. running_' \in BOOLEAN /\ flush_due' \in BOOLEAN
        BY <2>5 DEF Start
      <3> QED
        BY <2>5, <3>1, <3>2 DEF Start, TypeOK
    <2>6. CASE StopCall \/ StopReturn
      BY <2>6 DEF StopCall, StopReturn, TypeOK
    <2> QED
      BY <2>1, <2>2, <2>3, <2>4, <2>5, <2>6
  <1> QED
    BY <1>2, <1>3, <1>4

\* write_behind_append: the new record has the highest number and goes to the end.
LEMMA EnqueueStep ==
    ASSUME IInv, Enqueue
    PROVE  IInv'
  <1> USE DEF IInv
  <1> DEFINE x == enqueued + 1
  <1>1. x \in Records /\ enqueued \in Nat /\ enqueued' = x /\ dirty_queue_ \in Seq(Records)
    BY Constants DEF Enqueue, ControlInv, TypeOK
  <1>2. /\ dirty_queue_' \in Seq(Records)
        /\ Len(dirty_queue_') = Len(dirty_queue_) + 1
        /\ ToSet(dirty_queue_') = ToSet(dirty_queue_) \cup {x}
        /\ Increasing(dirty_queue_) /\ (\A y \in ToSet(dirty_queue_) : y < x)
             => Increasing(dirty_queue_')
    BY <1>1, AppendFacts DEF Enqueue
  <1>3. \A y \in Under \cup dropped : y \in Nat /\ y < x
    BY <1>1 DEF CountInv
  <1>4. UNCHANGED <<current_batch_, batch, wal, dropped>>
    BY DEF Enqueue
  <1>5. TypeOK'
    <2>1. Len(dirty_queue_') <= QueueMax
      BY <1>1, <1>2, Constants, LenProperties DEF Enqueue
    <2> QED
      BY <1>1, <1>2, <2>1, Constants DEF Enqueue, TypeOK
  <1>6. ControlInv'
    BY DEF Enqueue, ControlInv
  <1>7. OrderInv'
    BY <1>2, <1>3, <1>4 DEF OrderInv, Under, Before, Flushers
  <1>8. CountInv'
    <2>1. Under' = Under \cup {x}
      BY <1>2, <1>4 DEF Under
    <2>2. 1..enqueued' = (1..enqueued) \cup {x}
      BY <1>1
    <2> QED
      BY <1>3, <1>4, <2>1, <2>2 DEF CountInv
  <1> QED
    BY <1>5, <1>6, <1>7, <1>8

\* WaitAndPop: the front of the queue becomes the end of the batch.
LEMMA WorkerPopStep ==
    ASSUME IInv, WorkerPop
    PROVE  IInv'
  <1> USE DEF IInv
  <1> DEFINE x == Head(dirty_queue_)
  <1>1. dirty_queue_ \in Seq(Records) /\ dirty_queue_ # <<>> /\ Increasing(dirty_queue_)
        /\ current_batch_ \in Seq(Records) /\ Increasing(current_batch_)
    BY DEF WorkerPop, TypeOK, OrderInv
  <1>2. /\ x \in Records
        /\ dirty_queue_' \in Seq(Records)
        /\ Len(dirty_queue_) \in Nat /\ Len(dirty_queue_') = Len(dirty_queue_) - 1
        /\ Increasing(dirty_queue_')
        /\ ToSet(dirty_queue_) = {x} \cup ToSet(dirty_queue_')
        /\ \A y \in ToSet(dirty_queue_') : x < y
    BY <1>1, HeadFacts DEF WorkerPop
  <1>3. \A y \in ToSet(current_batch_) : y < x
    BY <1>2 DEF OrderInv, Before
  <1>4. /\ current_batch_' \in Seq(Records)
        /\ ToSet(current_batch_') = ToSet(current_batch_) \cup {x}
        /\ Increasing(current_batch_')
    BY <1>1, <1>2, <1>3, AppendFacts DEF WorkerPop
  <1>5. UNCHANGED <<batch, wal, dropped, enqueued>>
    BY DEF WorkerPop
  <1>6. TypeOK'
    BY <1>2, <1>4, Constants DEF WorkerPop, store, TypeOK
  <1>7. ControlInv'
    BY DEF WorkerPop, store, ControlInv
  <1>8. OrderInv'
    BY <1>2, <1>4, <1>5 DEF OrderInv, Before, Flushers
  <1>9. CountInv'
    BY <1>2, <1>4, <1>5 DEF CountInv, Under
  <1> QED
    BY <1>6, <1>7, <1>8, <1>9

\* process_batch swaps the shared batch out: nobody else has one in hand.
LEMMA TakeBatchStep ==
    ASSUME IInv, NEW f \in Flushers, TakeBatch(f), batch["worker"] = <<>>, batch["owner"] = <<>>,
           UNCHANGED <<dirty_queue_, wal, dropped, enqueued>>
    PROVE  /\ OrderInv' /\ CountInv'
           /\ batch' \in [Flushers -> Seq(Records)] /\ current_batch_' \in Seq(Records)
           /\ \A g \in Flushers : g # f => batch'[g] = <<>>
  <1> USE DEF IInv
  <1>1. /\ batch'[f] = current_batch_
        /\ \A g \in Flushers : g # f => batch'[g] = <<>>
        /\ current_batch_' = <<>>
    BY Constants DEF TakeBatch, TypeOK
  <1>2. batch' \in [Flushers -> Seq(Records)] /\ current_batch_' \in Seq(Records)
    BY EmptySeq DEF TakeBatch, TypeOK
  <1>3. OrderInv'
    BY <1>1, EmptyFacts, Constants DEF OrderInv
  <1>4. CountInv'
    BY <1>1, EmptyFacts, Constants DEF CountInv, Under
  <1> QED
    BY <1>1, <1>2, <1>3, <1>4

\* The timed flush, or nothing to flush.
LEMMA WorkerCheckStep ==
    ASSUME IInv, WorkerCheck
    PROVE  IInv'
  <1> USE DEF IInv
  <1>1. worker = "check" /\ batch["worker"] = <<>> /\ batch["owner"] = <<>>
        /\ UNCHANGED <<store, running_, batch_size_, dirty_queue_, owner, starts, enqueued,
                       wal, dropped>>
    BY DEF WorkerCheck, ControlInv
  <1>2. CASE TakeBatch("worker") /\ flush_due' = FALSE /\ worker' = "append"
    <2>1. /\ OrderInv' /\ CountInv'
          /\ batch' \in [Flushers -> Seq(Records)] /\ current_batch_' \in Seq(Records)
          /\ batch'["owner"] = <<>>
      BY <1>1, <1>2, TakeBatchStep, Constants
    <2>2. TypeOK'
      BY <1>1, <1>2, <2>1 DEF store, TypeOK
    <2>3. ControlInv'
      BY <1>1, <1>2, <2>1 DEF store, ControlInv
    <2> QED
      BY <2>1, <2>2, <2>3
  <1>3. CASE worker' = "loop" /\ UNCHANGED <<batch, current_batch_, flush_due>>
    <2>1. OrderInv' /\ CountInv'
      BY <1>1, <1>3 DEF OrderInv, CountInv, Under
    <2>2. TypeOK' /\ ControlInv'
      BY <1>1, <1>3 DEF store, TypeOK, ControlInv
    <2> QED
      BY <2>1, <2>2
  <1> QED
    BY <1>2, <1>3 DEF WorkerCheck

\* stop() has joined the worker and takes what it left.
LEMMA StopJoinStep ==
    ASSUME IInv, StopJoin
    PROVE  IInv'
  <1> USE DEF IInv
  <1>1. batch["worker"] = <<>> /\ batch["owner"] = <<>>
    BY DEF StopJoin, ControlInv
  <1>2. /\ OrderInv' /\ CountInv'
        /\ batch' \in [Flushers -> Seq(Records)] /\ current_batch_' \in Seq(Records)
        /\ batch'["worker"] = <<>>
    BY <1>1, TakeBatchStep, Constants DEF StopJoin
  <1>3. TypeOK'
    BY <1>2 DEF StopJoin, store, TypeOK
  <1>4. ControlInv'
    BY <1>2 DEF StopJoin, TakeBatch, store, ControlInv
  <1> QED
    BY <1>2, <1>3, <1>4

\* One iteration of the append loop on thread f, when the other thread has no batch: the
\* front of the batch becomes the end of the log, or the whole batch is given up, its front
\* possibly written.
LEMMA AppendNextStep ==
    ASSUME IInv, NEW f \in Flushers, NEW g \in Flushers, f # g, batch[g] = <<>>, AppendNext(f)
    PROVE  /\ OrderInv' /\ CountInv'
           /\ batch' \in [Flushers -> Seq(Records)] /\ batch'[g] = <<>>
           /\ wal' \in Seq(Records) /\ dropped' \in SUBSET Records
  <1> USE DEF IInv
  <1> DEFINE x == Head(batch[f])
  <1>1. /\ batch[f] \in Seq(Records) /\ batch[f] # <<>> /\ Increasing(batch[f])
        /\ wal \in Seq(Records) /\ Increasing(wal)
        /\ \A h \in Flushers : h = f \/ h = g
    BY Constants DEF AppendNext, TypeOK, OrderInv
  <1>2. /\ x \in Records
        /\ Tail(batch[f]) \in Seq(Records) /\ Increasing(Tail(batch[f]))
        /\ ToSet(batch[f]) = {x} \cup ToSet(Tail(batch[f]))
        /\ \A y \in ToSet(Tail(batch[f])) : x < y
        /\ x \notin ToSet(Tail(batch[f]))
    BY <1>1, HeadFacts
  <1>3. \A y \in ToSet(wal) : y < x
    BY <1>2 DEF OrderInv, Before
  <1>4. /\ ToSet(wal) \subseteq Int /\ ToSet(batch[f]) \subseteq Int
         /\ ToSet(Tail(batch[f])) \subseteq Int /\ x \in Int
         /\ ToSet(current_batch_) \subseteq Int /\ ToSet(dirty_queue_) \subseteq Int
    <2>1. Records \subseteq Int
      BY DEF Records
    <2>2. \A s \in Seq(Records) : ToSet(s) \subseteq Records
      BY SetOf
    <2> QED
      BY <1>1, <1>2, <2>1, <2>2 DEF TypeOK
  <1>5. Before(wal, batch[f]) /\ Before(batch[f], current_batch_) /\ Before(batch[f], dirty_queue_)
    BY DEF OrderInv
  <1>6. /\ Append(wal, x) \in Seq(Records)
        /\ ToSet(Append(wal, x)) = ToSet(wal) \cup {x}
        /\ Increasing(Append(wal, x))
    BY <1>1, <1>2, <1>3, AppendFacts
  <1>7. UNCHANGED <<current_batch_, dirty_queue_, enqueued>>
    BY DEF AppendNext
  <1>8. /\ batch'[g] = <<>> /\ ToSet(batch[g]) = {} /\ ToSet(batch'[g]) = {}
        /\ batch' = [batch EXCEPT ![f] = batch'[f]]
    BY EmptyFacts DEF AppendNext, TypeOK
  <1>9. Under = ToSet(wal) \cup ToSet(batch[f]) \cup ToSet(current_batch_) \cup ToSet(dirty_queue_)
    BY <1>1, <1>8, Constants DEF Under
  <1>10. Under' = ToSet(wal') \cup ToSet(batch'[f]) \cup ToSet(current_batch_)
                   \cup ToSet(dirty_queue_)
    BY <1>1, <1>7, <1>8, Constants DEF Under
  <1>11. CASE wal' = Append(wal, x) /\ batch'[f] = Tail(batch[f]) /\ dropped' = dropped
    <2>1. OrderInv'
      <3>1. /\ Before(wal', batch'[f])
            /\ Before(batch'[f], current_batch_) /\ Before(batch'[f], dirty_queue_)
        BY <1>2, <1>3, <1>5, <1>6, <1>11 DEF Before
      <3>2. Before(wal', current_batch_) /\ Before(wal', dirty_queue_)
        BY <1>2, <1>5, <1>6, <1>11 DEF OrderInv, Before
      <3>3. \A s : Before(s, batch'[g]) /\ Before(batch'[g], s)
        BY <1>8, EmptyFacts
      <3>4. Increasing(wal') /\ \A h \in Flushers : Increasing(batch'[h])
        BY <1>1, <1>2, <1>6, <1>8, <1>11, EmptyFacts
      <3> QED
        BY <1>1, <1>7, <3>1, <3>2, <3>3, <3>4, Constants DEF OrderInv
    <2>2. CountInv'
      BY <1>2, <1>6, <1>7, <1>9, <1>10, <1>11 DEF CountInv
    <2> QED
      BY <1>2, <1>6, <1>8, <1>11, <2>1, <2>2 DEF TypeOK
  <1>12. CASE wal' = Append(wal, x) /\ batch'[f] = <<>>
              /\ dropped' = dropped \cup ToSet(Tail(batch[f]))
    <2>1. OrderInv'
      BY <1>1, <1>2, <1>6, <1>7, <1>8, <1>12, EmptyFacts, Constants DEF OrderInv, Before
    <2>2. CountInv'
      <3>1. \A y \in ToSet(Tail(batch[f])) : y \notin ToSet(wal) \cup {x}
        BY <1>2, <1>3, <1>4
      <3>2. \A y \in ToSet(batch[f]) : y \notin ToSet(current_batch_) \cup ToSet(dirty_queue_)
        BY <1>4, <1>5, Disjoint
      <3> QED
        BY <1>2, <1>6, <1>7, <1>9, <1>10, <1>12, <3>1, <3>2, EmptyFacts DEF CountInv
    <2>3. dropped' \in SUBSET Records
      BY <1>2, <1>12, SetOf DEF TypeOK
    <2> QED
      BY <1>6, <1>8, <1>12, <2>1, <2>2, <2>3 DEF TypeOK
  <1>13. CASE wal' = wal /\ batch'[f] = <<>> /\ dropped' = dropped \cup ToSet(batch[f])
    <2>1. OrderInv'
      BY <1>1, <1>7, <1>8, <1>13, EmptyFacts, Constants DEF OrderInv
    <2>2. CountInv'
      <3>1. \A y \in ToSet(batch[f]) :
                y \notin ToSet(wal) \cup ToSet(current_batch_) \cup ToSet(dirty_queue_)
        BY <1>4, <1>5, Disjoint
      <3> QED
        BY <1>7, <1>9, <1>10, <1>13, <3>1, EmptyFacts DEF CountInv
    <2>3. dropped' \in SUBSET Records
      BY <1>1, <1>13, SetOf DEF TypeOK
    <2> QED
      BY <1>1, <1>8, <1>13, <2>1, <2>2, <2>3 DEF TypeOK
  <1>14. CASE wal' = Append(wal, x) /\ batch' = [batch EXCEPT ![f] = Tail(@)]
              /\ UNCHANGED dropped
    BY <1>11, <1>14 DEF TypeOK
  <1>15. ASSUME NEW done \in {<<>>, <<x>>}, wal' = wal \o done,
                dropped' = dropped \cup (ToSet(batch[f]) \ ToSet(done)),
                batch' = [batch EXCEPT ![f] = <<>>]
         PROVE  /\ OrderInv' /\ CountInv'
                /\ batch' \in [Flushers -> Seq(Records)] /\ batch'[g] = <<>>
                /\ wal' \in Seq(Records) /\ dropped' \in SUBSET Records
    <2>1. batch'[f] = <<>>
      BY <1>15 DEF TypeOK
    <2>2. CASE done = <<>>
      <3>1. wal' = wal /\ dropped' = dropped \cup ToSet(batch[f])
        BY <1>1, <1>15, <2>2, ConcatEmptySeq, EmptyFacts
      <3> QED
        BY <1>13, <2>1, <3>1
    <2>3. CASE done = <<x>>
      <3>1. wal' = Append(wal, x) /\ ToSet(done) = {x}
        BY <1>1, <1>2, <1>15, <2>3, AppendIsConcat DEF ToSet
      <3>2. ToSet(batch[f]) \ ToSet(done) = ToSet(Tail(batch[f]))
        BY <1>2, <3>1
      <3> QED
        BY <1>12, <1>15, <2>1, <3>1, <3>2
    <2> QED
      BY <1>15, <2>2, <2>3
  <1> QED
    BY <1>14, <1>15 DEF AppendNext

\* process_batch on the worker: the caller of stop() has no batch.
LEMMA WorkerAppendStep ==
    ASSUME IInv, WorkerAppend
    PROVE  IInv'
  <1> USE DEF IInv
  <1>1. worker = "append" /\ owner # "append" /\ batch["owner"] = <<>> /\ AppendNext("worker")
        /\ UNCHANGED <<store, running_, batch_size_, dirty_queue_, current_batch_, worker, owner,
                       flush_due, starts, enqueued>>
    BY DEF WorkerAppend, AppendNext, ControlInv
  <1>2. /\ OrderInv' /\ CountInv'
        /\ batch' \in [Flushers -> Seq(Records)] /\ batch'["owner"] = <<>>
        /\ wal' \in Seq(Records) /\ dropped' \in SUBSET Records
    BY <1>1, AppendNextStep, Constants
  <1>3. TypeOK'
    BY <1>1, <1>2 DEF store, TypeOK
  <1>4. ControlInv'
    BY <1>1, <1>2 DEF store, ControlInv
  <1> QED
    BY <1>2, <1>3, <1>4

\* process_batch in stop(): the worker has been joined.
LEMMA StopAppendStep ==
    ASSUME IInv, StopAppend
    PROVE  IInv'
  <1> USE DEF IInv
  <1>1. worker = "none" /\ owner = "append" /\ batch["worker"] = <<>> /\ AppendNext("owner")
        /\ UNCHANGED <<store, running_, batch_size_, dirty_queue_, current_batch_, worker, owner,
                       flush_due, starts, enqueued>>
    BY DEF StopAppend, AppendNext, ControlInv
  <1>2. /\ OrderInv' /\ CountInv'
        /\ batch' \in [Flushers -> Seq(Records)] /\ batch'["worker"] = <<>>
        /\ wal' \in Seq(Records) /\ dropped' \in SUBSET Records
    BY <1>1, AppendNextStep, Constants
  <1>3. TypeOK'
    BY <1>1, <1>2 DEF store, TypeOK
  <1>4. ControlInv'
    BY <1>1, <1>2 DEF store, ControlInv
  <1> QED
    BY <1>2, <1>3, <1>4

\* Every step of the write-behind worker, its callers and its owner preserves the invariant.
LEMMA NextIInv == IInv /\ [Next]_vars => IInv'
  <1> SUFFICES ASSUME IInv, [Next]_vars PROVE IInv'
    OBVIOUS
  <1>1. CASE Next
    BY <1>1, QuietStep, EnqueueStep, WorkerPopStep, WorkerCheckStep, WorkerAppendStep,
       StopJoinStep, StopAppendStep
       DEF Next, Worker, Stopping
  <1>2. CASE UNCHANGED vars
    BY <1>2 DEF vars, IInv, TypeOK, ControlInv, OrderInv, CountInv, Under
  <1> QED
    BY <1>1, <1>2

\* Every reachable state of the write-behind worker satisfies the inductive invariant.
THEOREM Inductive == Spec => []IInv
  BY InitIInv, NextIInv, PTL DEF Spec

-----------------------------------------------------------------------------
(* What the invariant says of the pipeline as one sequence. *)

\* The five sequences end to end increase, and hold what the five hold.
LEMMA PipelineFacts ==
    ASSUME IInv
    PROVE  Increasing(Pipeline) /\ ToSet(Pipeline) = Under
  <1> DEFINE p1 == wal \o batch["worker"]
             p2 == p1 \o batch["owner"]
             p3 == p2 \o current_batch_
             p4 == p3 \o dirty_queue_
  <1> USE DEF IInv
  <1>1. /\ wal \in Seq(Records) /\ batch["worker"] \in Seq(Records)
        /\ batch["owner"] \in Seq(Records) /\ current_batch_ \in Seq(Records)
        /\ dirty_queue_ \in Seq(Records)
    BY Constants DEF TypeOK
  <1>2. /\ p1 \in Seq(Records) /\ Increasing(p1)
        /\ ToSet(p1) = ToSet(wal) \cup ToSet(batch["worker"])
    BY <1>1, ConcatFacts, Constants DEF OrderInv
  <1>3. Before(p1, batch["owner"])
    BY <1>2, Constants DEF OrderInv, Before
  <1>4. /\ p2 \in Seq(Records) /\ Increasing(p2)
        /\ ToSet(p2) = ToSet(wal) \cup ToSet(batch["worker"]) \cup ToSet(batch["owner"])
    <2> HIDE DEF p1
    <2> QED
      BY <1>1, <1>2, <1>3, ConcatFacts, Constants DEF OrderInv
  <1>5. Before(p2, current_batch_)
    BY <1>4, Constants DEF OrderInv, Before
  <1>6. /\ p3 \in Seq(Records) /\ Increasing(p3)
        /\ ToSet(p3) = ToSet(wal) \cup ToSet(batch["worker"]) \cup ToSet(batch["owner"])
                         \cup ToSet(current_batch_)
    <2> HIDE DEF p2
    <2> QED
      BY <1>1, <1>4, <1>5, ConcatFacts DEF OrderInv
  <1>7. Before(p3, dirty_queue_)
    BY <1>6, Constants DEF OrderInv, Before
  <1>8. Increasing(p4) /\ ToSet(p4) = Under
    <2> HIDE DEF p3
    <2> QED
      BY <1>1, <1>6, <1>7, ConcatFacts DEF OrderInv, Under
  <1> QED
    BY <1>8 DEF Pipeline

\* Records reach the log in the order MemStore::set enqueued them: over any number of
\* restarts, failed appends and flushes by stop(), what is in the log, in the batches and in
\* the queue, read in that order, increases.
THEOREM InOrder == Spec => []LoggedInOrder
  <1>1. IInv => LoggedInOrder
    BY PipelineFacts DEF LoggedInOrder, Increasing
  <1> QED
    BY <1>1, Inductive, PTL

\* No record disappears between the queue and the log, none is logged after a failed append
\* gave it up, and when stop() has returned none is left in a batch.
THEOREM NoneVanishes == Spec => []NothingVanishes
  <1>1. ASSUME IInv PROVE NothingVanishes
    <2>1. ToSet(Pipeline) \cup dropped = 1..enqueued /\ ToSet(Pipeline) \cap dropped = {}
      BY <1>1, PipelineFacts DEF IInv, CountInv
    <2>2. StopEmptiesBatch
      <3>1. ASSUME owner = "idle", worker = "none"
            PROVE  Under = ToSet(wal) \cup ToSet(dirty_queue_)
        BY <1>1, <3>1, EmptyFacts DEF IInv, ControlInv, Under
      <3> QED
        BY <1>1, <3>1 DEF StopEmptiesBatch, IInv, CountInv
    <2> QED
      BY <2>1, <2>2 DEF NothingVanishes
  <1> QED
    BY <1>1, Inductive, PTL

-----------------------------------------------------------------------------
(***************************************************************************)
(* WriteBehind implements OrderedLog.  At most one of the two batches has  *)
(* records (ControlInv), so what is pending is that batch followed by the  *)
(* rest: an append takes the front, and moving records from the queue to   *)
(* the shared batch or from there to a flusher's batch changes nothing.    *)
(***************************************************************************)

\* The front of a concatenation.
LEMMA FrontOfConcat ==
    ASSUME NEW b \in Seq(Records), NEW r \in Seq(Records), b # <<>>
    PROVE  /\ b \o r # <<>> /\ Len(b) \in 1..Len(b \o r)
           /\ Head(b \o r) = Head(b)
           /\ Tail(b \o r) = Tail(b) \o r
           /\ SubSeq(b \o r, 1, Len(b)) = b
           /\ SubSeq(b \o r, Len(b) + 1, Len(b \o r)) = r
  <1>1. /\ b \o r \in Seq(Records) /\ Len(b \o r) = Len(b) + Len(r)
        /\ Len(b) \in Nat \ {0} /\ Len(r) \in Nat /\ b \o r # <<>>
    BY ConcatProperties, LenProperties, EmptySeq
  <1>2. SubSeq(b \o r, 1, Len(b)) = b
    BY <1>1, SubSeqOfConcat1, SubSeqFull
  <1>3. SubSeq(b \o r, Len(b) + 1, Len(b \o r)) = r
    <2>1. CASE r = <<>>
      BY <1>1, <2>1, SubSeqEmpty, EmptySeq
    <2>2. CASE r # <<>>
      <3>1. Len(r) # 0
        BY <2>2, EmptySeq
      <3>2. SubSeq(b \o r, Len(b) + 1, Len(b) + Len(r))
              = SubSeq(r, (Len(b) + 1) - Len(b), (Len(b) + Len(r)) - Len(b))
        BY <1>1, <3>1, SubSeqOfConcat2
      <3>3. (Len(b) + 1) - Len(b) = 1 /\ (Len(b) + Len(r)) - Len(b) = Len(r)
        BY <1>1
      <3> QED
        BY <1>1, <3>2, <3>3, SubSeqFull
    <2> QED
      BY <2>1, <2>2
  <1>4. /\ Head(b) \in Records /\ Tail(b) \in Seq(Records) /\ <<Head(b)>> \in Seq(Records)
        /\ b = <<Head(b)>> \o Tail(b)
    BY HeadTailProperties, TailIsSubSeq, SubSeqRecursiveFirst, SubSeqFull, <1>1
  <1> DEFINE h == Head(b)
             t == Tail(b)
  <1>5. b \o r = <<h>> \o (t \o r) /\ t \o r \in Seq(Records)
    <2> HIDE DEF h, t
    <2> QED
      BY <1>4, ConcatAssociative, ConcatProperties DEF h, t
  <1>6. Head(b \o r) = h
    BY <1>1, ConcatProperties
  <1>7. Tail(b \o r) = t \o r
    <2> DEFINE u == t \o r
    <2> HIDE DEF u, h, t
    <2>1. Tail(<<h>> \o u) = u
      BY <1>4, <1>5 DEF u
    <2> QED
      BY <1>5, <2>1 DEF u
  <1> QED
    BY <1>1, <1>2, <1>3, <1>6, <1>7

\* Moving the head of one sequence to the end of the sequence before it.
LEMMA Shift ==
    ASSUME NEW c \in Seq(Records), NEW q \in Seq(Records), q # <<>>
    PROVE  Append(c, Head(q)) \o Tail(q) = c \o q
  <1>1. /\ Head(q) \in Records /\ Tail(q) \in Seq(Records) /\ <<Head(q)>> \in Seq(Records)
        /\ q = <<Head(q)>> \o Tail(q)
    BY HeadTailProperties, TailIsSubSeq, SubSeqRecursiveFirst, SubSeqFull, LenProperties,
       EmptySeq
  <1>2. Append(c, Head(q)) = c \o <<Head(q)>>
    BY <1>1, AppendIsConcat
  <1>3. (c \o <<Head(q)>>) \o Tail(q) = c \o (<<Head(q)>> \o Tail(q))
    BY <1>1, ConcatAssociative
  <1> QED
    BY <1>1, <1>2, <1>3

\* The sequences Pending is made of, and what it is when one of the batches is empty.
PendingShape ==
    /\ batch["worker"] \in Seq(Records) /\ batch["owner"] \in Seq(Records)
    /\ current_batch_ \in Seq(Records) /\ dirty_queue_ \in Seq(Records)
    /\ current_batch_ \o dirty_queue_ \in Seq(Records)
    /\ batch["owner"] = <<>> => Pending = batch["worker"] \o (current_batch_ \o dirty_queue_)
    /\ batch["worker"] = <<>> => Pending = batch["owner"] \o (current_batch_ \o dirty_queue_)

\* Pending has that shape in every state of the right type.
LEMMA PendingIs == TypeOK => PendingShape
  <1> SUFFICES ASSUME TypeOK PROVE PendingShape
    OBVIOUS
  <1>1. /\ batch["worker"] \in Seq(Records) /\ batch["owner"] \in Seq(Records)
        /\ current_batch_ \in Seq(Records) /\ dirty_queue_ \in Seq(Records)
    BY Constants DEF TypeOK
  <1>2. PICK w \in Seq(Records), o \in Seq(Records), c \in Seq(Records), q \in Seq(Records) :
               w = batch["worker"] /\ o = batch["owner"] /\ c = current_batch_ /\ q = dirty_queue_
    BY <1>1
  <1>3. c \o q \in Seq(Records)
    BY ConcatProperties
  <1>4. w \o <<>> = w /\ <<>> \o o = o
    BY ConcatEmptySeq
  <1>5. (w \o c) \o q = w \o (c \o q)
    BY ConcatAssociative
  <1>6. (o \o c) \o q = o \o (c \o q)
    BY ConcatAssociative
  <1> QED
    BY <1>1, <1>2, <1>3, <1>4, <1>5, <1>6 DEF PendingShape, Pending

\* The same after a step.
LEMMA PendingIsNext == TypeOK' => PendingShape'
  BY PendingIs, PTL

\* A set produces the next record.
LEMMA EnqueueProduces ==
    ASSUME IInv, Enqueue
    PROVE  Abstract!Produce
  <1> DEFINE x == enqueued + 1
             p == batch["worker"] \o batch["owner"] \o current_batch_
  <1>1. x \in Records
    BY Constants DEF IInv, ControlInv, TypeOK, Enqueue
  <1>2. p \in Seq(Records) /\ dirty_queue_ \in Seq(Records) /\ <<x>> \in Seq(Records)
    BY <1>1, PendingIs, ConcatProperties DEF IInv, PendingShape
  <1>3. p \o dirty_queue_ \in Seq(Records)
    BY <1>2, ConcatProperties
  <1>4. p \o Append(dirty_queue_, x) = Append(p \o dirty_queue_, x)
    <2> HIDE DEF p, x
    <2>1. p \o (dirty_queue_ \o <<x>>) = (p \o dirty_queue_) \o <<x>>
      BY <1>2, ConcatAssociative
    <2> QED
      BY <1>1, <1>2, <1>3, <2>1, AppendIsConcat
  <1>5. Pending = p \o dirty_queue_ /\ Pending' = p \o Append(dirty_queue_, x)
    BY DEF Pending, Enqueue
  <1>6. Pending' = Append(Pending, enqueued + 1)
    BY <1>4, <1>5
  <1> QED
    BY <1>6 DEF Abstract!Produce, Enqueue

\* The worker moves a record from the queue to the shared batch: nothing changes.
LEMMA PopStutters ==
    ASSUME IInv, WorkerPop
    PROVE  UNCHANGED <<enqueued, Pending, wal, dropped>>
  <1>1. TypeOK /\ TypeOK'
    BY WorkerPopStep DEF IInv
  <1>2. batch["worker"] = <<>> /\ batch' = batch
    BY DEF IInv, ControlInv, WorkerPop
  <1>3. Append(current_batch_, Head(dirty_queue_)) \o Tail(dirty_queue_)
          = current_batch_ \o dirty_queue_
    BY <1>1, PendingIs, Shift DEF WorkerPop, PendingShape
  <1>4. Pending = batch["owner"] \o (current_batch_ \o dirty_queue_)
    BY <1>1, <1>2, PendingIs DEF PendingShape
  <1>5. Pending' = batch["owner"] \o (current_batch_' \o dirty_queue_')
    BY <1>1, <1>2, PendingIsNext DEF PendingShape
  <1> QED
    BY <1>3, <1>4, <1>5 DEF WorkerPop

\* process_batch swaps the shared batch out when no flusher has one: nothing changes.
LEMMA TakeStutters ==
    ASSUME TypeOK, TypeOK', NEW f \in Flushers, TakeBatch(f), dirty_queue_' = dirty_queue_,
           batch["worker"] = <<>>, batch["owner"] = <<>>
    PROVE  Pending' = Pending
  <1> DEFINE r == current_batch_ \o dirty_queue_
  <1>1. Pending = <<>> \o r /\ r \in Seq(Records)
    BY PendingIs DEF PendingShape
  <1>2. Pending = r
    BY <1>1, ConcatEmptySeq
  <1>3. /\ batch'[f] = current_batch_ /\ current_batch_' = <<>>
        /\ \A g \in Flushers : g # f => batch'[g] = <<>>
    BY Constants DEF TakeBatch, TypeOK
  <1>4. Pending' = current_batch_ \o (<<>> \o dirty_queue_)
    <2>1. CASE f = "worker"
      <3>1. batch'["owner"] = <<>> /\ batch'["worker"] = current_batch_
        BY <1>3, <2>1, Constants
      <3> QED
        BY <1>3, <3>1, PendingIsNext DEF PendingShape
    <2>2. CASE f = "owner"
      <3>1. batch'["worker"] = <<>> /\ batch'["owner"] = current_batch_
        BY <1>3, <2>2, Constants
      <3> QED
        BY <1>3, <3>1, PendingIsNext DEF PendingShape
    <2> QED
      BY <2>1, <2>2, Constants
  <1>5. <<>> \o dirty_queue_ = dirty_queue_
    BY PendingIs, ConcatEmptySeq DEF PendingShape
  <1> QED
    BY <1>2, <1>4, <1>5

\* An iteration of the append loop writes the first pending record, or loses the records of
\* the batch, which are the first ones pending.
LEMMA AppendWrites ==
    ASSUME IInv, TypeOK', NEW f \in Flushers, NEW g \in Flushers, f # g,
           batch[g] = <<>>, AppendNext(f)
    PROVE  Abstract!Write \/ Abstract!Lose
  <1> DEFINE b == batch[f]
             r == current_batch_ \o dirty_queue_
  <1>1. /\ TypeOK /\ b \in Seq(Records) /\ b # <<>> /\ r \in Seq(Records)
        /\ \/ f = "worker" /\ g = "owner"
           \/ f = "owner" /\ g = "worker"
    BY PendingIs, Constants DEF IInv, AppendNext, PendingShape
  <1>2. Pending = b \o r
    BY <1>1, PendingIs DEF PendingShape
  <1>3. batch'[g] = <<>> /\ UNCHANGED <<enqueued, current_batch_, dirty_queue_>>
    BY <1>1, Constants DEF AppendNext, TypeOK
  <1>4. Pending' = batch'[f] \o r
    BY <1>1, <1>3, PendingIsNext DEF PendingShape
  <1>5. /\ b \o r # <<>> /\ Len(b) \in 1..Len(b \o r)
        /\ Head(b \o r) = Head(b)
        /\ Tail(b \o r) = Tail(b) \o r
        /\ SubSeq(b \o r, 1, Len(b)) = b
        /\ SubSeq(b \o r, Len(b) + 1, Len(b \o r)) = r
    <2>1. b \in Seq(Records) /\ r \in Seq(Records) /\ b # <<>>
      BY <1>1
    <2> HIDE DEF b, r
    <2> QED
      BY <2>1, FrontOfConcat
  <1>6. CASE /\ wal' = Append(wal, Head(b))
             /\ batch' = [batch EXCEPT ![f] = Tail(@)]
             /\ UNCHANGED dropped
    <2>1. batch'[f] = Tail(b)
      BY <1>6, Constants DEF IInv, TypeOK
    <2> QED
      BY <1>2, <1>3, <1>4, <1>5, <1>6, <2>1 DEF Abstract!Write
  <1>7. ASSUME NEW done \in {<<>>, <<Head(b)>>}, wal' = wal \o done,
               dropped' = dropped \cup (ToSet(b) \ ToSet(done)),
               batch' = [batch EXCEPT ![f] = <<>>]
        PROVE  Abstract!Lose
    <2>1. batch'[f] = <<>>
      BY <1>7, Constants DEF IInv, TypeOK
    <2>2. Pending' = r
      BY <1>1, <1>4, <2>1, ConcatEmptySeq
    <2>3. /\ Len(b) \in 1..Len(Pending) /\ done \in {<<>>, <<Head(Pending)>>}
          /\ dropped' = dropped \cup (ToSet(SubSeq(Pending, 1, Len(b))) \ ToSet(done))
          /\ Pending' = SubSeq(Pending, Len(b) + 1, Len(Pending))
      BY <1>2, <1>5, <1>7, <2>2
    <2> DEFINE n == Len(b)
               p == Pending
    <2>4. \E k \in 1..Len(p) : \E written \in {<<>>, <<Head(p)>>} :
             /\ wal' = wal \o written
             /\ dropped' = dropped \cup (ToSet(SubSeq(p, 1, k)) \ ToSet(written))
             /\ Pending' = SubSeq(p, k + 1, Len(p))
      <3> HIDE DEF n, p
      <3> n \in 1..Len(p) /\ done \in {<<>>, <<Head(p)>>}
        BY <2>3 DEF n, p
      <3> WITNESS n \in 1..Len(p)
      <3> WITNESS done \in {<<>>, <<Head(p)>>}
      <3> QED
        BY <1>7, <2>3 DEF n, p
    <2> QED
      BY <1>3, <2>4 DEF Abstract!Lose, Abstract!ToSet, ToSet
  <1> QED
    BY <1>6, <1>7 DEF AppendNext

\* The other steps leave the records where they are.
LEMMA QuietStutters ==
    ASSUME \/ SetLock \/ GetCall \/ Get \/ (\E n \in BatchSizes : SetBatchSize(n))
           \/ WorkerLoop \/ WorkerPopTimeout \/ WorkerFlushed \/ IntervalElapses
           \/ Start \/ StopCall \/ StopReturn \/ UNCHANGED vars
    PROVE  UNCHANGED <<enqueued, Pending, wal, dropped>>
  <1>1. UNCHANGED <<dirty_queue_, current_batch_, batch, enqueued, wal, dropped>>
    BY DEF SetLock, GetCall, Get, SetBatchSize, WorkerLoop, WorkerPopTimeout, WorkerFlushed,
           IntervalElapses, Start, StopCall, StopReturn, vars
  <1> QED
    BY <1>1 DEF Pending

\* Whatever the threads do, in whatever order, the records on their way and the log behave as
\* OrderedLog: written one by one in the order set enqueued them, and lost only from the
\* front, to an append that throws.
THEOREM LogImplemented == Spec => ImplementsLog
  <1>1. Init => Abstract!LogInit
    <2>1. Init => Pending = <<>>
      <3> SUFFICES ASSUME Init PROVE Pending = <<>>
        OBVIOUS
      <3>1. TypeOK /\ batch["worker"] = <<>> /\ batch["owner"] = <<>>
            /\ current_batch_ = <<>> /\ dirty_queue_ = <<>>
        BY InitIInv, Constants DEF IInv, Init
      <3>2. Pending = <<>> \o (<<>> \o <<>>)
        BY <3>1, PendingIs DEF PendingShape
      <3> QED
        BY <3>2
    <2> QED
      BY <2>1 DEF Init, Abstract!LogInit
  <1>2. ASSUME IInv, IInv', [Next]_vars
        PROVE  [Abstract!LogNext]_(Abstract!logVars)
    <2>1. CASE Enqueue
      BY <1>2, <2>1, EnqueueProduces DEF Abstract!LogNext
    <2>2. CASE WorkerPop
      BY <1>2, <2>2, PopStutters DEF Abstract!logVars
    <2>3. CASE WorkerCheck
      <3>1. batch["worker"] = <<>> /\ batch["owner"] = <<>>
        BY <1>2, <2>3 DEF WorkerCheck, IInv, ControlInv
      <3>2. UNCHANGED <<enqueued, dirty_queue_, wal, dropped>>
        BY <2>3 DEF WorkerCheck
      <3>3. Pending' = Pending
        <4>1. CASE TakeBatch("worker")
          BY <1>2, <3>1, <3>2, <4>1, TakeStutters, Constants DEF IInv
        <4>2. CASE UNCHANGED <<batch, current_batch_>>
          BY <3>2, <4>2 DEF Pending
        <4> QED
          BY <2>3, <4>1, <4>2 DEF WorkerCheck
      <3> QED
        BY <3>2, <3>3 DEF Abstract!logVars
    <2>4. CASE StopJoin
      <3>1. /\ batch["worker"] = <<>> /\ batch["owner"] = <<>> /\ TakeBatch("owner")
            /\ UNCHANGED <<enqueued, dirty_queue_, wal, dropped>>
        BY <1>2, <2>4 DEF StopJoin, IInv, ControlInv
      <3>2. Pending' = Pending
        BY <1>2, <3>1, TakeStutters, Constants DEF IInv
      <3> QED
        BY <3>1, <3>2 DEF Abstract!logVars
    <2>5. CASE WorkerAppend
      <3>1. batch["owner"] = <<>> /\ AppendNext("worker")
        BY <1>2, <2>5 DEF WorkerAppend, IInv, ControlInv
      <3> QED
        BY <1>2, <3>1, AppendWrites, Constants DEF IInv, Abstract!LogNext
    <2>6. CASE StopAppend
      <3>1. batch["worker"] = <<>> /\ AppendNext("owner")
        BY <1>2, <2>6 DEF StopAppend, IInv, ControlInv
      <3> QED
        BY <1>2, <3>1, AppendWrites, Constants DEF IInv, Abstract!LogNext
    <2>7. CASE \/ SetLock \/ GetCall \/ Get \/ (\E n \in BatchSizes : SetBatchSize(n))
               \/ WorkerLoop \/ WorkerPopTimeout \/ WorkerFlushed \/ IntervalElapses
               \/ Start \/ StopCall \/ StopReturn \/ UNCHANGED vars
      BY <2>7, QuietStutters DEF Abstract!logVars
    <2> QED
      BY <1>2, <2>1, <2>2, <2>3, <2>4, <2>5, <2>6, <2>7 DEF Next, Worker, Stopping
  <1> QED
    BY <1>1, <1>2, Inductive, PTL DEF Spec, ImplementsLog, Abstract!LogSpec
=============================================================================

----------------------------- MODULE WriteBehind ----------------------------
(***************************************************************************)
(* src/write_behind_worker.{h,cpp}: the thread that persists dirty records *)
(* in batches when MemStore runs in DurabilityMode::WriteBehind.           *)
(*                                                                         *)
(* Records are numbered in the order MemStore::set enqueues them (under    *)
(* its store lock).  dirty_queue_ is the abstract FIFO of BoundedFifo; it  *)
(* is never stopped.  Two threads run process_batch: the worker and the    *)
(* caller of stop().  batch_mutex_ is held across steps in one place only: *)
(* run() calls process_batch with the mutex held, and process_batch locks  *)
(* the same std::mutex again (a normal pthread mutex: the thread waits for *)
(* itself).  That point is worker = "relock".                              *)
(***************************************************************************)
EXTENDS Naturals, Sequences, SequencesExt

CONSTANTS
    QueueMax,       \* capacity of dirty_queue_ (1000 in the code)
    BatchSizes,     \* the values batch_size_ may take
    AppendMayThrow, \* whether wal_.append may throw
    MaxRecords,     \* bound: records enqueued
    MaxStarts       \* bound: calls of start() that start a thread

ASSUME WriteBehindAssumption ==
    /\ QueueMax \in Nat \ {0}
    /\ BatchSizes \subseteq Nat /\ BatchSizes # {}
    /\ AppendMayThrow \in BOOLEAN
    /\ MaxRecords \in Nat
    /\ MaxStarts \in Nat

VARIABLES
    running_,
    batch_size_,
    dirty_queue_,
    current_batch_,
    worker,         \* where the worker thread is; "none": worker_ is not joinable
    owner,          \* where the thread that calls start() and stop() is
    batch,          \* the local vector of each process_batch call
    flush_due,      \* now - last_flush >= flush_interval
    setter,         \* whether a MemStore::set holds the store lock: "idle" or "locked"
    reader,         \* whether a MemStore::get waits for it: "idle" or "waiting"
    starts,
    enqueued,       \* history: number of records enqueued
    wal,            \* history: the records appended to the WAL, in order
    dropped         \* history: records given up when append threw

vars == <<running_, batch_size_, dirty_queue_, current_batch_, worker, owner, batch,
          flush_due, setter, reader, starts, enqueued, wal, dropped>>
store == <<setter, reader>>

Flushers == {"worker", "owner"}
Records == 1..MaxRecords

Init ==
    /\ running_ = FALSE
    /\ batch_size_ \in BatchSizes
    /\ dirty_queue_ = <<>>
    /\ current_batch_ = <<>>
    /\ worker = "none"
    /\ owner = "idle"
    /\ batch = [f \in Flushers |-> <<>>]
    /\ flush_due = FALSE
    /\ setter = "idle"
    /\ reader = "idle"
    /\ starts = 0
    /\ enqueued = 0
    /\ wal = <<>>
    /\ dropped = {}

(***************************************************************************)
(* Callers.  In WriteBehind mode MemStore::set calls enqueue with the      *)
(* store lock held exclusively; get needs it shared.  One setter and one   *)
(* reader are enough: the lock lets one setter in at a time, and readers   *)
(* do not affect each other.                                               *)
(***************************************************************************)
SetLock ==
    /\ setter = "idle"
    /\ enqueued < MaxRecords
    /\ setter' = "locked"
    /\ UNCHANGED <<running_, batch_size_, dirty_queue_, current_batch_, worker, owner, batch,
                   flush_due, reader, starts, enqueued, wal, dropped>>

\* Bug: set returns with the store lock held.
Enqueue_StaysLocked ==
    /\ setter = "locked"
    /\ Len(dirty_queue_) < QueueMax
    /\ enqueued < MaxRecords
    /\ enqueued' = enqueued + 1
    /\ dirty_queue_' = Append(dirty_queue_, enqueued + 1)
    /\ UNCHANGED setter
    /\ UNCHANGED <<running_, batch_size_, current_batch_, worker, owner, batch, flush_due,
                   reader, starts, wal, dropped>>

\* write_behind_append pushes the record with the Block policy, waiting while the queue
\* is full; then set returns and the store lock goes.
Enqueue ==
    /\ setter = "locked"
    /\ Len(dirty_queue_) < QueueMax
    /\ enqueued' = enqueued + 1
    /\ dirty_queue_' = Append(dirty_queue_, enqueued + 1)
    /\ setter' = "idle"
    /\ UNCHANGED <<running_, batch_size_, current_batch_, worker, owner, batch, flush_due,
                   reader, starts, wal, dropped>>

GetCall ==
    /\ reader = "idle"
    /\ reader' = "waiting"
    /\ UNCHANGED <<running_, batch_size_, dirty_queue_, current_batch_, worker, owner, batch,
                   flush_due, setter, starts, enqueued, wal, dropped>>

Get ==
    /\ reader = "waiting"
    /\ setter # "locked"
    /\ reader' = "idle"
    /\ UNCHANGED <<running_, batch_size_, dirty_queue_, current_batch_, worker, owner, batch,
                   flush_due, setter, starts, enqueued, wal, dropped>>

SetBatchSize(n) ==
    /\ worker # "relock"
    /\ batch_size_' = n
    /\ UNCHANGED <<store, running_, dirty_queue_, current_batch_, worker, owner, batch, flush_due,
                   starts, enqueued, wal, dropped>>

(***************************************************************************)
(* process_batch, on thread f: swap the shared batch out under             *)
(* batch_mutex_, then append its records one by one without it.            *)
(***************************************************************************)
TakeBatch(f) ==
    /\ batch' = [batch EXCEPT ![f] = current_batch_]
    /\ current_batch_' = <<>>

\* One iteration of the append loop; an exception abandons the rest of the batch.
\* WAL::append throws before its line is in the file, or in the rotation after it.
AppendNext(f) ==
    /\ batch[f] # <<>>
    /\ \/ /\ wal' = Append(wal, Head(batch[f]))
          /\ batch' = [batch EXCEPT ![f] = Tail(@)]
          /\ UNCHANGED dropped
       \/ /\ AppendMayThrow
          /\ \E done \in {<<>>, <<Head(batch[f])>>} :
                 /\ wal' = wal \o done
                 /\ dropped' = dropped \cup (ToSet(batch[f]) \ ToSet(done))
          /\ batch' = [batch EXCEPT ![f] = <<>>]
    /\ UNCHANGED <<store, running_, batch_size_, dirty_queue_, current_batch_, worker, owner,
                   flush_due, starts, enqueued>>

(***************************************************************************)
(* run(): the worker thread.                                               *)
(***************************************************************************)
WorkerLoop ==
    /\ worker = "loop"
    /\ worker' = IF running_ THEN "pop" ELSE "exited"
    /\ UNCHANGED <<store, running_, batch_size_, dirty_queue_, current_batch_, owner, batch,
                   flush_due, starts, enqueued, wal, dropped>>

\* WaitAndPop got a record: it joins the batch under batch_mutex_, and a full
\* batch is processed without letting go of the mutex.
WorkerPop ==
    /\ worker = "pop"
    /\ dirty_queue_ # <<>>
    /\ dirty_queue_' = Tail(dirty_queue_)
    /\ current_batch_' = Append(current_batch_, Head(dirty_queue_))
    /\ worker' = IF Len(current_batch_') >= batch_size_ THEN "relock" ELSE "check"
    /\ UNCHANGED <<store, running_, batch_size_, owner, batch, flush_due, starts, enqueued, wal,
                   dropped>>

\* Bug: WaitAndPop is called without a timeout.
WorkerPopTimeout_Never == FALSE /\ UNCHANGED vars

\* WaitAndPop timed out after 100 ms.
WorkerPopTimeout ==
    /\ worker = "pop"
    /\ dirty_queue_ = <<>>
    /\ worker' = "check"
    /\ UNCHANGED <<store, running_, batch_size_, dirty_queue_, current_batch_, owner, batch,
                   flush_due, starts, enqueued, wal, dropped>>

\* Bug: an idle batch is not flushed by the timer, only a full one.
WorkerCheck_NoTimer ==
    /\ worker = "check"
    /\ worker' = "loop"
    /\ UNCHANGED <<store, running_, batch_size_, dirty_queue_, current_batch_, owner, batch,
                   flush_due, starts, enqueued, wal, dropped>>

\* The timed flush.
WorkerCheck ==
    /\ worker = "check"
    /\ \/ /\ flush_due /\ current_batch_ # <<>>
          /\ TakeBatch("worker")
          /\ flush_due' = FALSE
          /\ worker' = "append"
       \/ /\ ~(flush_due /\ current_batch_ # <<>>)
          /\ worker' = "loop"
          /\ UNCHANGED <<batch, current_batch_, flush_due>>
    /\ UNCHANGED <<store, running_, batch_size_, dirty_queue_, owner, starts, enqueued, wal,
                   dropped>>

WorkerAppend == worker = "append" /\ AppendNext("worker")

WorkerFlushed ==
    /\ worker = "append"
    /\ batch["worker"] = <<>>
    /\ worker' = "loop"
    /\ UNCHANGED <<store, running_, batch_size_, dirty_queue_, current_batch_, owner, batch,
                   flush_due, starts, enqueued, wal, dropped>>

\* Time passes: flush_interval has gone by since last_flush.
IntervalElapses ==
    /\ ~flush_due
    /\ flush_due' = TRUE
    /\ UNCHANGED <<store, running_, batch_size_, dirty_queue_, current_batch_, worker, owner,
                   batch, starts, enqueued, wal, dropped>>

(***************************************************************************)
(* start() and stop(), called by the owner of the worker.                  *)
(***************************************************************************)
Start ==
    /\ owner = "idle"
    /\ ~running_
    /\ starts < MaxStarts
    /\ running_' = TRUE
    /\ worker' = "loop"
    /\ flush_due' = FALSE
    /\ starts' = starts + 1
    /\ UNCHANGED <<store, batch_size_, dirty_queue_, current_batch_, owner, batch, enqueued, wal,
                   dropped>>

StopCall ==
    /\ owner = "idle"
    /\ running_' = FALSE
    /\ owner' = "join"
    /\ UNCHANGED <<store, batch_size_, dirty_queue_, current_batch_, worker, batch, flush_due,
                   starts, enqueued, wal, dropped>>

\* Bug: stop() does not wait for the worker.
StopJoin_NoJoin ==
    /\ owner = "join"
    /\ owner' = "append"
    /\ TakeBatch("owner")
    /\ UNCHANGED <<store, running_, batch_size_, dirty_queue_, worker, flush_due, starts, enqueued,
                   wal, dropped>>

\* Bug: stop() joins the worker and leaves its batch alone.
StopJoin_NoFlush ==
    /\ owner = "join"
    /\ worker \in {"none", "exited"}
    /\ worker' = "none"
    /\ owner' = "append"
    /\ UNCHANGED <<store, running_, batch_size_, dirty_queue_, current_batch_, batch, flush_due,
                   starts, enqueued, wal, dropped>>

\* join() returns once run() has; then the remaining batch is processed here.
StopJoin ==
    /\ owner = "join"
    /\ worker \in {"none", "exited"}
    /\ worker' = "none"
    /\ owner' = "append"
    /\ TakeBatch("owner")
    /\ UNCHANGED <<store, running_, batch_size_, dirty_queue_, flush_due, starts, enqueued, wal,
                   dropped>>

StopAppend == owner = "append" /\ AppendNext("owner")

StopReturn ==
    /\ owner = "append"
    /\ batch["owner"] = <<>>
    /\ owner' = "idle"
    /\ UNCHANGED <<store, running_, batch_size_, dirty_queue_, current_batch_, worker, batch,
                   flush_due, starts, enqueued, wal, dropped>>

Worker == WorkerLoop \/ WorkerPop \/ WorkerPopTimeout \/ WorkerCheck \/ WorkerAppend
          \/ WorkerFlushed
Stopping == StopJoin \/ StopAppend \/ StopReturn

Next ==
    \/ SetLock \/ Enqueue \/ GetCall \/ Get
    \/ \E n \in BatchSizes : SetBatchSize(n)
    \/ Worker
    \/ IntervalElapses
    \/ Start \/ StopCall \/ Stopping

Spec == Init /\ [][Next]_vars

\* The worker thread is scheduled, time passes, a stop() that was called goes on, a set that
\* has room in the queue takes it, and a contended store lock is eventually won.
FairSpec ==
    /\ Spec
    /\ WF_vars(Worker) /\ WF_vars(IntervalElapses) /\ WF_vars(Stopping)
    /\ WF_vars(Enqueue) /\ SF_vars(Get)

(***************************************************************************)
(* Properties.                                                             *)
(***************************************************************************)
\* The type of every variable.
TypeOK ==
    /\ running_ \in BOOLEAN
    /\ batch_size_ \in BatchSizes
    /\ dirty_queue_ \in Seq(Records) /\ Len(dirty_queue_) <= QueueMax
    /\ current_batch_ \in Seq(Records)
    /\ worker \in {"none", "loop", "pop", "check", "append", "relock", "exited"}
    /\ owner \in {"idle", "join", "append"}
    /\ batch \in [Flushers -> Seq(Records)]
    /\ flush_due \in BOOLEAN
    /\ setter \in {"idle", "locked"}
    /\ reader \in {"idle", "waiting"}
    /\ starts \in 0..MaxStarts
    /\ enqueued \in 0..MaxRecords
    /\ wal \in Seq(Records)
    /\ dropped \in SUBSET Records

\* Everything on its way to the log, in the order it will get there.
Pipeline == wal \o batch["worker"] \o batch["owner"] \o current_batch_ \o dirty_queue_

\* The same without the log: the records on their way.
Pending == batch["worker"] \o batch["owner"] \o current_batch_ \o dirty_queue_

Abstract == INSTANCE OrderedLog WITH
    produced <- enqueued, pending <- Pending, log <- wal, lost <- dropped

\* The records on their way, whoever has them, and the log are an OrderedLog: the worker and
\* the caller of stop() hand over without one overtaking the other, across stops and starts,
\* and what is lost is lost from the front, to an append that throws.
ImplementsLog == Abstract!LogSpec

\* Records reach the WAL in the order MemStore produced them, across restarts of
\* the worker and the flush that stop() does on another thread: the last record of
\* a key in the log is the latest one enqueued for it.
LoggedInOrder ==
    \A i, j \in DOMAIN Pipeline : i < j => Pipeline[i] < Pipeline[j]

\* When stop() has returned, every record the worker had taken from the queue is in the WAL
\* or its append threw: what is neither is still queued, for the next start() to find.
StopEmptiesBatch ==
    owner = "idle" /\ worker = "none" =>
        ToSet(wal) \cup dropped \cup ToSet(dirty_queue_) = 1..enqueued

\* A record is enqueued, in a batch, in the WAL, or was given up by a failed append;
\* it never disappears in between and is never logged after being given up; and stop()
\* leaves none in a batch (StopEmptiesBatch).
NothingVanishes ==
    /\ ToSet(Pipeline) \cup dropped = 1..enqueued
    /\ ToSet(Pipeline) \cap dropped = {}
    /\ StopEmptiesBatch

Stuck == worker = "relock"

\* As long as no batch fills up, an enqueued record is persisted or its append throws:
\* the timer flushes a batch that stays small, and nothing else holds the worker up.
PersistsUnlessFull ==
    \A n \in Records :
        (n <= enqueued /\ running_) ~> (n \in ToSet(wal) \cup dropped \/ ~running_ \/ Stuck)

\* stop() returns: a worker that is not stuck notices running_ within one wait.
StopReturns == owner = "join" ~> (owner = "idle" \/ Stuck)

\* Backpressure never locks readers out: a get waits for a set that waits for room in the
\* queue, and the running worker makes room, unless it is stuck.
ReadReturns == reader = "waiting" ~> (reader = "idle" \/ ~running_ \/ Stuck)
=============================================================================

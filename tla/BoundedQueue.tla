---------------------------- MODULE BoundedQueue ----------------------------
(***************************************************************************)
(* utils/threadsafe_queue.{h,cpp}: BoundedThreadsafeQueue<T>, the one      *)
(* blocking queue of the program.  It is the write-behind worker's dirty   *)
(* queue, the thread pool's work queue, an actor's mailbox and the inbound *)
(* queue of a Subscribe stream.                                            *)
(*                                                                         *)
(* Every operation runs under mu_ except Stop(), which stores stopped_ and *)
(* notifies without taking it.  So a thread that has evaluated its wait    *)
(* predicate and not yet gone to sleep (pc = "block") is visible to Stop,  *)
(* and that point is a state of the model.  A condition variable is the    *)
(* set of threads asleep on it.                                            *)
(***************************************************************************)
EXTENDS Naturals, Sequences, FiniteSets

CONSTANTS
    Producers,      \* threads that call Push
    Consumers,      \* threads that call TryPop and WaitAndPop
    Timed,          \* the consumers that pass a timeout to WaitAndPop
    max_size_,      \* capacity
    Policies,       \* the overflow policies an instance may be constructed with
    MaxPush         \* bound: Push calls per producer

OverflowPolicy == {"Block", "DropNewest", "DropOldest", "Compact"}

ASSUME QueueAssumption ==
    /\ IsFiniteSet(Producers) /\ IsFiniteSet(Consumers)
    /\ Producers \cap Consumers = {}
    /\ Timed \subseteq Consumers
    /\ max_size_ \in Nat \ {0}
    /\ Policies \subseteq OverflowPolicy
    /\ MaxPush \in Nat

Threads == Producers \cup Consumers

VARIABLES
    policy_,        \* chosen by the constructor, never changed
    mu_,            \* {} or {the thread that holds the mutex}
    queue_,         \* the deque
    size_,          \* the atomic element count kept beside it
    stopped_,
    data_cond,      \* consumers asleep on data_cond
    space_cond,     \* producers asleep on space_cond
    pc,             \* where each thread is
    calls,          \* Push calls made by each producer; <<p, calls[p]>> is the item
    stop_pc,        \* the notification Stop() performs next
    accepted,       \* history: every item that entered queue_, in order
    taken,          \* history: every item a consumer got, in order
    late            \* history: items that entered queue_ after stopped_ was stored

vars == <<policy_, mu_, queue_, size_, stopped_, data_cond, space_cond, pc, calls,
          stop_pc, accepted, taken, late>>
history == <<accepted, taken, late>>

Items == Producers \X (1..MaxPush)

Init ==
    /\ policy_ \in Policies
    /\ mu_ = {}
    /\ queue_ = <<>>
    /\ size_ = 0
    /\ stopped_ = FALSE
    /\ data_cond = {}
    /\ space_cond = {}
    /\ pc = [t \in Threads |-> "idle"]
    /\ calls = [p \in Producers |-> 0]
    /\ stop_pc = "idle"
    /\ accepted = <<>>
    /\ taken = <<>>
    /\ late = 0

(***************************************************************************)
(* Building blocks.                                                        *)
(***************************************************************************)
Full == Len(queue_) >= max_size_

\* std::condition_variable::notify_one: wakes one sleeper, if there is one.
\* A woken thread is out of the set and still has to get mu_ back.
NotifyOne(cond, next) ==
    \/ cond = {} /\ next = {}
    \/ \E t \in cond : next = cond \ {t}

Goto(t, label) == pc' = [pc EXCEPT ![t] = label]

\* Bug: a consumer is woken only when the deque was empty.
NotifyData_WhenEmpty ==
    IF queue_ = <<>> THEN NotifyOne(data_cond, data_cond') ELSE UNCHANGED data_cond

\* data_cond.notify_one(), after push_back.
NotifyData == NotifyOne(data_cond, data_cond')

\* Bug: a pop does not announce the free slot.
NotifySpace_Missing == UNCHANGED space_cond

\* space_cond.notify_one(), after pop_front.
NotifySpace == NotifyOne(space_cond, space_cond')

\* Bug: a stopped queue hands out nothing more.
HasData_NotWhenStopped == queue_ # <<>> /\ ~stopped_

\* A pop that finds an element takes it, stopped or not.
HasData == queue_ # <<>>

\* The tail of every pop: front(), pop_front(), size_--, space_cond.notify_one().
PopFront(c) ==
    /\ HasData
    /\ queue_' = Tail(queue_)
    /\ size_' = size_ - 1
    /\ taken' = Append(taken, Head(queue_))
    /\ NotifySpace
    /\ Goto(c, "idle")
    /\ UNCHANGED <<mu_, accepted, late>>

\* A pop that returns without an element.
ReturnEmpty(c) ==
    /\ Goto(c, "idle")
    /\ UNCHANGED <<mu_, queue_, size_, space_cond, history>>

\* The wait predicate was false: the thread still holds mu_ and is about to sleep.
AboutToSleep(t) ==
    /\ Goto(t, "block")
    /\ mu_' = {t}
    /\ UNCHANGED <<queue_, size_, space_cond, history>>

(***************************************************************************)
(* Push.                                                                   *)
(***************************************************************************)
PushCall(p) ==
    /\ pc[p] = "idle"
    /\ calls[p] < MaxPush
    /\ calls' = [calls EXCEPT ![p] = @ + 1]
    /\ Goto(p, "push")
    /\ UNCHANGED <<policy_, mu_, queue_, size_, stopped_, data_cond, space_cond, stop_pc,
                   history>>

\* Bug: eviction discards the newest element instead of the oldest.
Evict_Newest(p) ==
    /\ queue_' = SubSeq(queue_, 1, Len(queue_) - 1)
    /\ size_' = size_ - 1
    /\ Goto(p, "insert")
    /\ mu_' = {p}
    /\ UNCHANGED <<space_cond, history>>

\* Discards the front of the full queue: one element under DropOldest, as many
\* as it takes under Compact.
Evict(p) ==
    LET n == IF policy_ = "Compact" THEN Len(queue_) - max_size_ + 1 ELSE 1
    IN  /\ queue_' = SubSeq(queue_, n + 1, Len(queue_))
        /\ size_' = size_ - n
        /\ Goto(p, "insert")
        /\ mu_' = {p}
        /\ UNCHANGED <<space_cond, history>>

\* Push gives up: the queue is stopped, or it is full under DropNewest.
GiveUp(p) ==
    /\ Goto(p, "idle")
    /\ UNCHANGED <<mu_, queue_, size_, space_cond, history>>

\* There is room: Push goes on to push_back with mu_ held.
GoInsert(p) ==
    /\ Goto(p, "insert")
    /\ mu_' = {p}
    /\ UNCHANGED <<queue_, size_, space_cond, history>>

\* Push takes mu_, tests stopped_ and applies the overflow policy.
PushEnter(p) ==
    /\ pc[p] = "push"
    /\ mu_ = {}
    /\ \/ stopped_ /\ GiveUp(p)
       \/ ~stopped_ /\ ~Full /\ GoInsert(p)
       \/ ~stopped_ /\ Full /\ policy_ = "Block" /\ AboutToSleep(p)
       \/ ~stopped_ /\ Full /\ policy_ = "DropNewest" /\ GiveUp(p)
       \/ ~stopped_ /\ Full /\ policy_ \in {"DropOldest", "Compact"} /\ Evict(p)
    /\ UNCHANGED <<policy_, stopped_, data_cond, calls, stop_pc>>

\* push_back, size_++, data_cond.notify_one(), unlock.
PushInsert(p) ==
    /\ pc[p] = "insert"
    /\ queue_' = Append(queue_, <<p, calls[p]>>)
    /\ size_' = size_ + 1
    /\ accepted' = Append(accepted, <<p, calls[p]>>)
    /\ late' = IF stopped_ THEN late + 1 ELSE late
    /\ NotifyData
    /\ mu_' = {}
    /\ Goto(p, "idle")
    /\ UNCHANGED <<policy_, stopped_, space_cond, calls, stop_pc, taken>>

\* space_cond.wait: releases mu_ and sleeps, in one step.
PushSleep(p) ==
    /\ pc[p] = "block"
    /\ space_cond' = space_cond \cup {p}
    /\ mu_' = {}
    /\ Goto(p, "asleep")
    /\ UNCHANGED <<policy_, queue_, size_, stopped_, data_cond, calls, stop_pc, history>>

\* Bug: the wait has no loop around it, so a woken Push takes the slot for granted.
PushWake_NoRecheck(p) ==
    /\ pc[p] = "asleep"
    /\ p \notin space_cond
    /\ mu_ = {}
    /\ \/ stopped_ /\ GiveUp(p)
       \/ ~stopped_ /\ GoInsert(p)
    /\ UNCHANGED <<policy_, stopped_, data_cond, calls, stop_pc>>

\* Bug: the predicate of the wait in Push does not look at stopped_.
PushWake_IgnoresStop(p) ==
    /\ pc[p] = "asleep"
    /\ p \notin space_cond
    /\ mu_ = {}
    /\ IF Full THEN AboutToSleep(p) ELSE GoInsert(p)
    /\ UNCHANGED <<policy_, stopped_, data_cond, calls, stop_pc>>

\* A woken Push gets mu_ back, evaluates the predicate again and re-tests stopped_.
PushWake(p) ==
    /\ pc[p] = "asleep"
    /\ p \notin space_cond
    /\ mu_ = {}
    /\ \/ stopped_ /\ GiveUp(p)
       \/ ~stopped_ /\ ~Full /\ GoInsert(p)
       \/ ~stopped_ /\ Full /\ AboutToSleep(p)
    /\ UNCHANGED <<policy_, stopped_, data_cond, calls, stop_pc>>

(***************************************************************************)
(* TryPop and WaitAndPop.  A TryPop that finds nothing, and a WaitAndPop   *)
(* that finds the queue empty and stopped, return at once and change       *)
(* nothing.                                                                *)
(***************************************************************************)
TryPop(c) ==
    /\ pc[c] = "idle"
    /\ mu_ = {}
    /\ PopFront(c)
    /\ UNCHANGED <<policy_, stopped_, data_cond, calls, stop_pc>>

WaitAndPop(c) ==
    /\ pc[c] = "idle"
    /\ mu_ = {}
    /\ \/ PopFront(c)
       \/ queue_ = <<>> /\ ~stopped_ /\ AboutToSleep(c)
    /\ UNCHANGED <<policy_, stopped_, data_cond, calls, stop_pc>>

\* data_cond.wait / wait_for: releases mu_ and sleeps, in one step.
PopSleep(c) ==
    /\ pc[c] = "block"
    /\ data_cond' = data_cond \cup {c}
    /\ mu_' = {}
    /\ Goto(c, "asleep")
    /\ UNCHANGED <<policy_, queue_, size_, stopped_, space_cond, calls, stop_pc, history>>

\* A woken WaitAndPop gets mu_ back and evaluates the predicate again.
PopWake(c) ==
    /\ pc[c] = "asleep"
    /\ c \notin data_cond
    /\ mu_ = {}
    /\ \/ PopFront(c)
       \/ queue_ = <<>> /\ stopped_ /\ ReturnEmpty(c)
       \/ queue_ = <<>> /\ ~stopped_ /\ AboutToSleep(c)
    /\ UNCHANGED <<policy_, stopped_, data_cond, calls, stop_pc>>

\* The deadline of wait_for passes while the thread sleeps.
Timeout(c) ==
    /\ c \in Timed
    /\ c \in data_cond
    /\ data_cond' = data_cond \ {c}
    /\ Goto(c, "timed_out")
    /\ UNCHANGED <<policy_, mu_, queue_, size_, stopped_, space_cond, calls, stop_pc,
                   history>>

\* After its deadline wait_for returns the predicate as it is now: an element
\* that arrived meanwhile is still popped.
PopTimedOut(c) ==
    /\ pc[c] = "timed_out"
    /\ mu_ = {}
    /\ \/ PopFront(c)
       \/ queue_ = <<>> /\ ReturnEmpty(c)
    /\ UNCHANGED <<policy_, stopped_, data_cond, calls, stop_pc>>

\* The C++ standard lets a condition variable wake a sleeper for no reason.
SpuriousWake(t) ==
    /\ t \in data_cond \cup space_cond
    /\ data_cond' = data_cond \ {t}
    /\ space_cond' = space_cond \ {t}
    /\ UNCHANGED <<policy_, mu_, queue_, size_, stopped_, pc, calls, stop_pc, history>>

(***************************************************************************)
(* Stop: three steps, none of them under mu_.                              *)
(***************************************************************************)
StopStore ==
    /\ stop_pc = "idle"
    /\ stopped_' = TRUE
    /\ stop_pc' = "notify_data"
    /\ UNCHANGED <<policy_, mu_, queue_, size_, data_cond, space_cond, pc, calls,
                   history>>

StopNotifyData ==
    /\ stop_pc = "notify_data"
    /\ data_cond' = {}
    /\ stop_pc' = "notify_space"
    /\ UNCHANGED <<policy_, mu_, queue_, size_, stopped_, space_cond, pc, calls, history>>

StopNotifySpace ==
    /\ stop_pc = "notify_space"
    /\ space_cond' = {}
    /\ stop_pc' = "done"
    /\ UNCHANGED <<policy_, mu_, queue_, size_, stopped_, data_cond, pc, calls, history>>

Push(p) == PushEnter(p) \/ PushInsert(p) \/ PushSleep(p) \/ PushWake(p)
Pop(c) == WaitAndPop(c) \/ PopSleep(c) \/ PopWake(c) \/ PopTimedOut(c)
Stop == StopStore \/ StopNotifyData \/ StopNotifySpace

Next ==
    \/ \E p \in Producers : PushCall(p) \/ Push(p)
    \/ \E c \in Consumers : TryPop(c) \/ Pop(c) \/ Timeout(c)
    \/ \E t \in Threads : SpuriousWake(t)
    \/ Stop

Spec == Init /\ [][Next]_vars

(***************************************************************************)
(* Fairness.  The scheduler lets every thread inside an operation run, a   *)
(* contended std::mutex is eventually won, a deadline eventually passes    *)
(* and a Stop that began is carried through.  Nobody has to call Push or   *)
(* Stop, and no wake-up is taken for granted.                              *)
(***************************************************************************)
Fairness ==
    /\ \A p \in Producers : SF_vars(Push(p))
    /\ \A c \in Consumers : SF_vars(Pop(c)) /\ WF_vars(Timeout(c))
    /\ WF_vars(StopNotifyData \/ StopNotifySpace)

FairSpec == Spec /\ Fairness

(***************************************************************************)
(* Properties.                                                             *)
(***************************************************************************)
\* The type of every variable.
TypeOK ==
    /\ policy_ \in Policies
    /\ mu_ \in SUBSET Threads
    /\ queue_ \in Seq(Items)
    /\ size_ \in Nat
    /\ stopped_ \in BOOLEAN
    /\ data_cond \in SUBSET Consumers
    /\ space_cond \in SUBSET Producers
    /\ pc \in [Threads -> {"idle", "push", "insert", "block", "asleep", "timed_out"}]
    /\ calls \in [Producers -> 0..MaxPush]
    /\ stop_pc \in {"idle", "notify_data", "notify_space", "done"}
    /\ accepted \in Seq(Items)
    /\ taken \in Seq(Items)
    /\ late \in Nat

\* The deque never exceeds max_size_ and the atomic size_ is its length, whatever
\* the policy and however many woken producers compete for one free slot.
CapacityRespected ==
    /\ Len(queue_) <= max_size_
    /\ size_ = Len(queue_)

\* Under every policy the deque holds the most recently accepted items in the
\* order they were accepted: overflow may discard old items, it never reorders.
KeepsNewest ==
    \A i \in 1..Len(queue_) : queue_[i] = accepted[Len(accepted) - Len(queue_) + i]

\* Threads that were woken, or whose deadline passed, and still have to get mu_,
\* and the producer that has got it and is about to fill a slot.
Coming(S, cond) ==
    {t \in S : pc[t] \in {"asleep", "timed_out", "insert"} /\ t \notin cond}

\* No wake-up of a consumer is lost: while one sleeps, every element in the deque
\* has a woken consumer on its way to it (Push notifies on every push_back, not
\* only when the deque was empty).
NoLostDataWakeup ==
    data_cond # {} => Len(queue_) <= Cardinality(Coming(Consumers, data_cond))

\* No wake-up of a producer is lost before Stop: while a Push sleeps, every free
\* slot has a woken Push on its way to it.
NoLostSpaceWakeup ==
    ~stopped_ /\ space_cond # {} =>
        max_size_ - Len(queue_) <= Cardinality(Coming(Producers, space_cond))

\* No wake-up is lost, of a consumer or of a producer (NoLostDataWakeup, NoLostSpaceWakeup):
\* notify_one may go to a thread that finds the element or the slot taken by a newcomer, and
\* still nobody sleeps beside work that nobody is coming for.
NoLostWakeup == NoLostDataWakeup /\ NoLostSpaceWakeup

Lossy == policy_ \in {"DropOldest", "Compact"}

Fifo == INSTANCE BoundedFifo
            WITH Capacity <- max_size_, lossy <- Lossy, contents <- queue_,
                 closed <- stopped_

\* The queue implements the abstract bounded FIFO: with all its threads, wake-ups and
\* timeouts, every step is one Put, Take, Drop or Close, or changes nothing a user sees;
\* nothing is dropped under Block and DropNewest, and one Push at most slips in after Stop.
ImplementsFifo == Fifo!FifoSpec

\* While the queue runs and its consumers keep popping, every Push returns: a
\* producer that found the queue full is not left asleep.
PushReturns ==
    \A p \in Producers : pc[p] # "idle" ~> (pc[p] = "idle" \/ stopped_)

\* Stop loses nothing: consumers that keep popping empty the stopped queue.
StoppedQueueDrains == stopped_ ~> [](queue_ = <<>>)

\* Stop() is there to release the threads blocked in Push and in WaitAndPop (it
\* notifies all of both): none of them sleeps forever after it.
StopReleasesSleepers ==
    \A t \in Threads : stop_pc = "done" ~> pc[t] # "asleep"
=============================================================================

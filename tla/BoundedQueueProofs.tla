------------------------- MODULE BoundedQueueProofs -------------------------
(***************************************************************************)
(* Theorems about BoundedQueue for any number of producers and consumers,  *)
(* any capacity, any choice of policies and any number of Push calls.      *)
(*                                                                         *)
(* One inductive invariant, IInv, carries all of them: the type invariant  *)
(* needs size_ to be the deque's length, that needs the mutex to keep      *)
(* every other thread out between the test for room and push_back, and the *)
(* refinement needs to know who can still insert after Stop.               *)
(***************************************************************************)
EXTENDS BoundedQueue, SequenceTheorems, FiniteSetTheorems, TLAPS

\* mu_ is held by the one thread that is between two steps of a critical section.
MutexInv ==
    /\ \A t \in Threads : t \in mu_ <=> pc[t] \in {"insert", "block"}
    /\ \A t, u \in mu_ : t = u

\* The producer about to push_back has room.
RoomInv == \A p \in Producers : pc[p] = "insert" => Len(queue_) < max_size_

\* A producer inside Push has an item to push.
CallsInv == \A p \in Producers : pc[p] # "idle" => calls[p] # 0

\* After Stop the one producer that was past its test of stopped_ may insert, once.
LateInv ==
    /\ ~stopped_ => late = 0
    /\ late # 0 => \A p \in Producers : pc[p] # "insert"

\* Who sleeps on a condition variable is in a wait.
SleepInv ==
    /\ \A c \in data_cond : pc[c] = "asleep"
    /\ \A p \in space_cond : pc[p] = "asleep"

NewestInv == Len(queue_) <= Len(accepted) /\ KeepsNewest

IInv ==
    /\ TypeOK
    /\ CapacityRespected
    /\ MutexInv
    /\ RoomInv
    /\ CallsInv
    /\ LateInv
    /\ SleepInv
    /\ NewestInv

-----------------------------------------------------------------------------
(* What the deque operations do. *)

\* Removing the front of a non-empty sequence.
LEMMA TailFacts ==
    ASSUME NEW S, NEW s \in Seq(S), s # <<>>
    PROVE  /\ Tail(s) \in Seq(S)
           /\ Head(s) \in S
           /\ Len(s) \in Nat \ {0}
           /\ Len(Tail(s)) = Len(s) - 1
           /\ \A i \in 1..(Len(s) - 1) : Tail(s)[i] = s[i + 1]
  BY HeadTailProperties, EmptySeq

\* push_back.
LEMMA AppendFacts ==
    ASSUME NEW S, NEW s \in Seq(S), NEW e \in S
    PROVE  /\ Append(s, e) \in Seq(S)
           /\ Len(Append(s, e)) = Len(s) + 1
           /\ \A i \in 1..Len(s) : Append(s, e)[i] = s[i]
           /\ Append(s, e)[Len(s) + 1] = e
  BY AppendProperties

\* The suffix that eviction keeps is the tail.
LEMMA SuffixIsTail ==
    ASSUME NEW S, NEW s \in Seq(S), s # <<>>
    PROVE  SubSeq(s, 2, Len(s)) = Tail(s)
  OBVIOUS

-----------------------------------------------------------------------------
(* The invariant holds initially and every action preserves it. *)

\* What the assumptions on the constants give the leaves below.
LEMMA Constants ==
    /\ max_size_ \in Nat \ {0}
    /\ MaxPush \in Nat
    /\ Producers \cap Consumers = {}
    /\ Timed \subseteq Consumers
    /\ Threads = Producers \cup Consumers
  BY QueueAssumption DEF Threads

\* The constructor establishes IInv: an empty deque, size_ 0, nobody inside.
LEMMA InitIInv == Init => IInv
  <1> SUFFICES ASSUME Init PROVE IInv
    OBVIOUS
  <1>1. TypeOK
    <2>1. stopped_ \in BOOLEAN
      BY DEF Init
    <2>2. queue_ \in Seq(Items) /\ accepted \in Seq(Items) /\ taken \in Seq(Items)
      BY DEF Init
    <2>3. calls \in [Producers -> 0..MaxPush]
      BY Constants DEF Init
    <2>4. pc \in [Threads -> {"idle", "push", "insert", "block", "asleep", "timed_out"}]
      BY DEF Init
    <2>5. policy_ \in Policies /\ mu_ \in SUBSET Threads /\ data_cond \in SUBSET Consumers
          /\ space_cond \in SUBSET Producers /\ size_ \in Nat /\ late \in Nat
      BY DEF Init
    <2>6. stop_pc \in {"idle", "notify_data", "notify_space", "done"}
      BY DEF Init
    <2> QED
      BY <2>1, <2>2, <2>3, <2>4, <2>5, <2>6 DEF TypeOK
  <1>2. CapacityRespected /\ NewestInv
    BY Constants DEF Init, CapacityRespected, NewestInv, KeepsNewest
  <1>3. MutexInv /\ RoomInv /\ CallsInv /\ LateInv /\ SleepInv
    BY Constants DEF Init, MutexInv, RoomInv, CallsInv, LateInv, SleepInv
  <1> QED
    BY <1>1, <1>2, <1>3 DEF IInv

\* A producer calls Push and queues up for mu_; nothing shared changes.
LEMMA PushCallStep ==
    ASSUME IInv, NEW p \in Producers, PushCall(p)
    PROVE  IInv'
  <1>1. TypeOK'
    BY Constants DEF PushCall, Goto, IInv, TypeOK, history
  <1>2. CapacityRespected' /\ NewestInv'
    BY DEF PushCall, IInv, CapacityRespected, NewestInv, KeepsNewest, history
  <1>3. MutexInv'
    BY Constants DEF PushCall, Goto, IInv, TypeOK, MutexInv
  <1>4. RoomInv' /\ CallsInv' /\ LateInv'
    BY Constants DEF PushCall, Goto, IInv, TypeOK, RoomInv, CallsInv, LateInv, history
  <1>5. SleepInv'
    BY Constants DEF PushCall, Goto, IInv, TypeOK, SleepInv
  <1> QED
    BY <1>1, <1>2, <1>3, <1>4, <1>5 DEF IInv

\* Push returns without inserting, because of stopped_ or DropNewest.
LEMMA GiveUpStep ==
    ASSUME IInv, NEW p \in Producers, pc[p] \in {"push", "asleep"},
           p \notin space_cond, GiveUp(p),
           UNCHANGED <<policy_, stopped_, data_cond, calls, stop_pc>>
    PROVE  IInv'
  <1>1. TypeOK'
    BY Constants DEF GiveUp, Goto, IInv, TypeOK, history
  <1>2. CapacityRespected' /\ NewestInv'
    BY DEF GiveUp, IInv, CapacityRespected, NewestInv, KeepsNewest, history
  <1>3. MutexInv'
    BY Constants DEF GiveUp, Goto, IInv, TypeOK, MutexInv
  <1>4. RoomInv' /\ CallsInv' /\ LateInv'
    BY Constants DEF GiveUp, Goto, IInv, TypeOK, RoomInv, CallsInv, LateInv, history
  <1>5. SleepInv'
    BY Constants DEF GiveUp, Goto, IInv, TypeOK, SleepInv
  <1> QED
    BY <1>1, <1>2, <1>3, <1>4, <1>5 DEF IInv

\* Push has found or made room and goes on to push_back with mu_ held.
LEMMA GoInsertStep ==
    ASSUME IInv, NEW p \in Producers, pc[p] \in {"push", "asleep"}, mu_ = {},
           p \notin space_cond, ~stopped_, ~Full, GoInsert(p),
           UNCHANGED <<policy_, stopped_, data_cond, calls, stop_pc>>
    PROVE  IInv'
  <1>1. TypeOK'
    BY Constants DEF GoInsert, Goto, IInv, TypeOK, history
  <1>2. CapacityRespected' /\ NewestInv'
    BY DEF GoInsert, IInv, CapacityRespected, NewestInv, KeepsNewest, history
  <1>3. MutexInv'
    BY Constants DEF GoInsert, Goto, IInv, TypeOK, MutexInv
  <1>4. RoomInv'
    <2>1. Len(queue_) \in Nat
      BY LenProperties DEF IInv, TypeOK
    <2> QED
      BY <2>1, Constants DEF GoInsert, Full, RoomInv
  <1>5. CallsInv' /\ LateInv'
    BY Constants DEF GoInsert, Goto, IInv, TypeOK, CallsInv, LateInv, history
  <1>6. SleepInv'
    BY Constants DEF GoInsert, Goto, IInv, TypeOK, SleepInv
  <1> QED
    BY <1>1, <1>2, <1>3, <1>4, <1>5, <1>6 DEF IInv

\* A thread evaluates its predicate to false and keeps mu_ until it sleeps.
LEMMA AboutToSleepStep ==
    ASSUME IInv, NEW t \in Threads, mu_ = {}, AboutToSleep(t),
           t \notin data_cond, t \notin space_cond, t \in Producers => pc[t] # "idle",
           UNCHANGED <<policy_, stopped_, data_cond, calls, stop_pc>>
    PROVE  IInv'
  <1>1. TypeOK'
    BY Constants DEF AboutToSleep, Goto, IInv, TypeOK, history
  <1>2. CapacityRespected' /\ NewestInv'
    BY DEF AboutToSleep, IInv, CapacityRespected, NewestInv, KeepsNewest, history
  <1>3. MutexInv'
    BY Constants DEF AboutToSleep, Goto, IInv, TypeOK, MutexInv
  <1>4. RoomInv' /\ CallsInv' /\ LateInv'
    BY Constants
    DEF AboutToSleep, Goto, IInv, TypeOK, RoomInv, CallsInv, LateInv, history
  <1>5. SleepInv'
    BY Constants DEF AboutToSleep, Goto, IInv, TypeOK, SleepInv
  <1> QED
    BY <1>1, <1>2, <1>3, <1>4, <1>5 DEF IInv

\* Eviction removes exactly the front, under Compact as under DropOldest, because the
\* deque is never longer than max_size_.
LEMMA EvictIsTail ==
    ASSUME IInv, NEW p \in Producers, Full, Evict(p)
    PROVE  /\ queue_ # <<>>
           /\ Len(queue_) = max_size_
           /\ queue_' = Tail(queue_)
           /\ size_' = size_ - 1
  <1>1. Len(queue_) \in Nat /\ Len(queue_) = max_size_ /\ queue_ # <<>>
    BY Constants, LenProperties, EmptySeq DEF IInv, TypeOK, CapacityRespected, Full
  <1>2. queue_' = SubSeq(queue_, 2, Len(queue_)) /\ size_' = size_ - 1
    BY <1>1, Constants DEF Evict
  <1> QED
    BY <1>1, <1>2, SuffixIsTail DEF IInv, TypeOK

\* Push drops the oldest element of a full queue (DropOldest, Backpressure).
LEMMA EvictStep ==
    ASSUME IInv, NEW p \in Producers, pc[p] = "push", mu_ = {}, ~stopped_, Full, Evict(p),
           UNCHANGED <<policy_, stopped_, data_cond, calls, stop_pc>>
    PROVE  IInv'
  <1>1. /\ queue_' \in Seq(Items)
        /\ Len(queue_) = max_size_
        /\ Len(queue_') = Len(queue_) - 1
        /\ \A i \in 1..(Len(queue_) - 1) : queue_'[i] = queue_[i + 1]
        /\ size_' = size_ - 1
    BY EvictIsTail, TailFacts DEF IInv, TypeOK
  <1>2. TypeOK'
    BY <1>1, Constants DEF Evict, Goto, IInv, TypeOK, CapacityRespected, history
  <1>3. CapacityRespected'
    BY <1>1, Constants DEF IInv, CapacityRespected
  <1>4. NewestInv'
    BY <1>1, Constants, LenProperties DEF Evict, IInv, TypeOK, NewestInv, KeepsNewest, history
  <1>5. MutexInv'
    BY Constants DEF Evict, Goto, IInv, TypeOK, MutexInv
  <1>6. RoomInv'
    BY <1>1, Constants DEF RoomInv
  <1>7. CallsInv' /\ LateInv'
    BY Constants DEF Evict, Goto, IInv, TypeOK, CallsInv, LateInv, history
  <1>8. SleepInv'
    BY Constants DEF Evict, Goto, IInv, TypeOK, SleepInv
  <1> QED
    BY <1>2, <1>3, <1>4, <1>5, <1>6, <1>7, <1>8 DEF IInv

\* Push takes mu_ and takes one of the branches of its overflow switch.
LEMMA PushEnterStep ==
    ASSUME IInv, NEW p \in Producers, PushEnter(p)
    PROVE  IInv'
  <1> pc[p] = "push" /\ mu_ = {} /\ p \in Threads
    BY Constants DEF PushEnter
  <1> p \notin space_cond /\ p \notin data_cond
    BY DEF IInv, SleepInv
  <1> UNCHANGED <<policy_, stopped_, data_cond, calls, stop_pc>>
    BY DEF PushEnter
  <1>1. CASE GiveUp(p)
    BY <1>1, GiveUpStep
  <1>2. CASE ~stopped_ /\ ~Full /\ GoInsert(p)
    BY <1>2, GoInsertStep
  <1>3. CASE AboutToSleep(p)
    BY <1>3, AboutToSleepStep
  <1>4. CASE ~stopped_ /\ Full /\ Evict(p)
    BY <1>4, EvictStep
  <1> QED
    BY <1>1, <1>2, <1>3, <1>4 DEF PushEnter

\* A woken Push takes mu_ again and evaluates its predicate once more.
LEMMA PushWakeStep ==
    ASSUME IInv, NEW p \in Producers, PushWake(p)
    PROVE  IInv'
  <1> pc[p] = "asleep" /\ mu_ = {} /\ p \in Threads
    BY Constants DEF PushWake
  <1> p \notin space_cond /\ p \notin data_cond
    BY Constants DEF PushWake, IInv, TypeOK
  <1> UNCHANGED <<policy_, stopped_, data_cond, calls, stop_pc>>
    BY DEF PushWake
  <1>1. CASE GiveUp(p)
    BY <1>1, GiveUpStep
  <1>2. CASE ~stopped_ /\ ~Full /\ GoInsert(p)
    BY <1>2, GoInsertStep
  <1>3. CASE AboutToSleep(p)
    BY <1>3, AboutToSleepStep
  <1> QED
    BY <1>1, <1>2, <1>3 DEF PushWake

\* What push_back enters is an item.
LEMMA PushedItem ==
    ASSUME IInv, NEW p \in Producers, pc[p] = "insert"
    PROVE  <<p, calls[p]>> \in Items
  BY Constants DEF IInv, TypeOK, CallsInv, Items

\* push_back, ++size_ and notify_one, then the unlock.
LEMMA PushInsertStep ==
    ASSUME IInv, NEW p \in Producers, PushInsert(p)
    PROVE  IInv'
  <1> DEFINE item == <<p, calls[p]>>
  <1>1. item \in Items /\ p \in Threads /\ p \in mu_
    BY PushedItem, Constants DEF PushInsert, IInv, MutexInv
  <1> HIDE DEF item
  <1>2. /\ queue_' \in Seq(Items)
        /\ Len(queue_') = Len(queue_) + 1
        /\ \A i \in 1..Len(queue_) : queue_'[i] = queue_[i]
        /\ queue_'[Len(queue_) + 1] = item
    BY <1>1, AppendFacts DEF PushInsert, IInv, TypeOK, item
  <1>3. /\ accepted' \in Seq(Items)
        /\ Len(accepted') = Len(accepted) + 1
        /\ \A i \in 1..Len(accepted) : accepted'[i] = accepted[i]
        /\ accepted'[Len(accepted) + 1] = item
    BY <1>1, AppendFacts DEF PushInsert, IInv, TypeOK, item
  <1>4. Len(queue_) \in Nat /\ Len(accepted) \in Nat
    BY LenProperties DEF IInv, TypeOK
  <1>5. TypeOK'
    <2>1. data_cond' \in SUBSET Consumers
      BY DEF PushInsert, NotifyData, NotifyOne, IInv, TypeOK
    <2> QED
      BY <1>2, <1>3, <2>1, Constants DEF PushInsert, Goto, IInv, TypeOK
  <1>6. CapacityRespected'
    BY <1>2, <1>4, Constants DEF PushInsert, IInv, CapacityRespected, RoomInv
  <1>7. NewestInv'
    <2> SUFFICES ASSUME NEW i \in 1..Len(queue_')
                 PROVE  queue_'[i] = accepted'[Len(accepted') - Len(queue_') + i]
      BY <1>2, <1>3, <1>4 DEF IInv, NewestInv, KeepsNewest
    <2>1. CASE i = Len(queue_) + 1
      BY <2>1, <1>2, <1>3, <1>4
    <2>2. CASE i \in 1..Len(queue_)
      <3> DEFINE k == Len(accepted) - Len(queue_) + i
      <3>1. k \in 1..Len(accepted) /\ Len(accepted') - Len(queue_') + i = k
        BY <2>2, <1>2, <1>3, <1>4 DEF IInv, NewestInv
      <3>2. queue_[i] = accepted[k]
        BY <2>2 DEF IInv, NewestInv, KeepsNewest
      <3> QED
        BY <2>2, <3>1, <3>2, <1>2, <1>3
    <2> QED
      BY <2>1, <2>2, <1>2, <1>4
  <1>8. MutexInv'
    BY <1>1, Constants DEF PushInsert, Goto, IInv, TypeOK, MutexInv
  <1>9. \A q \in Producers : pc'[q] # "insert"
    BY <1>1, <1>8, Constants DEF PushInsert, MutexInv
  <1>10. RoomInv' /\ CallsInv' /\ LateInv'
    BY <1>9, Constants DEF PushInsert, Goto, IInv, TypeOK, RoomInv, CallsInv, LateInv
  <1>11. SleepInv'
    BY Constants DEF PushInsert, NotifyData, NotifyOne, Goto, IInv, TypeOK, SleepInv
  <1> QED
    BY <1>5, <1>6, <1>7, <1>8, <1>10, <1>11 DEF IInv

\* Push gives up mu_ and sleeps on the space condition variable.
LEMMA PushSleepStep ==
    ASSUME IInv, NEW p \in Producers, PushSleep(p)
    PROVE  IInv'
  <1>1. TypeOK'
    BY Constants DEF PushSleep, Goto, IInv, TypeOK, history
  <1>2. CapacityRespected' /\ NewestInv'
    BY DEF PushSleep, IInv, CapacityRespected, NewestInv, KeepsNewest, history
  <1>3. MutexInv'
    BY Constants DEF PushSleep, Goto, IInv, TypeOK, MutexInv
  <1>4. RoomInv' /\ CallsInv' /\ LateInv'
    BY Constants DEF PushSleep, Goto, IInv, TypeOK, RoomInv, CallsInv, LateInv, history
  <1>5. SleepInv'
    BY Constants DEF PushSleep, Goto, IInv, TypeOK, SleepInv
  <1> QED
    BY <1>1, <1>2, <1>3, <1>4, <1>5 DEF IInv

\* front, pop_front, --size_ and the notification of a producer.
LEMMA PopFrontStep ==
    ASSUME IInv, NEW c \in Consumers, mu_ = {}, c \notin data_cond, PopFront(c),
           UNCHANGED <<policy_, stopped_, data_cond, calls, stop_pc>>
    PROVE  IInv'
  <1>1. /\ queue_' \in Seq(Items)
        /\ Head(queue_) \in Items
        /\ Len(queue_) \in Nat \ {0}
        /\ Len(queue_') = Len(queue_) - 1
        /\ \A i \in 1..(Len(queue_) - 1) : queue_'[i] = queue_[i + 1]
    BY TailFacts DEF PopFront, HasData, IInv, TypeOK
  <1>2. TypeOK'
    <2>1. taken' \in Seq(Items)
      BY <1>1, AppendFacts DEF PopFront, IInv, TypeOK
    <2>2. space_cond' \in SUBSET Producers
      BY DEF PopFront, NotifySpace, NotifyOne, IInv, TypeOK
    <2> QED
      BY <1>1, <2>1, <2>2, Constants DEF PopFront, Goto, IInv, TypeOK, CapacityRespected
  <1>3. CapacityRespected'
    BY <1>1, Constants DEF PopFront, IInv, CapacityRespected
  <1>4. NewestInv'
    BY <1>1, LenProperties DEF PopFront, IInv, TypeOK, NewestInv, KeepsNewest
  <1>5. MutexInv'
    BY Constants DEF PopFront, Goto, IInv, TypeOK, MutexInv
  <1>6. RoomInv' /\ CallsInv' /\ LateInv'
    BY <1>1, Constants DEF PopFront, Goto, IInv, TypeOK, RoomInv, CallsInv, LateInv
  <1>7. SleepInv'
    BY Constants DEF PopFront, NotifySpace, NotifyOne, Goto, IInv, TypeOK, SleepInv
  <1> QED
    BY <1>2, <1>3, <1>4, <1>5, <1>6, <1>7 DEF IInv

\* A pop that found nothing returns and leaves the queue as it is.
LEMMA ReturnEmptyStep ==
    ASSUME IInv, NEW c \in Consumers, mu_ = {}, c \notin data_cond, ReturnEmpty(c),
           UNCHANGED <<policy_, stopped_, data_cond, calls, stop_pc>>
    PROVE  IInv'
  <1>1. TypeOK'
    BY Constants DEF ReturnEmpty, Goto, IInv, TypeOK, history
  <1>2. CapacityRespected' /\ NewestInv'
    BY DEF ReturnEmpty, IInv, CapacityRespected, NewestInv, KeepsNewest, history
  <1>3. MutexInv'
    BY Constants DEF ReturnEmpty, Goto, IInv, TypeOK, MutexInv
  <1>4. RoomInv' /\ CallsInv' /\ LateInv'
    BY Constants DEF ReturnEmpty, Goto, IInv, TypeOK, RoomInv, CallsInv, LateInv, history
  <1>5. SleepInv'
    BY Constants DEF ReturnEmpty, Goto, IInv, TypeOK, SleepInv
  <1> QED
    BY <1>1, <1>2, <1>3, <1>4, <1>5 DEF IInv

\* TryPop, WaitAndPop, and a WaitAndPop that was woken or timed out.
LEMMA PopStep ==
    ASSUME IInv, NEW c \in Consumers,
           TryPop(c) \/ WaitAndPop(c) \/ PopWake(c) \/ PopTimedOut(c)
    PROVE  IInv'
  <1> mu_ = {} /\ c \in Threads /\ c \notin Producers
    BY Constants DEF TryPop, WaitAndPop, PopWake, PopTimedOut
  <1> c \notin data_cond /\ c \notin space_cond
    BY Constants DEF TryPop, WaitAndPop, PopWake, PopTimedOut, IInv, TypeOK, SleepInv
  <1> UNCHANGED <<policy_, stopped_, data_cond, calls, stop_pc>>
    BY DEF TryPop, WaitAndPop, PopWake, PopTimedOut
  <1>1. CASE PopFront(c)
    BY <1>1, PopFrontStep
  <1>2. CASE ReturnEmpty(c)
    BY <1>2, ReturnEmptyStep
  <1>3. CASE AboutToSleep(c)
    BY <1>3, AboutToSleepStep
  <1> QED
    BY <1>1, <1>2, <1>3 DEF TryPop, WaitAndPop, PopWake, PopTimedOut

\* WaitAndPop gives up mu_ and sleeps on the data condition variable.
LEMMA PopSleepStep ==
    ASSUME IInv, NEW c \in Consumers, PopSleep(c)
    PROVE  IInv'
  <1>1. TypeOK'
    BY Constants DEF PopSleep, Goto, IInv, TypeOK, history
  <1>2. CapacityRespected' /\ NewestInv'
    BY DEF PopSleep, IInv, CapacityRespected, NewestInv, KeepsNewest, history
  <1>3. MutexInv'
    BY Constants DEF PopSleep, Goto, IInv, TypeOK, MutexInv
  <1>4. RoomInv' /\ CallsInv' /\ LateInv'
    BY Constants DEF PopSleep, Goto, IInv, TypeOK, RoomInv, CallsInv, LateInv, history
  <1>5. SleepInv'
    BY Constants DEF PopSleep, Goto, IInv, TypeOK, SleepInv
  <1> QED
    BY <1>1, <1>2, <1>3, <1>4, <1>5 DEF IInv

\* wait_for reaches its deadline and leaves the condition variable.
LEMMA TimeoutStep ==
    ASSUME IInv, NEW c \in Consumers, Timeout(c)
    PROVE  IInv'
  <1>1. TypeOK'
    BY Constants DEF Timeout, Goto, IInv, TypeOK, history
  <1>2. CapacityRespected' /\ NewestInv'
    BY DEF Timeout, IInv, CapacityRespected, NewestInv, KeepsNewest, history
  <1>3. MutexInv'
    BY Constants DEF Timeout, Goto, IInv, TypeOK, MutexInv, SleepInv
  <1>4. RoomInv' /\ CallsInv' /\ LateInv'
    BY Constants DEF Timeout, Goto, IInv, TypeOK, RoomInv, CallsInv, LateInv, history
  <1>5. SleepInv'
    BY Constants DEF Timeout, Goto, IInv, TypeOK, SleepInv
  <1> QED
    BY <1>1, <1>2, <1>3, <1>4, <1>5 DEF IInv

\* Steps that only take threads out of the condition variables or store stopped_.
LEMMA WakeAndStopStep ==
    ASSUME IInv, (\E t \in Threads : SpuriousWake(t)) \/ Stop
    PROVE  IInv'
  <1>1. UNCHANGED <<policy_, mu_, queue_, size_, pc, calls, history>>
    BY DEF SpuriousWake, Stop, StopStore, StopNotifyData, StopNotifySpace
  <1>2. data_cond' \subseteq data_cond /\ space_cond' \subseteq space_cond
    BY DEF SpuriousWake, Stop, StopStore, StopNotifyData, StopNotifySpace
  <1>3. stopped_' \in BOOLEAN /\ (stopped_ => stopped_')
    BY DEF SpuriousWake, Stop, StopStore, StopNotifyData, StopNotifySpace, IInv, TypeOK
  <1>4. stop_pc' \in {"idle", "notify_data", "notify_space", "done"}
    BY DEF SpuriousWake, Stop, StopStore, StopNotifyData, StopNotifySpace, IInv, TypeOK
  <1>5. TypeOK'
    BY <1>1, <1>2, <1>3, <1>4 DEF IInv, TypeOK, history
  <1>6. CapacityRespected' /\ NewestInv' /\ RoomInv' /\ CallsInv' /\ MutexInv'
    BY <1>1
    DEF IInv, CapacityRespected, NewestInv, KeepsNewest, RoomInv, CallsInv, MutexInv, history
  <1>7. LateInv'
    BY <1>1, <1>3 DEF IInv, TypeOK, LateInv, history
  <1>8. SleepInv'
    BY <1>1, <1>2 DEF IInv, SleepInv
  <1> QED
    BY <1>5, <1>6, <1>7, <1>8 DEF IInv

\* A stuttering step keeps IInv.
LEMMA Stutter == ASSUME IInv, UNCHANGED vars PROVE IInv'
  BY DEF IInv, vars, TypeOK, CapacityRespected, MutexInv, RoomInv, CallsInv, LateInv, SleepInv,
         NewestInv, KeepsNewest

\* IInv is inductive: one case for each action of the queue.
LEMMA NextIInv == IInv /\ [Next]_vars => IInv'
  <1> SUFFICES ASSUME IInv, [Next]_vars PROVE IInv'
    OBVIOUS
  <1>1. ASSUME NEW p \in Producers, PushCall(p) PROVE IInv'
    BY <1>1, PushCallStep
  <1>2. ASSUME NEW p \in Producers, Push(p) PROVE IInv'
    BY <1>2, PushEnterStep, PushInsertStep, PushSleepStep, PushWakeStep DEF Push
  <1>3. ASSUME NEW c \in Consumers, TryPop(c) \/ Pop(c) PROVE IInv'
    BY <1>3, PopStep, PopSleepStep DEF Pop
  <1>4. ASSUME NEW c \in Consumers, Timeout(c) PROVE IInv'
    BY <1>4, TimeoutStep
  <1>5. CASE (\E t \in Threads : SpuriousWake(t)) \/ Stop
    BY <1>5, WakeAndStopStep
  <1>6. CASE UNCHANGED vars
    BY <1>6, Stutter
  <1> QED
    BY <1>1, <1>2, <1>3, <1>4, <1>5, <1>6 DEF Next

\* IInv is an invariant of the queue.
THEOREM Inductive == Spec => []IInv
  BY InitIInv, NextIInv, PTL DEF Spec

-----------------------------------------------------------------------------
(* The theorems. *)

\* Type correctness of BoundedThreadsafeQueue: in particular size_, an unsigned counter
\* decremented in five places, never drops below zero.
THEOREM TypeCorrect == Spec => []TypeOK
  <1>1. IInv => TypeOK
    BY DEF IInv
  <1> QED
    BY <1>1, Inductive, PTL

\* The deque never exceeds max_size_ and size_ is its length, for any number of producers
\* competing for freed slots.
THEOREM Capacity == Spec => []CapacityRespected
  <1>1. IInv => CapacityRespected
    BY DEF IInv
  <1> QED
    BY <1>1, Inductive, PTL

\* Under every policy the deque is the newest part of what was accepted, in order.
THEOREM Newest == Spec => []KeepsNewest
  <1>1. IInv => KeepsNewest
    BY DEF IInv, NewestInv
  <1> QED
    BY <1>1, Inductive, PTL

-----------------------------------------------------------------------------
(* The queue implements the abstract FIFO. *)

\* The constructed queue is the abstract FIFO's initial state.
LEMMA InitRefines == Init => Fifo!FifoInit
  BY DEF Init, Fifo!FifoInit, Lossy

\* push_back is the abstract Put.
LEMMA InsertIsPut ==
    ASSUME IInv, NEW p \in Producers, PushInsert(p)
    PROVE  Fifo!FifoNext
  <1>1. <<p, calls[p]>> \in Items
    BY PushedItem DEF PushInsert
  <1>2. late = 0 /\ Len(queue_) < max_size_
    BY DEF PushInsert, IInv, LateInv, RoomInv
  <1>3. late' = IF stopped_ THEN 1 ELSE 0
    BY <1>2 DEF PushInsert
  <1>4. Fifo!Put(<<p, calls[p]>>)
    BY <1>2, <1>3 DEF PushInsert, Fifo!Put, Lossy
  <1> QED
    BY <1>1, <1>4 DEF Fifo!FifoNext

\* Eviction under an overflow policy is the abstract Drop.
LEMMA EvictIsDrop ==
    ASSUME IInv, NEW p \in Producers, PushEnter(p), ~stopped_, Full,
           policy_ \in {"DropOldest", "Compact"}, Evict(p)
    PROVE  Fifo!FifoNext
  <1>1. Len(queue_) = max_size_ /\ queue_' = Tail(queue_)
    BY EvictIsTail
  <1>2. Fifo!Drop
    BY <1>1 DEF PushEnter, Evict, Fifo!Drop, Lossy, history
  <1> QED
    BY <1>2 DEF Fifo!FifoNext

\* pop_front is the abstract Take.
LEMMA PopIsTake ==
    ASSUME NEW c \in Consumers, PopFront(c), UNCHANGED <<policy_, stopped_>>
    PROVE  Fifo!FifoNext
  <1>1. Fifo!Take
    BY DEF PopFront, HasData, Fifo!Take, Lossy
  <1> QED
    BY <1>1 DEF Fifo!FifoNext

\* Every step of the queue is a step of the abstract FIFO or changes nothing it sees.
LEMMA StepRefines == IInv /\ [Next]_vars => [Fifo!FifoNext]_(Fifo!fifoVars)
  <1> SUFFICES ASSUME IInv, [Next]_vars
               PROVE  Fifo!FifoNext \/ UNCHANGED Fifo!fifoVars
    OBVIOUS
  <1> USE DEF Fifo!fifoVars, Lossy, history
  <1>1. ASSUME NEW p \in Producers, PushCall(p)
        PROVE  UNCHANGED Fifo!fifoVars
    BY <1>1 DEF PushCall
  <1>2. ASSUME NEW p \in Producers, PushEnter(p)
        PROVE  Fifo!FifoNext \/ UNCHANGED Fifo!fifoVars
    <2>1. CASE GiveUp(p) \/ GoInsert(p) \/ AboutToSleep(p)
      BY <1>2, <2>1 DEF PushEnter, GiveUp, GoInsert, AboutToSleep
    <2>2. CASE ~stopped_ /\ Full /\ policy_ \in {"DropOldest", "Compact"} /\ Evict(p)
      BY <1>2, <2>2, EvictIsDrop
    <2> QED
      BY <1>2, <2>1, <2>2 DEF PushEnter
  <1>3. ASSUME NEW p \in Producers, PushInsert(p)
        PROVE  Fifo!FifoNext
    BY <1>3, InsertIsPut
  <1>4. ASSUME NEW p \in Producers, PushSleep(p) \/ PushWake(p)
        PROVE  UNCHANGED Fifo!fifoVars
    BY <1>4 DEF PushSleep, PushWake, GiveUp, GoInsert, AboutToSleep
  <1>5. ASSUME NEW c \in Consumers,
               TryPop(c) \/ WaitAndPop(c) \/ PopWake(c) \/ PopTimedOut(c)
        PROVE  Fifo!FifoNext \/ UNCHANGED Fifo!fifoVars
    <2>1. UNCHANGED <<policy_, stopped_>>
      BY <1>5 DEF TryPop, WaitAndPop, PopWake, PopTimedOut
    <2>2. CASE PopFront(c)
      BY <2>1, <2>2, PopIsTake
    <2>3. CASE ReturnEmpty(c) \/ AboutToSleep(c)
      BY <2>1, <2>3 DEF ReturnEmpty, AboutToSleep
    <2> QED
      BY <1>5, <2>2, <2>3 DEF TryPop, WaitAndPop, PopWake, PopTimedOut
  <1>6. ASSUME NEW c \in Consumers, PopSleep(c) \/ Timeout(c)
        PROVE  UNCHANGED Fifo!fifoVars
    BY <1>6 DEF PopSleep, Timeout
  <1>7. ASSUME NEW t \in Threads, SpuriousWake(t)
        PROVE  UNCHANGED Fifo!fifoVars
    BY <1>7 DEF SpuriousWake
  <1>8. CASE StopStore
    BY <1>8 DEF StopStore, Fifo!FifoNext, Fifo!Close
  <1>9. CASE StopNotifyData \/ StopNotifySpace
    BY <1>9 DEF StopNotifyData, StopNotifySpace
  <1>10. CASE UNCHANGED vars
    BY <1>10 DEF vars
  <1> QED
    BY <1>1, <1>2, <1>3, <1>4, <1>5, <1>6, <1>7, <1>8, <1>9, <1>10 DEF Next, Push, Pop, Stop

\* BoundedThreadsafeQueue implements the abstract bounded FIFO for every capacity and
\* every number of threads: items come out once and in order, only a full lossy queue
\* drops its oldest, and at most one item gets in after Stop.
THEOREM Refinement == Spec => ImplementsFifo
  BY InitRefines, Inductive, StepRefines, PTL DEF Spec, ImplementsFifo, Fifo!FifoSpec

-----------------------------------------------------------------------------
(* No wake-up is lost. *)

\* Who is about to sleep holds mu_, so what its predicate found is still so.
BlockInv ==
    /\ \A c \in Consumers : pc[c] = "block" => Len(queue_) = 0
    /\ \A p \in Producers : pc[p] = "block" => max_size_ <= Len(queue_)

\* Push waits only under Block, the policy that never evicts.
PolicyInv == \A p \in Producers : pc[p] \in {"block", "asleep"} => policy_ = "Block"

WakeInv == BlockInv /\ PolicyInv /\ NoLostWakeup

\* A number of elements or slots covered by the threads in A is covered by those in B: it is
\* no longer positive, or at most one thread left with one of them, or one more came with one.
LEMMA Covered ==
    ASSUME NEW S, IsFiniteSet(S), NEW A \in SUBSET S, NEW B \in SUBSET S,
           NEW n \in Int, NEW k \in Int, n <= Cardinality(A),
           \/ k <= 0
           \/ k <= n /\ A \subseteq B
           \/ k <= n - 1 /\ \E x : A \ {x} \subseteq B
           \/ k <= n + 1 /\ \E x : x \notin A /\ A \cup {x} \subseteq B
    PROVE  k <= Cardinality(B)
  <1>1. IsFiniteSet(A) /\ IsFiniteSet(B)
    BY FS_Subset
  <1> DEFINE a == Cardinality(A)
             b == Cardinality(B)
  <1>2. a \in Nat /\ b \in Nat
    BY <1>1, FS_CardinalityType
  <1>3. CASE k <= 0
    BY <1>2, <1>3
  <1>4. CASE k <= n /\ A \subseteq B
    <2>1. a <= b
      BY <1>1, <1>4, FS_Subset
    <2> HIDE DEF a, b
    <2>2. n <= a
      BY DEF a
    <2> QED
      BY <1>2, <1>4, <2>1, <2>2 DEF b
  <1>5. CASE k <= n - 1 /\ \E x : A \ {x} \subseteq B
    <2>1. PICK x : A \ {x} \subseteq B
      BY <1>5
    <2> DEFINE r == Cardinality(A \ {x})
    <2>2. r = IF x \in A THEN a - 1 ELSE a
      BY <1>1, FS_RemoveElement
    <2>3. r <= b
      BY <1>1, <2>1, FS_Subset
    <2> HIDE DEF a, b, r
    <2>4. n <= a
      BY DEF a
    <2> QED
      BY <1>2, <1>5, <2>2, <2>3, <2>4 DEF b
  <1>6. CASE k <= n + 1 /\ \E x : x \notin A /\ A \cup {x} \subseteq B
    <2>1. PICK x : x \notin A /\ A \cup {x} \subseteq B
      BY <1>6
    <2> DEFINE r == Cardinality(A \cup {x})
    <2>2. r = a + 1
      BY <1>1, <2>1, FS_AddElement
    <2>3. r <= b
      BY <1>1, <2>1, FS_Subset
    <2> HIDE DEF a, b, r
    <2>4. n <= a
      BY DEF a
    <2> QED
      BY <1>2, <1>6, <2>2, <2>3, <2>4 DEF b
  <1> QED
    BY <1>3, <1>4, <1>5, <1>6

\* The shapes of step under which no consumer's wake-up is lost.
LEMMA DataKept ==
    ASSUME NoLostDataWakeup, Len(queue_) \in Nat, Len(queue_') \in Nat,
           data_cond' # {} =>
             LET A == Coming(Consumers, data_cond)
                 B == Coming(Consumers, data_cond)'
             IN  \/ Len(queue_') = 0
                 \/ /\ data_cond # {}
                    /\ \/ Len(queue_') <= Len(queue_) /\ A \subseteq B
                       \/ Len(queue_') <= Len(queue_) - 1 /\ \E x : A \ {x} \subseteq B
                       \/ Len(queue_') <= Len(queue_) + 1
                          /\ \E x : x \notin A /\ A \cup {x} \subseteq B
    PROVE  NoLostDataWakeup'
  <1> SUFFICES ASSUME data_cond' # {}
               PROVE  Len(queue_') <= Cardinality(Coming(Consumers, data_cond)')
    BY DEF NoLostDataWakeup
  <1> DEFINE A == Coming(Consumers, data_cond)
             B == Coming(Consumers, data_cond)'
             n == Len(queue_)
             k == Len(queue_')
  <1>1. IsFiniteSet(Consumers) /\ A \in SUBSET Consumers /\ B \in SUBSET Consumers
    BY QueueAssumption DEF Coming
  <1>2. data_cond # {} => n <= Cardinality(A)
    BY DEF NoLostDataWakeup
  <1>3. n \in Int /\ k \in Int /\ n \in Nat /\ k \in Nat
    OBVIOUS
  <1>4. \/ k = 0
        \/ /\ data_cond # {}
           /\ \/ k <= n /\ A \subseteq B
              \/ k <= n - 1 /\ \E x : A \ {x} \subseteq B
              \/ k <= n + 1 /\ \E x : x \notin A /\ A \cup {x} \subseteq B
    OBVIOUS
  <1> HIDE DEF A, B, n, k
  <1>5. k <= Cardinality(B)
    <2>1. CASE k = 0
      <3>1. Cardinality(B) \in Nat
        BY <1>1, FS_Subset, FS_CardinalityType
      <3> QED
        BY <2>1, <3>1
    <2>2. CASE data_cond # {} /\ k # 0
      BY <1>1, <1>2, <1>3, <1>4, <2>2, Covered
    <2> QED
      BY <1>4, <2>1, <2>2
  <1> QED
    BY <1>5 DEF k, B

\* The same for producers, who wait for slots.
LEMMA SpaceKept ==
    ASSUME NoLostSpaceWakeup, Len(queue_) \in Nat, Len(queue_') \in Nat,
           ~stopped_' /\ space_cond' # {} =>
             LET A == Coming(Producers, space_cond)
                 B == Coming(Producers, space_cond)'
             IN  \/ max_size_ <= Len(queue_')
                 \/ /\ ~stopped_ /\ space_cond # {}
                    /\ \/ Len(queue_') >= Len(queue_) /\ A \subseteq B
                       \/ Len(queue_') >= Len(queue_) + 1 /\ \E x : A \ {x} \subseteq B
                       \/ Len(queue_') >= Len(queue_) - 1
                          /\ \E x : x \notin A /\ A \cup {x} \subseteq B
    PROVE  NoLostSpaceWakeup'
  <1> SUFFICES ASSUME ~stopped_', space_cond' # {}
               PROVE  max_size_ - Len(queue_') <= Cardinality(Coming(Producers, space_cond)')
    BY DEF NoLostSpaceWakeup
  <1> DEFINE A == Coming(Producers, space_cond)
             B == Coming(Producers, space_cond)'
             n == max_size_ - Len(queue_)
             k == max_size_ - Len(queue_')
  <1>1. IsFiniteSet(Producers) /\ A \in SUBSET Producers /\ B \in SUBSET Producers
    BY QueueAssumption DEF Coming
  <1>2. ~stopped_ /\ space_cond # {} => n <= Cardinality(A)
    BY DEF NoLostSpaceWakeup
  <1>3. n \in Int /\ k \in Int
    BY Constants
  <1>4. \/ k <= 0
        \/ /\ ~stopped_ /\ space_cond # {}
           /\ \/ k <= n /\ A \subseteq B
              \/ k <= n - 1 /\ \E x : A \ {x} \subseteq B
              \/ k <= n + 1 /\ \E x : x \notin A /\ A \cup {x} \subseteq B
    <2>1. /\ max_size_ <= Len(queue_') => k <= 0
          /\ Len(queue_') >= Len(queue_) => k <= n
          /\ Len(queue_') >= Len(queue_) + 1 => k <= n - 1
          /\ Len(queue_') >= Len(queue_) - 1 => k <= n + 1
      BY Constants
    <2> HIDE DEF n, k
    <2> QED
      BY <2>1
  <1> HIDE DEF A, B, n, k
  <1>5. k <= Cardinality(B)
    <2>1. CASE k <= 0
      <3>1. Cardinality(B) \in Nat
        BY <1>1, FS_Subset, FS_CardinalityType
      <3> QED
        BY <1>3, <2>1, <3>1
    <2>2. CASE ~stopped_ /\ space_cond # {} /\ ~(k <= 0)
      BY <1>1, <1>2, <1>3, <1>4, <2>2, Covered
    <2> QED
      BY <1>4, <2>1, <2>2
  <1> QED
    BY <1>5 DEF k, B

\* The deque has a length before and after a step that keeps IInv.
LEMMA Lengths == ASSUME IInv, IInv' PROVE Len(queue_) \in Nat /\ Len(queue_') \in Nat
  BY LenProperties DEF IInv, TypeOK

\* While mu_ is free nobody is about to insert or to sleep.
LEMMA NobodyInside ==
    ASSUME IInv, mu_ = {}
    PROVE  \A t \in Threads : pc[t] \notin {"insert", "block"}
  BY DEF IInv, MutexInv

\* An empty queue with nobody in it: nobody sleeps.
LEMMA InitWake == Init => WakeInv
  BY Constants DEF Init, WakeInv, BlockInv, PolicyInv, NoLostWakeup, NoLostDataWakeup,
                   NoLostSpaceWakeup

\* A pop takes an element with its own wake-up, if it had one, and wakes a producer.
LEMMA PopFrontWake ==
    ASSUME IInv, IInv', WakeInv, NEW c \in Consumers, mu_ = {}, PopFront(c),
           UNCHANGED <<policy_, stopped_, data_cond, calls, stop_pc>>
    PROVE  WakeInv'
  <1>1. c \in Threads /\ c \notin Producers /\ pc' = [pc EXCEPT ![c] = "idle"]
    BY Constants DEF PopFront, Goto
  <1>2. Len(queue_) \in Nat /\ Len(queue_') \in Nat /\ Len(queue_') = Len(queue_) - 1
    BY Lengths, TailFacts DEF PopFront, HasData, IInv, TypeOK
  <1>3. \A t \in Threads : pc'[t] = IF t = c THEN "idle" ELSE pc[t]
    BY <1>1 DEF IInv, TypeOK
  <1>4. BlockInv' /\ PolicyInv'
    BY <1>3, NobodyInside, Constants DEF BlockInv, PolicyInv, WakeInv
  <1>5. Coming(Consumers, data_cond) \ {c} \subseteq Coming(Consumers, data_cond)'
    BY <1>3, Constants DEF Coming
  <1>6. NoLostDataWakeup'
    BY <1>2, <1>5, DataKept DEF WakeInv, NoLostWakeup
  <1>7. NoLostSpaceWakeup'
    <2>1. CASE space_cond' = {}
      BY <2>1 DEF NoLostSpaceWakeup
    <2>2. CASE space_cond' # {}
      <3>1. PICK t \in space_cond : space_cond' = space_cond \ {t}
        BY <2>2 DEF PopFront, NotifySpace, NotifyOne
      <3>2. t \in Producers /\ pc[t] = "asleep"
        BY DEF IInv, TypeOK, SleepInv
      <3>3. t \notin Coming(Producers, space_cond)
        BY DEF Coming
      <3>4. Coming(Producers, space_cond) \cup {t} \subseteq Coming(Producers, space_cond)'
        BY <1>1, <1>3, <3>1, <3>2, Constants DEF Coming
      <3>5. Len(queue_') >= Len(queue_) - 1
        BY <1>2
      <3>6. space_cond # {} /\ stopped_' = stopped_ /\ NoLostSpaceWakeup
        BY <3>1 DEF WakeInv, NoLostWakeup
      <3>7. \E x : /\ x \notin Coming(Producers, space_cond)
                   /\ Coming(Producers, space_cond) \cup {x}
                        \subseteq Coming(Producers, space_cond)'
        BY <3>3, <3>4
      <3> QED
        BY <1>2, <3>5, <3>6, <3>7, SpaceKept
    <2> QED
      BY <2>1, <2>2
  <1> QED
    BY <1>4, <1>6, <1>7 DEF WakeInv, NoLostWakeup

\* A pop that finds nothing returns or goes to sleep beside an empty deque.
LEMMA PopNothingWake ==
    ASSUME IInv, IInv', WakeInv, NEW c \in Consumers, mu_ = {}, queue_ = <<>>,
           ReturnEmpty(c) \/ AboutToSleep(c),
           UNCHANGED <<policy_, stopped_, data_cond, calls, stop_pc>>
    PROVE  WakeInv'
  <1>1. /\ UNCHANGED <<queue_, space_cond>> /\ c \in Threads /\ c \notin Producers
        /\ \E l \in {"idle", "block"} : pc' = [pc EXCEPT ![c] = l]
    BY Constants DEF ReturnEmpty, AboutToSleep, Goto
  <1>2. Len(queue_) = 0 /\ Len(queue_') = 0
    BY <1>1
  <1>3. \A t \in Threads : t # c => pc'[t] = pc[t]
    BY <1>1 DEF IInv, TypeOK
  <1>4. BlockInv' /\ PolicyInv'
    BY <1>1, <1>2, <1>3, Constants DEF BlockInv, PolicyInv, WakeInv
  <1>5. NoLostDataWakeup'
    BY <1>2, DataKept DEF WakeInv, NoLostWakeup
  <1>6. Coming(Producers, space_cond)' = Coming(Producers, space_cond)
    BY <1>1, <1>3, Constants DEF Coming
  <1>7. NoLostSpaceWakeup'
    BY <1>1, <1>6 DEF NoLostSpaceWakeup, WakeInv, NoLostWakeup
  <1> QED
    BY <1>4, <1>5, <1>7 DEF WakeInv, NoLostWakeup

\* Every pop that gets mu_.
LEMMA PopWakeKept ==
    ASSUME IInv, IInv', WakeInv, NEW c \in Consumers,
           TryPop(c) \/ WaitAndPop(c) \/ PopWake(c) \/ PopTimedOut(c)
    PROVE  WakeInv'
  <1>1. mu_ = {} /\ UNCHANGED <<policy_, stopped_, data_cond, calls, stop_pc>>
    BY DEF TryPop, WaitAndPop, PopWake, PopTimedOut
  <1>2. PopFront(c) \/ (queue_ = <<>> /\ (ReturnEmpty(c) \/ AboutToSleep(c)))
    BY DEF TryPop, WaitAndPop, PopWake, PopTimedOut
  <1> QED
    BY <1>1, <1>2, PopFrontWake, PopNothingWake

\* A consumer falls asleep with the deque still empty; a deadline brings one back.
LEMMA PopSleepWake ==
    ASSUME IInv, IInv', WakeInv, NEW c \in Consumers, PopSleep(c) \/ Timeout(c)
    PROVE  WakeInv'
  <1>1. /\ UNCHANGED <<queue_, space_cond, policy_, stopped_>>
        /\ c \in Threads /\ c \notin Producers
        /\ \A t \in Threads : t # c => pc'[t] = pc[t]
        /\ pc'[c] \in {"asleep", "timed_out"}
    BY Constants DEF PopSleep, Timeout, Goto, IInv, TypeOK
  <1>2. BlockInv' /\ PolicyInv'
    BY <1>1, Constants DEF BlockInv, PolicyInv, WakeInv
  <1>3. NoLostDataWakeup'
    <2>1. CASE PopSleep(c)
      <3>1. Len(queue_') = 0
        BY <1>1, <2>1 DEF PopSleep, WakeInv, BlockInv
      <3> QED
        BY <3>1, Lengths, DataKept DEF WakeInv, NoLostWakeup
    <2>2. CASE Timeout(c)
      <3>1. data_cond # {} /\ data_cond' \subseteq data_cond
        BY <2>2 DEF Timeout
      <3>2. Coming(Consumers, data_cond) \subseteq Coming(Consumers, data_cond)'
        BY <1>1, <3>1, Constants DEF Coming
      <3> QED
        BY <1>1, <3>1, <3>2, Lengths, DataKept DEF WakeInv, NoLostWakeup
    <2> QED
      BY <2>1, <2>2
  <1>4. Coming(Producers, space_cond)' = Coming(Producers, space_cond)
    BY <1>1, Constants DEF Coming
  <1>5. NoLostSpaceWakeup'
    BY <1>1, <1>4 DEF NoLostSpaceWakeup, WakeInv, NoLostWakeup
  <1> QED
    BY <1>2, <1>3, <1>5 DEF WakeInv, NoLostWakeup

\* A step of a Push that leaves the deque alone: consumers see no difference.
LEMMA SameForConsumers ==
    ASSUME IInv, WakeInv, NEW p \in Producers, UNCHANGED <<queue_, data_cond>>,
           \A t \in Threads : t # p => pc'[t] = pc[t]
    PROVE  NoLostDataWakeup'
  <1>1. Coming(Consumers, data_cond)' = Coming(Consumers, data_cond)
    BY Constants DEF Coming
  <1> QED
    BY <1>1 DEF NoLostDataWakeup, WakeInv, NoLostWakeup

\* Push is called, gives up or goes on to insert.
LEMMA PushMovesWake ==
    ASSUME IInv, IInv', WakeInv, NEW p \in Producers,
           \/ PushCall(p)
           \/ /\ pc[p] \in {"push", "asleep"} /\ p \notin space_cond
              /\ \/ (stopped_ \/ pc[p] = "push") /\ GiveUp(p)
                 \/ GoInsert(p)
              /\ UNCHANGED <<policy_, stopped_, data_cond, calls, stop_pc>>
    PROVE  WakeInv'
  <1>1. /\ UNCHANGED <<queue_, data_cond, space_cond, policy_, stopped_>>
        /\ \E l \in {"push", "idle", "insert"} : Goto(p, l)
        /\ p \in Threads /\ p \notin Consumers
    BY Constants DEF PushCall, GiveUp, GoInsert
  <1>2. /\ \A t \in Threads : t # p => pc'[t] = pc[t]
        /\ pc'[p] \in {"push", "idle", "insert"}
    BY <1>1 DEF Goto, IInv, TypeOK
  <1>3. BlockInv' /\ PolicyInv'
    BY <1>1, <1>2, Constants DEF BlockInv, PolicyInv, WakeInv
  <1>4. NoLostDataWakeup'
    BY <1>1, <1>2, SameForConsumers
  <1>5. ~stopped_ => Coming(Producers, space_cond) \subseteq Coming(Producers, space_cond)'
    <2>1. CASE GoInsert(p)
      <3>1. pc'[p] = "insert"
        BY <1>1, <2>1 DEF GoInsert, Goto, IInv, TypeOK
      <3> QED
        BY <1>1, <1>2, <3>1, Constants DEF Coming
    <2>2. CASE pc[p] \in {"push", "idle"}
      BY <1>1, <1>2, <2>2, Constants DEF Coming
    <2> QED
      BY <2>1, <2>2 DEF PushCall
  <1>6. Len(queue_') >= Len(queue_) /\ NoLostSpaceWakeup
    BY <1>1, Lengths DEF WakeInv, NoLostWakeup
  <1>7. NoLostSpaceWakeup'
    BY <1>1, <1>5, <1>6, Lengths, SpaceKept
  <1> QED
    BY <1>3, <1>4, <1>7 DEF WakeInv, NoLostWakeup

\* Push finds the queue full and goes to sleep, while it still is.
LEMMA PushBlocksWake ==
    ASSUME IInv, IInv', WakeInv, NEW p \in Producers,
           \/ /\ Full /\ policy_ = "Block" /\ AboutToSleep(p)
              /\ UNCHANGED <<policy_, stopped_, data_cond, calls, stop_pc>>
           \/ PushSleep(p)
    PROVE  WakeInv'
  <1>1. /\ UNCHANGED <<queue_, data_cond, policy_, stopped_>>
        /\ \E l \in {"block", "asleep"} : Goto(p, l)
        /\ p \in Threads /\ p \notin Consumers
    BY Constants DEF AboutToSleep, PushSleep
  <1>2. \A t \in Threads : t # p => pc'[t] = pc[t]
    BY <1>1 DEF Goto, IInv, TypeOK
  <1>3. max_size_ <= Len(queue_) /\ policy_ = "Block"
    BY Lengths, Constants DEF Full, PushSleep, BlockInv, PolicyInv, WakeInv
  <1>4. BlockInv' /\ PolicyInv'
    BY <1>1, <1>2, <1>3, Constants DEF BlockInv, PolicyInv, WakeInv
  <1>5. NoLostDataWakeup'
    BY <1>1, <1>2, SameForConsumers
  <1>6. NoLostSpaceWakeup'
    BY <1>1, <1>3, Lengths, SpaceKept DEF WakeInv, NoLostWakeup
  <1> QED
    BY <1>4, <1>5, <1>6 DEF WakeInv, NoLostWakeup

\* Eviction shortens the deque; it happens under policies with which no producer sleeps.
LEMMA EvictWake ==
    ASSUME IInv, IInv', WakeInv, NEW p \in Producers, mu_ = {}, Full, policy_ # "Block", Evict(p),
           UNCHANGED <<policy_, stopped_, data_cond, calls, stop_pc>>
    PROVE  WakeInv'
  <1>1. p \in Threads /\ p \notin Consumers /\ space_cond' = space_cond
    BY Constants DEF Evict
  <1>2. /\ \A t \in Threads : t # p => pc'[t] = pc[t]
        /\ pc'[p] = "insert"
    BY <1>1 DEF Evict, Goto, IInv, TypeOK
  <1>3. Len(queue_') <= Len(queue_)
    BY EvictIsTail, TailFacts, Lengths DEF IInv, TypeOK
  <1>4. BlockInv' /\ PolicyInv'
    BY <1>2, NobodyInside, Constants DEF BlockInv, PolicyInv, WakeInv
  <1>5. Coming(Consumers, data_cond)' = Coming(Consumers, data_cond)
    BY <1>1, <1>2, Constants DEF Coming
  <1>6. NoLostDataWakeup'
    BY <1>3, <1>5, Lengths, DataKept DEF WakeInv, NoLostWakeup
  <1>7. space_cond = {}
    BY DEF IInv, TypeOK, SleepInv, WakeInv, PolicyInv
  <1> QED
    BY <1>1, <1>4, <1>6, <1>7 DEF WakeInv, NoLostWakeup, NoLostSpaceWakeup

\* push_back adds an element and wakes a consumer for it.
LEMMA PushInsertWake ==
    ASSUME IInv, IInv', WakeInv, NEW p \in Producers, PushInsert(p)
    PROVE  WakeInv'
  <1>1. p \in Threads /\ p \notin Consumers /\ p \in mu_
    BY Constants DEF PushInsert, IInv, MutexInv
  <1>2. /\ \A t \in Threads : pc'[t] = IF t = p THEN "idle" ELSE pc[t]
        /\ UNCHANGED <<space_cond, stopped_, policy_>>
    BY <1>1 DEF PushInsert, Goto, IInv, TypeOK
  <1>3. Len(queue_') = Len(queue_) + 1
    <2>1. <<p, calls[p]>> \in Items
      BY PushedItem DEF PushInsert
    <2> DEFINE item == <<p, calls[p]>>
    <2>2. queue_' = Append(queue_, item)
      BY DEF PushInsert
    <2> HIDE DEF item
    <2> QED
      BY <2>1, <2>2, AppendFacts DEF IInv, TypeOK, item
  <1>4. \A t \in Threads : pc[t] # "block"
    BY <1>1 DEF PushInsert, IInv, MutexInv
  <1>5. BlockInv' /\ PolicyInv'
    BY <1>2, <1>4, Constants DEF BlockInv, PolicyInv, WakeInv
  <1>6. NoLostDataWakeup'
    <2>1. CASE data_cond' = {}
      BY <2>1 DEF NoLostDataWakeup
    <2>2. CASE data_cond' # {}
      <3>1. PICK t \in data_cond : data_cond' = data_cond \ {t}
        BY <2>2 DEF PushInsert, NotifyData, NotifyOne
      <3>2. t \in Consumers /\ pc[t] = "asleep"
        BY DEF IInv, TypeOK, SleepInv
      <3>3. t \notin Coming(Consumers, data_cond)
        BY DEF Coming
      <3>4. Coming(Consumers, data_cond) \cup {t} \subseteq Coming(Consumers, data_cond)'
        BY <1>1, <1>2, <3>1, <3>2, Constants DEF Coming
      <3>5. Len(queue_') <= Len(queue_) + 1 /\ data_cond # {} /\ NoLostDataWakeup
        BY <1>3, <3>1, Lengths DEF WakeInv, NoLostWakeup
      <3>6. \E x : /\ x \notin Coming(Consumers, data_cond)
                   /\ Coming(Consumers, data_cond) \cup {x} \subseteq Coming(Consumers, data_cond)'
        BY <3>3, <3>4
      <3> QED
        BY <3>5, <3>6, Lengths, DataKept
    <2> QED
      BY <2>1, <2>2
  <1>7. Coming(Producers, space_cond) \ {p} \subseteq Coming(Producers, space_cond)'
    BY <1>2, Constants DEF Coming
  <1>8. Len(queue_') >= Len(queue_) + 1 /\ NoLostSpaceWakeup
    BY <1>3, Lengths DEF WakeInv, NoLostWakeup
  <1>9. NoLostSpaceWakeup'
    BY <1>2, <1>7, <1>8, Lengths, SpaceKept
  <1> QED
    BY <1>5, <1>6, <1>9 DEF WakeInv, NoLostWakeup

\* Every step of a Push.
LEMMA PushWakeKept ==
    ASSUME IInv, IInv', WakeInv, NEW p \in Producers, PushCall(p) \/ Push(p)
    PROVE  WakeInv'
  <1>1. CASE PushEnter(p)
    <2>1. pc[p] = "push" /\ mu_ = {} /\ p \notin space_cond
          /\ UNCHANGED <<policy_, stopped_, data_cond, calls, stop_pc>>
      BY <1>1 DEF PushEnter, IInv, SleepInv
    <2>2. CASE GiveUp(p) \/ GoInsert(p)
      BY <2>1, <2>2, PushMovesWake
    <2>3. CASE Full /\ policy_ = "Block" /\ AboutToSleep(p)
      BY <2>1, <2>3, PushBlocksWake
    <2>4. CASE Full /\ policy_ \in {"DropOldest", "Compact"} /\ Evict(p)
      BY <2>1, <2>4, EvictWake
    <2> QED
      BY <1>1, <2>2, <2>3, <2>4 DEF PushEnter
  <1>2. CASE PushWake(p)
    <2>1. pc[p] = "asleep" /\ p \notin space_cond
          /\ UNCHANGED <<policy_, stopped_, data_cond, calls, stop_pc>>
      BY <1>2 DEF PushWake
    <2>2. CASE (stopped_ /\ GiveUp(p)) \/ GoInsert(p)
      BY <2>1, <2>2, PushMovesWake
    <2>3. CASE Full /\ AboutToSleep(p)
      <3>1. policy_ = "Block"
        BY <2>1 DEF WakeInv, PolicyInv
      <3> QED
        BY <2>1, <2>3, <3>1, PushBlocksWake
    <2> QED
      BY <1>2, <2>2, <2>3 DEF PushWake
  <1> QED
    BY <1>1, <1>2, PushMovesWake, PushBlocksWake, PushInsertWake DEF Push

\* A wake-up for no reason and the steps of Stop only bring more threads back.
LEMMA WakeAndStopWake ==
    ASSUME IInv, IInv', WakeInv, (\E t \in Threads : SpuriousWake(t)) \/ Stop
    PROVE  WakeInv'
  <1>1. /\ UNCHANGED <<policy_, queue_, pc>>
        /\ data_cond' \subseteq data_cond /\ space_cond' \subseteq space_cond
        /\ stopped_ => stopped_'
    BY DEF SpuriousWake, Stop, StopStore, StopNotifyData, StopNotifySpace, IInv, TypeOK
  <1>2. BlockInv' /\ PolicyInv'
    BY <1>1 DEF BlockInv, PolicyInv, WakeInv
  <1>3. /\ Coming(Consumers, data_cond) \subseteq Coming(Consumers, data_cond)'
        /\ Coming(Producers, space_cond) \subseteq Coming(Producers, space_cond)'
    BY <1>1 DEF Coming
  <1>4. Len(queue_') <= Len(queue_) /\ Len(queue_') >= Len(queue_)
        /\ NoLostDataWakeup /\ NoLostSpaceWakeup
    BY <1>1, Lengths DEF WakeInv, NoLostWakeup
  <1>5. NoLostDataWakeup'
    BY <1>1, <1>3, <1>4, Lengths, DataKept
  <1>6. NoLostSpaceWakeup'
    BY <1>1, <1>3, <1>4, Lengths, SpaceKept
  <1> QED
    BY <1>2, <1>5, <1>6 DEF WakeInv, NoLostWakeup

\* With IInv, WakeInv is inductive.
LEMMA NextWake == IInv /\ IInv' /\ WakeInv /\ [Next]_vars => WakeInv'
  <1> SUFFICES ASSUME IInv, IInv', WakeInv, [Next]_vars PROVE WakeInv'
    OBVIOUS
  <1>1. ASSUME NEW p \in Producers, PushCall(p) \/ Push(p) PROVE WakeInv'
    BY <1>1, PushWakeKept
  <1>2. ASSUME NEW c \in Consumers, TryPop(c) \/ Pop(c) \/ Timeout(c) PROVE WakeInv'
    BY <1>2, PopWakeKept, PopSleepWake DEF Pop
  <1>3. CASE (\E t \in Threads : SpuriousWake(t)) \/ Stop
    BY <1>3, WakeAndStopWake
  <1>4. CASE UNCHANGED vars
    BY <1>4 DEF vars, WakeInv, BlockInv, PolicyInv, NoLostWakeup, NoLostDataWakeup,
                NoLostSpaceWakeup, Coming
  <1> QED
    BY <1>1, <1>2, <1>3, <1>4 DEF Next

\* No wake-up is lost, for any number of producers and consumers, timeouts and spurious
\* wake-ups: nobody sleeps beside an element or a slot that nobody is coming for.
THEOREM WakeUps == Spec => []NoLostWakeup
  <1>1. Spec => []WakeInv
    BY InitWake, Inductive, NextWake, PTL DEF Spec
  <1>2. WakeInv => NoLostWakeup
    BY DEF WakeInv
  <1> QED
    BY <1>1, <1>2, PTL
=============================================================================

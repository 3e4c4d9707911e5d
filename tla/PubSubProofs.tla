---------------------------- MODULE PubSubProofs ----------------------------
(***************************************************************************)
(* Theorems about PubSub for any number of subscribers, workers and sets.  *)
(*                                                                         *)
(* A change is in one place: to come, in the work queue, or the task of    *)
(* one worker (TaskInv), and has been told to nobody before its walk       *)
(* begins (FreshInv).  A walk has told it to the subscribers up to its     *)
(* node that were there when it was made and to none ahead of it           *)
(* (WalkInv), which survives others coming and going because they come in  *)
(* behind it and nobody leaves from under it (PlaceInv).                   *)
(***************************************************************************)
EXTENDS PubSub, SequenceTheorems, TLAPS

Changes == 1..MaxSets

\* The nodes of the list by position; its head is at 0.
NodeAt(i) == IF i = 0 THEN Top ELSE callbacks[i]

Listed(s) == \E i \in 1..Len(callbacks) : callbacks[i] = s

ListInv ==
    /\ \A i, j \in 1..Len(callbacks) : callbacks[i] = callbacks[j] => i = j
    /\ \A s \in Subscribers : Listed(s) <=> sub[s] \in {"in", "leaving"}
    /\ \A s, u \in Subscribers : sub[s] = "leaving" /\ sub[u] = "leaving" => s = u

PlaceInv ==
    /\ \A x \in Walkers : at[x] # Nowhere => \E i \in 0..Len(callbacks) : at[x] = NodeAt(i)
    /\ \A x, y \in Walkers : at[x] = at[y] /\ at[x] # Nowhere => x = y
    /\ \A s \in Subscribers : sub[s] # "leaving" => at[s] = Nowhere
    /\ \A w \in Workers : at[w] # Nowhere => list_ptr[w] # 0
    /\ \A w \in Workers : list_ptr[w] # 0 => worker[w] = "running"

Queued(v) == \E i \in 1..Len(work_queue) : work_queue[i] = v
Tells(w, v) == worker[w] = "running" /\ task[w] = v

TaskInv ==
    /\ \A i \in 1..Len(work_queue) : work_queue[i] \in 1..sets
    /\ \A i, j \in 1..Len(work_queue) : work_queue[i] = work_queue[j] => i = j
    /\ \A w \in Workers : worker[w] = "running" =>
        /\ task[w] \in 1..sets
        /\ \A i \in 1..Len(work_queue) : work_queue[i] # task[w]
    /\ \A w, z \in Workers :
        worker[w] = "running" /\ worker[z] = "running" /\ task[w] = task[z] => w = z

\* The changes no walk has begun to tell.
Untold(v) ==
    \/ v \notin 1..sets
    \/ Queued(v)
    \/ \E w \in Workers : Tells(w, v) /\ at[w] = Nowhere

FreshInv ==
    /\ \A v \in Changes, s \in Subscribers : Untold(v) => told[s][v] = 0
    /\ \A v \in Changes, s \in Subscribers : sub[s] = "new" => told[s][v] = 0

WalkOf(w) ==
    \A i \in 0..Len(callbacks) : at[w] = NodeAt(i) =>
        /\ \A j \in (i + 1)..Len(callbacks) : told[callbacks[j]][task[w]] = 0
        /\ \A j \in 1..i :
            since[callbacks[j]] < task[w] => told[callbacks[j]][task[w]] = 1

WalkInv == \A w \in Workers : at[w] # Nowhere => WalkOf(w)

\* A change that concerns a subscriber and is over has been told to it.
Settled(s, v) ==
    \/ told[s][v] = 1
    \/ v \in cut
    \/ Queued(v)
    \/ \E w \in Workers : Tells(w, v)
    \/ done

SettledInv ==
    \A s \in Subscribers, v \in Changes :
        sub[s] \in {"in", "leaving"} /\ since[s] < v /\ v <= sets => Settled(s, v)

IInv ==
    /\ TypeOK
    /\ ListInv
    /\ PlaceInv
    /\ TaskInv
    /\ FreshInv
    /\ WalkInv
    /\ ToldOnce
    /\ SettledInv

-----------------------------------------------------------------------------
(* Sequences and the list. *)

\* Removing the only occurrence of an element closes the gap.
LEMMA RemoveFacts ==
    ASSUME NEW S, NEW s \in Seq(S), NEW k \in 1..Len(s),
           \A i \in 1..Len(s) : s[i] = s[k] => i = k
    PROVE  /\ RemoveFirst(s, s[k]) \in Seq(S)
           /\ Len(RemoveFirst(s, s[k])) = Len(s) - 1
           /\ \A i \in 1..(Len(s) - 1) :
                RemoveFirst(s, s[k])[i] = IF i < k THEN s[i] ELSE s[i + 1]
  <1>1. Len(s) \in Nat /\ \A i \in 1..Len(s) : s[i] \in S
    BY LenProperties
  <1> DEFINE I == {i \in 1..Len(s) : s[i] = s[k]}
  <1>2. I = {k}
    OBVIOUS
  <1>3. Min(I) = k
    <2>1. Min({k}) = k
      BY <1>1 DEF Min
    <2> QED
      BY <1>2, <2>1
  <1>4. RemoveFirst(s, s[k]) = RemoveAt(s, k)
    <2>1. SelectInSeq(s, LAMBDA v : v = s[k]) = k
      BY <1>2, <1>3 DEF SelectInSeq
    <2> QED
      BY <2>1 DEF RemoveFirst
  <1> DEFINE a == SubSeq(s, 1, k - 1)
             b == SubSeq(s, k + 1, Len(s))
  <1>5. /\ a \in Seq(S) /\ Len(a) = k - 1
        /\ \A i \in 1..(k - 1) : a[i] = s[i]
    BY <1>1, SubSeqProperties
  <1>6. /\ b \in Seq(S) /\ Len(b) = Len(s) - k
        /\ \A i \in 1..(Len(s) - k) : b[i] = s[k + i]
    BY <1>1, SubSeqProperties
  <1>7. RemoveAt(s, k) = a \o b
    BY DEF RemoveAt
  <1> HIDE DEF a, b
  <1>8. /\ a \o b \in Seq(S) /\ Len(a \o b) = Len(s) - 1
        /\ \A i \in 1..(Len(s) - 1) : (a \o b)[i] = IF i < k THEN s[i] ELSE s[i + 1]
    <2>1. /\ a \o b \in Seq(S) /\ Len(a \o b) = Len(a) + Len(b)
          /\ \A i \in 1..(Len(a) + Len(b)) :
                (a \o b)[i] = IF i <= Len(a) THEN a[i] ELSE b[i - Len(a)]
      BY <1>5, <1>6, ConcatProperties
    <2>2. Len(a) + Len(b) = Len(s) - 1
      BY <1>1, <1>5, <1>6
    <2>3. ASSUME NEW i \in 1..(Len(s) - 1), i < k PROVE (a \o b)[i] = s[i]
      <3>1. i \in 1..(Len(a) + Len(b)) /\ i <= Len(a) /\ i \in 1..(k - 1)
        BY <1>1, <1>5, <2>2, <2>3
      <3> QED
        BY <1>5, <2>1, <3>1
    <2>4. ASSUME NEW i \in 1..(Len(s) - 1), ~(i < k) PROVE (a \o b)[i] = s[i + 1]
      <3>1. i \in 1..(Len(a) + Len(b)) /\ ~(i <= Len(a))
        BY <1>1, <1>5, <2>2, <2>4
      <3>2. i - Len(a) \in 1..(Len(s) - k) /\ k + (i - Len(a)) = i + 1
        BY <1>1, <1>5, <2>4
      <3>3. (a \o b)[i] = b[i - Len(a)]
        BY <2>1, <3>1
      <3>4. b[i - Len(a)] = s[k + (i - Len(a))]
        BY <1>6, <3>2
      <3> QED
        BY <3>2, <3>3, <3>4
    <2> QED
      BY <2>1, <2>2, <2>3, <2>4
  <1> QED
    BY <1>4, <1>7, <1>8

\* Putting an element in front of a sequence.
LEMMA ConsFacts ==
    ASSUME NEW S, NEW s \in Seq(S), NEW e \in S
    PROVE  /\ <<e>> \o s \in Seq(S)
           /\ Len(<<e>> \o s) = Len(s) + 1
           /\ (<<e>> \o s)[1] = e
           /\ \A i \in 1..Len(s) : (<<e>> \o s)[i + 1] = s[i]
           /\ \A i \in 2..(Len(s) + 1) : (<<e>> \o s)[i] = s[i - 1]
  <1>1. <<e>> \in Seq(S) /\ Len(<<e>>) = 1 /\ <<e>>[1] = e /\ Len(s) \in Nat
    BY LenProperties
  <1> DEFINE r == <<e>> \o s
  <1>2. /\ r \in Seq(S)
        /\ Len(r) = Len(<<e>>) + Len(s)
        /\ \A i \in 1..(Len(<<e>>) + Len(s)) :
             r[i] = IF i <= Len(<<e>>) THEN <<e>>[i] ELSE s[i - Len(<<e>>)]
    BY <1>1, ConcatProperties
  <1> HIDE DEF r
  <1>3. /\ Len(r) = 1 + Len(s)
        /\ \A i \in 1..(1 + Len(s)) : r[i] = IF i <= 1 THEN <<e>>[i] ELSE s[i - 1]
    BY <1>1, <1>2
  <1>4. r[1] = e
    BY <1>1, <1>3
  <1>5. ASSUME NEW i \in 2..(Len(s) + 1) PROVE r[i] = s[i - 1]
    <2>1. i \in 1..(1 + Len(s)) /\ ~(i <= 1)
      BY <1>1, <1>5
    <2> QED
      BY <1>3, <2>1
  <1>6. ASSUME NEW i \in 1..Len(s) PROVE r[i + 1] = s[i]
    <2>1. i + 1 \in 2..(Len(s) + 1) /\ (i + 1) - 1 = i
      BY <1>1, <1>6
    <2>2. r[i + 1] = s[(i + 1) - 1]
      BY <1>5, <2>1
    <2> QED
      BY <2>1, <2>2
  <1> QED
    BY <1>1, <1>2, <1>3, <1>4, <1>5, <1>6 DEF r

\* Taking the front of a non-empty sequence.
LEMMA TailFacts ==
    ASSUME NEW S, NEW s \in Seq(S), s # <<>>
    PROVE  /\ Tail(s) \in Seq(S)
           /\ Head(s) \in S /\ Head(s) = s[1]
           /\ Len(s) \in Nat \ {0}
           /\ Len(Tail(s)) = Len(s) - 1
           /\ \A i \in 1..(Len(s) - 1) : Tail(s)[i] = s[i + 1]
  BY HeadTailProperties, EmptySeq

\* What the assumptions on the constants give the leaves below.
LEMMA Constants ==
    /\ Walkers = Workers \cup Subscribers /\ Nodes = Subscribers \cup {Top}
    /\ Workers \cap Subscribers = {}
    /\ Top \notin Subscribers /\ Nowhere \notin Subscribers /\ Nowhere # Top
    /\ Nowhere \notin Nodes /\ MaxSets \in Nat
  BY PubSubAssumption DEF Walkers, Nodes

\* The list holds subscribers.
LEMMA ListFacts ==
    ASSUME TypeOK
    PROVE  /\ Len(callbacks) \in Nat /\ DOMAIN callbacks = 1..Len(callbacks)
           /\ \A i \in 1..Len(callbacks) : callbacks[i] \in Subscribers
  <1>1. callbacks \in Seq(Subscribers)
    BY DEF TypeOK
  <1> QED
    BY <1>1, LenProperties

\* The work queue holds changes.
LEMMA QueueFacts ==
    ASSUME TypeOK
    PROVE  /\ Len(work_queue) \in Nat /\ DOMAIN work_queue = 1..Len(work_queue)
           /\ \A i \in 1..Len(work_queue) : work_queue[i] \in Changes
  <1>1. work_queue \in Seq(Changes)
    BY DEF TypeOK, Changes
  <1> QED
    BY <1>1, LenProperties

\* No node is in the list twice.
LEMMA NodesUnique ==
    ASSUME TypeOK, ListInv
    PROVE  /\ \A i, j \in 0..Len(callbacks) : NodeAt(i) = NodeAt(j) => i = j
           /\ \A i \in 1..Len(callbacks) : NodeAt(i) = callbacks[i]
           /\ \A i \in 0..Len(callbacks) : NodeAt(i) \in Nodes
  BY ListFacts, Constants DEF ListInv, NodeAt

\* The same after a step.
LEMMA NodesUniqueNext ==
    ASSUME TypeOK', ListInv'
    PROVE  \A i, j \in 0..Len(callbacks') : NodeAt(i)' = NodeAt(j)' => i = j
  <1>1. callbacks' \in Seq(Subscribers)
    BY DEF TypeOK
  <1>2. Len(callbacks') \in Nat /\ \A i \in 1..Len(callbacks') : callbacks'[i] \in Subscribers
    BY <1>1, LenProperties
  <1> QED
    BY <1>2, Constants DEF ListInv, NodeAt

-----------------------------------------------------------------------------
(* The invariant holds initially and every action preserves it. *)

\* Nobody has subscribed and nothing has changed.
LEMMA InitIInv == Init => IInv
  <1> SUFFICES ASSUME Init PROVE IInv
    OBVIOUS
  <1> USE DEF Init, PoolInit
  <1>1. TypeOK
    <2>1. done \in BOOLEAN /\ undefined \in BOOLEAN
      OBVIOUS
    <2>2. work_queue \in Seq(1..MaxSets) /\ callbacks \in Seq(Subscribers)
      OBVIOUS
    <2>3. /\ worker \in [Workers -> {"loop", "try", "running", "exited"}]
          /\ task \in [Workers -> 1..MaxSets \cup {NoTask}]
          /\ sub \in [Subscribers -> {"new", "in", "leaving", "gone"}]
          /\ at \in [Walkers -> Nodes \cup {Nowhere}]
          /\ stopper \in {"idle", "joining", "stopped"}
      OBVIOUS
    <2>4. /\ list_ptr \in [Workers -> 0..lists] /\ lists \in Nat /\ list \in 0..lists
          /\ since \in [Subscribers -> 0..MaxSets] /\ sets \in 0..MaxSets
          /\ told \in [Subscribers -> [1..MaxSets -> Nat]]
      BY Constants
    <2>5. (list = 0) = (callbacks = <<>>)
      OBVIOUS
    <2>6. mutex_ = {s \in Subscribers : sub[s] = "leaving"}
      OBVIOUS
    <2>7. cut \subseteq 1..MaxSets
      OBVIOUS
    <2> QED
      BY <2>1, <2>2, <2>3, <2>4, <2>5, <2>6, <2>7 DEF TypeOK
  <1>2. Len(callbacks) = 0 /\ Len(work_queue) = 0
    OBVIOUS
  <1>3. ListInv /\ PlaceInv /\ TaskInv
    BY <1>2, Constants DEF ListInv, Listed, PlaceInv, TaskInv
  <1>4. \A s \in Subscribers, v \in Changes : told[s][v] = 0
    BY DEF Changes
  <1>5. FreshInv /\ WalkInv /\ SettledInv
    BY <1>4, Constants DEF FreshInv, WalkInv, SettledInv
  <1>6. ToldOnce
    BY <1>4 DEF ToldOnce, Changes
  <1> QED
    BY <1>1, <1>3, <1>5, <1>6 DEF IInv

\* A step of the pool that neither starts nor ends a task.
LEMMA PoolQuietStep ==
    ASSUME IInv, UNCHANGED others, UNCHANGED <<work_queue, task>>, done => done', TypeOK',
           \A w \in Workers : worker'[w] = "running" <=> worker[w] = "running"
    PROVE  IInv'
  <1> USE DEF IInv, others, subVars, history
  <1>1. ListInv' /\ ToldOnce'
    BY DEF ListInv, Listed, ToldOnce
  <1>2. PlaceInv'
    BY DEF PlaceInv, NodeAt
  <1>3. TaskInv'
    BY DEF TaskInv, Queued
  <1>4. FreshInv'
    BY DEF FreshInv, Untold, Queued, Tells
  <1>5. WalkInv'
    BY DEF WalkInv, WalkOf, NodeAt
  <1>6. SettledInv'
    BY DEF SettledInv, Settled, Queued, Tells
  <1> QED
    BY <1>1, <1>2, <1>3, <1>4, <1>5, <1>6

\* Workers going round, and Stop.
LEMMA PoolStep ==
    ASSUME IInv, UNCHANGED others,
           \/ \E w \in Workers : WorkerLoop(w)
           \/ \E w \in Workers : WorkerTryPop(w) /\ work_queue = <<>>
           \/ StopCall
           \/ StopReturn
    PROVE  IInv'
  <1>1. /\ UNCHANGED <<work_queue, task>>
        /\ done => done'
        /\ done' \in BOOLEAN
        /\ stopper' \in {"idle", "joining", "stopped"}
        /\ worker' \in [Workers -> {"loop", "try", "running", "exited"}]
    BY DEF WorkerLoop, WorkerTryPop, StopCall, StopReturn, IInv, TypeOK
  <1>2. \A w \in Workers : worker'[w] = "running" <=> worker[w] = "running"
    BY DEF WorkerLoop, WorkerTryPop, StopCall, StopReturn, IInv, TypeOK
  <1>3. TypeOK'
    BY <1>1 DEF others, subVars, history, IInv, TypeOK
  <1> QED
    BY <1>1, <1>2, <1>3, PoolQuietStep

\* A worker takes the oldest change, which nobody has been told of.
LEMMA TakeStep ==
    ASSUME IInv, UNCHANGED others, NEW w \in Workers, WorkerTryPop(w), work_queue # <<>>
    PROVE  IInv'
  <1>1. PICK v0 : v0 = Head(work_queue)
    OBVIOUS
  <1> DEFINE q == Len(work_queue)
  <1>2. /\ worker[w] = "try" /\ UNCHANGED <<done, stopper>>
        /\ work_queue' = Tail(work_queue)
        /\ task' = [task EXCEPT ![w] = v0]
        /\ worker' = [worker EXCEPT ![w] = "running"]
    BY <1>1 DEF WorkerTryPop
  <1>3. /\ work_queue' \in Seq(1..MaxSets) /\ v0 \in 1..MaxSets /\ v0 = work_queue[1]
        /\ q \in Nat \ {0} /\ Len(work_queue') = q - 1
        /\ \A i \in 1..(q - 1) : work_queue'[i] = work_queue[i + 1]
    BY <1>1, <1>2, TailFacts DEF IInv, TypeOK
  <1> HIDE DEF q
  <1>4. /\ worker'[w] = "running" /\ task'[w] = v0
        /\ \A z \in Workers : z # w => worker'[z] = worker[z] /\ task'[z] = task[z]
    BY <1>2 DEF IInv, TypeOK
  <1>5. TypeOK'
    <2>1. /\ worker' \in [Workers -> {"loop", "try", "running", "exited"}]
          /\ task' \in [Workers -> 1..MaxSets \cup {NoTask}]
      BY <1>2, <1>3 DEF IInv, TypeOK
    <2> QED
      BY <1>2, <1>3, <2>1 DEF IInv, TypeOK, others, subVars, history
  <1>6. ListInv' /\ ToldOnce'
    BY DEF IInv, ListInv, Listed, ToldOnce, others, subVars, history
  <1>7. at[w] = Nowhere /\ list_ptr[w] = 0 /\ at' = at /\ sets' = sets
    BY <1>2 DEF IInv, PlaceInv, others
  <1>8. PlaceInv'
    BY <1>4, <1>7 DEF IInv, PlaceInv, NodeAt, others, subVars
  <1>9. \A v : Queued(v) <=> Queued(v)' \/ v = v0
    <2>1. ASSUME NEW v, Queued(v), v # v0 PROVE Queued(v)'
      <3>1. PICK i \in 1..q : work_queue[i] = v
        BY <2>1 DEF Queued, q
      <3>2. i # 1 /\ i - 1 \in 1..(q - 1) /\ (i - 1) + 1 = i
        BY <1>3, <2>1, <3>1
      <3>3. work_queue'[i - 1] = v
        BY <1>3, <3>1, <3>2
      <3> QED
        BY <1>3, <3>2, <3>3 DEF Queued
    <2>2. ASSUME NEW v, Queued(v)' PROVE Queued(v)
      <3>1. PICK i \in 1..(q - 1) : work_queue'[i] = v
        BY <1>3, <2>2 DEF Queued
      <3>2. i + 1 \in 1..q /\ work_queue[i + 1] = v
        BY <1>3, <3>1
      <3> QED
        BY <3>2 DEF Queued, q
    <2>3. Queued(v0)
      <3>1. 1 \in 1..q
        BY <1>3
      <3> QED
        BY <1>3, <3>1 DEF Queued, q
    <2> QED
      BY <2>1, <2>2, <2>3
  <1>10. TaskInv'
    <2>1. ASSUME NEW i \in 1..(q - 1), NEW j \in 1..(q - 1), work_queue'[i] = work_queue'[j]
          PROVE  i = j
      <3>1. i + 1 \in 1..q /\ j + 1 \in 1..q /\ work_queue[i + 1] = work_queue[j + 1]
        BY <1>3, <2>1
      <3>2. i + 1 = j + 1
        BY <3>1 DEF IInv, TaskInv, q
      <3> QED
        BY <3>2
    <2>2. ASSUME NEW i \in 1..(q - 1) PROVE work_queue'[i] \in 1..sets /\ work_queue'[i] # v0
      <3>1. i + 1 \in 1..q /\ i + 1 # 1 /\ 1 \in 1..q /\ work_queue'[i] = work_queue[i + 1]
        BY <1>3, <2>2
      <3> QED
        BY <1>3, <3>1 DEF IInv, TaskInv, q
    <2>3. v0 \in 1..sets
      <3>1. 1 \in 1..q
        BY <1>3
      <3> QED
        BY <1>3, <3>1 DEF IInv, TaskInv, q
    <2>4. ASSUME NEW z \in Workers, worker[z] = "running"
          PROVE  task[z] # v0 /\ \A i \in 1..(q - 1) : work_queue'[i] # task[z]
      <3>1. \A i \in 1..q : work_queue[i] # task[z]
        BY <2>4 DEF IInv, TaskInv, q
      <3>2. 1 \in 1..q /\ \A i \in 1..(q - 1) : i + 1 \in 1..q
        BY <1>3
      <3> QED
        BY <1>3, <3>1, <3>2
    <2>5. ASSUME NEW z \in Workers, worker'[z] = "running"
          PROVE  task'[z] \in 1..sets /\ \A i \in 1..(q - 1) : work_queue'[i] # task'[z]
      <3>1. CASE z = w
        BY <1>4, <2>2, <2>3, <3>1
      <3>2. CASE z # w
        BY <1>4, <2>4, <2>5, <3>2 DEF IInv, TaskInv
      <3> QED
        BY <3>1, <3>2
    <2>6. \A y, z \in Workers :
            worker'[y] = "running" /\ worker'[z] = "running" /\ task'[y] = task'[z] => y = z
      BY <1>4, <2>4 DEF IInv, TaskInv
    <2> QED
      BY <1>3, <1>7, <2>1, <2>2, <2>5, <2>6 DEF TaskInv
  <1>11. \A v : Untold(v)' => Untold(v)
    BY <1>4, <1>7, <1>9 DEF Untold, Tells
  <1>12. FreshInv'
    BY <1>11 DEF IInv, FreshInv, others, subVars, history
  <1>13. WalkInv'
    BY <1>4, <1>7 DEF IInv, WalkInv, WalkOf, NodeAt, others, subVars, history
  <1>14. SettledInv'
    <2>1. \A z \in Workers : worker[z] = "running" => z # w
      BY <1>2
    <2>2. ASSUME NEW v, \E z \in Workers : Tells(z, v) PROVE \E z \in Workers : Tells(z, v)'
      BY <1>4, <2>1, <2>2 DEF Tells
    <2>3. Tells(w, v0)'
      BY <1>4 DEF Tells
    <2>4. ASSUME NEW s \in Subscribers, NEW v \in Changes, Settled(s, v) PROVE Settled(s, v)'
      BY <1>2, <1>9, <2>2, <2>3, <2>4 DEF Settled, others, history
    <2> QED
      BY <2>4 DEF IInv, SettledInv, others, subVars
  <1> QED
    BY <1>5, <1>6, <1>8, <1>10, <1>12, <1>13, <1>14 DEF IInv

\* A new change is queued, unless the pool was stopped.
LEMMA SetStep ==
    ASSUME IInv, Set
    PROVE  IInv'
  <1> DEFINE q == Len(work_queue)
  <1>1. /\ sets < MaxSets /\ sets' = sets + 1
        /\ work_queue' = IF done THEN work_queue ELSE Append(work_queue, sets + 1)
        /\ UNCHANGED <<done, worker, task, stopper>>
        /\ UNCHANGED <<subVars, at, list_ptr, history>>
    BY DEF Set, Submit
  <1>2. sets \in Nat /\ q \in Nat /\ sets + 1 \in 1..MaxSets
    BY <1>1, Constants, QueueFacts DEF IInv, TypeOK
  <1>3. PICK v0 \in 1..MaxSets : v0 = sets + 1
    BY <1>2
  <1>4. /\ work_queue' \in Seq(1..MaxSets)
        /\ \/ done /\ work_queue' = work_queue
           \/ /\ ~done /\ Len(work_queue') = q + 1 /\ work_queue'[q + 1] = v0
              /\ \A i \in 1..q : work_queue'[i] = work_queue[i]
    <2>1. work_queue \in Seq(1..MaxSets) /\ done \in BOOLEAN
      BY DEF IInv, TypeOK
    <2>2. CASE done
      BY <1>1, <2>1, <2>2
    <2>3. CASE ~done
      <3>1. work_queue' = Append(work_queue, v0)
        BY <1>3, <1>1, <2>3
      <3> QED
        BY <1>3, <2>1, <2>3, <3>1, AppendProperties
    <2> QED
      BY <2>2, <2>3
  <1> HIDE DEF q
  <1>5. TypeOK'
    <2>1. sets' \in 0..MaxSets
      BY <1>3, <1>1
    <2> QED
      BY <1>1, <1>4, <2>1 DEF IInv, TypeOK, subVars, history
  <1>6. ListInv' /\ ToldOnce' /\ PlaceInv' /\ WalkInv'
    BY <1>1 DEF IInv, ListInv, Listed, ToldOnce, PlaceInv, WalkInv, WalkOf, NodeAt, subVars,
                history
  <1>7. \A i \in 1..(q + 1) : i = q + 1 \/ i \in 1..q
    BY <1>2
  <1>8. /\ \A v : Queued(v) => Queued(v)'
        /\ \A v : Queued(v)' => Queued(v) \/ v = v0
        /\ ~done => Queued(v0)'
    <2>1. CASE done /\ work_queue' = work_queue
      BY <2>1 DEF Queued
    <2>2. CASE /\ ~done /\ Len(work_queue') = q + 1 /\ work_queue'[q + 1] = v0
               /\ \A i \in 1..q : work_queue'[i] = work_queue[i]
      <3>1. q + 1 \in 1..(q + 1) /\ \A i \in 1..q : i \in 1..(q + 1)
        BY <1>2
      <3>2. ~done => \E i \in 1..Len(work_queue') : work_queue'[i] = v0
        BY <2>2, <3>1
      <3>3. \A v : Queued(v) => Queued(v)'
        BY <2>2, <3>1 DEF Queued, q
      <3>4. \A v : Queued(v)' => Queued(v) \/ v = v0
        BY <1>7, <2>2 DEF Queued, q
      <3> QED
        BY <3>2, <3>3, <3>4 DEF Queued
    <2> QED
      BY <1>4, <2>1, <2>2
  <1>9. TaskInv'
    <2>1. sets' = v0 /\ v0 \in 1..v0 /\ 1..sets \subseteq 1..v0 /\ v0 \notin 1..sets
      BY <1>3, <1>1, <1>2
    <2>2. /\ \A i \in 1..q : work_queue[i] \in 1..sets
          /\ \A i, j \in 1..q : work_queue[i] = work_queue[j] => i = j
          /\ \A w \in Workers : worker[w] = "running" =>
               task[w] \in 1..sets /\ \A i \in 1..q : work_queue[i] # task[w]
      BY DEF IInv, TaskInv, q
    <2>3. CASE done /\ work_queue' = work_queue
      BY <1>1, <2>1, <2>2, <2>3 DEF TaskInv, IInv, q
    <2>4. CASE /\ ~done /\ Len(work_queue') = q + 1 /\ work_queue'[q + 1] = v0
               /\ \A i \in 1..q : work_queue'[i] = work_queue[i]
      <3>1. \A i \in 1..(q + 1) : work_queue'[i] \in 1..v0
        BY <1>7, <2>1, <2>2, <2>4
      <3>2. \A i, j \in 1..(q + 1) : work_queue'[i] = work_queue'[j] => i = j
        BY <1>7, <2>1, <2>2, <2>4
      <3>3. \A w \in Workers : worker[w] = "running" =>
              task[w] \in 1..v0 /\ \A i \in 1..(q + 1) : work_queue'[i] # task[w]
        BY <1>7, <2>1, <2>2, <2>4
      <3>4. \A w, z \in Workers :
              worker[w] = "running" /\ worker[z] = "running" /\ task[w] = task[z] => w = z
        BY DEF IInv, TaskInv
      <3> QED
        BY <1>1, <2>1, <2>4, <3>1, <3>2, <3>3, <3>4 DEF TaskInv
    <2> QED
      BY <1>4, <2>3, <2>4
  <1>10. FreshInv'
    <2>1. \A v \in Changes : v \notin 1..sets' \/ v = v0 => v \notin 1..sets
      BY <1>3, <1>1, <1>2 DEF Changes
    <2>2. \A v \in Changes : Untold(v)' => Untold(v)
      BY <1>1, <1>8, <2>1 DEF Untold, Tells
    <2> QED
      BY <1>1, <2>2 DEF IInv, FreshInv, subVars, history
  <1>11. SettledInv'
    <2> SUFFICES ASSUME NEW s \in Subscribers, NEW v \in Changes, sub[s] \in {"in", "leaving"},
                        since[s] < v, v <= v0
                 PROVE  Settled(s, v)'
      BY <1>3, <1>1 DEF SettledInv, subVars
    <2>1. CASE v = v0
      BY <1>1, <1>8, <2>1 DEF Settled
    <2>2. CASE v # v0
      <3>1. v <= sets
        BY <1>3, <1>2, <2>2 DEF Changes
      <3>2. Settled(s, v)
        BY <3>1 DEF IInv, SettledInv
      <3> QED
        BY <1>1, <1>8, <3>2 DEF Settled, Tells, history
    <2> QED
      BY <2>1, <2>2
  <1> QED
    BY <1>5, <1>6, <1>9, <1>10, <1>11 DEF IInv

\* A step that leaves pool, changes and what was told alone.
LEMMA SameTasks ==
    ASSUME IInv, UNCHANGED <<poolVars, sets, told, cut>>,
           \A w \in Workers : at'[w] = at[w],
           \A s \in Subscribers : sub'[s] = "new" => sub[s] = "new"
    PROVE  TaskInv' /\ FreshInv' /\ ToldOnce'
  <1> USE DEF IInv, poolVars
  <1>1. TaskInv' /\ ToldOnce'
    BY DEF TaskInv, ToldOnce
  <1>2. \A v : Untold(v)' => Untold(v)
    BY DEF Untold, Queued, Tells
  <1>3. FreshInv'
    BY <1>2 DEF FreshInv
  <1> QED
    BY <1>1, <1>3

\* And keeps what is settled settled.
LEMMA SameSettled ==
    ASSUME UNCHANGED <<poolVars, told, cut>>, NEW s, NEW v, Settled(s, v)
    PROVE  Settled(s, v)'
  BY DEF Settled, Queued, Tells, poolVars

\* A subscriber enters at the front while no walk is at the head: every place moves back by one.
LEMMA SubscribeStep ==
    ASSUME IInv, NEW s \in Subscribers, Subscribe(s)
    PROVE  IInv'
  <1> DEFINE L == Len(callbacks)
  <1>1. /\ sub[s] = "new" /\ mutex_ = {} /\ Free(Top)
        /\ lists' = IF list = 0 THEN lists + 1 ELSE lists
        /\ list' = IF list = 0 THEN lists' ELSE list
        /\ callbacks' = <<s>> \o callbacks
        /\ sub' = [sub EXCEPT ![s] = "in"]
        /\ since' = [since EXCEPT ![s] = sets]
        /\ UNCHANGED <<poolVars, mutex_, at, list_ptr, sets, undefined, told, cut>>
    BY DEF Subscribe, history
  <1>2. /\ L \in Nat /\ callbacks' \in Seq(Subscribers) /\ Len(callbacks') = L + 1
        /\ callbacks'[1] = s
        /\ \A i \in 1..L : callbacks'[i + 1] = callbacks[i]
        /\ \A i \in 2..(L + 1) : callbacks'[i] = callbacks[i - 1]
    BY <1>1, ConsFacts, ListFacts DEF IInv, TypeOK
  <1>3. \A i \in 1..L : callbacks[i] \in Subscribers /\ callbacks[i] # s
    BY <1>1, ListFacts DEF IInv, ListInv, Listed
  <1> HIDE DEF L
  <1>4. \A j \in 1..(L + 1) : j = 1 \/ (j \in 2..(L + 1) /\ j - 1 \in 1..L)
    BY <1>2
  <1>5. /\ sub'[s] = "in" /\ since'[s] = sets
        /\ \A u \in Subscribers : u # s => sub'[u] = sub[u] /\ since'[u] = since[u]
    BY <1>1 DEF IInv, TypeOK
  <1>6. TypeOK'
    <2>1. /\ lists \in Nat /\ list \in 0..lists /\ list_ptr \in [Workers -> 0..lists]
          /\ sets \in 0..MaxSets
      BY DEF IInv, TypeOK
    <2>2. lists' \in Nat /\ list' \in 0..lists' /\ list' # 0 /\ lists <= lists'
      BY <1>1, <2>1
    <2>3. list_ptr' \in [Workers -> 0..lists']
      BY <1>1, <2>1, <2>2
    <2>4. callbacks' # <<>>
      BY <1>2
    <2>5. (list' = 0) = (callbacks' = <<>>)
      BY <2>2, <2>4
    <2>6. mutex_' = {u \in Subscribers : sub'[u] = "leaving"}
      BY <1>1, <1>5 DEF IInv, TypeOK
    <2>7. /\ sub' \in [Subscribers -> {"new", "in", "leaving", "gone"}]
          /\ since' \in [Subscribers -> 0..MaxSets]
      BY <1>1 DEF IInv, TypeOK
    <2> QED
      BY <1>1, <1>2, <2>2, <2>3, <2>5, <2>6, <2>7 DEF IInv, TypeOK, poolVars
  <1>7. ListInv'
    <2>1. ASSUME NEW i \in 1..(L + 1), NEW j \in 1..(L + 1), callbacks'[i] = callbacks'[j]
          PROVE  i = j
      <3>1. CASE i = 1 \/ j = 1
        BY <1>2, <1>3, <1>4, <2>1, <3>1
      <3>2. CASE i # 1 /\ j # 1
        <4>1. i - 1 \in 1..L /\ j - 1 \in 1..L /\ callbacks[i - 1] = callbacks[j - 1]
          BY <1>2, <1>4, <2>1, <3>2
        <4>2. i - 1 = j - 1
          BY <4>1 DEF IInv, ListInv, L
        <4> QED
          BY <1>2, <4>2
      <3> QED
        BY <3>1, <3>2
    <2>2. ASSUME NEW u \in Subscribers, u # s PROVE Listed(u)' <=> Listed(u)
      <3>1. ASSUME NEW i \in 1..(L + 1), callbacks'[i] = u PROVE Listed(u)
        <4>1. i - 1 \in 1..L /\ callbacks[i - 1] = u
          BY <1>2, <1>4, <2>2, <3>1
        <4> QED
          BY <4>1 DEF Listed, L
      <3>2. ASSUME NEW i \in 1..L, callbacks[i] = u PROVE Listed(u)'
        <4>1. i + 1 \in 1..(L + 1) /\ callbacks'[i + 1] = u
          BY <1>2, <3>2
        <4> QED
          BY <1>2, <4>1 DEF Listed
      <3> QED
        BY <1>2, <3>1, <3>2 DEF Listed, L
    <2>3. Listed(s)'
      <3>1. 1 \in 1..(L + 1)
        BY <1>2
      <3> QED
        BY <1>2, <3>1 DEF Listed
    <2>4. \A u \in Subscribers : Listed(u)' <=> sub'[u] \in {"in", "leaving"}
      BY <1>5, <2>2, <2>3 DEF IInv, ListInv
    <2>5. \A u, v \in Subscribers : sub'[u] = "leaving" /\ sub'[v] = "leaving" => u = v
      BY <1>5 DEF IInv, ListInv
    <2> QED
      BY <1>2, <2>1, <2>4, <2>5 DEF ListInv
  <1>8. ASSUME NEW x \in Walkers, at[x] # Nowhere
        PROVE  \E i \in 1..L : at[x] = NodeAt(i) /\ at[x] = NodeAt(i + 1)' /\ i + 1 \in 0..(L + 1)
    <2>1. PICK i \in 0..L : at[x] = NodeAt(i)
      BY <1>8 DEF IInv, PlaceInv, L
    <2>2. at[x] # Top
      BY <1>1, <1>8 DEF Free
    <2>3. i \in 1..L /\ i + 1 \in 0..(L + 1) /\ i + 1 # 0
      BY <1>2, <2>1, <2>2 DEF NodeAt
    <2>4. at[x] = NodeAt(i + 1)'
      BY <1>2, <2>1, <2>3 DEF NodeAt
    <2> QED
      BY <2>1, <2>3, <2>4
  <1>9. PlaceInv'
    <2>1. ASSUME NEW x \in Walkers, at[x] # Nowhere
          PROVE  \E i \in 0..Len(callbacks') : at[x] = NodeAt(i)'
      BY <1>2, <1>8, <2>1
    <2>2. \A u \in Subscribers : sub'[u] # "leaving" => at[u] = Nowhere
      BY <1>1, <1>5 DEF IInv, PlaceInv
    <2> QED
      BY <1>1, <2>1, <2>2 DEF IInv, PlaceInv, poolVars
  <1>10. TaskInv' /\ FreshInv' /\ ToldOnce'
    BY <1>1, <1>5, SameTasks
  <1>11. ASSUME NEW w \in Workers, at[w] # Nowhere PROVE WalkOf(w)'
    <2> SUFFICES ASSUME NEW h \in 0..(L + 1), at[w] = NodeAt(h)'
                 PROVE  /\ \A j \in (h + 1)..(L + 1) : told[callbacks'[j]][task[w]] = 0
                        /\ \A j \in 1..h : since'[callbacks'[j]] < task[w]
                                             => told[callbacks'[j]][task[w]] = 1
      BY <1>1, <1>2 DEF WalkOf, poolVars
    <2>1. w \in Walkers
      BY Constants
    <2>2. PICK i \in 1..L : at[w] = NodeAt(i) /\ at[w] = NodeAt(i + 1)' /\ i + 1 \in 0..(L + 1)
      BY <1>8, <1>11, <2>1
    <2>3. h = i + 1
      BY <1>2, <1>6, <1>7, <2>2, NodesUniqueNext
    <2>4. /\ \A j \in (i + 1)..L : told[callbacks[j]][task[w]] = 0
          /\ \A j \in 1..i : since[callbacks[j]] < task[w] => told[callbacks[j]][task[w]] = 1
      <3>1. i \in 0..L
        BY <1>2
      <3> QED
        BY <1>11, <2>2, <3>1 DEF IInv, WalkInv, WalkOf, L
    <2>5. ASSUME NEW j \in (h + 1)..(L + 1) PROVE told[callbacks'[j]][task[w]] = 0
      <3>1. j \in 2..(L + 1) /\ j - 1 \in (i + 1)..L
        BY <1>2, <2>3, <2>5
      <3> QED
        BY <1>2, <2>4, <3>1
    <2>6. ASSUME NEW j \in 1..h, since'[callbacks'[j]] < task[w]
          PROVE  told[callbacks'[j]][task[w]] = 1
      <3>1. CASE j = 1
        <4>1. task[w] \in 1..sets /\ sets \in Nat
          BY <1>11 DEF IInv, PlaceInv, TaskInv, TypeOK
        <4>2. sets < task[w]
          BY <1>2, <1>5, <2>6, <3>1
        <4> QED
          BY <4>1, <4>2
      <3>2. CASE j # 1
        <4>1. j \in 2..(L + 1) /\ j - 1 \in 1..i /\ j - 1 \in 1..L
          BY <1>2, <2>2, <2>3, <2>6, <3>2
        <4>2. callbacks'[j] = callbacks[j - 1] /\ since'[callbacks'[j]] = since[callbacks[j - 1]]
          BY <1>2, <1>3, <1>5, <4>1
        <4> QED
          BY <2>4, <2>6, <4>1, <4>2
      <3> QED
        BY <3>1, <3>2
    <2> QED
      BY <2>5, <2>6
  <1>12. WalkInv'
    BY <1>1, <1>11 DEF WalkInv
  <1>13. SettledInv'
    <2> SUFFICES ASSUME NEW u \in Subscribers, NEW v \in Changes, sub'[u] \in {"in", "leaving"},
                        since'[u] < v, v <= sets
                 PROVE  Settled(u, v)'
      BY <1>1 DEF SettledInv
    <2>1. CASE u = s
      <3>1. sets \in Int /\ v \in Int /\ sets < v
        BY <1>5, <2>1 DEF Changes, IInv, TypeOK
      <3> QED
        BY <3>1
    <2>2. CASE u # s
      <3>1. Settled(u, v)
        BY <1>5, <2>2 DEF IInv, SettledInv
      <3> QED
        BY <1>1, <3>1, SameSettled
    <2> QED
      BY <2>1, <2>2
  <1> QED
    BY <1>6, <1>7, <1>9, <1>10, <1>12, <1>13 DEF IInv

\* unsubscribe takes mutex_ and walks to the node before its own.
LEMMA UnsubscribeMoveStep ==
    ASSUME IInv, NEW s \in Subscribers, UnsubscribeLock(s) \/ UnsubscribeWalk(s)
    PROVE  IInv'
  <1>1. UNCHANGED <<poolVars, list, lists, callbacks, since, list_ptr, sets, undefined, told, cut>>
    BY DEF UnsubscribeLock, UnsubscribeWalk, subVars, history
  <1>2. /\ s \in Walkers /\ s \notin Workers
        /\ \A x \in Walkers : x # s => at'[x] = at[x]
        /\ \A u \in Subscribers : u # s => sub'[u] = sub[u]
        /\ sub[s] \in {"in", "leaving"} /\ sub'[s] = "leaving"
    BY Constants DEF UnsubscribeLock, UnsubscribeWalk, subVars, IInv, TypeOK
  <1>3. \A u \in Subscribers : u # s => sub[u] # "leaving"
    <2>1. CASE UnsubscribeLock(s)
      BY <2>1 DEF UnsubscribeLock, IInv, TypeOK
    <2>2. CASE UnsubscribeWalk(s)
      BY <2>2 DEF UnsubscribeWalk, IInv, ListInv
    <2> QED
      BY <2>1, <2>2
  <1>4. at'[s] = at[s] \/ (/\ Free(at'[s]) /\ at'[s] \in Nodes
                           /\ \E i \in 0..Len(callbacks) : at'[s] = NodeAt(i))
    <2>1. CASE UnsubscribeLock(s)
      BY <2>1 DEF UnsubscribeLock
    <2>2. CASE UnsubscribeWalk(s)
      <3>1. PICK n \in Nodes : /\ Free(n) /\ at' = [at EXCEPT ![s] = n]
                               /\ n = Top \/ Follows(n, s)
        BY <2>2 DEF UnsubscribeWalk
      <3>2. at'[s] = n
        BY <1>2, <3>1 DEF IInv, TypeOK
      <3>3. \E i \in 0..Len(callbacks) : n = NodeAt(i)
        <4>1. CASE n = Top
          <5>1. 0 \in 0..Len(callbacks)
            BY ListFacts DEF IInv
          <5> QED
            BY <4>1, <5>1 DEF NodeAt
        <4>2. CASE Follows(n, s)
          BY <4>2, ListFacts DEF Follows, NodeAt, IInv
        <4> QED
          BY <3>1, <4>1, <4>2
      <3> QED
        BY <3>1, <3>2, <3>3
    <2> QED
      BY <2>1, <2>2
  <1>5. TypeOK'
    <2>1. mutex_' = {u \in Subscribers : sub'[u] = "leaving"}
      <3>1. mutex_' = {s}
        <4>1. CASE UnsubscribeLock(s)
          BY <4>1 DEF UnsubscribeLock
        <4>2. CASE UnsubscribeWalk(s)
          BY <1>3, <4>2 DEF UnsubscribeWalk, subVars, IInv, TypeOK
        <4> QED
          BY <4>1, <4>2
      <3> QED
        BY <1>2, <1>3, <3>1
    <2>2. sub' \in [Subscribers -> {"new", "in", "leaving", "gone"}]
      BY DEF UnsubscribeLock, UnsubscribeWalk, subVars, IInv, TypeOK
    <2>3. at' \in [Walkers -> Nodes \cup {Nowhere}]
      BY DEF UnsubscribeLock, UnsubscribeWalk, subVars, IInv, TypeOK
    <2> QED
      BY <1>1, <2>1, <2>2, <2>3 DEF IInv, TypeOK, poolVars
  <1>6. ListInv'
    BY <1>1, <1>2, <1>3 DEF IInv, ListInv, Listed
  <1>7. PlaceInv'
    <2>1. ASSUME NEW x \in Walkers, at'[x] # Nowhere
          PROVE  \E i \in 0..Len(callbacks) : at'[x] = NodeAt(i)
      BY <1>2, <1>4, <2>1 DEF IInv, PlaceInv
    <2>2. ASSUME NEW x \in Walkers, NEW y \in Walkers, at'[x] = at'[y], at'[x] # Nowhere
          PROVE  x = y
      BY <1>2, <1>4, <2>2 DEF IInv, PlaceInv, Free
    <2>3. \A u \in Subscribers : sub'[u] # "leaving" => at'[u] = Nowhere
      BY <1>2, Constants DEF IInv, PlaceInv
    <2>4. \A w \in Workers : at'[w] = at[w]
      BY <1>2, Constants
    <2>5. \A i : NodeAt(i)' = NodeAt(i)
      BY <1>1 DEF NodeAt
    <2> QED
      BY <1>1, <2>1, <2>2, <2>3, <2>4, <2>5 DEF IInv, PlaceInv, poolVars
  <1>8. \A w \in Workers : at'[w] = at[w]
    BY <1>2, Constants
  <1>9. TaskInv' /\ FreshInv' /\ ToldOnce'
    BY <1>1, <1>2, <1>8, SameTasks
  <1>10. WalkInv'
    BY <1>1, <1>8 DEF IInv, WalkInv, WalkOf, NodeAt, poolVars
  <1>11. SettledInv'
    BY <1>1, <1>2, SameSettled DEF IInv, SettledInv
  <1> QED
    BY <1>5, <1>6, <1>7, <1>9, <1>10, <1>11 DEF IInv

\* The place of a node that is not the removed one, in the list without it.
Shift(k, i) == IF i < k THEN i ELSE i - 1

\* A subscriber leaves from a node that no walk has locked: every walk keeps its node, now
\* perhaps one place nearer the head.
LEMMA UnsubscribeRemoveStep ==
    ASSUME IInv, NEW s \in Subscribers, UnsubscribeRemove(s)
    PROVE  IInv'
  <1> DEFINE L == Len(callbacks)
  <1>1. /\ sub[s] = "leaving" /\ Free(s)
        /\ callbacks' = RemoveFirst(callbacks, s)
        /\ list' = IF callbacks' = <<>> THEN 0 ELSE list
        /\ sub' = [sub EXCEPT ![s] = "gone"]
        /\ at' = [at EXCEPT ![s] = Nowhere]
        /\ mutex_' = {}
        /\ UNCHANGED <<poolVars, lists, since, list_ptr, sets, undefined, told, cut>>
    BY DEF UnsubscribeRemove, history
  <1>2. PICK k \in 1..L : callbacks[k] = s
    BY <1>1 DEF IInv, ListInv, Listed
  <1>3. L \in Nat /\ (\A i \in 1..L : callbacks[i] \in Subscribers)
        /\ \A i \in 1..L : callbacks[i] = s => i = k
    BY <1>2, ListFacts DEF IInv, ListInv
  <1>4. /\ callbacks' \in Seq(Subscribers) /\ Len(callbacks') = L - 1
        /\ \A i \in 1..(L - 1) : callbacks'[i] = IF i < k THEN callbacks[i] ELSE callbacks[i + 1]
    <2>1. callbacks \in Seq(Subscribers) /\ \A i \in 1..L : callbacks[i] = callbacks[k] => i = k
      BY <1>2, <1>3 DEF IInv, TypeOK
    <2> QED
      BY <1>1, <1>2, <2>1, RemoveFacts
  <1> HIDE DEF L
  <1>5. /\ s \in Walkers /\ s \notin Workers /\ sub'[s] = "gone" /\ at'[s] = Nowhere
        /\ \A u \in Subscribers : u # s => sub'[u] = sub[u] /\ sub[u] # "leaving"
        /\ \A x \in Walkers : x # s => at'[x] = at[x]
        /\ \A w \in Workers : at'[w] = at[w]
    BY <1>1, Constants DEF IInv, TypeOK, ListInv
  <1>6. TypeOK'
    <2>1. mutex_' = {u \in Subscribers : sub'[u] = "leaving"}
      BY <1>1, <1>5
    <2>2. /\ sub' \in [Subscribers -> {"new", "in", "leaving", "gone"}]
          /\ at' \in [Walkers -> Nodes \cup {Nowhere}]
      BY <1>1 DEF IInv, TypeOK
    <2>3. callbacks # <<>>
      BY <1>2, <1>3 DEF L
    <2>4. list' \in 0..lists /\ (list' = 0) = (callbacks' = <<>>)
      <3>1. lists \in Nat /\ list \in 0..lists /\ list # 0
        BY <2>3 DEF IInv, TypeOK
      <3> QED
        BY <1>1, <3>1
    <2> QED
      BY <1>1, <1>4, <2>1, <2>2, <2>4 DEF IInv, TypeOK, poolVars
  \* The elements of the new list by their old places.
  <1>7. ASSUME NEW j \in 1..(L - 1)
        PROVE  \E a \in 1..L : /\ a # k /\ a = (IF j < k THEN j ELSE j + 1)
                               /\ callbacks'[j] = callbacks[a]
    <2>1. CASE j < k
      <3>1. j \in 1..L /\ j # k
        BY <1>2, <1>3, <2>1
      <3> QED
        BY <1>4, <2>1, <3>1
    <2>2. CASE ~(j < k)
      <3>1. j + 1 \in 1..L /\ j + 1 # k
        BY <1>2, <1>3, <2>2
      <3> QED
        BY <1>4, <2>2, <3>1
    <2> QED
      BY <2>1, <2>2
  <1>8. ASSUME NEW i \in 0..L, i # k
        PROVE  Shift(k, i) \in 0..(L - 1) /\ NodeAt(Shift(k, i))' = NodeAt(i)
    <2>1. CASE i < k
      <3>1. Shift(k, i) = i /\ i \in 0..(L - 1)
        BY <1>2, <1>3, <2>1, <1>8 DEF Shift
      <3>2. i # 0 => i \in 1..(L - 1) /\ callbacks'[i] = callbacks[i]
        BY <1>2, <1>3, <1>4, <2>1, <3>1
      <3>3. NodeAt(i)' = NodeAt(i)
        BY <3>2 DEF NodeAt
      <3> QED
        BY <3>1, <3>3
    <2>2. CASE ~(i < k)
      <3>1. Shift(k, i) = i - 1 /\ i - 1 \in 1..(L - 1) /\ i - 1 \in 0..(L - 1)
            /\ ~(i - 1 < k) /\ (i - 1) + 1 = i /\ i # 0 /\ i - 1 # 0
        BY <1>2, <1>3, <2>2, <1>8 DEF Shift
      <3>2. callbacks'[i - 1] = callbacks[(i - 1) + 1]
        BY <1>4, <3>1
      <3>3. NodeAt(i - 1)' = NodeAt(i)
        BY <3>1, <3>2 DEF NodeAt
      <3> QED
        BY <3>1, <3>3
    <2> QED
      BY <2>1, <2>2
  <1>9. ListInv'
    <2>1. ASSUME NEW i \in 1..(L - 1), NEW j \in 1..(L - 1), callbacks'[i] = callbacks'[j]
          PROVE  i = j
      <3>1. PICK a \in 1..L : a = (IF i < k THEN i ELSE i + 1) /\ callbacks'[i] = callbacks[a]
        BY <1>7
      <3>2. PICK b \in 1..L : b = (IF j < k THEN j ELSE j + 1) /\ callbacks'[j] = callbacks[b]
        BY <1>7
      <3>3. a = b
        BY <2>1, <3>1, <3>2 DEF IInv, ListInv, L
      <3> QED
        BY <1>2, <1>3, <3>1, <3>2, <3>3
    <2>2. ~Listed(s)'
      BY <1>3, <1>4, <1>7 DEF Listed
    <2>3. ASSUME NEW u \in Subscribers, u # s PROVE Listed(u)' <=> Listed(u)
      <3>1. ASSUME NEW i \in 1..L, callbacks[i] = u PROVE Listed(u)'
        <4>1. i \in 0..L /\ i # k /\ i # 0
          BY <1>2, <1>3, <2>3, <3>1
        <4>2. Shift(k, i) \in 0..(L - 1) /\ NodeAt(Shift(k, i))' = u
          BY <1>8, <3>1, <4>1 DEF NodeAt
        <4>3. Shift(k, i) # 0
          BY <1>2, <1>3, <4>1 DEF Shift
        <4>4. Shift(k, i) \in 1..(L - 1) /\ callbacks'[Shift(k, i)] = u
          BY <1>3, <4>2, <4>3 DEF NodeAt
        <4> QED
          BY <1>4, <4>4 DEF Listed
      <3>2. ASSUME NEW j \in 1..(L - 1), callbacks'[j] = u PROVE Listed(u)
        BY <1>7, <3>2 DEF Listed, L
      <3> QED
        BY <1>4, <3>1, <3>2 DEF Listed, L
    <2>4. \A u \in Subscribers : Listed(u)' <=> sub'[u] \in {"in", "leaving"}
      BY <1>5, <2>2, <2>3 DEF IInv, ListInv
    <2>5. \A u, v \in Subscribers : sub'[u] = "leaving" /\ sub'[v] = "leaving" => u = v
      BY <1>5
    <2> QED
      BY <1>4, <2>1, <2>4, <2>5 DEF ListInv
  <1>10. ASSUME NEW x \in Walkers, NEW i \in 0..L, at[x] = NodeAt(i)
         PROVE  i # k /\ Shift(k, i) \in 0..(L - 1) /\ at[x] = NodeAt(Shift(k, i))'
    <2>1. at[x] # s
      BY <1>1, <1>10 DEF Free
    <2>2. i # k
      BY <1>2, <1>10, <2>1 DEF NodeAt
    <2> QED
      BY <1>8, <1>10, <2>2
  <1>11. PlaceInv'
    <2>1. ASSUME NEW x \in Walkers, at'[x] # Nowhere
          PROVE  \E i \in 0..Len(callbacks') : at'[x] = NodeAt(i)'
      <3>1. x # s /\ at'[x] = at[x]
        BY <1>5, <2>1
      <3>2. PICK i \in 0..L : at[x] = NodeAt(i)
        BY <2>1, <3>1 DEF IInv, PlaceInv, L
      <3> QED
        BY <1>4, <1>10, <3>1, <3>2
    <2>2. \A x, y \in Walkers : at'[x] = at'[y] /\ at'[x] # Nowhere => x = y
      BY <1>5 DEF IInv, PlaceInv
    <2>3. \A u \in Subscribers : sub'[u] # "leaving" => at'[u] = Nowhere
      BY <1>5, Constants DEF IInv, PlaceInv
    <2> QED
      BY <1>1, <1>5, <2>1, <2>2, <2>3 DEF IInv, PlaceInv, poolVars
  <1>12. TaskInv' /\ FreshInv' /\ ToldOnce'
    BY <1>1, <1>5, SameTasks
  <1>13. ASSUME NEW w \in Workers, at[w] # Nowhere PROVE WalkOf(w)'
    <2> SUFFICES ASSUME NEW h \in 0..(L - 1), at[w] = NodeAt(h)'
                 PROVE  /\ \A j \in (h + 1)..(L - 1) : told[callbacks'[j]][task[w]] = 0
                        /\ \A j \in 1..h : since[callbacks'[j]] < task[w]
                                             => told[callbacks'[j]][task[w]] = 1
      BY <1>1, <1>4, <1>5 DEF WalkOf, poolVars
    <2>1. w \in Walkers
      BY Constants
    <2>2. PICK i \in 0..L : at[w] = NodeAt(i)
      BY <1>13, <2>1 DEF IInv, PlaceInv, L
    <2>3. i # k /\ Shift(k, i) \in 0..(L - 1) /\ at[w] = NodeAt(Shift(k, i))'
      BY <1>10, <2>1, <2>2
    <2>4. h = Shift(k, i)
      <3>1. \A a, b \in 0..(L - 1) : NodeAt(a)' = NodeAt(b)' => a = b
        BY <1>4, <1>6, <1>9, NodesUniqueNext
      <3> QED
        BY <2>3, <3>1
    <2>5. /\ \A j \in (i + 1)..L : told[callbacks[j]][task[w]] = 0
          /\ \A j \in 1..i : since[callbacks[j]] < task[w] => told[callbacks[j]][task[w]] = 1
      BY <1>13, <2>2 DEF IInv, WalkInv, WalkOf, L
    <2>6. ASSUME NEW j \in (h + 1)..(L - 1) PROVE told[callbacks'[j]][task[w]] = 0
      <3>1. j \in 1..(L - 1)
        BY <1>3, <2>3, <2>4, <2>6
      <3>2. PICK a \in 1..L : a = (IF j < k THEN j ELSE j + 1) /\ callbacks'[j] = callbacks[a]
        BY <1>7, <3>1
      <3>3. a \in (i + 1)..L
        BY <1>2, <1>3, <2>3, <2>4, <2>6, <3>2 DEF Shift
      <3> QED
        BY <2>5, <3>2, <3>3
    <2>7. ASSUME NEW j \in 1..h, since[callbacks'[j]] < task[w]
          PROVE  told[callbacks'[j]][task[w]] = 1
      <3>1. j \in 1..(L - 1)
        BY <1>3, <2>3, <2>4, <2>7
      <3>2. PICK a \in 1..L : a = (IF j < k THEN j ELSE j + 1) /\ callbacks'[j] = callbacks[a]
        BY <1>7, <3>1
      <3>3. a \in 1..i
        BY <1>2, <1>3, <2>3, <2>4, <2>7, <3>2 DEF Shift
      <3> QED
        BY <2>5, <2>7, <3>2, <3>3
    <2> QED
      BY <2>6, <2>7
  <1>14. WalkInv'
    BY <1>5, <1>13 DEF WalkInv
  <1>15. SettledInv'
    BY <1>1, <1>5, SameSettled DEF IInv, SettledInv
  <1> QED
    BY <1>6, <1>9, <1>11, <1>12, <1>14, <1>15 DEF IInv

\* A worker ends its task: its change is settled, or the exception is on record.
LEMMA FinishStep ==
    ASSUME IInv, NEW w \in Workers, worker[w] = "running", Finish(w),
           UNCHANGED <<subVars, sets, undefined, told>>,
           list_ptr' = [list_ptr EXCEPT ![w] = 0],
           at' = [at EXCEPT ![w] = Nowhere],
           cut' = cut \/ cut' = cut \cup {task[w]},
           \A s \in Subscribers :
             sub[s] \in {"in", "leaving"} /\ since[s] < task[w] =>
               told[s][task[w]] = 1 \/ task[w] \in cut'
    PROVE  IInv'
  <1>1. /\ worker'[w] = "loop" /\ UNCHANGED <<work_queue, done, stopper>>
        /\ \A z \in Workers : z # w =>
             /\ worker'[z] = worker[z] /\ task'[z] = task[z] /\ at'[z] = at[z]
             /\ list_ptr'[z] = list_ptr[z]
        /\ at'[w] = Nowhere /\ list_ptr'[w] = 0
        /\ \A x \in Walkers : x # w => at'[x] = at[x]
        /\ w \in Walkers /\ w \notin Subscribers
    BY Constants DEF Finish, IInv, TypeOK
  <1>2. task[w] \in Changes /\ cut \subseteq cut'
    <2>1. task[w] \in 1..sets /\ sets \in 0..MaxSets
      BY DEF IInv, TaskInv, TypeOK
    <2>2. task[w] \in Changes
      BY <2>1, Constants DEF Changes
    <2> QED
      BY <2>2
  <1>3. TypeOK'
    <2>1. /\ worker' \in [Workers -> {"loop", "try", "running", "exited"}]
          /\ task' \in [Workers -> 1..MaxSets \cup {NoTask}]
          /\ at' \in [Walkers -> Nodes \cup {Nowhere}]
      BY DEF Finish, IInv, TypeOK
    <2>2. list_ptr' \in [Workers -> 0..lists]
      BY DEF IInv, TypeOK
    <2>3. cut' \subseteq 1..MaxSets
      BY <1>2 DEF Changes, IInv, TypeOK
    <2> QED
      BY <1>1, <2>1, <2>2, <2>3 DEF IInv, TypeOK, subVars
  <1>4. ListInv' /\ ToldOnce'
    BY DEF IInv, ListInv, Listed, ToldOnce, subVars
  <1>5. PlaceInv'
    <2>1. \A i : NodeAt(i)' = NodeAt(i)
      BY DEF NodeAt, subVars
    <2> QED
      BY <1>1, <2>1 DEF IInv, PlaceInv, subVars
  <1>6. TaskInv'
    BY <1>1 DEF IInv, TaskInv
  <1>7. \A v \in Changes : Untold(v)' => Untold(v)
    BY <1>1 DEF Untold, Queued, Tells
  <1>8. FreshInv'
    BY <1>7 DEF IInv, FreshInv, subVars
  <1>9. WalkInv'
    <2>1. ASSUME NEW z \in Workers, at'[z] # Nowhere PROVE WalkOf(z)'
      <3>1. z # w /\ at'[z] = at[z] /\ task'[z] = task[z]
        BY <1>1, <2>1
      <3> QED
        BY <2>1, <3>1 DEF IInv, WalkInv, WalkOf, NodeAt, subVars
    <2> QED
      BY <2>1 DEF WalkInv
  <1>10. SettledInv'
    <2> SUFFICES ASSUME NEW s \in Subscribers, NEW v \in Changes, sub[s] \in {"in", "leaving"},
                        since[s] < v, v <= sets
                 PROVE  Settled(s, v)'
      BY DEF SettledInv, subVars
    <2>1. CASE v = task[w]
      BY <2>1 DEF Settled
    <2>2. CASE v # task[w]
      <3>1. Settled(s, v)
        BY DEF IInv, SettledInv
      <3>2. ASSUME NEW z \in Workers, Tells(z, v) PROVE Tells(z, v)'
        BY <1>1, <2>2, <3>2 DEF Tells
      <3> QED
        BY <1>1, <1>2, <3>1, <3>2 DEF Settled, Queued
    <2> QED
      BY <2>1, <2>2
  <1> QED
    BY <1>3, <1>4, <1>5, <1>6, <1>8, <1>9, <1>10 DEF IInv

\* notify looks the list up; without one nobody is concerned and the task is over.
LEMMA LookupStep ==
    ASSUME IInv, NEW w \in Workers, Lookup(w)
    PROVE  IInv'
  <1>1. /\ worker[w] = "running" /\ list_ptr[w] = 0 /\ at[w] = Nowhere
        /\ UNCHANGED <<subVars, at, sets, undefined, told, cut>>
    BY DEF Lookup, IInv, PlaceInv, history
  <1>2. CASE list = 0 /\ Finish(w) /\ UNCHANGED list_ptr
    <2>1. list_ptr' = [list_ptr EXCEPT ![w] = 0]
      BY <1>1, <1>2 DEF IInv, TypeOK
    <2>2. at' = [at EXCEPT ![w] = Nowhere]
      BY <1>1, Constants DEF IInv, TypeOK
    <2>3. \A s \in Subscribers : sub[s] \notin {"in", "leaving"}
      <3>1. Len(callbacks) = 0
        BY <1>2 DEF IInv, TypeOK
      <3> QED
        BY <3>1 DEF IInv, ListInv, Listed
    <2> QED
      BY <1>1, <1>2, <2>1, <2>2, <2>3, FinishStep
  <1>3. CASE list # 0 /\ list_ptr' = [list_ptr EXCEPT ![w] = list] /\ UNCHANGED poolVars
    <2>1. TypeOK'
      <3>1. list_ptr' \in [Workers -> 0..lists]
        BY <1>3 DEF IInv, TypeOK
      <3> QED
        BY <1>1, <1>3, <3>1 DEF IInv, TypeOK, subVars, poolVars
    <2>2. ListInv' /\ WalkInv'
      BY <1>1, <1>3 DEF IInv, ListInv, Listed, WalkInv, WalkOf, NodeAt, subVars, poolVars
    <2>3. PlaceInv'
      <3>1. \A z \in Workers : list_ptr'[z] = IF z = w THEN list ELSE list_ptr[z]
        BY <1>3 DEF IInv, TypeOK
      <3> QED
        BY <1>1, <1>3, <3>1 DEF IInv, PlaceInv, NodeAt, subVars, poolVars
    <2>4. TaskInv' /\ FreshInv' /\ ToldOnce'
      BY <1>1, <1>3, SameTasks DEF subVars
    <2>5. SettledInv'
      BY <1>1, <1>3, SameSettled DEF IInv, SettledInv, subVars
    <2> QED
      BY <2>1, <2>2, <2>3, <2>4, <2>5 DEF IInv
  <1> QED
    BY <1>2, <1>3 DEF Lookup

\* The walk begins at the head, with everybody ahead of it and told nothing.
LEMMA WalkBeginStep ==
    ASSUME IInv, NEW w \in Workers, WalkBegin(w)
    PROVE  IInv'
  <1>1. /\ list_ptr[w] # 0 /\ at[w] = Nowhere /\ worker[w] = "running" /\ w \in Walkers
        /\ UNCHANGED <<poolVars, subVars, list_ptr, sets, told, cut>>
    BY Constants DEF WalkBegin, IInv, PlaceInv
  <1>2. /\ undefined' \in BOOLEAN
        /\ \/ at' = at
           \/ Free(Top) /\ at' = [at EXCEPT ![w] = Top]
    BY DEF WalkBegin, IInv, TypeOK
  <1>3. /\ \A x \in Walkers : x # w => at'[x] = at[x]
        /\ at'[w] = Nowhere \/ (at'[w] = Top /\ Free(Top))
        /\ at' \in [Walkers -> Nodes \cup {Nowhere}]
    BY <1>1, <1>2, Constants DEF IInv, TypeOK
  <1>4. TypeOK'
    BY <1>1, <1>2, <1>3 DEF IInv, TypeOK, subVars, poolVars
  <1>5. ListInv' /\ ToldOnce' /\ TaskInv'
    BY <1>1 DEF IInv, ListInv, Listed, ToldOnce, TaskInv, subVars, poolVars
  <1>6. 0 \in 0..Len(callbacks) /\ NodeAt(0) = Top /\ \A i : NodeAt(i)' = NodeAt(i)
    BY <1>1, ListFacts DEF IInv, NodeAt, subVars
  <1>7. PlaceInv'
    <2>1. ASSUME NEW x \in Walkers, at'[x] # Nowhere
          PROVE  \E i \in 0..Len(callbacks) : at'[x] = NodeAt(i)
      BY <1>3, <1>6, <2>1 DEF IInv, PlaceInv
    <2>2. \A x, y \in Walkers : at'[x] = at'[y] /\ at'[x] # Nowhere => x = y
      BY <1>3 DEF IInv, PlaceInv, Free
    <2>3. \A s \in Subscribers : at'[s] = at[s]
      BY <1>3, Constants
    <2>4. \A z \in Workers : at'[z] # Nowhere => list_ptr[z] # 0
      BY <1>1, <1>3, Constants DEF IInv, PlaceInv
    <2> QED
      BY <1>1, <1>6, <2>1, <2>2, <2>3, <2>4 DEF IInv, PlaceInv, subVars, poolVars
  <1>8. FreshInv'
    <2>1. \A v \in Changes : Untold(v)' => Untold(v)
      <3>1. \A z \in Workers : at'[z] = Nowhere => at[z] = Nowhere
        BY <1>1, <1>3, Constants
      <3> QED
        BY <1>1, <3>1 DEF Untold, Queued, Tells, poolVars
    <2> QED
      BY <1>1, <2>1 DEF IInv, FreshInv, subVars
  <1>9. WalkInv'
    <2> SUFFICES ASSUME NEW z \in Workers, at'[z] # Nowhere PROVE WalkOf(z)'
      BY DEF WalkInv
    <2>1. CASE z # w
      <3>1. at'[z] = at[z]
        BY <1>3, <2>1, Constants
      <3> QED
        BY <1>1, <3>1 DEF IInv, WalkInv, WalkOf, NodeAt, subVars, poolVars
    <2>2. CASE z = w
      <3>1. at'[w] = Top
        BY <1>3, <2>2
      <3>2. \A s \in Subscribers : told[s][task[w]] = 0
        <4>1. task[w] \in 1..sets /\ sets \in 0..MaxSets
          BY <1>1 DEF IInv, TaskInv, TypeOK
        <4>2. task[w] \in Changes
          BY <4>1, Constants DEF Changes
        <4>3. Untold(task[w])
          BY <1>1 DEF Untold, Tells
        <4> QED
          BY <4>2, <4>3 DEF IInv, FreshInv
      <3>3. ASSUME NEW i \in 0..Len(callbacks), Top = NodeAt(i) PROVE i = 0
        BY <1>6, <3>3, NodesUnique DEF IInv
      <3>4. \A j \in 1..Len(callbacks) : told[callbacks[j]][task[w]] = 0
        BY <3>2, ListFacts DEF IInv
      <3>5. ASSUME NEW i \in 0..Len(callbacks), Top = NodeAt(i)
            PROVE  /\ \A j \in (i + 1)..Len(callbacks) : told[callbacks[j]][task[w]] = 0
                   /\ \A j \in 1..i : since[callbacks[j]] < task[w]
                                        => told[callbacks[j]][task[w]] = 1
        <4>1. i = 0
          BY <3>3, <3>5
        <4> QED
          BY <3>4, <4>1
      <3> QED
        BY <1>1, <2>2, <3>1, <3>5 DEF WalkOf, NodeAt, subVars, poolVars
    <2> QED
      BY <2>1, <2>2
  <1>10. SettledInv'
    BY <1>1, SameSettled DEF IInv, SettledInv, subVars
  <1> QED
    BY <1>4, <1>5, <1>7, <1>8, <1>9, <1>10 DEF IInv

\* The walk goes on to the next subscriber, who has not been told, and tells it.
LEMMA WalkNextStep ==
    ASSUME IInv, NEW w \in Workers, WalkNext(w)
    PROVE  IInv'
  <1> DEFINE L == Len(callbacks)
  <1>1. PICK s \in Subscribers :
          /\ Follows(s, w) /\ Free(s)
          /\ at' = [at EXCEPT ![w] = s]
          /\ told' = [told EXCEPT ![s][task[w]] = @ + 1]
    BY DEF WalkNext
  <1>2. UNCHANGED <<poolVars, subVars, list_ptr, sets, undefined, cut>>
    BY DEF WalkNext
  <1>3. PICK i \in 1..L : callbacks[i] = s /\ at[w] = NodeAt(i - 1)
    BY <1>1, ListFacts DEF Follows, NodeAt, IInv
  <1>4. /\ L \in Nat /\ i - 1 \in 0..L /\ i \in 0..L /\ (i - 1) + 1 = i
        /\ \A j \in 1..L : callbacks[j] \in Subscribers
    BY <1>3, ListFacts DEF IInv
  <1>5. at[w] # Nowhere /\ w \in Walkers /\ worker[w] = "running" /\ s # Nowhere
    <2>1. at[w] \in Nodes
      BY <1>3, <1>4, NodesUnique DEF IInv
    <2> QED
      BY <2>1, Constants DEF IInv, PlaceInv
  <1>6. PICK v \in Changes : v = task[w]
    <2>1. task[w] \in 1..sets /\ sets \in 0..MaxSets
      BY <1>5 DEF IInv, TaskInv, TypeOK
    <2> QED
      BY <2>1, Constants DEF Changes
  <1>7. /\ at'[w] = s /\ \A x \in Walkers : x # w => at'[x] = at[x]
        /\ at' \in [Walkers -> Nodes \cup {Nowhere}]
    BY <1>1, <1>5, Constants DEF IInv, TypeOK
  <1>8. /\ told'[s][v] = told[s][v] + 1
        /\ \A u \in Subscribers, y \in Changes : u # s \/ y # v => told'[u][y] = told[u][y]
        /\ told' \in [Subscribers -> [1..MaxSets -> Nat]]
    <2>1. told \in [Subscribers -> [1..MaxSets -> Nat]]
      BY DEF IInv, TypeOK
    <2>2. told' = [told EXCEPT ![s][v] = @ + 1] /\ v \in 1..MaxSets
      BY <1>1, <1>6 DEF Changes
    <2> DEFINE f == [told[s] EXCEPT ![v] = @ + 1]
    <2>3. told' = [told EXCEPT ![s] = f]
      BY <2>2
    <2>4. told[s] \in [1..MaxSets -> Nat] /\ told[s][v] \in Nat
      BY <1>5, <2>1, <2>2
    <2>5. /\ f \in [1..MaxSets -> Nat]
          /\ f[v] = told[s][v] + 1
          /\ \A y \in 1..MaxSets : y # v => f[y] = told[s][y]
      <3> DEFINE old == told[s]
                 one == old[v] + 1
      <3>1. /\ old \in [1..MaxSets -> Nat] /\ v \in 1..MaxSets /\ one \in Nat
            /\ f = [old EXCEPT ![v] = one] /\ one = told[s][v] + 1 /\ old = told[s]
        BY <2>2, <2>4
      <3> HIDE DEF old, one, f
      <3>2. f \in [1..MaxSets -> Nat]
        BY <3>1
      <3>3. f[v] = one /\ \A y \in 1..MaxSets : y # v => f[y] = old[y]
        BY <3>1
      <3> QED
        BY <3>1, <3>2, <3>3
    <2> HIDE DEF f
    <2>6. told'[s] = f /\ \A u \in Subscribers : u # s => told'[u] = told[u]
      BY <1>5, <2>1, <2>3
    <2>7. told' \in [Subscribers -> [1..MaxSets -> Nat]]
      BY <2>1, <2>3, <2>5
    <2> QED
      BY <2>5, <2>6, <2>7 DEF Changes
  <1>9. /\ \A j \in i..L : told[callbacks[j]][v] = 0
        /\ \A j \in 1..(i - 1) : since[callbacks[j]] < v => told[callbacks[j]][v] = 1
    <2>1. WalkOf(w)
      BY <1>5 DEF IInv, WalkInv
    <2> DEFINE h == i - 1
    <2>2. h \in 0..L /\ at[w] = NodeAt(h) /\ h + 1 = i
      BY <1>3, <1>4
    <2> HIDE DEF h
    <2>3. /\ \A j \in (h + 1)..L : told[callbacks[j]][task[w]] = 0
          /\ \A j \in 1..h : since[callbacks[j]] < task[w] => told[callbacks[j]][task[w]] = 1
      BY <2>1, <2>2 DEF WalkOf, L
    <2> QED
      BY <1>6, <2>2, <2>3 DEF h
  <1>10. told[s][v] = 0 /\ told'[s][v] = 1
    <2>1. i \in i..L
      BY <1>3, <1>4
    <2>2. told[s][v] = 0
      BY <1>3, <1>9, <2>1
    <2> QED
      BY <1>8, <2>2
  <1> HIDE DEF L
  <1>11. TypeOK'
    BY <1>2, <1>7, <1>8 DEF IInv, TypeOK, subVars, poolVars
  <1>12. ListInv' /\ TaskInv'
    BY <1>2 DEF IInv, ListInv, Listed, TaskInv, subVars, poolVars
  <1>13. \A j : NodeAt(j)' = NodeAt(j)
    BY <1>2 DEF NodeAt, subVars
  <1>14. NodeAt(i) = s
    BY <1>3, <1>4, NodesUnique DEF IInv, L
  <1>15. PlaceInv'
    <2>1. ASSUME NEW x \in Walkers, at'[x] # Nowhere
          PROVE  \E j \in 0..Len(callbacks) : at'[x] = NodeAt(j)
      <3>1. CASE x = w
        BY <1>4, <1>7, <1>14, <3>1 DEF L
      <3>2. CASE x # w
        BY <1>7, <2>1, <3>2 DEF IInv, PlaceInv
      <3> QED
        BY <3>1, <3>2
    <2>2. \A x, y \in Walkers : at'[x] = at'[y] /\ at'[x] # Nowhere => x = y
      BY <1>1, <1>7 DEF IInv, PlaceInv, Free
    <2>3. \A u \in Subscribers : at'[u] = at[u]
      BY <1>7, Constants
    <2>4. \A z \in Workers : at'[z] # Nowhere => list_ptr[z] # 0
      BY <1>5, <1>7, Constants DEF IInv, PlaceInv
    <2> QED
      BY <1>2, <1>13, <2>1, <2>2, <2>3, <2>4 DEF IInv, PlaceInv, subVars, poolVars
  <1>16. ToldOnce'
    <2>1. \A u \in Subscribers, y \in Changes : told'[u][y] <= 1
      <3> SUFFICES ASSUME NEW u \in Subscribers, NEW y \in Changes PROVE told'[u][y] <= 1
        OBVIOUS
      <3>1. CASE u = s /\ y = v
        BY <1>10, <3>1
      <3>2. CASE u # s \/ y # v
        BY <1>8, <3>2 DEF IInv, ToldOnce, Changes
      <3> QED
        BY <3>1, <3>2
    <2> QED
      BY <2>1 DEF ToldOnce, Changes
  <1>17. ~Untold(v)' /\ \A y \in Changes : Untold(y)' => Untold(y)
    <2>1. v \in 1..sets /\ ~Queued(v)
      BY <1>5, <1>6 DEF IInv, TaskInv, Queued
    <2>2. \A z \in Workers : Tells(z, v) => z = w
      BY <1>5, <1>6 DEF IInv, TaskInv, Tells
    <2>3. at'[w] # Nowhere /\ \A z \in Workers : at'[z] = Nowhere => at[z] = Nowhere
      BY <1>5, <1>7, Constants
    <2>4. /\ \A y : Queued(y)' <=> Queued(y)
          /\ \A z, y : Tells(z, y)' <=> Tells(z, y)
      BY <1>2 DEF Queued, Tells, poolVars
    <2> QED
      BY <1>2, <2>1, <2>2, <2>3, <2>4 DEF Untold
  <1>18. FreshInv'
    <2>1. sub[s] # "new"
      <3>1. Listed(s)
        BY <1>3 DEF Listed, L
      <3> QED
        BY <3>1 DEF IInv, ListInv
    <2> QED
      BY <1>2, <1>8, <1>17, <2>1 DEF IInv, FreshInv, subVars
  <1>19. WalkInv'
    <2> SUFFICES ASSUME NEW z \in Workers, at'[z] # Nowhere PROVE WalkOf(z)'
      BY DEF WalkInv
    <2>1. CASE z # w
      <3>1. at'[z] = at[z] /\ at[z] # Nowhere
        BY <1>7, <2>1, Constants
      <3>2. task[z] # v
        BY <1>5, <1>6, <2>1, <3>1 DEF IInv, TaskInv, PlaceInv
      <3>3. task[z] \in Changes
        <4>1. task[z] \in 1..sets /\ sets \in 0..MaxSets
          BY <3>1 DEF IInv, TaskInv, TypeOK, PlaceInv
        <4> QED
          BY <4>1, Constants DEF Changes
      <3>4. \A j \in 1..L : told'[callbacks[j]][task[z]] = told[callbacks[j]][task[z]]
        BY <1>4, <1>8, <3>2, <3>3
      <3>5. WalkOf(z)
        BY <3>1 DEF IInv, WalkInv
      <3>6. ASSUME NEW h \in 0..L, at[z] = NodeAt(h)
            PROVE  /\ \A j \in (h + 1)..L : told'[callbacks[j]][task[z]] = 0
                   /\ \A j \in 1..h : since[callbacks[j]] < task[z]
                                        => told'[callbacks[j]][task[z]] = 1
        <4>1. /\ \A j \in (h + 1)..L : told[callbacks[j]][task[z]] = 0
              /\ \A j \in 1..h : since[callbacks[j]] < task[z]
                                   => told[callbacks[j]][task[z]] = 1
          BY <3>5, <3>6 DEF WalkOf, L
        <4>2. (\A j \in (h + 1)..L : j \in 1..L) /\ \A j \in 1..h : j \in 1..L
          BY <1>4, <3>6
        <4> QED
          BY <3>4, <4>1, <4>2
      <3> QED
        BY <1>2, <1>13, <3>1, <3>6 DEF WalkOf, subVars, poolVars, L
    <2>2. CASE z = w
      <3>1. ASSUME NEW h \in 0..L, s = NodeAt(h)
            PROVE  /\ \A j \in (h + 1)..L : told'[callbacks[j]][v] = 0
                   /\ \A j \in 1..h : since[callbacks[j]] < v => told'[callbacks[j]][v] = 1
        <4>1. h = i
          BY <1>4, <1>14, <3>1, NodesUnique DEF IInv, L
        <4>2. ASSUME NEW j \in (i + 1)..L PROVE told'[callbacks[j]][v] = 0
          <5>1. j \in 1..L /\ j # i /\ j \in i..L
            BY <1>3, <1>4, <4>2
          <5>2. callbacks[j] # s
            BY <1>3, <5>1 DEF IInv, ListInv, L
          <5> QED
            BY <1>4, <1>8, <1>9, <5>1, <5>2
        <4>3. ASSUME NEW j \in 1..i, since[callbacks[j]] < v PROVE told'[callbacks[j]][v] = 1
          <5>1. CASE j = i
            BY <1>3, <1>10, <5>1
          <5>2. CASE j # i
            <6>1. j \in 1..(i - 1) /\ j \in 1..L
              BY <1>3, <1>4, <4>3, <5>2
            <6>2. callbacks[j] # s
              BY <1>3, <5>2, <6>1 DEF IInv, ListInv, L
            <6> QED
              BY <1>4, <1>8, <1>9, <4>3, <6>1, <6>2
          <5> QED
            BY <5>1, <5>2
        <4> QED
          BY <4>1, <4>2, <4>3
      <3>2. at'[w] = s /\ task'[w] = v
        BY <1>2, <1>6, <1>7 DEF poolVars
      <3> QED
        BY <1>2, <1>13, <2>2, <3>1, <3>2 DEF WalkOf, subVars, L
    <2> QED
      BY <2>1, <2>2
  <1>20. SettledInv'
    <2>1. ASSUME NEW u \in Subscribers, NEW y \in Changes, Settled(u, y) PROVE Settled(u, y)'
      <3>1. told[u][y] = 1 => told'[u][y] = 1
        BY <1>8, <1>10, <2>1
      <3> QED
        BY <1>2, <2>1, <3>1 DEF Settled, Queued, Tells, poolVars
    <2> QED
      BY <1>2, <2>1 DEF IInv, SettledInv, subVars
  <1> QED
    BY <1>11, <1>12, <1>15, <1>16, <1>18, <1>19, <1>20 DEF IInv

\* The walk is over: everybody is behind it, or a callback threw.
LEMMA WalkReturnStep ==
    ASSUME IInv, NEW w \in Workers, WalkEnd(w) \/ WalkThrow(w)
    PROVE  IInv'
  <1>1. /\ list_ptr' = [list_ptr EXCEPT ![w] = 0]
        /\ at' = [at EXCEPT ![w] = Nowhere]
        /\ Finish(w)
        /\ UNCHANGED <<subVars, sets, undefined, told>>
        /\ cut' = cut \/ cut' = cut \cup {task[w]}
    BY DEF WalkEnd, WalkThrow, WalkReturn
  <1>2. at[w] # Nowhere /\ worker[w] = "running" /\ w \in Walkers
    BY Constants DEF WalkEnd, WalkThrow, IInv, PlaceInv
  <1>3. CASE WalkThrow(w)
    BY <1>1, <1>2, <1>3, FinishStep DEF WalkThrow
  <1>4. CASE WalkEnd(w)
    <2> DEFINE L == Len(callbacks)
    <2>1. PICK i \in 0..L : at[w] = NodeAt(i)
      BY <1>2 DEF IInv, PlaceInv
    <2>2. L \in Nat /\ DOMAIN callbacks = 1..L /\ \A j \in 1..L : callbacks[j] \in Subscribers
      BY ListFacts DEF IInv
    <2>3. i = L
      <3> SUFFICES ASSUME i # L PROVE FALSE
        OBVIOUS
      <3>1. i + 1 \in 1..L /\ (i + 1) - 1 = i /\ (i + 1 = 1 <=> i = 0)
        <4>1. i \in 0..L /\ L \in Nat
          BY <2>1, <2>2
        <4> HIDE DEF L
        <4>2. i \in Int /\ 0 <= i /\ i <= L
          BY <4>1
        <4>3. i + 1 \in 1..L
          BY <4>1, <4>2
        <4> QED
          BY <4>2, <4>3
      <3>2. callbacks[i + 1] \in Subscribers
        BY <2>2, <3>1
      <3>3. at[w] = IF i + 1 = 1 THEN Top ELSE callbacks[(i + 1) - 1]
        BY <2>1, <3>1 DEF NodeAt
      <3>4. Follows(callbacks[i + 1], w)
        BY <2>2, <3>1, <3>3 DEF Follows
      <3> QED
        BY <1>4, <3>2, <3>4 DEF WalkEnd
    <2>4. \A j \in 1..L : since[callbacks[j]] < task[w] => told[callbacks[j]][task[w]] = 1
      BY <1>2, <2>1, <2>3 DEF IInv, WalkInv, WalkOf
    <2>5. ASSUME NEW s \in Subscribers, sub[s] \in {"in", "leaving"}, since[s] < task[w]
          PROVE  told[s][task[w]] = 1
      <3>1. PICK j \in 1..L : callbacks[j] = s
        BY <2>5 DEF IInv, ListInv, Listed
      <3> QED
        BY <2>4, <2>5, <3>1
    <2> QED
      BY <1>1, <1>2, <2>5, FinishStep
  <1> QED
    BY <1>3, <1>4

\* Every step of the pool, the subscribers and the setters preserves the invariant.
LEMMA NextIInv == IInv /\ [Next]_vars => IInv'
  <1> SUFFICES ASSUME IInv, [Next]_vars PROVE IInv'
    OBVIOUS
  <1>1. ASSUME NEW w \in Workers, Work(w) PROVE IInv'
    <2>1. CASE Notify(w)
      BY <2>1, LookupStep, WalkBeginStep, WalkNextStep, WalkReturnStep DEF Notify
    <2>2. CASE (WorkerLoop(w) \/ WorkerTryPop(w)) /\ UNCHANGED others
      BY <2>2, PoolStep, TakeStep
    <2> QED
      BY <1>1, <2>1, <2>2 DEF Work
  <1>2. ASSUME NEW w \in Workers, WalkThrow(w) PROVE IInv'
    BY <1>2, WalkReturnStep
  <1>3. ASSUME NEW s \in Subscribers, Subscribe(s) \/ UnsubscribeLock(s) \/ Unsubscribe(s)
        PROVE  IInv'
    BY <1>3, SubscribeStep, UnsubscribeMoveStep, UnsubscribeRemoveStep DEF Unsubscribe
  <1>4. CASE Set
    BY <1>4, SetStep
  <1>5. CASE (StopCall \/ StopReturn) /\ UNCHANGED others
    BY <1>5, PoolStep
  <1>6. CASE UNCHANGED vars
    <2>1. UNCHANGED others /\ UNCHANGED poolVars
      BY <1>6 DEF vars, others
    <2>2. TypeOK'
      BY <2>1 DEF IInv, TypeOK, others, subVars, history, poolVars
    <2> QED
      BY <2>1, <2>2, PoolQuietStep DEF poolVars
  <1> QED
    BY <1>1, <1>2, <1>3, <1>4, <1>5, <1>6 DEF Next

\* Every reachable state of the subscription system satisfies the inductive invariant.
THEOREM Inductive == Spec => []IInv
  BY InitIInv, NextIInv, PTL DEF Spec

-----------------------------------------------------------------------------
(* What the subscription system promises. *)

\* When unsubscribe has returned no worker is inside the subscriber's callback.
THEOREM Silent == Spec => []SilentAfterUnsubscribe
  <1>1. ASSUME IInv PROVE SilentAfterUnsubscribe
    <2> SUFFICES ASSUME NEW s \in Subscribers, NEW w \in Workers, sub[s] = "gone", at[w] = s
                 PROVE  FALSE
      BY DEF SilentAfterUnsubscribe
    <2>1. at[w] # Nowhere /\ w \in Walkers /\ s # Top
      BY Constants
    <2>2. PICK i \in 0..Len(callbacks) : s = NodeAt(i)
      BY <1>1, <2>1 DEF IInv, PlaceInv
    <2>3. i # 0 /\ i \in 1..Len(callbacks)
      BY <1>1, <2>1, <2>2, ListFacts DEF IInv, NodeAt
    <2>4. Listed(s)
      BY <2>2, <2>3 DEF Listed, NodeAt
    <2> QED
      BY <1>1, <2>4 DEF IInv, ListInv
  <1> QED
    BY <1>1, Inductive, PTL

\* A change is told to every subscriber it concerns exactly once, whoever comes and goes.
THEOREM ExactlyOnce == Spec => []ToldExactlyOnce
  <1>1. ASSUME IInv PROVE ToldExactlyOnce
    <2>1. ToldOnce
      BY <1>1 DEF IInv
    <2>2. NoChangeMissed
      <3> SUFFICES ASSUME NEW s \in Subscribers, NEW v \in Changes, sub[s] = "in",
                          v \in (since[s] + 1)..sets
                   PROVE  \/ told[s][v] = 1
                          \/ v \in cut \cup ToSet(work_queue) \cup {task[w] : w \in Workers}
                          \/ done
        BY DEF NoChangeMissed, Changes
      <3>1. since[s] < v /\ v <= sets
        BY <1>1 DEF IInv, TypeOK, Changes
      <3>2. Settled(s, v)
        BY <1>1, <3>1 DEF IInv, SettledInv
      <3>3. Queued(v) => v \in ToSet(work_queue)
        BY <1>1, QueueFacts DEF IInv, Queued, ToSet
      <3> QED
        BY <3>2, <3>3 DEF Settled, Tells
    <2> QED
      BY <2>1, <2>2 DEF ToldExactlyOnce
  <1> QED
    BY <1>1, Inductive, PTL
=============================================================================

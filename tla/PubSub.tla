------------------------------- MODULE PubSub -------------------------------
(***************************************************************************)
(* src/pubsub.{h,cpp}, SubscriptionSystem, as MemStore uses it: every set  *)
(* submits a task to the thread pool, and the worker that runs it calls    *)
(* the callback of each subscriber of the actor.                           *)
(*                                                                         *)
(* One actor: the lists of different actors share nothing but mutex_.  A   *)
(* walk over the list is a walk of ThreadSafeList at the grain of nodes:   *)
(* a worker or an unsubscribing thread has the mutex of the node it is at  *)
(* and takes the next node's before it lets go.  The worker calls the      *)
(* callback with the mutex of its node.                                    *)
(*                                                                         *)
(* notify looks the list up under mutex_ and walks it without.  If the     *)
(* last subscriber leaves in between, the list is destroyed and the walk   *)
(* uses freed memory: the behaviour is undefined, and the model stops.     *)
(***************************************************************************)
EXTENDS ThreadPool

CONSTANTS
    Subscribers,    \* the threads that subscribe, each once, and leave again
    Nowhere,
    Top,            \* the list's head node
    MaxSets         \* bound: calls of MemStore::set

Nodes == Subscribers \cup {Top}
Walkers == Workers \cup Subscribers

ASSUME PubSubAssumption ==
    /\ Workers \cap Subscribers = {}
    /\ {Nowhere, Top} \cap Walkers = {} /\ Nowhere # Top
    /\ MaxSets \in Nat

VARIABLES
    mutex_,         \* the subscriber inside unsubscribe, as a set
    list,           \* the actor's list in subscriptions_, by number; 0: none
    lists,          \* lists created so far
    callbacks,      \* the subscribers in that list, the newest first
    sub,            \* where each subscriber is
    at,             \* the node each walker has locked
    list_ptr,       \* the list each worker has looked up
    sets,
    undefined,      \* history: a destroyed list was used
    since,          \* history: the sets made before each subscriber came
    told,           \* history: how often each subscriber was told each change
    cut             \* history: the changes at which a callback threw

subVars == <<mutex_, list, lists, callbacks, sub, since>>
history == <<undefined, told, cut>>
vars == <<poolVars, subVars, at, list_ptr, sets, history>>

Init ==
    /\ PoolInit
    /\ mutex_ = {}
    /\ list = 0
    /\ lists = 0
    /\ callbacks = <<>>
    /\ sub = [s \in Subscribers |-> "new"]
    /\ at = [x \in Walkers |-> Nowhere]
    /\ list_ptr = [w \in Workers |-> 0]
    /\ sets = 0
    /\ undefined = FALSE
    /\ since = [s \in Subscribers |-> 0]
    /\ told = [s \in Subscribers |-> [v \in 1..MaxSets |-> 0]]
    /\ cut = {}

Free(n) == \A x \in Walkers : at[x] # n

\* n follows the node that walker x has locked.
Follows(n, x) ==
    \E i \in DOMAIN callbacks :
        /\ callbacks[i] = n
        /\ at[x] = IF i = 1 THEN Top ELSE callbacks[i - 1]

\* MemStore::set ends with notify_subscribers, which submits the change.
Set ==
    /\ sets < MaxSets
    /\ sets' = sets + 1
    /\ Submit(sets')
    /\ UNCHANGED <<subVars, at, list_ptr, history>>

(***************************************************************************)
(* subscribe, and unsubscribe: it walks to the node before its own.        *)
(***************************************************************************)
Subscribe(s) ==
    /\ sub[s] = "new"
    /\ mutex_ = {}
    /\ Free(Top)
    /\ lists' = IF list = 0 THEN lists + 1 ELSE lists
    /\ list' = IF list = 0 THEN lists' ELSE list
    /\ callbacks' = <<s>> \o callbacks
    /\ sub' = [sub EXCEPT ![s] = "in"]
    /\ since' = [since EXCEPT ![s] = sets]
    /\ UNCHANGED <<poolVars, mutex_, at, list_ptr, sets, history>>

UnsubscribeLock(s) ==
    /\ sub[s] = "in"
    /\ mutex_ = {}
    /\ mutex_' = {s}
    /\ sub' = [sub EXCEPT ![s] = "leaving"]
    /\ UNCHANGED <<poolVars, list, lists, callbacks, since, at, list_ptr, sets, history>>

\* Bug: the walk goes on to the node it looks for.
UnsubscribeWalk_TooFar(s) ==
    /\ sub[s] = "leaving"
    /\ \E n \in Nodes :
        /\ Free(n)
        /\ \/ at[s] = Nowhere /\ n = Top
           \/ Follows(n, s)
        /\ at' = [at EXCEPT ![s] = n]
    /\ UNCHANGED <<poolVars, subVars, list_ptr, sets, history>>

UnsubscribeWalk(s) ==
    /\ sub[s] = "leaving"
    /\ \E n \in Nodes :
        /\ n # s /\ Free(n)
        /\ \/ at[s] = Nowhere /\ n = Top
           \/ Follows(n, s)
        /\ at' = [at EXCEPT ![s] = n]
    /\ UNCHANGED <<poolVars, subVars, list_ptr, sets, history>>

\* Bug: the node's own mutex is not taken.
UnsubscribeRemove_NodeUnlocked(s) ==
    /\ sub[s] = "leaving"
    /\ Follows(s, s)
    /\ callbacks' = RemoveFirst(callbacks, s)
    /\ list' = IF callbacks' = <<>> THEN 0 ELSE list
    /\ sub' = [sub EXCEPT ![s] = "gone"]
    /\ at' = [at EXCEPT ![s] = Nowhere]
    /\ mutex_' = {}
    /\ UNCHANGED <<poolVars, lists, since, list_ptr, sets, history>>

\* The subscriber is removed from the list, and an empty list from the map: it is
\* destroyed.
UnsubscribeRemove(s) ==
    /\ sub[s] = "leaving"
    /\ Follows(s, s) /\ Free(s)
    /\ callbacks' = RemoveFirst(callbacks, s)
    /\ list' = IF callbacks' = <<>> THEN 0 ELSE list
    /\ sub' = [sub EXCEPT ![s] = "gone"]
    /\ at' = [at EXCEPT ![s] = Nowhere]
    /\ mutex_' = {}
    /\ UNCHANGED <<poolVars, lists, since, list_ptr, sets, history>>

(***************************************************************************)
(* notify, on worker w.                                                    *)
(***************************************************************************)
Lookup(w) ==
    /\ worker[w] = "running" /\ list_ptr[w] = 0
    /\ mutex_ = {}
    /\ \/ /\ list = 0
          /\ Finish(w)
          /\ UNCHANGED list_ptr
       \/ /\ list # 0
          /\ list_ptr' = [list_ptr EXCEPT ![w] = list]
          /\ UNCHANGED poolVars
    /\ UNCHANGED <<subVars, at, sets, history>>

\* for_each locks the head of the list, if the list is still there.
WalkBegin(w) ==
    /\ list_ptr[w] # 0 /\ at[w] = Nowhere
    /\ \/ /\ list_ptr[w] # list
          /\ undefined' = TRUE
          /\ UNCHANGED at
       \/ /\ list_ptr[w] = list
          /\ Free(Top)
          /\ at' = [at EXCEPT ![w] = Top]
          /\ UNCHANGED undefined
    /\ UNCHANGED <<poolVars, subVars, list_ptr, sets, told, cut>>

\* Bug: the walk starts with the second subscriber.
WalkNext_SkipsFirst(w) ==
    /\ \E s \in Subscribers :
        /\ Follows(s, w) /\ Free(s)
        /\ at' = [at EXCEPT ![w] = s]
        /\ told' = IF at[w] = Top THEN told ELSE [told EXCEPT ![s][task[w]] = @ + 1]
    /\ UNCHANGED <<poolVars, subVars, list_ptr, sets, undefined, cut>>

\* The next node is locked, the one before it let go, and the callback called.
WalkNext(w) ==
    /\ \E s \in Subscribers :
        /\ Follows(s, w) /\ Free(s)
        /\ at' = [at EXCEPT ![w] = s]
        /\ told' = [told EXCEPT ![s][task[w]] = @ + 1]
    /\ UNCHANGED <<poolVars, subVars, list_ptr, sets, undefined, cut>>

\* The task is over: all locks are released and the worker goes on.
WalkReturn(w) ==
    /\ list_ptr' = [list_ptr EXCEPT ![w] = 0]
    /\ at' = [at EXCEPT ![w] = Nowhere]
    /\ Finish(w)
    /\ UNCHANGED <<subVars, sets, undefined, told>>

\* The last callback has returned.
WalkEnd(w) ==
    /\ at[w] # Nowhere
    /\ \A s \in Subscribers : ~Follows(s, w)
    /\ WalkReturn(w)
    /\ UNCHANGED cut

\* A callback throws: the rest of the walk is given up, and the worker swallows it.
WalkThrow(w) ==
    /\ at[w] \in Subscribers
    /\ WalkReturn(w)
    /\ cut' = cut \cup {task[w]}

Notify(w) == Lookup(w) \/ WalkBegin(w) \/ WalkNext(w) \/ WalkEnd(w)

others == <<subVars, at, list_ptr, sets, history>>

Work(w) ==
    /\ ~undefined
    /\ \/ Notify(w)
       \/ (WorkerLoop(w) \/ WorkerTryPop(w)) /\ UNCHANGED others

Unsubscribe(s) == ~undefined /\ (UnsubscribeWalk(s) \/ UnsubscribeRemove(s))

Next ==
    \/ \E w \in Workers : Work(w) \/ (~undefined /\ WalkThrow(w))
    \/ \E s \in Subscribers :
        ~undefined /\ (Subscribe(s) \/ UnsubscribeLock(s))
    \/ \E s \in Subscribers : Unsubscribe(s)
    \/ ~undefined /\ Set
    \/ ~undefined /\ (StopCall \/ StopReturn) /\ UNCHANGED others

Spec == Init /\ [][Next]_vars

\* Workers and the threads inside unsubscribe and Stop are scheduled, contended mutexes are
\* eventually won, and callbacks return.
FairSpec ==
    /\ Spec
    /\ \A w \in Workers : SF_vars(Work(w))
    /\ \A s \in Subscribers : SF_vars(Unsubscribe(s))
    /\ WF_vars(~undefined /\ StopReturn /\ UNCHANGED others)

(***************************************************************************)
(* Properties.                                                             *)
(***************************************************************************)
\* The type of every variable; the actor has a list exactly while it has subscribers.
TypeOK ==
    /\ work_queue \in Seq(1..MaxSets)
    /\ done \in BOOLEAN
    /\ worker \in [Workers -> {"loop", "try", "running", "exited"}]
    /\ task \in [Workers -> 1..MaxSets \cup {NoTask}]
    /\ stopper \in {"idle", "joining", "stopped"}
    /\ mutex_ = {s \in Subscribers : sub[s] = "leaving"}
    /\ lists \in Nat /\ list \in 0..lists
    /\ callbacks \in Seq(Subscribers)
    /\ (list = 0) = (callbacks = <<>>)
    /\ sub \in [Subscribers -> {"new", "in", "leaving", "gone"}]
    /\ at \in [Walkers -> Nodes \cup {Nowhere}]
    /\ list_ptr \in [Workers -> 0..lists]
    /\ sets \in 0..MaxSets
    /\ undefined \in BOOLEAN
    /\ since \in [Subscribers -> 0..MaxSets]
    /\ told \in [Subscribers -> [1..MaxSets -> Nat]]
    /\ cut \subseteq 1..MaxSets

\* Once unsubscribe has returned, no worker is inside the callback or will be: its owner may
\* destroy what the callback uses.
SilentAfterUnsubscribe ==
    \A s \in Subscribers, w \in Workers : sub[s] = "gone" => at[w] # s

\* A change is told to a subscriber at most once, whichever workers walk the list at the
\* same time and whoever comes and goes meanwhile.
ToldOnce == \A s \in Subscribers, v \in 1..MaxSets : told[s][v] <= 1

\* No change is missed: one made after a subscriber came has been told to it once its task is
\* over, unless a callback threw at it or the pool was stopped.
NoChangeMissed ==
    \A s \in Subscribers, v \in 1..MaxSets :
        \/ sub[s] # "in" \/ v \notin (since[s] + 1)..sets
        \/ told[s][v] = 1
        \/ v \in cut \cup ToSet(work_queue) \cup {task[w] : w \in Workers}
        \/ done

\* A change is told to every subscriber it concerns exactly once (ToldOnce, NoChangeMissed).
ToldExactlyOnce == ToldOnce /\ NoChangeMissed

\* unsubscribe returns although it waits, with mutex_ held, for the nodes of running
\* callbacks, and workers wait for mutex_.
UnsubscribeReturns == mutex_ # {} ~> (mutex_ = {} \/ undefined)

=============================================================================

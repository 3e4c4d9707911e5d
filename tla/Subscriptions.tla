--------------------------- MODULE Subscriptions ---------------------------
(***************************************************************************)
(* src/server.{h,cpp}: the Subscribe streams of IquoraServiceImpl and the  *)
(* changes that publish_change hands to them.                              *)
(*                                                                         *)
(* One actor: the entries of subs_map_ for different actors share nothing  *)
(* but subs_map_mutex_.  A stream is one call of Subscribe, a publisher a  *)
(* thread in publish_change.  Each SubscriptionList has its own ids and    *)
(* lives as long as a shared_ptr to it: the map's, a stream's or a         *)
(* publisher's.  Walks over a list are walks of ThreadSafeList: a walker   *)
(* has the mutex of the node it is at and takes the next node's before it  *)
(* lets go.  inbound is a BoundedQueue of 2^32 - 1 places, taken as a FIFO *)
(* without bound, that lives in the stream's frame.                        *)
(*                                                                         *)
(* Subscribe gets its list from the map and adds to it in two steps.  When *)
(* the list leaves the map in between, the stream is lost: nothing is      *)
(* published to it, and remove_callback does not find it.  A callback that *)
(* runs after its stream returned, and the destruction of a list that has  *)
(* nodes (ThreadSafeList::remove_if goes on from a node it freed), are     *)
(* undefined: the model stops there.                                       *)
(***************************************************************************)
EXTENDS Naturals, FiniteSets, SequencesExt

CONSTANTS
    Streams,        \* calls of Subscribe
    Publishers,     \* threads that handle Set
    Top,            \* the head node of every list
    MaxChanges,     \* bound: calls of publish_change
    MaxThrows       \* bound: callbacks that throw

Lists == 1..Cardinality(Streams)
Walkers == Streams \cup Publishers
Nowhere == <<0, Top>>

ASSUME SubscriptionsAssumption ==
    /\ IsFiniteSet(Streams)
    /\ Streams \cap Publishers = {} /\ Top \notin Walkers
    /\ MaxChanges \in Nat /\ MaxThrows \in Nat

VARIABLES
    subs_map_mutex_,    \* the stream inside remove_callback, as a set
    subs_map_,          \* the actor's list, by number; 0: none
    lists,              \* lists created so far
    callbacks,          \* the streams in each list, the newest first
    next_id_,
    stream,             \* where each stream is
    subs, cb_id,        \* its list and its id in it
    inbound,            \* the changes queued for it
    cancelled,          \* the streams whose client has gone
    list_ptr,           \* the list each publisher looked up, 0: none
    change,             \* the change it publishes, 0: none
    at,                 \* the node each walker has locked
    changes,
    undefined,
    sent,               \* history: the changes written to each client
    since,              \* history: the changes made before the stream was added
    lost,               \* history: streams added to a list that had left the map, or
                        \* whose callback another stream removed
    threw               \* history: the callbacks that threw, as stream and change

mapVars == <<subs_map_mutex_, subs_map_, lists>>
listVars == <<callbacks, next_id_>>
frameVars == <<stream, subs, cb_id, inbound>>
publishVars == <<list_ptr, change, changes>>
history == <<sent, since, lost, threw>>
vars == <<mapVars, listVars, frameVars, cancelled, publishVars, at, undefined, history>>

Init ==
    /\ subs_map_mutex_ = {}
    /\ subs_map_ = 0
    /\ lists = 0
    /\ callbacks = [l \in Lists |-> <<>>]
    /\ next_id_ = [l \in Lists |-> 1]
    /\ stream = [s \in Streams |-> "new"]
    /\ subs = [s \in Streams |-> 0]
    /\ cb_id = [s \in Streams |-> 0]
    /\ inbound = [s \in Streams |-> <<>>]
    /\ cancelled = {}
    /\ list_ptr = [p \in Publishers |-> 0]
    /\ change = [p \in Publishers |-> 0]
    /\ at = [x \in Walkers |-> Nowhere]
    /\ changes = 0
    /\ undefined = FALSE
    /\ sent = [s \in Streams |-> <<>>]
    /\ since = [s \in Streams |-> 0]
    /\ lost = {}
    /\ threw = {}

Free(l, n) == \A x \in Walkers : at[x] # <<l, n>>

\* n is the node behind the one walker x has locked.
Follows(n, x) ==
    \E l \in Lists : \E i \in DOMAIN callbacks[l] :
        /\ callbacks[l][i] = n
        /\ at[x] = <<l, IF i = 1 THEN Top ELSE callbacks[l][i - 1]>>

\* Walker x locks the head of list l, or the node n behind its own.
LockHead(x, l) ==
    /\ at[x] = Nowhere /\ Free(l, Top)
    /\ at' = [at EXCEPT ![x] = <<l, Top>>]

\* Bug: the next node is entered without its mutex.
LockNext_NoWait(x, n) ==
    /\ Follows(n, x)
    /\ at' = [at EXCEPT ![x] = <<at[x][1], n>>]

LockNext(x, n) ==
    /\ Follows(n, x) /\ Free(at[x][1], n)
    /\ at' = [at EXCEPT ![x] = <<at[x][1], n>>]

\* A shared_ptr to list l goes away; the last one destroys the list.
Release(l) ==
    undefined' = (/\ l \notin {subs_map_'} \cup Range(subs') \cup Range(list_ptr')
                  /\ l # 0 /\ callbacks'[l] # <<>>)

(***************************************************************************)
(* Subscribe.                                                              *)
(***************************************************************************)
\* IsActorActive: an inactive actor ends the call.  The answer is the lifecycle's.
Refuse(s) ==
    /\ stream[s] = "new"
    /\ stream' = [stream EXCEPT ![s] = "refused"]
    /\ UNCHANGED <<mapVars, listVars, subs, cb_id, inbound, cancelled, publishVars, at,
                   undefined, history>>

GetOrCreateSubs(s) ==
    /\ stream[s] = "new"
    /\ subs_map_mutex_ = {}
    /\ lists' = IF subs_map_ = 0 THEN lists + 1 ELSE lists
    /\ subs_map_' = IF subs_map_ = 0 THEN lists' ELSE subs_map_
    /\ subs' = [subs EXCEPT ![s] = subs_map_']
    /\ stream' = [stream EXCEPT ![s] = "listed"]
    /\ UNCHANGED <<subs_map_mutex_, listVars, cb_id, inbound, cancelled, publishVars, at,
                   undefined, history>>

\* SubscriptionList::add takes an id and pushes the callback to the front (the id before it
\* locks the head, which no other step can tell).
Add(s) ==
    LET l == subs[s] IN
    /\ stream[s] = "listed"
    /\ Free(l, Top)
    /\ cb_id' = [cb_id EXCEPT ![s] = next_id_[l]]
    /\ next_id_' = [next_id_ EXCEPT ![l] = @ + 1]
    /\ callbacks' = [callbacks EXCEPT ![l] = <<s>> \o @]
    /\ stream' = [stream EXCEPT ![s] = "loop"]
    /\ since' = [since EXCEPT ![s] = changes]
    /\ lost' = IF l = subs_map_ THEN lost ELSE lost \cup {s}
    /\ UNCHANGED <<mapVars, subs, inbound, cancelled, publishVars, at, undefined,
                   sent, threw>>

\* Bug: WaitAndPop without a timeout.
StreamLoop_NoTimeout(s) ==
    /\ stream[s] = "loop"
    /\ \/ /\ s \in cancelled /\ inbound[s] # <<>>
          /\ stream' = [stream EXCEPT ![s] = "leaving"]
          /\ UNCHANGED <<inbound, sent>>
       \/ /\ s \notin cancelled /\ inbound[s] # <<>>
          /\ inbound' = [inbound EXCEPT ![s] = Tail(@)]
          /\ \/ /\ sent' = [sent EXCEPT ![s] = Append(@, Head(inbound[s]))]
                /\ UNCHANGED stream
             \/ /\ stream' = [stream EXCEPT ![s] = "leaving"]
                /\ UNCHANGED sent
    /\ UNCHANGED <<mapVars, listVars, subs, cb_id, cancelled, publishVars, at, undefined,
                   since, lost, threw>>

\* Bug: return instead of break when Write fails.
StreamLoop_ReturnsEarly(s) ==
    /\ stream[s] = "loop"
    /\ \/ /\ s \in cancelled
          /\ stream' = [stream EXCEPT ![s] = "leaving"]
          /\ UNCHANGED <<inbound, sent>>
       \/ /\ s \notin cancelled /\ inbound[s] # <<>>
          /\ inbound' = [inbound EXCEPT ![s] = Tail(@)]
          /\ \/ /\ sent' = [sent EXCEPT ![s] = Append(@, Head(inbound[s]))]
                /\ UNCHANGED stream
             \/ /\ stream' = [stream EXCEPT ![s] = "returned"]
                /\ UNCHANGED sent
    /\ UNCHANGED <<mapVars, listVars, subs, cb_id, cancelled, publishVars, at, undefined,
                   since, lost, threw>>

\* One round of the loop: a client that has gone ends it, and so does one that disconnects
\* in Write.  A WaitAndPop that times out changes nothing.
StreamLoop(s) ==
    /\ stream[s] = "loop"
    /\ \/ /\ s \in cancelled
          /\ stream' = [stream EXCEPT ![s] = "leaving"]
          /\ UNCHANGED <<inbound, sent>>
       \/ /\ s \notin cancelled /\ inbound[s] # <<>>
          /\ inbound' = [inbound EXCEPT ![s] = Tail(@)]
          /\ \/ /\ sent' = [sent EXCEPT ![s] = Append(@, Head(inbound[s]))]
                /\ UNCHANGED stream
             \/ /\ stream' = [stream EXCEPT ![s] = "leaving"]
                /\ UNCHANGED sent
    /\ UNCHANGED <<mapVars, listVars, subs, cb_id, cancelled, publishVars, at, undefined,
                   since, lost, threw>>

(***************************************************************************)
(* remove_callback, and the end of Subscribe.                              *)
(***************************************************************************)
\* Subscribe returns: its list loses a shared_ptr and its inbound queue is destroyed.
Return(s) ==
    /\ stream' = [stream EXCEPT ![s] = "returned"]
    /\ subs' = [subs EXCEPT ![s] = 0]
    /\ inbound' = [inbound EXCEPT ![s] = <<>>]
    /\ at' = [at EXCEPT ![s] = Nowhere]
    /\ subs_map_mutex_' = {}
    /\ UNCHANGED <<lists, next_id_, cb_id, cancelled, publishVars, sent, since, threw>>
    /\ Release(subs[s])

RemoveLock(s) ==
    /\ stream[s] = "leaving"
    /\ subs_map_mutex_ = {}
    /\ \/ /\ subs_map_ = 0
          /\ UNCHANGED <<subs_map_, callbacks, lost>>
          /\ Return(s)
       \/ /\ subs_map_ # 0
          /\ subs_map_mutex_' = {s}
          /\ stream' = [stream EXCEPT ![s] = "removing"]
          /\ UNCHANGED <<subs_map_, lists, listVars, subs, cb_id, inbound, cancelled,
                         publishVars, at, undefined, history>>

\* remove_first_if looks for the id in the list that is in the map.
RemoveWalk(s) ==
    /\ stream[s] = "removing"
    /\ \/ LockHead(s, subs_map_)
       \/ \E n \in Streams : cb_id[n] # cb_id[s] /\ LockNext(s, n)
    /\ UNCHANGED <<mapVars, listVars, frameVars, cancelled, publishVars, undefined, history>>

\* Bug: the list leaves the map whether empty or not.
EraseIfEmpty_Always == subs_map_' = 0

\* An empty list leaves the map.
EraseIfEmpty ==
    subs_map_' = IF callbacks'[subs_map_] = <<>> THEN 0 ELSE subs_map_

\* The callback with the id is unlinked, whosever it is.
RemoveFound(s) ==
    /\ stream[s] = "removing"
    /\ \E n \in Streams :
        /\ Follows(n, s) /\ cb_id[n] = cb_id[s] /\ Free(subs_map_, n)
        /\ callbacks' = [callbacks EXCEPT
                            ![subs_map_] = RemoveFirst(@, n)]
        /\ lost' = IF n = s THEN lost ELSE lost \cup {n}
    /\ EraseIfEmpty
    /\ Return(s)

RemoveNothing(s) ==
    /\ stream[s] = "removing" /\ at[s] # Nowhere
    /\ \A n \in Streams : ~Follows(n, s)
    /\ UNCHANGED <<callbacks, lost>>
    /\ EraseIfEmpty
    /\ Return(s)

(***************************************************************************)
(* publish_change.                                                         *)
(***************************************************************************)
\* The list is looked up under the mutex; without one there is nobody to tell.
PublishLookup(p) ==
    /\ change[p] = 0 /\ changes < MaxChanges
    /\ subs_map_mutex_ = {}
    /\ changes' = changes + 1
    /\ list_ptr' = [list_ptr EXCEPT ![p] = subs_map_]
    /\ change' = [change EXCEPT ![p] = IF subs_map_ = 0 THEN 0 ELSE changes']
    /\ UNCHANGED <<mapVars, listVars, frameVars, cancelled, at, undefined, history>>

PublishBegin(p) ==
    /\ change[p] # 0
    /\ LockHead(p, list_ptr[p])
    /\ UNCHANGED <<mapVars, listVars, frameVars, cancelled, publishVars, undefined, history>>

\* The callback pushes a copy into its stream's inbound; what it throws is swallowed.
PublishNext(p) ==
    /\ \E s \in Streams :
        /\ LockNext(p, s)
        /\ undefined' = (stream[s] = "returned")
        /\ \/ /\ inbound' = [inbound EXCEPT ![s] = Append(@, change[p])]
              /\ UNCHANGED threw
           \/ /\ Cardinality(threw) < MaxThrows
              /\ threw' = threw \cup {<<s, change[p]>>}
              /\ UNCHANGED inbound
    /\ UNCHANGED <<mapVars, listVars, stream, subs, cb_id, cancelled, publishVars,
                   sent, since, lost>>

PublishEnd(p) ==
    /\ at[p] # Nowhere
    /\ \A s \in Streams : ~Follows(s, p)
    /\ at' = [at EXCEPT ![p] = Nowhere]
    /\ list_ptr' = [list_ptr EXCEPT ![p] = 0]
    /\ change' = [change EXCEPT ![p] = 0]
    /\ UNCHANGED <<mapVars, listVars, frameVars, cancelled, changes, history>>
    /\ Release(list_ptr[p])

\* The client goes away; only the loop asks.
Cancel(s) ==
    /\ stream[s] = "loop" /\ s \notin cancelled
    /\ cancelled' = cancelled \cup {s}
    /\ UNCHANGED <<mapVars, listVars, frameVars, publishVars, at, undefined, history>>

Subscribe(s) ==
    /\ ~undefined
    /\ \/ Add(s) \/ StreamLoop(s)
       \/ RemoveLock(s) \/ RemoveWalk(s) \/ RemoveFound(s) \/ RemoveNothing(s)

Publish(p) == ~undefined /\ (PublishBegin(p) \/ PublishNext(p) \/ PublishEnd(p))

Next ==
    \/ \E s \in Streams : Subscribe(s)
    \/ \E s \in Streams : ~undefined /\ (Refuse(s) \/ GetOrCreateSubs(s) \/ Cancel(s))
    \/ \E p \in Publishers : Publish(p)
    \/ \E p \in Publishers : ~undefined /\ PublishLookup(p)

Spec == Init /\ [][Next]_vars

\* The threads of streams and publishers are scheduled, and a mutex that becomes free again
\* and again is eventually won.
FairSpec ==
    /\ Spec
    /\ \A s \in Streams : SF_vars(Subscribe(s))
    /\ \A p \in Publishers : SF_vars(Publish(p))

(***************************************************************************)
(* Properties.                                                             *)
(***************************************************************************)
\* The changes stream s has been given, in order.
Got(s) == sent[s] \o inbound[s]

TypeOK ==
    /\ subs_map_mutex_ \subseteq Streams
    /\ lists \in 0..Cardinality(Streams) /\ subs_map_ \in 0..lists
    /\ callbacks \in [Lists -> Seq(Streams)]
    /\ next_id_ \in [Lists -> Nat]
    /\ stream \in [Streams -> {"new", "refused", "listed", "loop", "leaving",
                               "removing", "returned"}]
    /\ subs \in [Streams -> 0..lists]
    /\ cb_id \in [Streams -> Nat]
    /\ inbound \in [Streams -> Seq(1..MaxChanges)]
    /\ cancelled \subseteq Streams
    /\ list_ptr \in [Publishers -> 0..lists]
    /\ change \in [Publishers -> 0..MaxChanges]
    /\ at \in [Walkers -> (0..lists) \X (Streams \cup {Top})]
    /\ changes \in 0..MaxChanges
    /\ undefined \in BOOLEAN
    /\ sent \in [Streams -> Seq(1..MaxChanges)]
    /\ since \in [Streams -> 0..MaxChanges]
    /\ lost \subseteq Streams
    /\ threw \subseteq Streams \X (1..MaxChanges)

\* A stream that is not lost gets every change looked up after it was added and published by
\* now, exactly once, whoever joins and leaves meanwhile and whatever other callbacks throw.
HearsEveryChange ==
    \A s \in Streams \ lost : stream[s] = "loop" =>
        \A v \in (since[s] + 1)..changes :
            \/ <<s, v>> \in threw \/ v \in Range(change)
            \/ Cardinality({i \in DOMAIN Got(s) : Got(s)[i] = v}) = 1

\* Two streams get the changes they both get in the same order, although two publishers are
\* in the list at once: hand-over-hand locking does not let one overtake the other.
SameOrder ==
    \A s, t \in Streams : \A i, j \in DOMAIN Got(s) : \A k, m \in DOMAIN Got(t) :
        (i < j /\ Got(s)[i] = Got(t)[k] /\ Got(s)[j] = Got(t)[m]) => k < m

\* Once Subscribe has returned no list has its callback, which refers to its frame, and a
\* list that is destroyed is empty: only a stream that was lost leaves its callback behind.
OnlyLostDangle ==
    /\ \A l \in Lists : \A s \in Range(callbacks[l]) : stream[s] = "returned" => s \in lost
    /\ undefined => lost # {}

\* The streams of clients that have gone end: again and again none is left, since
\* remove_callback gets the mutex and its way through the list although publishers hold
\* its nodes.
StreamEnds ==
    []<>(undefined \/ \A s \in cancelled : stream[s] = "returned")
=============================================================================

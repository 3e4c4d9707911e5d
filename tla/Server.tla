------------------------------- MODULE Server -------------------------------
(***************************************************************************)
(* src/server.cpp as a whole: the Set and Get handlers of StateService and *)
(* the Subscribe streams of Subscriptions in one process.  A handler that  *)
(* has logged its request publishes it (publish_change) and only then      *)
(* answers, so publishers are handlers.  All keys are of the one actor     *)
(* that Subscriptions is about.                                            *)
(*                                                                         *)
(* The components keep their variables and their steps.  What this module  *)
(* adds is the order: which step of one may happen when, and the crash     *)
(* that ends both.  It also records which request each published change    *)
(* carries, and how many Sets had been called when a stream was added.     *)
(***************************************************************************)
EXTENDS Subscriptions

CONSTANTS
    Keys,
    AppendMayThrow,
    MaxCrashes

ASSUME ServerAssumption ==
    /\ Keys # {}
    /\ AppendMayThrow \in BOOLEAN
    /\ MaxCrashes \in Nat

VARIABLES
    store_, mutex_, store_wal, server_wal, pc, req, sets, booted, acked, older, seen, failed,
    crashes,        \* the variables of StateService
    published,      \* history: the request that each change carries
    begun           \* history: the Sets called before the stream was added

Svc == INSTANCE StateService WITH Handlers <- Publishers, MaxSets <- MaxChanges

serviceVars == <<store_, mutex_, store_wal, server_wal, pc, req, sets, booted, acked, seen,
                 older, failed, crashes>>
serverVars == <<vars, serviceVars, published, begun>>

Unpublished == [v \in 1..MaxChanges |-> Svc!NoRequest]
NotBegun == [s \in Streams |-> 0]

ServerInit == Init /\ Svc!Init /\ published = Unpublished /\ begun = NotBegun

Published(r) == \E v \in 1..changes : published[v] = r

(***************************************************************************)
(* Set and Get.                                                            *)
(***************************************************************************)
Call(p) ==
    /\ \E k \in Keys : Svc!SetCall(p, k) \/ Svc!Get(p, k)
    /\ UNCHANGED <<vars, published, begun>>

\* Set up to step 3 of the handler: the store, wal.log and custom.wal.
Log(p) ==
    /\ Svc!SetStore(p) \/ Svc!SetLog(p) \/ Svc!SetServerLog(p)
    /\ UNCHANGED <<vars, published, begun>>

\* Bug: subscribers are notified when the store has the value, before it is logged.
PublishChange_BeforeLog(p) ==
    /\ pc[p] = "log" /\ ~Published(req[p])
    /\ PublishLookup(p)
    /\ published' = [published EXCEPT ![changes'] = req[p]]
    /\ UNCHANGED <<serviceVars, begun>>

\* Step 3: publish_change, up to the walk over the list.
PublishChange(p) ==
    /\ pc[p] = "reply" /\ ~Published(req[p])
    /\ PublishLookup(p)
    /\ published' = [published EXCEPT ![changes'] = req[p]]
    /\ UNCHANGED <<serviceVars, begun>>

Walk(p) == Publish(p) /\ UNCHANGED <<serviceVars, published, begun>>

\* Bug: the callbacks are left to the pool and the handler answers without them.
Reply_Async(p) ==
    /\ Published(req[p])
    /\ Svc!SetReply(p)
    /\ UNCHANGED <<vars, published, begun>>

\* The handler answers when publish_change has returned.
Reply(p) ==
    /\ Published(req[p]) /\ change[p] = 0
    /\ Svc!SetReply(p)
    /\ UNCHANGED <<vars, published, begun>>

(***************************************************************************)
(* Subscribe, and the end of the process.                                  *)
(***************************************************************************)
Serve(s) ==
    /\ Subscribe(s) \/ Refuse(s) \/ GetOrCreateSubs(s) \/ Cancel(s)
    /\ begun' = [begun EXCEPT ![s] = IF stream[s] = "listed" THEN sets ELSE @]     \* Add
    /\ UNCHANGED <<serviceVars, published>>

\* The process dies with its streams; the next one starts without any, as Init says.
Die ==
    /\ Svc!Crash
    /\ subs_map_mutex_' = {} /\ subs_map_' = 0 /\ lists' = 0
    /\ callbacks' = [l \in Lists |-> <<>>] /\ next_id_' = [l \in Lists |-> 1]
    /\ stream' = [s \in Streams |-> "new"] /\ cancelled' = {}
    /\ subs' = [s \in Streams |-> 0] /\ cb_id' = [s \in Streams |-> 0]
    /\ inbound' = [s \in Streams |-> <<>>] /\ sent' = [s \in Streams |-> <<>>]
    /\ list_ptr' = [p \in Publishers |-> 0] /\ change' = [p \in Publishers |-> 0]
    /\ at' = [x \in Walkers |-> Nowhere]
    /\ changes' = 0 /\ published' = Unpublished
    /\ since' = [s \in Streams |-> 0] /\ begun' = NotBegun
    /\ lost' = {} /\ threw' = {}
    /\ UNCHANGED undefined

ServerNext ==
    /\ ~undefined
    /\ \/ \E p \in Publishers : Call(p) \/ Log(p) \/ PublishChange(p) \/ Walk(p) \/ Reply(p)
       \/ \E s \in Streams : Serve(s)
       \/ Die

ServerSpec == ServerInit /\ [][ServerNext]_serverVars

(***************************************************************************)
(* Properties.                                                             *)
(***************************************************************************)
\* wal.log tells the store's content (in StateService), also with streams in the process.
StoreMatchesLog == Svc!StoreMatchesLog

\* What any client learns is in wal.log: what Get returned, unless its append threw, what Set
\* acknowledged, and what a stream hears.  No crash can undo it.
ToldIsLogged ==
    /\ Svc!ToldIsLogged
    /\ \A s \in Streams : \A i \in DOMAIN Got(s) : Svc!Logged(published[Got(s)[i]])

\* Both logs and every stream keep the order clients can tell: a Set that was called after
\* another was answered is behind it, whichever handlers and walks were involved.
KeepsCallOrder ==
    /\ Svc!LogsKeepCallOrder
    /\ \A s \in Streams : \A i, j \in DOMAIN Got(s) :
        i < j => published[Got(s)[j]] \notin older[published[Got(s)[i]].value]

\* When a Set is answered with success, every stream that was added before it was called has
\* its change, unless the stream's callback threw at it or the stream was lost.
AnsweredIsHeard ==
    \A s \in Streams \ lost, r \in acked : stream[s] = "loop" /\ r.value > begun[s] =>
        \E v \in 1..changes : published[v] = r /\ (<<s, v>> \in threw \/ v \in Range(Got(s)))
=============================================================================

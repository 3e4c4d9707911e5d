---------------------------- MODULE StateService ----------------------------
(***************************************************************************)
(* src/server.cpp, Set and Get, over src/mem_store.cpp, set and get, as    *)
(* src/main.cpp puts them together: a MemStore in WriteAhead mode with a   *)
(* WAL of its own (wal.log), appended to under the store lock, and a       *)
(* second WAL (custom.wal) that the RPC handler appends to after the store *)
(* lock is released.                                                       *)
(*                                                                         *)
(* Handlers are the gRPC threads.  A crash ends the process at any step;   *)
(* the next one starts with an empty store and with both files as they     *)
(* were (nothing calls WAL::replay).  Every Set carries a value of its     *)
(* own, its number; 0 is "no value".  Files are kept whole here: rotation, *)
(* torn lines and failed opens are in Wal.  Server puts the handlers and   *)
(* the Subscribe streams together, and has the assumptions.                *)
(***************************************************************************)
EXTENDS Naturals, Sequences

CONSTANTS
    Handlers,
    Keys,           \* (actor_id, key) pairs
    AppendMayThrow, \* whether WAL::append may throw
    MaxSets,        \* bound: Set calls
    MaxCrashes      \* bound: crashes

VARIABLES
    store_,         \* the value of each key
    mutex_,         \* {} or {the handler that holds the store lock exclusively}
    store_wal,      \* wal.log
    server_wal,     \* custom.wal
    pc,
    req,            \* the request each handler works on
    sets,           \* Set calls so far; the value the next one carries
    booted,         \* history: length of wal.log when the process started
    acked,          \* history: the requests that were answered with success
    older,          \* history: what had been answered when each Set was called
    seen,           \* history: the requests whose value Get has returned
    failed,         \* history: requests whose append to wal.log threw
    crashes

vars == <<store_, mutex_, store_wal, server_wal, pc, req, sets, booted, acked, seen,
          older, failed, crashes>>

Requests == [key : Keys, value : 0..MaxSets]
NoRequest == [key |-> CHOOSE k \in Keys : TRUE, value |-> 0]

Init ==
    /\ store_ = [k \in Keys |-> 0]
    /\ mutex_ = {}
    /\ store_wal = <<>>
    /\ server_wal = <<>>
    /\ pc = [h \in Handlers |-> "idle"]
    /\ req = [h \in Handlers |-> NoRequest]
    /\ sets = 0
    /\ booted = 0
    /\ acked = {}
    /\ older = [v \in 1..MaxSets |-> {}]
    /\ seen = {}
    /\ failed = {}
    /\ crashes = 0

Goto(h, label) == pc' = [pc EXCEPT ![h] = label]

(***************************************************************************)
(* Set.                                                                    *)
(***************************************************************************)
SetCall(h, k) ==
    /\ pc[h] = "idle"
    /\ sets < MaxSets
    /\ sets' = sets + 1
    /\ req' = [req EXCEPT ![h] = [key |-> k, value |-> sets + 1]]
    /\ older' = [older EXCEPT ![sets + 1] = acked]
    /\ Goto(h, "store")
    /\ UNCHANGED <<store_, mutex_, store_wal, server_wal, booted, acked, seen, failed,
                   crashes>>

\* Bug: MemStore::set lets go of the store lock before it appends to the log.
SetStore_EarlyUnlock(h) ==
    /\ pc[h] = "store"
    /\ mutex_ = {}
    /\ store_' = [store_ EXCEPT ![req[h].key] = req[h].value]
    /\ Goto(h, "log")
    /\ UNCHANGED <<mutex_, store_wal, server_wal, req, sets, booted, acked, seen,
                   older, failed, crashes>>

\* MemStore::set takes the store lock and updates the entry.
SetStore(h) ==
    /\ pc[h] = "store"
    /\ mutex_ = {}
    /\ mutex_' = {h}
    /\ store_' = [store_ EXCEPT ![req[h].key] = req[h].value]
    /\ Goto(h, "log")
    /\ UNCHANGED <<store_wal, server_wal, req, sets, booted, acked, seen, older, failed,
                   crashes>>

\* Bug: a failed append to wal.log is swallowed, as the one to custom.wal is.
SetLog_Swallows(h) ==
    /\ pc[h] = "log"
    /\ mutex_' = {}
    /\ \/ store_wal' = Append(store_wal, req[h]) /\ UNCHANGED failed
       \/ AppendMayThrow /\ failed' = failed \cup {req[h]} /\ UNCHANGED store_wal
    /\ Goto(h, "server_log")
    /\ UNCHANGED <<store_, server_wal, req, sets, booted, acked, seen, older,
                   crashes>>

\* MemStore::set appends to wal.log and releases the lock.  If append throws (before
\* its line is in the file, or in the rotation after it), the exception leaves the
\* handler and the RPC fails; the entry stays updated.
SetLog(h) ==
    /\ pc[h] = "log"
    /\ mutex_' = {}
    /\ \/ /\ store_wal' = Append(store_wal, req[h])
          /\ Goto(h, "server_log")
          /\ UNCHANGED failed
       \/ /\ AppendMayThrow
          /\ store_wal' \in {store_wal, Append(store_wal, req[h])}
          /\ failed' = failed \cup {req[h]}
          /\ Goto(h, "idle")
    /\ UNCHANGED <<store_, server_wal, req, sets, booted, acked, seen, older,
                   crashes>>

\* Bug: the reply is sent before the append to custom.wal.
SetServerLog_AfterReply(h) ==
    /\ \/ /\ pc[h] = "server_log"
          /\ acked' = acked \cup {req[h]}
          /\ Goto(h, "reply")
          /\ UNCHANGED server_wal
       \/ /\ pc[h] = "reply"
          /\ server_wal' = Append(server_wal, req[h])
          /\ Goto(h, "idle")
          /\ UNCHANGED acked
    /\ UNCHANGED <<store_, mutex_, store_wal, req, sets, booted, seen, older, failed,
                   crashes>>

\* The handler appends to custom.wal, holding no lock of the store; an exception
\* is caught and the handler goes on.
SetServerLog(h) ==
    /\ pc[h] = "server_log"
    /\ \/ server_wal' = Append(server_wal, req[h])
       \/ AppendMayThrow /\ UNCHANGED server_wal
    /\ Goto(h, "reply")
    /\ UNCHANGED <<store_, mutex_, store_wal, req, sets, booted, acked, seen, older, failed,
                   crashes>>

\* publish_change (in Subscriptions) changes nothing here; the reply says success.
SetReply(h) ==
    /\ pc[h] = "reply"
    /\ acked' = acked \cup {req[h]}
    /\ Goto(h, "idle")
    /\ UNCHANGED <<store_, mutex_, store_wal, server_wal, req, sets, booted, seen, older,
                   failed, crashes>>

(***************************************************************************)
(* Get: under the shared lock.  A key without a value is answered with     *)
(* found = false, which changes nothing.                                   *)
(***************************************************************************)
Get(h, k) ==
    /\ pc[h] = "idle"
    /\ mutex_ = {}
    /\ store_[k] # 0
    /\ seen' = seen \cup {[key |-> k, value |-> store_[k]]}
    /\ UNCHANGED <<store_, mutex_, store_wal, server_wal, pc, req, sets, booted, acked, older,
                   failed, crashes>>

(***************************************************************************)
(* The process dies and is started again.                                  *)
(***************************************************************************)
Crash ==
    /\ crashes < MaxCrashes
    /\ crashes' = crashes + 1
    /\ store_' = [k \in Keys |-> 0]
    /\ mutex_' = {}
    /\ pc' = [h \in Handlers |-> "idle"]
    /\ req' = [h \in Handlers |-> NoRequest]
    /\ booted' = Len(store_wal)
    /\ UNCHANGED <<store_wal, server_wal, sets, acked, seen, older, failed>>

Set(h) == SetStore(h) \/ SetLog(h) \/ SetServerLog(h) \/ SetReply(h)

Next ==
    \/ \E h \in Handlers : Set(h)
    \/ \E h \in Handlers, k \in Keys : SetCall(h, k) \/ Get(h, k)
    \/ Crash

Spec == Init /\ [][Next]_vars

(***************************************************************************)
(* Properties.                                                             *)
(***************************************************************************)
\* The type of every variable.
TypeOK ==
    /\ store_ \in [Keys -> 0..MaxSets]
    /\ mutex_ \in SUBSET Handlers
    /\ store_wal \in Seq(Requests)
    /\ server_wal \in Seq(Requests)
    /\ pc \in [Handlers -> {"idle", "store", "log", "server_log", "reply"}]
    /\ req \in [Handlers -> Requests]
    /\ sets \in 0..MaxSets
    /\ booted \in Nat
    /\ acked \in SUBSET Requests
    /\ older \in [1..MaxSets -> SUBSET Requests]
    /\ seen \in SUBSET Requests
    /\ failed \in SUBSET Requests
    /\ crashes \in 0..MaxCrashes

\* Key k of the store is what replaying the lines of this process would build.
Rebuilds(k) ==
    LET lines == {i \in DOMAIN store_wal : i > booted /\ store_wal[i].key = k}
    IN  IF lines = {} THEN store_[k] = 0
        ELSE \E i \in lines : (\A j \in lines : j <= i) /\ store_[k] = store_wal[i].value

\* Whenever the store lock is free, wal.log tells the store's content: writes of
\* concurrent handlers are logged in the order in which they took effect.  Only a key
\* whose latest append threw differs.
StoreMatchesLog ==
    mutex_ = {} => \A k \in Keys : \/ Rebuilds(k)
                                   \/ [key |-> k, value |-> store_[k]] \in failed

Logged(r) == \E i \in DOMAIN store_wal : store_wal[i] = r

\* What a client was told is in wal.log.  Nobody is shown a value between its update and its
\* append: what Get returned is logged, or its append threw.  "Sync WAL before ack": a Set
\* that was answered with success is logged, across crashes and failed appends.
ToldIsLogged ==
    /\ \A r \in seen : Logged(r) \/ r \in failed
    /\ \A r \in acked : Logged(r)

\* Both logs keep the order clients can tell: a Set called after another was answered is
\* behind it.  Only Sets that were under way together may be in custom.wal, which is appended
\* to without the store lock, in the order opposite to that of the store.
LogsKeepCallOrder ==
    \A log \in {store_wal, server_wal} : \A i, j \in DOMAIN log :
        i < j => log[j] \notin older[log[i].value]
=============================================================================

----------------------------- MODULE Lifecycle ------------------------------
(***************************************************************************)
(* src/actor_lifecycle.{h,cpp} behind the RPCs of src/server.cpp that use  *)
(* it: SpawnActor, TerminateActor and the test at the head of Subscribe.   *)
(*                                                                         *)
(* mutex_ is a std::mutex, which its owner cannot lock twice: a handler    *)
(* that locks it again waits for itself.  SpawnActor calls ActorExists     *)
(* with mutex_ held.  The steps behind that call are modelled as written.  *)
(***************************************************************************)
EXTENDS Naturals, FiniteSets

CONSTANTS
    Handlers,       \* gRPC threads
    Actors,         \* actor ids
    ValidIds        \* those that ValidateActorId accepts

VARIABLES
    active_actors_,
    mutex_,         \* {} or {the handler that holds it}
    pc,
    actor,          \* the actor_id of the request each handler works on
    reply           \* what each handler last answered

vars == <<active_actors_, mutex_, pc, actor, reply>>

Init ==
    /\ active_actors_ = {}
    /\ mutex_ = {}
    /\ pc = [h \in Handlers |-> "idle"]
    /\ actor = [h \in Handlers |-> CHOOSE a \in Actors : TRUE]
    /\ reply = [h \in Handlers |-> "none"]

Call(h, a, rpc) ==
    /\ pc[h] = "idle"
    /\ pc' = [pc EXCEPT ![h] = rpc]
    /\ actor' = [actor EXCEPT ![h] = a]
    /\ UNCHANGED <<active_actors_, mutex_, reply>>

Return(h, answer) ==
    /\ pc' = [pc EXCEPT ![h] = "idle"]
    /\ reply' = [reply EXCEPT ![h] = answer]
    /\ UNCHANGED actor

(***************************************************************************)
(* SpawnActor.                                                             *)
(***************************************************************************)
SpawnValidate(h) ==
    /\ pc[h] = "spawn"
    /\ actor[h] \notin ValidIds
    /\ Return(h, "failed")
    /\ UNCHANGED <<active_actors_, mutex_>>

SpawnLock(h) ==
    /\ pc[h] = "spawn"
    /\ actor[h] \in ValidIds
    /\ mutex_ = {}
    /\ mutex_' = {h}
    /\ pc' = [pc EXCEPT ![h] = "exists"]
    /\ UNCHANGED <<active_actors_, actor, reply>>

\* ActorExists locks mutex_ itself.
SpawnExists(h) ==
    /\ pc[h] = "exists"
    /\ mutex_ = {}
    /\ \/ actor[h] \in active_actors_ /\ Return(h, "failed")
       \/ /\ actor[h] \notin active_actors_
          /\ pc' = [pc EXCEPT ![h] = "initialise"]
          /\ UNCHANGED <<actor, reply>>
    /\ UNCHANGED <<active_actors_, mutex_>>

\* The hooks run, the initial state is stored and the actor becomes active; an
\* exception from the store undoes the latter.
SpawnInitialise(h) ==
    /\ pc[h] = "initialise"
    /\ \/ active_actors_' = active_actors_ \cup {actor[h]} /\ Return(h, "ok")
       \/ active_actors_' = active_actors_ \ {actor[h]} /\ Return(h, "failed")
    /\ mutex_' = {}

(***************************************************************************)
(* TerminateActor, and IsActorActive as Subscribe calls it.  Each holds    *)
(* mutex_ from beginning to end.                                           *)
(***************************************************************************)
Terminate(h) ==
    /\ pc[h] = "terminate"
    /\ mutex_ = {}
    /\ active_actors_' = active_actors_ \ {actor[h]}
    /\ Return(h, IF actor[h] \in active_actors_ THEN "ok" ELSE "failed")
    /\ UNCHANGED mutex_

IsActorActive(h) ==
    /\ pc[h] = "subscribe"
    /\ mutex_ = {}
    /\ Return(h, IF actor[h] \in active_actors_ THEN "ok" ELSE "failed")
    /\ UNCHANGED <<active_actors_, mutex_>>

Run(h) ==
    \/ SpawnValidate(h) \/ SpawnLock(h) \/ SpawnExists(h) \/ SpawnInitialise(h)
    \/ Terminate(h)
    \/ IsActorActive(h)

Next ==
    \/ \E h \in Handlers, a \in Actors, rpc \in {"spawn", "terminate", "subscribe"} :
           Call(h, a, rpc)
    \/ \E h \in Handlers : Run(h)

\* A handler that is in an RPC is scheduled, and a contended mutex is eventually won.
FairSpec == Init /\ [][Next]_vars /\ \A h \in Handlers : SF_vars(Run(h))

\* "Native support for actor lifecycles (spawn, resume, terminate)": every lifecycle RPC
\* is answered.
RpcReturns == \A h \in Handlers : pc[h] # "idle" ~> pc[h] = "idle"
=============================================================================

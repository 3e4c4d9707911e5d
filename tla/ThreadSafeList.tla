--------------------------- MODULE ThreadSafeList ---------------------------
(***************************************************************************)
(* utils/threadsafe_list.h: the singly linked list with a mutex per node   *)
(* that holds subscribers, the store's expiry index and the scheduler's    *)
(* work queues.  A traversal is hand over hand: it locks the next node     *)
(* before it lets go of the current one, and whoever unlinks a node frees  *)
(* it while still holding the lock of the node before it.                  *)
(*                                                                         *)
(* A node is allocated once and freed once.  The caller's predicate is the *)
(* set of nodes it accepts.  After remove_if has removed a node it goes on *)
(* from that node, which it has just freed: from there the behaviour of    *)
(* the program is undefined, and the model says so and stops.              *)
(***************************************************************************)
EXTENDS Naturals, Sequences, SequencesExt

CONSTANTS
    Threads,
    Nodes,          \* the nodes that may be allocated
    Predicates,     \* the sets of nodes a caller may look for
    head,           \* the list's own first node, without data
    Null

Links == Nodes \cup {head}
Operations == {"for_each", "find_first_if", "remove_first_if", "remove_if"}
Removing == {"remove_first_if", "remove_if"}

ASSUME ListAssumption ==
    /\ head \notin Nodes /\ Null \notin Links
    /\ Predicates \subseteq SUBSET Nodes

VARIABLES
    next,           \* the next pointer of every node
    m,              \* {} or {the thread that holds the node's mutex}
    made,           \* nodes that have been allocated
    freed,          \* nodes whose memory has been given back
    size_,
    pc,
    op,             \* the operation each thread is in
    match,          \* the nodes its predicate accepts; {} in for_each
    current,        \* the node it stands on, whose mutex it holds
    target,         \* `next` in the code: the node it is about to lock, or has locked
    undefined,      \* history: a freed node has been used
    list,           \* history: the list as its users see it
    visited,        \* history: what each traversal has looked at, in order
    steady          \* history: the nodes in the list since the traversal began

vars == <<next, m, made, freed, size_, pc, op, match, current, target, undefined, list,
          visited, steady>>
call == <<op, match>>

Init ==
    /\ next = [l \in Links |-> Null]
    /\ m = [l \in Links |-> {}]
    /\ made = {}
    /\ freed = {}
    /\ size_ = 0
    /\ pc = [t \in Threads |-> "idle"]
    /\ op = [t \in Threads |-> "for_each"]
    /\ match = [t \in Threads |-> {}]
    /\ current = [t \in Threads |-> head]
    /\ target = [t \in Threads |-> Null]
    /\ undefined = FALSE
    /\ list = <<>>
    /\ visited = [t \in Threads |-> <<>>]
    /\ steady = [t \in Threads |-> {}]

Goto(t, label) == pc' = [pc EXCEPT ![t] = label]

\* The operation returns; its arguments and locals are gone.
Return(t) ==
    /\ Goto(t, "idle")
    /\ op' = [op EXCEPT ![t] = "for_each"]
    /\ match' = [match EXCEPT ![t] = {}]
    /\ current' = [current EXCEPT ![t] = head]
    /\ target' = [target EXCEPT ![t] = Null]
    /\ visited' = [visited EXCEPT ![t] = <<>>]
    /\ steady' = [steady EXCEPT ![t] = {}]

\* push_front, all of it under the head's mutex.
PushFront(t, n) ==
    /\ pc[t] = "idle"
    /\ n \notin made
    /\ m[head] = {}
    /\ made' = made \cup {n}
    /\ next' = [next EXCEPT ![n] = next[head], ![head] = n]
    /\ size_' = size_ + 1
    /\ list' = <<n>> \o list
    /\ UNCHANGED <<m, freed, pc, call, current, target, undefined, visited, steady>>

(***************************************************************************)
(* A traversal.                                                            *)
(***************************************************************************)
Call(t, o, S) ==
    /\ pc[t] = "idle"
    /\ op' = [op EXCEPT ![t] = o]
    /\ match' = [match EXCEPT ![t] = S]
    /\ Goto(t, "call")
    /\ UNCHANGED <<next, m, made, freed, size_, current, target, undefined, list, visited,
                   steady>>

LockHead(t) ==
    /\ pc[t] = "call"
    /\ m[head] = {}
    /\ m' = [m EXCEPT ![head] = {t}]
    /\ steady' = [steady EXCEPT ![t] = ToSet(list)]
    /\ Goto(t, "at")
    /\ UNCHANGED <<next, made, freed, size_, call, current, target, undefined, list, visited>>

\* while (node* next = current->next.get())
ReadNext(t) ==
    /\ pc[t] = "at"
    /\ next[current[t]] # Null
    /\ target' = [target EXCEPT ![t] = next[current[t]]]
    /\ Goto(t, "want")
    /\ UNCHANGED <<next, m, made, freed, size_, call, current, undefined, list, visited,
                   steady>>

\* The end of the list: the operation returns and its lock on the last node goes.
AtEnd(t) ==
    /\ pc[t] = "at"
    /\ next[current[t]] = Null
    /\ m' = [m EXCEPT ![current[t]] = {}]
    /\ Return(t)
    /\ UNCHANGED <<next, made, freed, size_, undefined, list>>

\* Bug: the current node is let go of before the next one is locked.
LockNext_LetsGo(t) ==
    /\ pc[t] = "want"
    /\ \/ /\ m[current[t]] = {t}
          /\ m' = [m EXCEPT ![current[t]] = {}]
          /\ UNCHANGED pc
       \/ /\ m[current[t]] # {t}
          /\ m[target[t]] = {}
          /\ m' = [m EXCEPT ![target[t]] = {t}]
          /\ Goto(t, "both")
    /\ UNCHANGED <<next, made, freed, size_, call, current, target, undefined, list, visited,
                   steady>>

\* A mutex that another thread holds is waited for.
LockNext(t) ==
    /\ pc[t] = "want"
    /\ m[target[t]] = {}
    /\ m' = [m EXCEPT ![target[t]] = {t}]
    /\ Goto(t, "both")
    /\ UNCHANGED <<next, made, freed, size_, call, current, target, undefined, list, visited,
                   steady>>

\* The node is not the one looked for (for_each hands it to f): go on to it and let
\* go of the one before.
Advance(t) ==
    /\ pc[t] = "both"
    /\ target[t] \notin match[t]
    /\ m' = [m EXCEPT ![current[t]] = {}]
    /\ current' = [current EXCEPT ![t] = target[t]]
    /\ visited' = [visited EXCEPT ![t] = Append(@, target[t])]
    /\ Goto(t, "at")
    /\ UNCHANGED <<next, made, freed, size_, call, target, undefined, list, steady>>

\* Bug: find_first_if returns with the node it found still locked.
Found_StaysLocked(t) ==
    /\ pc[t] = "both"
    /\ op[t] = "find_first_if"
    /\ target[t] \in match[t]
    /\ m' = [m EXCEPT ![current[t]] = {}]
    /\ Return(t)
    /\ UNCHANGED <<next, made, freed, size_, undefined, list>>

\* find_first_if returns the data of the node; both locks go.
Found(t) ==
    /\ pc[t] = "both"
    /\ op[t] = "find_first_if"
    /\ target[t] \in match[t]
    /\ m' = [m EXCEPT ![current[t]] = {}, ![target[t]] = {}]
    /\ Return(t)
    /\ UNCHANGED <<next, made, freed, size_, undefined, list>>

\* Bug: the removed node's successor is lost.
Unlink_DropsRest(t) ==
    /\ pc[t] = "both"
    /\ op[t] \in Removing
    /\ target[t] \in match[t]
    /\ next' = [next EXCEPT ![current[t]] = Null, ![target[t]] = Null]
    /\ m' = [m EXCEPT ![target[t]] = {}]
    /\ size_' = size_ - 1
    /\ list' = RemoveFirst(list, target[t])
    /\ steady' = [u \in Threads |-> steady[u] \ {target[t]}]
    /\ Goto(t, "unlinked")
    /\ UNCHANGED <<made, freed, call, current, target, undefined, visited>>

\* The removal: the node is taken out of the chain, its own next pointer moved from,
\* its mutex released, size_ decremented; the mutex of the node before it is kept.
Unlink(t) ==
    /\ pc[t] = "both"
    /\ op[t] \in Removing
    /\ target[t] \in match[t]
    /\ next' = [next EXCEPT ![current[t]] = next[target[t]], ![target[t]] = Null]
    /\ m' = [m EXCEPT ![target[t]] = {}]
    /\ size_' = size_ - 1
    /\ list' = RemoveFirst(list, target[t])
    /\ steady' = [u \in Threads |-> steady[u] \ {target[t]}]
    /\ Goto(t, "unlinked")
    /\ UNCHANGED <<made, freed, call, current, target, undefined, visited>>

\* old_next goes out of scope and frees the node, then the mutex of the node before it
\* is released.  remove_first_if returns; remove_if goes on from the freed node.
Free(t) ==
    /\ pc[t] = "unlinked"
    /\ freed' = freed \cup {target[t]}
    /\ m' = [m EXCEPT ![current[t]] = {}]
    /\ undefined' = (op[t] = "remove_if")
    /\ Return(t)
    /\ UNCHANGED <<next, made, size_, list>>

Step(t) ==
    /\ ~undefined
    /\ \/ LockHead(t) \/ ReadNext(t) \/ AtEnd(t) \/ LockNext(t)
       \/ Advance(t) \/ Found(t) \/ Unlink(t) \/ Free(t)

Begin(t) ==
    /\ ~undefined
    /\ \/ \E n \in Nodes : PushFront(t, n)
       \/ Call(t, "for_each", {})
       \/ \E o \in Operations \ {"for_each"}, S \in Predicates : Call(t, o, S)

Next == \E t \in Threads : Begin(t) \/ Step(t)

Spec == Init /\ [][Next]_vars

\* A thread inside an operation is scheduled and wins a contended mutex eventually;
\* the functions and predicates passed in return.
FairSpec == Spec /\ \A t \in Threads : SF_vars(Step(t))

(***************************************************************************)
(* Properties.                                                             *)
(***************************************************************************)
\* The type of every variable.
TypeOK ==
    /\ next \in [Links -> Nodes \cup {Null}]
    /\ m \in [Links -> SUBSET Threads]
    /\ made \in SUBSET Nodes
    /\ freed \in SUBSET made
    /\ size_ \in Nat
    /\ pc \in [Threads -> {"idle", "call", "at", "want", "both", "unlinked"}]
    /\ op \in [Threads -> Operations]
    /\ match \in [Threads -> SUBSET Nodes]
    /\ current \in [Threads -> Links]
    /\ target \in [Threads -> Nodes \cup {Null}]
    /\ undefined \in BOOLEAN
    /\ list \in Seq(made \ freed)
    /\ visited \in [Threads -> Seq(Nodes)]
    /\ steady \in [Threads -> SUBSET Nodes]

\* Following the next pointers from the head gives the list every completed push and
\* removal should have left, and size_ is its length: concurrent removals of neighbours
\* and pushes at the front neither lose a node nor bring one back.
ChainIsList ==
    LET chain == <<head>> \o list
    IN  /\ \A i \in 1..Len(list) : next[chain[i]] = chain[i + 1]
        /\ next[chain[Len(chain)]] = Null
        /\ size_ = Len(list)

\* No thread stands on, waits for or has locked a node that another one has freed.
NoUseAfterFree ==
    \A t \in Threads : pc[t] # "idle" => {current[t], target[t]} \cap freed = {}

\* A traversal that has come to the end has looked at every node that was in the list
\* all the while, and at none twice: no subscriber is skipped because others come and
\* go, and a search that reports nothing has missed nothing.
SeesEachOnce ==
    \A t \in Threads :
        /\ IsInjective(visited[t])
        /\ (pc[t] = "at" /\ next[current[t]] = Null) => steady[t] \subseteq ToSet(visited[t])

\* Every operation returns: mutexes are taken in list order, so no traversals wait for
\* each other.
OpReturns == \A t \in Threads : pc[t] # "idle" ~> (pc[t] = "idle" \/ undefined)
=============================================================================

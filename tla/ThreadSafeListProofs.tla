------------------------ MODULE ThreadSafeListProofs ------------------------
(***************************************************************************)
(* Theorems about ThreadSafeList for any number of threads and nodes and   *)
(* any predicates.                                                         *)
(*                                                                         *)
(* The argument is the one for hand-over-hand locking.  The next pointer   *)
(* of a node changes only in the hands of the thread that holds its mutex  *)
(* (LockInv), so what a traversal stands on is in the list and what it is  *)
(* about to lock is its successor (PlaceInv), whatever the others do.      *)
(* Hence nodes leave the list behind a traversal or ahead of it, never     *)
(* under it, and enter it behind: what lies ahead is what it has not seen  *)
(* (VisitInv).                                                             *)
(***************************************************************************)
EXTENDS ThreadSafeList, SequenceTheorems, TLAPS

\* The nodes of the chain by position; the head is at 0.
NodeAt(i) == IF i = 0 THEN head ELSE list[i]

UniqueInv == \A i, j \in 1..Len(list) : list[i] = list[j] => i = j

LinkInv ==
    /\ \A i \in 0..(Len(list) - 1) : next[NodeAt(i)] = list[i + 1]
    /\ next[NodeAt(Len(list))] = Null
    /\ size_ = Len(list)

Inside(t) == pc[t] \in {"at", "want", "both", "unlinked"}

Holds(t, l) == (Inside(t) /\ l = current[t]) \/ (pc[t] = "both" /\ l = target[t])

LockInv ==
    /\ \A t \in Threads, l \in Links : t \in m[l] <=> Holds(t, l)
    /\ \A t, u \in Threads, l \in Links : t \in m[l] /\ u \in m[l] => t = u

PlaceOf(t) ==
    /\ Inside(t) => \E i \in 0..Len(list) : current[t] = NodeAt(i)
    /\ ~Inside(t) => current[t] = head /\ target[t] = Null /\ visited[t] = <<>>
    /\ pc[t] = "at" => target[t] \in {Null, current[t]}
    /\ pc[t] \in {"want", "both"} => target[t] = next[current[t]] /\ target[t] # Null
    /\ pc[t] = "unlinked" =>
        target[t] \in made \ freed /\ \A i \in 1..Len(list) : target[t] # list[i]

PlaceInv ==
    /\ \A t \in Threads : PlaceOf(t)
    /\ \A t, u \in Threads :
        pc[t] = "unlinked" /\ pc[u] = "unlinked" /\ target[t] = target[u] => t = u

\* A traversal has seen nothing of what lies ahead, and all that stayed and does not.
VisitOf(t) ==
    /\ IsInjective(visited[t])
    /\ pc[t] \in {"at", "want", "both"} =>
        \A i \in 0..Len(list) : current[t] = NodeAt(i) =>
            /\ \A j \in (i + 1)..Len(list) : list[j] \notin ToSet(visited[t])
            /\ \A x \in steady[t] :
                x \in ToSet(visited[t]) \/ \E j \in (i + 1)..Len(list) : x = list[j]

VisitInv == \A t \in Threads : VisitOf(t)

IInv == TypeOK /\ UniqueInv /\ LinkInv /\ LockInv /\ PlaceInv /\ VisitInv

-----------------------------------------------------------------------------
(* Sequences and the chain. *)

\* Removing the only occurrence of an element closes the gap.
LEMMA RemoveFacts ==
    ASSUME NEW S, NEW s \in Seq(S), NEW k \in 1..Len(s),
           \A i \in 1..Len(s) : s[i] = s[k] => i = k
    PROVE  /\ RemoveFirst(s, s[k]) \in Seq(S)
           /\ Len(RemoveFirst(s, s[k])) = Len(s) - 1
           /\ \A i \in 1..(Len(s) - 1) :
                RemoveFirst(s, s[k])[i] = IF i < k THEN s[i] ELSE s[i + 1]
  <1>1. Len(s) \in Nat /\ \A i \in 1..Len(s) : s[i] \in S
    BY LenProperties
  <1> DEFINE I == {i \in 1..Len(s) : s[i] = s[k]}
  <1>2. I = {k}
    OBVIOUS
  <1>3. Min(I) = k
    <2>1. Min({k}) = k
      BY <1>1 DEF Min
    <2> QED
      BY <1>2, <2>1
  <1>4. RemoveFirst(s, s[k]) = RemoveAt(s, k)
    <2>1. SelectInSeq(s, LAMBDA v : v = s[k]) = k
      BY <1>2, <1>3 DEF SelectInSeq
    <2> QED
      BY <2>1 DEF RemoveFirst
  <1> DEFINE a == SubSeq(s, 1, k - 1)
             b == SubSeq(s, k + 1, Len(s))
  <1>5. /\ a \in Seq(S) /\ Len(a) = k - 1
        /\ \A i \in 1..(k - 1) : a[i] = s[i]
    BY <1>1, SubSeqProperties
  <1>6. /\ b \in Seq(S) /\ Len(b) = Len(s) - k
        /\ \A i \in 1..(Len(s) - k) : b[i] = s[k + i]
    BY <1>1, SubSeqProperties
  <1>7. RemoveAt(s, k) = a \o b
    BY DEF RemoveAt
  <1> HIDE DEF a, b
  <1>8. /\ a \o b \in Seq(S) /\ Len(a \o b) = Len(s) - 1
        /\ \A i \in 1..(Len(s) - 1) : (a \o b)[i] = IF i < k THEN s[i] ELSE s[i + 1]
    <2>1. /\ a \o b \in Seq(S) /\ Len(a \o b) = Len(a) + Len(b)
          /\ \A i \in 1..(Len(a) + Len(b)) :
                (a \o b)[i] = IF i <= Len(a) THEN a[i] ELSE b[i - Len(a)]
      BY <1>5, <1>6, ConcatProperties
    <2>2. Len(a) + Len(b) = Len(s) - 1
      BY <1>1, <1>5, <1>6
    <2>3. ASSUME NEW i \in 1..(Len(s) - 1), i < k PROVE (a \o b)[i] = s[i]
      <3>1. i \in 1..(Len(a) + Len(b)) /\ i <= Len(a) /\ i \in 1..(k - 1)
        BY <1>1, <1>5, <2>2, <2>3
      <3> QED
        BY <1>5, <2>1, <3>1
    <2>4. ASSUME NEW i \in 1..(Len(s) - 1), ~(i < k) PROVE (a \o b)[i] = s[i + 1]
      <3>1. i \in 1..(Len(a) + Len(b)) /\ ~(i <= Len(a))
        BY <1>1, <1>5, <2>2, <2>4
      <3>2. i - Len(a) \in 1..(Len(s) - k) /\ k + (i - Len(a)) = i + 1
        BY <1>1, <1>5, <2>4
      <3>3. (a \o b)[i] = b[i - Len(a)]
        BY <2>1, <3>1
      <3>4. b[i - Len(a)] = s[k + (i - Len(a))]
        BY <1>6, <3>2
      <3> QED
        BY <3>2, <3>3, <3>4
    <2> QED
      BY <2>1, <2>2, <2>3, <2>4
  <1> QED
    BY <1>4, <1>7, <1>8

\* What the assumptions on the constants give the leaves below.
LEMMA Constants ==
    /\ head \notin Nodes /\ Null \notin Nodes /\ Null # head
    /\ Links = Nodes \cup {head}
    /\ Predicates \subseteq SUBSET Nodes
  BY ListAssumption DEF Links

\* The list holds nodes that were allocated and not freed.
LEMMA ListFacts ==
    ASSUME TypeOK
    PROVE  /\ Len(list) \in Nat /\ DOMAIN list = 1..Len(list)
           /\ \A i \in 1..Len(list) : list[i] \in made \ freed /\ list[i] \in Nodes
  <1>1. list \in Seq(made \ freed) /\ made \subseteq Nodes
    BY DEF TypeOK
  <1> QED
    BY <1>1, LenProperties

\* No node is in the chain twice.
LEMMA ChainUnique ==
    ASSUME TypeOK, UniqueInv
    PROVE  /\ \A i \in 0..Len(list) : NodeAt(i) \in Links
           /\ \A i, j \in 0..Len(list) : NodeAt(i) = NodeAt(j) => i = j
           /\ \A i \in 1..Len(list) : NodeAt(i) = list[i]
  BY ListFacts, Constants DEF UniqueInv, NodeAt

\* The same after a step.
LEMMA ChainUniqueNext ==
    ASSUME TypeOK', UniqueInv'
    PROVE  \A i, j \in 0..Len(list') : NodeAt(i)' = NodeAt(j)' => i = j
  <1>1. list' \in Seq(made' \ freed') /\ made' \subseteq Nodes
    BY DEF TypeOK
  <1>2. Len(list') \in Nat /\ \A i \in 1..Len(list') : list'[i] \in Nodes
    BY <1>1, LenProperties
  <1> QED
    BY <1>2, Constants DEF UniqueInv, NodeAt

\* The next pointers follow the list.
LEMMA Successor ==
    ASSUME TypeOK, UniqueInv, LinkInv, NEW i \in 0..Len(list)
    PROVE  /\ i < Len(list) => next[NodeAt(i)] = list[i + 1] /\ next[NodeAt(i)] # Null
           /\ i = Len(list) => next[NodeAt(i)] = Null
  <1>1. CASE i < Len(list)
    <2>1. i + 1 \in 1..Len(list) /\ i \in 0..(Len(list) - 1)
      BY <1>1, ListFacts
    <2>2. next[NodeAt(i)] = list[i + 1]
      BY <2>1 DEF LinkInv
    <2>3. \A j \in 1..Len(list) : list[j] \in Nodes
      BY ListFacts
    <2>4. list[i + 1] \in Nodes
      BY <2>1, <2>3
    <2>5. Len(list) \in Nat
      BY ListFacts
    <2>6. i # Len(list)
      BY <1>1, <2>5
    <2> QED
      BY <2>2, <2>4, <2>6, Constants
  <1>2. CASE i = Len(list)
    BY <1>2, ListFacts DEF LinkInv
  <1> QED
    BY <1>1, <1>2, ListFacts

-----------------------------------------------------------------------------
(* The invariant holds initially and every action preserves it. *)

\* An empty list and nobody in it.
LEMMA InitIInv == Init => IInv
  <1> SUFFICES ASSUME Init PROVE IInv
    OBVIOUS
  <1>1. TypeOK
    <2>1. undefined \in BOOLEAN
      BY DEF Init
    <2>2. /\ list \in Seq(made \ freed) /\ visited \in [Threads -> Seq(Nodes)]
          /\ steady \in [Threads -> SUBSET Nodes]
      BY DEF Init
    <2>3. /\ next \in [Links -> Nodes \cup {Null}]
          /\ m \in [Links -> SUBSET Threads]
          /\ current \in [Threads -> Links] /\ target \in [Threads -> Nodes \cup {Null}]
          /\ match \in [Threads -> SUBSET Nodes]
      BY Constants DEF Init
    <2>4. /\ pc \in [Threads -> {"idle", "call", "at", "want", "both", "unlinked"}]
          /\ op \in [Threads -> Operations]
      BY DEF Init, Operations
    <2>5. size_ \in Nat /\ made \in SUBSET Nodes /\ freed \in SUBSET made
      BY DEF Init
    <2> QED
      BY <2>1, <2>2, <2>3, <2>4, <2>5 DEF TypeOK
  <1>2. Len(list) = 0
    BY DEF Init
  <1>3. UniqueInv /\ LinkInv
    BY <1>2, Constants DEF Init, UniqueInv, LinkInv, NodeAt
  <1>4. LockInv
    BY Constants DEF Init, LockInv, Holds, Inside
  <1>5. PlaceInv
    BY DEF Init, PlaceInv, PlaceOf, Inside
  <1>6. VisitInv
    BY DEF Init, VisitInv, VisitOf, IsInjective
  <1> QED
    BY <1>1, <1>3, <1>4, <1>5, <1>6 DEF IInv

\* A step that touches neither list nor pointers keeps the chain and the other threads' places.
LEMMA QuietStep ==
    ASSUME IInv, NEW t \in Threads, UNCHANGED <<next, made, size_, list>>,
           \A u \in Threads : u # t /\ pc[u] = "unlinked" => target[u] \notin freed',
           pc'[t] # "unlinked",
           \A u \in Threads : u # t =>
             /\ pc'[u] = pc[u] /\ current'[u] = current[u] /\ target'[u] = target[u]
             /\ visited'[u] = visited[u] /\ steady'[u] = steady[u],
           TypeOK', LockInv', PlaceOf(t)', VisitOf(t)'
    PROVE  IInv'
  <1>1. UniqueInv' /\ LinkInv'
    BY DEF IInv, UniqueInv, LinkInv, NodeAt
  <1>2. ASSUME NEW u \in Threads, u # t PROVE PlaceOf(u)'
    BY <1>2 DEF IInv, PlaceInv, PlaceOf, Inside, NodeAt
  <1>3. ASSUME NEW u \in Threads, u # t PROVE VisitOf(u)'
    BY <1>3 DEF IInv, VisitInv, VisitOf, NodeAt
  <1>4. PlaceInv'
    BY <1>2 DEF PlaceInv, IInv
  <1> QED
    BY <1>1, <1>3, <1>4 DEF IInv, VisitInv

\* A node that is unlinked and not yet freed.
LEMMA NotFreed ==
    ASSUME IInv, freed' = freed
    PROVE  \A u \in Threads : pc[u] = "unlinked" => target[u] \notin freed'
  BY DEF IInv, PlaceInv, PlaceOf

\* A thread holds its locks and nobody else does.
LEMMA OnlyHolder ==
    ASSUME IInv, NEW t \in Threads, NEW l \in Links, Holds(t, l)
    PROVE  m[l] = {t}
  BY DEF IInv, LockInv, TypeOK

\* The next node that an operation in the list is about to lock, or has locked.
LEMMA NextNode ==
    ASSUME IInv, NEW t \in Threads, pc[t] \in {"want", "both"}
    PROVE  \E i \in 0..(Len(list) - 1) :
             current[t] = NodeAt(i) /\ i + 1 \in 1..Len(list) /\ target[t] = list[i + 1]
  <1>1. PICK i \in 0..Len(list) : current[t] = NodeAt(i)
    BY DEF IInv, PlaceInv, PlaceOf, Inside
  <1>2. target[t] = next[NodeAt(i)] /\ next[NodeAt(i)] # Null
    BY <1>1 DEF IInv, PlaceInv, PlaceOf
  <1>3. i # Len(list)
    BY <1>2, Successor DEF IInv
  <1>4. Len(list) \in Nat
    BY ListFacts DEF IInv
  <1>5. i < Len(list) /\ i \in 0..(Len(list) - 1) /\ i + 1 \in 1..Len(list)
    BY <1>3, <1>4
  <1>6. next[NodeAt(i)] = list[i + 1]
    BY <1>5, Successor DEF IInv
  <1> QED
    BY <1>1, <1>2, <1>5, <1>6

\* An operation is called and has not yet locked the head.
LEMMA CallStep ==
    ASSUME IInv, NEW t \in Threads, NEW o \in Operations, NEW S \in SUBSET Nodes, Call(t, o, S)
    PROVE  IInv'
  <1>1. TypeOK'
    BY DEF Call, Goto, IInv, TypeOK
  <1>2. /\ pc[t] = "idle" /\ pc'[t] = "call"
        /\ \A u \in Threads : u # t => pc'[u] = pc[u]
        /\ UNCHANGED <<next, m, made, freed, size_, current, target, list, visited, steady>>
    BY DEF Call, Goto, IInv, TypeOK
  <1>3. LockInv'
    BY <1>2 DEF IInv, LockInv, Holds, Inside
  <1>4. PlaceOf(t)'
    BY <1>2 DEF IInv, PlaceInv, PlaceOf, Inside
  <1>5. VisitOf(t)'
    BY <1>2 DEF IInv, VisitInv, VisitOf
  <1> QED
    BY <1>1, <1>2, <1>3, <1>4, <1>5, NotFreed, QuietStep

\* The head is locked: everything in the list lies ahead.
LEMMA LockHeadStep ==
    ASSUME IInv, NEW t \in Threads, LockHead(t)
    PROVE  IInv'
  <1>1. ToSet(list) \subseteq Nodes
    BY ListFacts DEF IInv, ToSet
  <1>2. TypeOK'
    BY <1>1, Constants DEF LockHead, Goto, IInv, TypeOK, call
  <1>3. /\ pc[t] = "call" /\ pc'[t] = "at" /\ m[head] = {}
        /\ \A u \in Threads : u # t => pc'[u] = pc[u] /\ steady'[u] = steady[u]
        /\ m' = [m EXCEPT ![head] = {t}] /\ steady'[t] = ToSet(list)
        /\ UNCHANGED <<next, made, freed, size_, current, target, list, visited>>
    BY DEF LockHead, Goto, IInv, TypeOK
  <1>4. current[t] = head /\ target[t] = Null /\ visited[t] = <<>>
    BY <1>3 DEF IInv, PlaceInv, PlaceOf, Inside
  <1>5. LockInv'
    BY <1>3, <1>4, Constants DEF IInv, LockInv, Holds, Inside, TypeOK
  <1>6. 0 \in 0..Len(list) /\ NodeAt(0) = head
    BY ListFacts DEF IInv, NodeAt
  <1>7. PlaceOf(t)'
    BY <1>3, <1>4, <1>6 DEF PlaceOf, Inside, NodeAt
  <1>8. VisitOf(t)'
    <2>1. IsInjective(visited'[t]) /\ \A x : x \notin ToSet(visited'[t])
      BY <1>3, <1>4 DEF IsInjective, ToSet
    <2>2. ASSUME NEW i \in 0..Len(list), head = NodeAt(i)
          PROVE  \A x \in ToSet(list) : \E j \in (i + 1)..Len(list) : x = list[j]
      <3>1. i = 0
        BY <1>6, <2>2, ChainUnique DEF IInv
      <3>2. \A x \in ToSet(list) : \E j \in 1..Len(list) : x = list[j]
        BY ListFacts DEF IInv, ToSet
      <3> QED
        BY <3>1, <3>2
    <2> QED
      BY <1>3, <1>4, <2>1, <2>2 DEF VisitOf, NodeAt
  <1> QED
    BY <1>2, <1>3, <1>5, <1>7, <1>8, NotFreed, QuietStep

\* The next pointer is read.
LEMMA ReadNextStep ==
    ASSUME IInv, NEW t \in Threads, ReadNext(t)
    PROVE  IInv'
  <1>1. current[t] \in Links
    BY DEF IInv, TypeOK
  <1>2. TypeOK'
    BY <1>1 DEF ReadNext, Goto, IInv, TypeOK, call
  <1>3. /\ pc[t] = "at" /\ pc'[t] = "want" /\ target'[t] = next[current[t]]
        /\ next[current[t]] # Null
        /\ \A u \in Threads : u # t => pc'[u] = pc[u] /\ target'[u] = target[u]
        /\ UNCHANGED <<next, m, made, freed, size_, current, list, visited, steady>>
    BY DEF ReadNext, Goto, IInv, TypeOK
  <1>4. LockInv'
    BY <1>3 DEF IInv, LockInv, Holds, Inside
  <1>5. PlaceOf(t)'
    BY <1>3 DEF IInv, PlaceInv, PlaceOf, Inside, NodeAt
  <1>6. VisitOf(t)'
    BY <1>3 DEF IInv, VisitInv, VisitOf, NodeAt
  <1> QED
    BY <1>2, <1>3, <1>4, <1>5, <1>6, NotFreed, QuietStep

\* The next node's mutex is taken.
LEMMA LockNextStep ==
    ASSUME IInv, NEW t \in Threads, LockNext(t)
    PROVE  IInv'
  <1>1. target[t] \in Links
    BY NextNode, ListFacts, Constants DEF LockNext, IInv
  <1>2. TypeOK'
    BY <1>1 DEF LockNext, Goto, IInv, TypeOK, call
  <1>3. /\ pc[t] = "want" /\ pc'[t] = "both" /\ m[target[t]] = {}
        /\ m' = [m EXCEPT ![target[t]] = {t}]
        /\ \A u \in Threads : u # t => pc'[u] = pc[u]
        /\ UNCHANGED <<next, made, freed, size_, current, target, list, visited, steady>>
    BY DEF LockNext, Goto, IInv, TypeOK
  <1>4. LockInv'
    BY <1>1, <1>3 DEF IInv, LockInv, Holds, Inside, TypeOK
  <1>5. PlaceOf(t)'
    BY <1>3 DEF IInv, PlaceInv, PlaceOf, Inside, NodeAt
  <1>6. VisitOf(t)'
    BY <1>3 DEF IInv, VisitInv, VisitOf, NodeAt
  <1> QED
    BY <1>2, <1>3, <1>4, <1>5, <1>6, NotFreed, QuietStep

\* What return does to the locals of a thread.
LEMMA ReturnFacts ==
    ASSUME IInv, NEW t \in Threads, Return(t)
    PROVE  /\ pc'[t] = "idle" /\ current'[t] = head /\ target'[t] = Null
           /\ visited'[t] = <<>> /\ steady'[t] = {}
           /\ \A u \in Threads : u # t =>
                /\ pc'[u] = pc[u] /\ current'[u] = current[u] /\ target'[u] = target[u]
                /\ visited'[u] = visited[u] /\ steady'[u] = steady[u]
           /\ PlaceOf(t)' /\ VisitOf(t)'
  <1>1. /\ pc'[t] = "idle" /\ current'[t] = head /\ target'[t] = Null
        /\ visited'[t] = <<>> /\ steady'[t] = {}
    BY DEF Return, Goto, IInv, TypeOK
  <1>2. ASSUME NEW u \in Threads, u # t
        PROVE  /\ pc'[u] = pc[u] /\ current'[u] = current[u] /\ target'[u] = target[u]
               /\ visited'[u] = visited[u] /\ steady'[u] = steady[u]
    BY <1>2 DEF Return, Goto, IInv, TypeOK
  <1>3. PlaceOf(t)'
    BY <1>1 DEF PlaceOf, Inside
  <1>4. VisitOf(t)'
    BY <1>1 DEF VisitOf, IsInjective
  <1> QED
    BY <1>1, <1>2, <1>3, <1>4

\* The locals of a thread that returned are well typed.
LEMMA ReturnType ==
    ASSUME IInv, NEW t \in Threads, Return(t)
    PROVE  /\ pc' \in [Threads -> {"idle", "call", "at", "want", "both", "unlinked"}]
           /\ op' \in [Threads -> Operations]
           /\ match' \in [Threads -> SUBSET Nodes]
           /\ current' \in [Threads -> Links]
           /\ target' \in [Threads -> Nodes \cup {Null}]
           /\ visited' \in [Threads -> Seq(Nodes)]
           /\ steady' \in [Threads -> SUBSET Nodes]
  <1>1. <<>> \in Seq(Nodes) /\ head \in Links /\ "for_each" \in Operations
    BY EmptySeq, Constants DEF Operations
  <1> QED
    BY <1>1 DEF Return, Goto, IInv, TypeOK

\* The search ends, with or without a find: all locks of the thread go.
LEMMA EndStep ==
    ASSUME IInv, NEW t \in Threads, AtEnd(t) \/ Found(t)
    PROVE  IInv'
  <1>1. /\ Return(t) /\ UNCHANGED <<next, made, freed, size_, undefined, list>>
        /\ current[t] \in Links
    BY DEF AtEnd, Found, IInv, TypeOK
  <1>2. \A l \in Links : m'[l] = IF Holds(t, l) THEN {} ELSE m[l]
    BY <1>1 DEF AtEnd, Found, IInv, TypeOK, Holds, Inside
  <1>3. m' \in [Links -> SUBSET Threads]
    BY DEF AtEnd, Found, IInv, TypeOK
  <1>4. TypeOK'
    BY <1>1, <1>3, ReturnType DEF IInv, TypeOK
  <1>5. LockInv'
    BY <1>1, <1>2, ReturnFacts DEF IInv, LockInv, Holds, Inside
  <1> QED
    BY <1>1, <1>4, <1>5, ReturnFacts, NotFreed, QuietStep

\* The removed node is freed; nobody else stands on it, waits for it or will free it.
LEMMA FreeStep ==
    ASSUME IInv, NEW t \in Threads, Free(t)
    PROVE  IInv'
  <1>1. /\ Return(t) /\ UNCHANGED <<next, made, size_, list>> /\ pc[t] = "unlinked"
        /\ m' = [m EXCEPT ![current[t]] = {}] /\ current[t] \in Links
        /\ freed' = freed \cup {target[t]}
    BY DEF Free, IInv, TypeOK
  <1>2. \A l \in Links : m'[l] = IF Holds(t, l) THEN {} ELSE m[l]
    BY <1>1 DEF IInv, TypeOK, Holds, Inside
  <1>3. target[t] \in made /\ \A i \in 1..Len(list) : list[i] # target[t]
    BY <1>1 DEF IInv, PlaceInv, PlaceOf
  <1>4. TypeOK'
    <2>1. undefined' \in BOOLEAN
      BY DEF Free
    <2>2. freed' \in SUBSET made
      BY <1>1, <1>3 DEF IInv, TypeOK
    <2>3. list \in Seq(made \ freed')
      <3>1. list \in [1..Len(list) -> made \ freed'] /\ Len(list) \in Nat
        <4>1. list \in [1..Len(list) -> made \ freed]
          BY LenProperties DEF IInv, TypeOK
        <4>2. \A i \in 1..Len(list) : list[i] \in made \ freed'
          BY <1>1, <1>3, <4>1
        <4> QED
          BY <4>1, <4>2, ListFacts DEF IInv
      <3> QED
        BY <3>1
    <2>4. m' \in [Links -> SUBSET Threads]
      BY <1>1 DEF IInv, TypeOK
    <2> QED
      BY <1>1, <2>1, <2>2, <2>3, <2>4, ReturnType DEF IInv, TypeOK
  <1>5. LockInv'
    BY <1>1, <1>2, ReturnFacts DEF IInv, LockInv, Holds, Inside
  <1>6. \A u \in Threads : u # t /\ pc[u] = "unlinked" => target[u] \notin freed'
    BY <1>1 DEF IInv, PlaceInv, PlaceOf
  <1> QED
    BY <1>1, <1>4, <1>5, <1>6, ReturnFacts, QuietStep

\* What a traversal has seen after one more node.
LEMMA AppendSeen ==
    ASSUME NEW S, NEW s \in Seq(S), NEW e \in S, e \notin ToSet(s), IsInjective(s)
    PROVE  /\ Append(s, e) \in Seq(S)
           /\ ToSet(Append(s, e)) = ToSet(s) \cup {e}
           /\ IsInjective(Append(s, e))
  <1> DEFINE r == Append(s, e)
  <1>1. /\ r \in Seq(S) /\ Len(r) = Len(s) + 1 /\ r[Len(s) + 1] = e
        /\ \A i \in 1..Len(s) : r[i] = s[i]
    BY AppendProperties
  <1>2. Len(s) \in Nat /\ DOMAIN s = 1..Len(s) /\ DOMAIN r = 1..(Len(s) + 1)
    BY <1>1, LenProperties
  <1> HIDE DEF r
  <1>3. \A i \in 1..Len(s) : r[i] # e
    BY <1>1, <1>2 DEF ToSet
  <1>4. \A i \in 1..(Len(s) + 1) : i = Len(s) + 1 \/ i \in 1..Len(s)
    BY <1>2
  <1>5. IsInjective(r)
    <2> SUFFICES ASSUME NEW i \in 1..(Len(s) + 1), NEW j \in 1..(Len(s) + 1), r[i] = r[j]
                 PROVE  i = j
      BY <1>2 DEF IsInjective
    <2>1. CASE i \in 1..Len(s) /\ j \in 1..Len(s)
      BY <1>1, <1>2, <2>1 DEF IsInjective
    <2>2. CASE i = Len(s) + 1 \/ j = Len(s) + 1
      BY <1>1, <1>3, <1>4, <2>2
    <2> QED
      BY <1>4, <2>1, <2>2
  <1>6. ToSet(r) = ToSet(s) \cup {e}
    <2>1. \A x \in ToSet(r) : x \in ToSet(s) \cup {e}
      BY <1>1, <1>2, <1>4 DEF ToSet
    <2>2. \A x \in ToSet(s) : x \in ToSet(r)
      BY <1>1, <1>2 DEF ToSet
    <2>3. e \in ToSet(r)
      <3>1. Len(s) + 1 \in DOMAIN r
        BY <1>2
      <3> QED
        BY <1>1, <3>1 DEF ToSet
    <2> QED
      BY <2>1, <2>2, <2>3
  <1> QED
    BY <1>1, <1>5, <1>6 DEF r

\* The traversal goes on to the next node and lets go of the one before.
LEMMA AdvanceStep ==
    ASSUME IInv, NEW t \in Threads, Advance(t)
    PROVE  IInv'
  <1>1. PICK i \in 0..(Len(list) - 1) :
          current[t] = NodeAt(i) /\ i + 1 \in 1..Len(list) /\ target[t] = list[i + 1]
    BY NextNode DEF Advance
  <1> DEFINE n == target[t]
  <1>2. /\ Len(list) \in Nat /\ i \in 0..Len(list) /\ i + 1 \in 0..Len(list) /\ n \in Nodes
        /\ n = NodeAt(i + 1) /\ current[t] # n /\ current[t] \in Links /\ n \in Links
    <2>1. Len(list) \in Nat
      BY ListFacts DEF IInv
    <2>2. i \in 0..Len(list) /\ i + 1 \in 0..Len(list) /\ i # i + 1
      BY <1>1, <2>1
    <2>3. n \in Nodes
      BY <1>1, ListFacts DEF IInv
    <2>4. n = NodeAt(i + 1)
      BY <1>1, ChainUnique DEF IInv
    <2>5. current[t] # n
      BY <1>1, <2>2, <2>4, ChainUnique DEF IInv
    <2> QED
      BY <2>1, <2>2, <2>3, <2>4, <2>5, Constants DEF IInv, TypeOK
  <1>3. /\ pc[t] = "both" /\ pc'[t] = "at" /\ current'[t] = n
        /\ m' = [m EXCEPT ![current[t]] = {}]
        /\ visited'[t] = Append(visited[t], n)
        /\ \A u \in Threads : u # t =>
             pc'[u] = pc[u] /\ current'[u] = current[u] /\ visited'[u] = visited[u]
        /\ UNCHANGED <<next, made, freed, size_, target, list, steady>>
    BY DEF Advance, Goto, IInv, TypeOK
  <1> HIDE DEF n
  <1>4. /\ \A j \in (i + 1)..Len(list) : list[j] \notin ToSet(visited[t])
        /\ \A x \in steady[t] :
             x \in ToSet(visited[t]) \/ \E j \in (i + 1)..Len(list) : x = list[j]
        /\ IsInjective(visited[t])
    BY <1>1, <1>2, <1>3 DEF IInv, VisitInv, VisitOf
  <1>5. n = list[i + 1] /\ n \notin ToSet(visited[t])
    <2>1. i + 1 \in (i + 1)..Len(list)
      BY <1>1, <1>2
    <2> QED
      BY <1>1, <1>4, <2>1 DEF n
  <1>6. /\ visited'[t] \in Seq(Nodes) /\ IsInjective(visited'[t])
        /\ ToSet(visited'[t]) = ToSet(visited[t]) \cup {n}
    BY <1>2, <1>3, <1>4, <1>5, AppendSeen DEF IInv, TypeOK
  <1>7. TypeOK'
    <2>1. visited' \in [Threads -> Seq(Nodes)]
      BY <1>2, <1>3, <1>6 DEF Advance, IInv, TypeOK, n
    <2>2. current' \in [Threads -> Links] /\ m' \in [Links -> SUBSET Threads]
      BY <1>2 DEF Advance, IInv, TypeOK, n
    <2> QED
      BY <2>1, <2>2 DEF Advance, Goto, IInv, TypeOK, call
  <1>8. LockInv'
    BY <1>2, <1>3 DEF IInv, LockInv, Holds, Inside, TypeOK, n
  <1>9. PlaceOf(t)'
    BY <1>2, <1>3 DEF PlaceOf, Inside, NodeAt, n
  <1>10. VisitOf(t)'
    <2> SUFFICES ASSUME NEW k \in 0..Len(list), n = NodeAt(k)
                 PROVE  /\ \A j \in (k + 1)..Len(list) : list[j] \notin ToSet(visited'[t])
                        /\ \A x \in steady[t] : \/ x \in ToSet(visited'[t])
                                                \/ \E j \in (k + 1)..Len(list) : x = list[j]
      BY <1>3, <1>6 DEF VisitOf, NodeAt
    <2>1. k = i + 1
      BY <1>2, ChainUnique DEF IInv
    <2>2. ASSUME NEW j \in (k + 1)..Len(list) PROVE list[j] \notin ToSet(visited'[t])
      <3>1. j \in (i + 1)..Len(list) /\ j \in 1..Len(list) /\ j # i + 1
        BY <1>2, <2>1, <2>2
      <3>2. list[j] # n
        BY <1>1, <1>5, <3>1 DEF IInv, UniqueInv
      <3> QED
        BY <1>4, <1>6, <3>1, <3>2
    <2>3. ASSUME NEW x \in steady[t], x \notin ToSet(visited'[t])
          PROVE  \E j \in (k + 1)..Len(list) : x = list[j]
      <3>1. PICK j \in (i + 1)..Len(list) : x = list[j]
        BY <1>4, <1>6, <2>3
      <3>2. j # i + 1
        BY <1>5, <1>6, <2>3, <3>1
      <3>3. j \in (k + 1)..Len(list)
        BY <1>2, <2>1, <3>1, <3>2
      <3> QED
        BY <3>1, <3>3
    <2> QED
      BY <2>2, <2>3
  <1> QED
    BY <1>3, <1>7, <1>8, <1>9, <1>10, NotFreed, QuietStep

\* The list after push_front.
LEMMA PushedList ==
    ASSUME IInv, NEW t \in Threads, NEW n \in Nodes, PushFront(t, n)
    PROVE  /\ list' \in Seq(made' \ freed)
           /\ Len(list') = Len(list) + 1
           /\ list'[1] = n
           /\ \A i \in 1..Len(list) : list'[i + 1] = list[i]
  <1>1. /\ freed \in SUBSET made /\ made' = made \cup {n} /\ n \notin made
        /\ list \in Seq(made \ freed) /\ list' = <<n>> \o list
    BY DEF PushFront, IInv, TypeOK
  <1> DEFINE S == made' \ freed
  <1>2. made \ freed \subseteq S /\ n \in S
    BY <1>1
  <1>3. list \in Seq(S) /\ <<n>> \in Seq(S) /\ Len(<<n>>) = 1 /\ <<n>>[1] = n
    BY <1>1, <1>2, SeqMonotonic
  <1>4. Len(list) \in Nat
    BY <1>3, LenProperties
  <1> HIDE DEF S
  <1>5. /\ <<n>> \o list \in Seq(S)
        /\ Len(<<n>> \o list) = Len(<<n>>) + Len(list)
        /\ \A i \in 1..(Len(<<n>>) + Len(list)) :
             (<<n>> \o list)[i] = IF i <= Len(<<n>>) THEN <<n>>[i] ELSE list[i - Len(<<n>>)]
    BY <1>3, ConcatProperties
  <1> DEFINE r == <<n>> \o list
  <1>6. /\ r \in Seq(S) /\ Len(r) = 1 + Len(list)
        /\ \A i \in 1..(1 + Len(list)) : r[i] = IF i <= 1 THEN <<n>>[i] ELSE list[i - 1]
    BY <1>3, <1>5
  <1> HIDE DEF r
  <1>7. r[1] = n
    BY <1>3, <1>4, <1>6
  <1>8. ASSUME NEW i \in 1..Len(list) PROVE r[i + 1] = list[i]
    <2>1. i + 1 \in 1..(1 + Len(list)) /\ ~(i + 1 <= 1) /\ (i + 1) - 1 = i
      BY <1>4, <1>8
    <2>2. r[i + 1] = list[(i + 1) - 1]
      BY <1>6, <2>1
    <2> QED
      BY <2>1, <2>2
  <1> QED
    BY <1>1, <1>4, <1>6, <1>7, <1>8 DEF S, r

\* A node enters at the front while nobody is at the head: every place moves back by one.
LEMMA PushFrontStep ==
    ASSUME IInv, NEW t \in Threads, NEW n \in Nodes, PushFront(t, n)
    PROVE  IInv'
  <1>1. /\ made' = made \cup {n} /\ n \notin made /\ m[head] = {}
        /\ next' = [next EXCEPT ![n] = next[head], ![head] = n]
        /\ size_' = size_ + 1
        /\ UNCHANGED <<m, freed, pc, op, match, current, target, undefined, visited, steady>>
    BY DEF PushFront, call
  <1>2. /\ Len(list') = Len(list) + 1 /\ list'[1] = n
        /\ \A i \in 1..Len(list) : list'[i + 1] = list[i]
        /\ list' \in Seq(made' \ freed)
    BY PushedList
  <1>3. Len(list) \in Nat /\ \A i \in 1..Len(list) : list[i] \in Nodes /\ list[i] # n
    BY <1>1, ListFacts DEF IInv
  <1>4. n \in Links /\ head \in Links /\ n # head
    BY Constants
  <1>5. TypeOK'
    <2>1. next' \in [Links -> Nodes \cup {Null}]
      BY <1>1, <1>4 DEF IInv, TypeOK
    <2>2. size_' \in Nat /\ made' \in SUBSET Nodes /\ freed' \in SUBSET made'
      BY <1>1 DEF IInv, TypeOK
    <2> QED
      BY <1>1, <1>2, <2>1, <2>2 DEF IInv, TypeOK
  <1>6. \A k \in 1..Len(list') : k = 1 \/ (k - 1 \in 1..Len(list) /\ list'[k] = list[k - 1])
    <2> SUFFICES ASSUME NEW k \in 1..Len(list'), k # 1
                 PROVE  k - 1 \in 1..Len(list) /\ list'[k] = list[k - 1]
      OBVIOUS
    <2>1. k - 1 \in 1..Len(list) /\ (k - 1) + 1 = k
      BY <1>2, <1>3
    <2>2. list'[(k - 1) + 1] = list[k - 1]
      BY <1>2, <2>1
    <2> QED
      BY <2>1, <2>2
  <1>7. UniqueInv'
    <2> SUFFICES ASSUME NEW i \in 1..Len(list'), NEW j \in 1..Len(list'), list'[i] = list'[j]
                 PROVE  i = j
      BY DEF UniqueInv
    <2>1. CASE i = 1 \/ j = 1
      BY <1>2, <1>3, <1>6, <2>1
    <2>2. CASE i # 1 /\ j # 1
      <3>1. /\ i - 1 \in 1..Len(list) /\ j - 1 \in 1..Len(list)
            /\ list[i - 1] = list[j - 1]
        BY <1>6, <2>2
      <3>2. i - 1 = j - 1
        BY <3>1 DEF IInv, UniqueInv
      <3> QED
        BY <1>2, <1>3, <3>2
    <2> QED
      BY <2>1, <2>2
  <1>8. LinkInv'
    <2>1. /\ next'[head] = n /\ next'[n] = next[head]
          /\ \A i \in 1..Len(list) : next'[list[i]] = next[list[i]]
      BY <1>1, <1>3, <1>4, Constants DEF IInv, TypeOK
    <2>2. ASSUME NEW i \in 0..(Len(list') - 1) PROVE next'[NodeAt(i)'] = list'[i + 1]
      <3>1. CASE i = 0
        BY <1>2, <2>1, <3>1 DEF NodeAt
      <3>2. CASE i # 0
        <4>1. i \in 1..Len(list) /\ i - 1 \in 0..(Len(list) - 1) /\ i \in 1..Len(list')
              /\ (i - 1) + 1 = i
          BY <1>2, <1>3, <3>2
        <4>2. list'[i + 1] = list[i] /\ NodeAt(i)' = list'[i]
          BY <1>2, <3>2, <4>1 DEF NodeAt
        <4>3. next[NodeAt(i - 1)] = list[i]
          <5>1. next[NodeAt(i - 1)] = list[(i - 1) + 1]
            BY <4>1 DEF IInv, LinkInv
          <5> QED
            BY <4>1, <5>1
        <4>4. CASE i = 1
          <5>1. NodeAt(i - 1) = head
            BY <4>4 DEF NodeAt
          <5> QED
            BY <1>2, <2>1, <4>2, <4>3, <4>4, <5>1
        <4>5. CASE i # 1
          <5>1. list'[i] = list[i - 1] /\ i - 1 \in 1..Len(list) /\ NodeAt(i - 1) = list[i - 1]
            BY <1>6, <4>1, <4>5 DEF NodeAt
          <5> QED
            BY <2>1, <4>2, <4>3, <5>1
        <4> QED
          BY <4>4, <4>5
      <3> QED
        BY <3>1, <3>2
    <2>3. next'[NodeAt(Len(list))'] = Null
      <3>1. NodeAt(Len(list))' = list'[Len(list) + 1]
        BY <1>2, <1>3 DEF NodeAt
      <3>2. CASE Len(list) = 0
        BY <1>2, <2>1, <3>1, <3>2 DEF IInv, LinkInv, NodeAt
      <3>3. CASE Len(list) # 0
        <4>1. Len(list) \in 1..Len(list) /\ NodeAt(Len(list)) = list[Len(list)]
          BY <1>3, <3>3 DEF NodeAt
        <4>2. next[list[Len(list)]] = Null
          BY <4>1 DEF IInv, LinkInv
        <4> QED
          BY <1>2, <2>1, <3>1, <4>1, <4>2
      <3> QED
        BY <3>2, <3>3
    <2>4. size_' = Len(list')
      BY <1>1, <1>2 DEF IInv, LinkInv
    <2> QED
      BY <2>2, <2>3, <2>4 DEF LinkInv
  <1>9. LockInv'
    BY <1>1 DEF IInv, LockInv, Holds, Inside
  <1>10. ASSUME NEW u \in Threads, Inside(u), NEW i \in 0..Len(list), current[u] = NodeAt(i)
         PROVE  /\ i \in 1..Len(list) /\ current[u] = list[i] /\ i + 1 \in 0..Len(list')
                /\ current[u] = NodeAt(i + 1)' /\ next'[current[u]] = next[current[u]]
    <2>1. current[u] # head
      BY <1>1, <1>4, <1>10 DEF IInv, LockInv, Holds
    <2>2. i \in 1..Len(list) /\ current[u] = list[i] /\ i + 1 \in 0..Len(list') /\ i + 1 # 0
      BY <1>2, <1>3, <1>10, <2>1 DEF NodeAt
    <2>3. current[u] = NodeAt(i + 1)'
      BY <1>2, <2>2 DEF NodeAt
    <2>4. next'[current[u]] = next[current[u]]
      BY <1>1, <1>3, <2>1, <2>2, Constants DEF IInv, TypeOK
    <2> QED
      BY <2>2, <2>3, <2>4
  <1>11. PlaceInv'
    <2>1. ASSUME NEW u \in Threads PROVE PlaceOf(u)'
      <3>1. CASE ~Inside(u)
        BY <1>1, <3>1 DEF IInv, PlaceInv, PlaceOf, Inside
      <3>2. CASE Inside(u)
        <4>1. PICK i \in 0..Len(list) : current[u] = NodeAt(i)
          BY <3>2 DEF IInv, PlaceInv, PlaceOf
        <4>2. /\ i + 1 \in 0..Len(list') /\ current[u] = NodeAt(i + 1)'
              /\ next'[current[u]] = next[current[u]]
          BY <1>10, <3>2, <4>1
        <4>3. pc[u] = "unlinked" => \A k \in 1..Len(list') : target[u] # list'[k]
          BY <1>1, <1>2, <1>6 DEF IInv, PlaceInv, PlaceOf
        <4>4. \E k \in 0..Len(list') : current[u] = NodeAt(k)'
          BY <4>2
        <4> QED
          BY <1>1, <3>2, <4>2, <4>3, <4>4 DEF IInv, PlaceInv, PlaceOf, Inside
      <3> QED
        BY <3>1, <3>2
    <2> QED
      BY <1>1, <2>1 DEF IInv, PlaceInv
  <1>12. VisitInv'
    <2> SUFFICES ASSUME NEW u \in Threads PROVE VisitOf(u)'
      BY DEF VisitInv
    <2> SUFFICES ASSUME pc[u] \in {"at", "want", "both"},
                        NEW k \in 0..Len(list'), current[u] = NodeAt(k)'
                 PROVE  /\ \A j \in (k + 1)..Len(list') : list'[j] \notin ToSet(visited[u])
                        /\ \A x \in steady[u] : \/ x \in ToSet(visited[u])
                                                \/ \E j \in (k + 1)..Len(list') : x = list'[j]
      BY <1>1 DEF VisitOf, IInv, VisitInv
    <2>1. PICK i \in 0..Len(list) : current[u] = NodeAt(i)
      BY DEF IInv, PlaceInv, PlaceOf, Inside
    <2>2. i + 1 \in 0..Len(list') /\ current[u] = NodeAt(i + 1)' /\ i \in 1..Len(list)
      BY <1>10, <2>1 DEF Inside
    <2>3. \A a, b \in 0..Len(list') : NodeAt(a)' = NodeAt(b)' => a = b
      BY <1>5, <1>7, ChainUniqueNext
    <2>4. k = i + 1
      BY <2>2, <2>3
    <2>5. /\ \A j \in (i + 1)..Len(list) : list[j] \notin ToSet(visited[u])
          /\ \A x \in steady[u] : \/ x \in ToSet(visited[u])
                                  \/ \E j \in (i + 1)..Len(list) : x = list[j]
      BY <2>1 DEF IInv, VisitInv, VisitOf
    <2>6. ASSUME NEW j \in (k + 1)..Len(list') PROVE list'[j] \notin ToSet(visited[u])
      <3>1. j \in 1..Len(list') /\ j # 1 /\ j - 1 \in (i + 1)..Len(list)
        BY <1>2, <1>3, <2>2, <2>4, <2>6
      <3>2. list'[j] = list[j - 1]
        BY <1>6, <3>1
      <3> QED
        BY <2>5, <3>1, <3>2
    <2>7. ASSUME NEW x \in steady[u], x \notin ToSet(visited[u])
          PROVE  \E j \in (k + 1)..Len(list') : x = list'[j]
      <3>1. PICK j \in (i + 1)..Len(list) : x = list[j]
        BY <2>5, <2>7
      <3>2. j \in 1..Len(list) /\ j + 1 \in (k + 1)..Len(list')
        BY <1>2, <1>3, <2>2, <2>4
      <3>3. x = list'[j + 1]
        BY <1>2, <3>1, <3>2
      <3> QED
        BY <3>2, <3>3
    <2> QED
      BY <2>6, <2>7
  <1> QED
    BY <1>5, <1>7, <1>8, <1>9, <1>11, <1>12 DEF IInv

\* The place of a node that is not the removed one, in the list without it.
Shift(k, i) == IF i < k THEN i ELSE i - 1

\* A node is taken out by the thread that holds it and the node before it: the pointers close
\* over it, and every other thread keeps its node, now perhaps one place nearer the head.
LEMMA UnlinkStep ==
    ASSUME IInv, NEW t \in Threads, Unlink(t)
    PROVE  IInv'
  <1>1. PICK i0 \in 0..(Len(list) - 1) :
          current[t] = NodeAt(i0) /\ i0 + 1 \in 1..Len(list) /\ target[t] = list[i0 + 1]
    BY NextNode DEF Unlink
  <1> DEFINE k == i0 + 1
             c == current[t]
             n == target[t]
             L == Len(list)
  <1>2. L \in Nat /\ k \in 1..L /\ i0 = k - 1 /\ n = list[k] /\ c = NodeAt(k - 1)
        /\ k - 1 \in 0..L
    <2>1. L \in Nat
      BY ListFacts DEF IInv
    <2>2. k - 1 = i0
      OBVIOUS
    <2> QED
      BY <1>1, <2>1, <2>2
  <1>3. /\ pc[t] = "both" /\ pc'[t] = "unlinked"
        /\ next' = [next EXCEPT ![c] = next[n], ![n] = Null]
        /\ m' = [m EXCEPT ![n] = {}]
        /\ size_' = size_ - 1
        /\ list' = RemoveFirst(list, n)
        /\ steady' = [u \in Threads |-> steady[u] \ {n}]
        /\ \A u \in Threads : u # t => pc'[u] = pc[u]
        /\ UNCHANGED <<made, freed, op, match, current, target, undefined, visited>>
    BY DEF Unlink, Goto, call, IInv, TypeOK
  <1> HIDE DEF k, c, n, L
  <1>4. n \in Nodes /\ n \in Links /\ c \in Links /\ n \in made \ freed /\ c # n
    <2>1. n \in Nodes /\ n \in made \ freed /\ n = NodeAt(k) /\ k \in 0..L /\ k - 1 # k
      BY <1>2, ListFacts, ChainUnique DEF IInv, L
    <2>2. c # n
      BY <1>2, <2>1, ChainUnique DEF IInv, L
    <2> QED
      BY <2>1, <2>2, Constants DEF IInv, TypeOK, c
  <1>5. /\ list' \in Seq(made \ freed) /\ Len(list') = L - 1
        /\ \A i \in 1..(L - 1) : list'[i] = IF i < k THEN list[i] ELSE list[i + 1]
    <2>1. list \in Seq(made \ freed) /\ \A i \in 1..L : list[i] = list[k] => i = k
      BY <1>2 DEF IInv, TypeOK, UniqueInv, L
    <2> QED
      BY <1>2, <1>3, <2>1, RemoveFacts DEF L
  <1>6. \A i \in 1..L : i # k => list[i] # n
    BY <1>2 DEF IInv, UniqueInv, L
  <1>7. /\ next'[c] = next[n] /\ next'[n] = Null
        /\ \A l \in Links : l # c /\ l # n => next'[l] = next[l]
    BY <1>3, <1>4 DEF IInv, TypeOK
  <1>8. TypeOK'
    <2>1. next' \in [Links -> Nodes \cup {Null}] /\ m' \in [Links -> SUBSET Threads]
      BY <1>3, <1>4 DEF IInv, TypeOK
    <2>2. size_' \in Nat
      <3>1. size_ = L
        BY DEF IInv, LinkInv, L
      <3> QED
        BY <1>2, <1>3, <3>1
    <2>3. pc' \in [Threads -> {"idle", "call", "at", "want", "both", "unlinked"}]
      BY DEF Unlink, Goto, IInv, TypeOK
    <2>4. steady' \in [Threads -> SUBSET Nodes]
      BY <1>3 DEF IInv, TypeOK
    <2> QED
      BY <1>3, <1>5, <2>1, <2>2, <2>3, <2>4 DEF IInv, TypeOK
  <1>9. \A i \in 1..L : list[i] \in Links /\ list[i] \in Nodes
    BY ListFacts, Constants DEF IInv, L
  <1>10. UniqueInv'
    <2> SUFFICES ASSUME NEW i \in 1..(L - 1), NEW j \in 1..(L - 1), list'[i] = list'[j]
                 PROVE  i = j
      BY <1>5 DEF UniqueInv
    <2> DEFINE a == IF i < k THEN i ELSE i + 1
               b == IF j < k THEN j ELSE j + 1
    <2>1. a \in 1..L /\ b \in 1..L /\ (a = b => i = j)
      BY <1>2
    <2>2. list'[i] = list[a] /\ list'[j] = list[b]
      BY <1>5
    <2> HIDE DEF a, b
    <2>3. a = b
      BY <2>1, <2>2 DEF IInv, UniqueInv, L
    <2> QED
      BY <2>1, <2>3
  \* The chain at its old and its new places.
  <1>11. ASSUME NEW i \in 0..L, i # k
         PROVE  Shift(k, i) \in 0..(L - 1) /\ NodeAt(Shift(k, i))' = NodeAt(i)
    <2>1. CASE i < k
      <3>1. Shift(k, i) = i /\ i \in 0..(L - 1)
        BY <1>2, <2>1, <1>11 DEF Shift
      <3>2. i # 0 => i \in 1..(L - 1) /\ list'[i] = list[i]
        BY <1>2, <1>5, <2>1, <3>1
      <3>3. NodeAt(i)' = NodeAt(i)
        BY <3>2 DEF NodeAt
      <3> QED
        BY <3>1, <3>3
    <2>2. CASE ~(i < k)
      <3>1. Shift(k, i) = i - 1 /\ i - 1 \in 1..(L - 1) /\ i - 1 \in 0..(L - 1)
            /\ ~(i - 1 < k) /\ (i - 1) + 1 = i /\ i # 0 /\ i - 1 # 0
        BY <1>2, <2>2, <1>11 DEF Shift
      <3>2. list'[i - 1] = list[(i - 1) + 1]
        BY <1>5, <3>1
      <3>3. NodeAt(i - 1)' = NodeAt(i)
        BY <3>1, <3>2 DEF NodeAt
      <3> QED
        BY <3>1, <3>3
    <2> QED
      BY <2>1, <2>2
  <1>12. ASSUME NEW i \in 0..L, i # k, i # k - 1
         PROVE  next'[NodeAt(i)] = next[NodeAt(i)]
    <2>1. NodeAt(i) \in Links /\ NodeAt(i) # NodeAt(k) /\ NodeAt(i) # NodeAt(k - 1)
      BY <1>2, <1>12, ChainUnique DEF IInv, L
    <2>2. NodeAt(k) = n
      BY <1>2 DEF NodeAt
    <2> QED
      BY <1>2, <1>7, <2>1, <2>2
  <1>13. next'[c] = next[NodeAt(k)] /\ NodeAt(k - 1)' = c
    <2>1. NodeAt(k) = n /\ Shift(k, k - 1) = k - 1 /\ k - 1 # k
      BY <1>2 DEF NodeAt, Shift
    <2> QED
      BY <1>2, <1>7, <1>11, <2>1
  <1>14. LinkInv'
    <2>1. ASSUME NEW j \in 0..(L - 2) PROVE next'[NodeAt(j)'] = list'[j + 1]
      <3>1. j \in 0..L /\ j + 1 \in 1..(L - 1) /\ j + 1 \in 0..L
        BY <1>2, <2>1
      <3>2. CASE j < k - 1
        <4>1. Shift(k, j) = j /\ j # k /\ j # k - 1 /\ j < L /\ j + 1 < k
          BY <1>2, <3>1, <3>2 DEF Shift
        <4>2. NodeAt(j)' = NodeAt(j)
          BY <1>11, <3>1, <4>1
        <4>3. next'[NodeAt(j)] = list[j + 1]
          BY <1>12, <3>1, <4>1, Successor DEF IInv, L
        <4> QED
          BY <1>5, <3>1, <4>1, <4>2, <4>3
      <3>3. CASE j = k - 1
        <4>1. k < L /\ k \in 0..L /\ ~(k < k) /\ j + 1 = k
          BY <1>2, <2>1, <3>3
        <4>2. next[NodeAt(k)] = list[k + 1]
          BY <4>1, Successor DEF IInv, L
        <4> QED
          BY <1>5, <1>13, <3>1, <3>3, <4>1, <4>2
      <3>4. CASE j >= k
        <4>1. Shift(k, j + 1) = j /\ j + 1 # k /\ j + 1 # k - 1 /\ j + 1 < L /\ ~(j + 1 < k)
          BY <1>2, <2>1, <3>4 DEF Shift
        <4>2. NodeAt(j)' = NodeAt(j + 1)
          BY <1>11, <3>1, <4>1
        <4>3. next'[NodeAt(j + 1)] = list[(j + 1) + 1]
          BY <1>12, <3>1, <4>1, Successor DEF IInv, L
        <4> QED
          BY <1>5, <3>1, <4>1, <4>2, <4>3
      <3> QED
        BY <1>2, <3>2, <3>3, <3>4
    <2>2. PICK d \in Nat : d = L
      BY <1>2
    <2>3. next'[NodeAt(Len(list))'] = Null
      <3>1. d \in 0..L /\ next[NodeAt(d)] = Null
        BY <1>2, <2>2, Successor DEF IInv, L
      <3>2. NodeAt(Len(list))' = NodeAt(d - 1)'
        <4>1. Len(list') = d - 1
          BY <1>5, <2>2
        <4> QED
          BY <4>1 DEF NodeAt
      <3>3. CASE k = d
        BY <1>13, <3>1, <3>2, <3>3
      <3>4. CASE k # d
        <4>1. Shift(k, d) = d - 1 /\ d # k - 1
          BY <1>2, <2>2, <3>4 DEF Shift
        <4>2. NodeAt(d - 1)' = NodeAt(d)
          BY <1>11, <3>1, <3>4, <4>1
        <4> QED
          BY <1>12, <3>1, <3>2, <3>4, <4>1, <4>2
      <3> QED
        BY <3>3, <3>4
    <2>4. size_' = L - 1
      BY <1>3 DEF IInv, LinkInv, L
    <2>5. (L - 1) - 1 = L - 2
      BY <1>2
    <2> QED
      BY <1>5, <2>1, <2>3, <2>4, <2>5 DEF LinkInv
  <1>15. m[c] = {t} /\ m[n] = {t}
    BY <1>3, <1>4, OnlyHolder DEF Holds, Inside, c, n
  <1>16. LockInv'
    BY <1>3, <1>4, <1>15 DEF IInv, LockInv, Holds, Inside, TypeOK, c, n
  <1>17. ASSUME NEW u \in Threads, u # t, Inside(u), NEW i \in 0..L, current[u] = NodeAt(i)
         PROVE  /\ i # k /\ Shift(k, i) \in 0..(L - 1) /\ current[u] = NodeAt(Shift(k, i))'
                /\ next'[current[u]] = next[current[u]]
    <2>1. u \in m[current[u]]
      BY <1>17 DEF IInv, LockInv, Holds, TypeOK
    <2>2. current[u] # c /\ current[u] # n
      BY <1>15, <1>17, <2>1
    <2>3. i # k /\ i # k - 1
      BY <1>2, <1>17, <2>2 DEF NodeAt
    <2> QED
      BY <1>11, <1>12, <1>17, <2>3
  <1>18. \A j \in 1..(L - 1) : list'[j] # n /\ \E a \in 1..L : list'[j] = list[a]
    <2> SUFFICES ASSUME NEW j \in 1..(L - 1)
                 PROVE  \E a \in 1..L : a # k /\ list'[j] = list[a]
      BY <1>6
    <2>1. j \in 1..L /\ j + 1 \in 1..L /\ (j < k => j # k) /\ (~(j < k) => j + 1 # k)
      BY <1>2
    <2> QED
      BY <1>5, <2>1
  <1>19. PlaceInv'
    <2>1. ASSUME NEW u \in Threads, u # t PROVE PlaceOf(u)'
      <3>1. CASE ~Inside(u)
        BY <1>3, <2>1, <3>1 DEF IInv, PlaceInv, PlaceOf, Inside
      <3>2. CASE Inside(u)
        <4>1. PICK i \in 0..L : current[u] = NodeAt(i)
          BY <3>2 DEF IInv, PlaceInv, PlaceOf, L
        <4>2. /\ \E j \in 0..Len(list') : current[u] = NodeAt(j)'
              /\ next'[current[u]] = next[current[u]]
          BY <1>5, <1>17, <2>1, <3>2, <4>1
        <4>3. pc[u] = "unlinked" => \A j \in 1..Len(list') : target[u] # list'[j]
          BY <1>5, <1>18 DEF IInv, PlaceInv, PlaceOf, L
        <4> QED
          BY <1>3, <2>1, <3>2, <4>2, <4>3 DEF IInv, PlaceInv, PlaceOf, Inside
      <3> QED
        BY <3>1, <3>2
    <2>2. PlaceOf(t)'
      <3>1. \E j \in 0..Len(list') : current[t] = NodeAt(j)'
        <4>1. k - 1 \in 0..Len(list')
          BY <1>2, <1>5
        <4> QED
          BY <1>13, <4>1 DEF c
      <3>2. n \in made \ freed /\ \A j \in 1..Len(list') : n # list'[j]
        BY <1>4, <1>5, <1>18
      <3> QED
        BY <1>3, <3>1, <3>2 DEF PlaceOf, Inside, n
    <2>3. ASSUME NEW u \in Threads, u # t, pc[u] = "unlinked" PROVE target[u] # n
      BY <1>2, <2>3 DEF IInv, PlaceInv, PlaceOf, L
    <2>4. ASSUME NEW u \in Threads, NEW v \in Threads, u # v, pc'[u] = "unlinked",
                 pc'[v] = "unlinked"
          PROVE  target'[u] # target'[v]
      <3>1. CASE u = t
        BY <1>3, <2>3, <2>4, <3>1 DEF n
      <3>2. CASE v = t
        BY <1>3, <2>3, <2>4, <3>2 DEF n
      <3>3. CASE u # t /\ v # t
        BY <1>3, <2>4, <3>3 DEF IInv, PlaceInv
      <3> QED
        BY <3>1, <3>2, <3>3
    <2> QED
      BY <2>1, <2>2, <2>4 DEF PlaceInv
  <1>20. VisitInv'
    <2>1. VisitOf(t)'
      BY <1>3 DEF VisitOf, IInv, VisitInv
    <2>2. ASSUME NEW u \in Threads, u # t, pc[u] \in {"at", "want", "both"},
                 NEW h \in 0..(L - 1), current[u] = NodeAt(h)'
          PROVE  /\ \A j \in (h + 1)..(L - 1) : list'[j] \notin ToSet(visited[u])
                 /\ \A x \in steady[u] \ {n} : \/ x \in ToSet(visited[u])
                                               \/ \E j \in (h + 1)..(L - 1) : x = list'[j]
      <3>1. PICK i \in 0..L : current[u] = NodeAt(i)
        BY <2>2 DEF IInv, PlaceInv, PlaceOf, Inside, L
      <3>2. i # k /\ Shift(k, i) \in 0..(L - 1) /\ current[u] = NodeAt(Shift(k, i))'
        BY <1>17, <2>2, <3>1 DEF Inside
      <3>3. h = Shift(k, i)
        <4>1. \A a, b \in 0..(L - 1) : NodeAt(a)' = NodeAt(b)' => a = b
          BY <1>5, <1>8, <1>10, ChainUniqueNext
        <4> QED
          BY <2>2, <3>2, <4>1
      <3>4. /\ \A j \in (i + 1)..L : list[j] \notin ToSet(visited[u])
            /\ \A x \in steady[u] : \/ x \in ToSet(visited[u])
                                    \/ \E j \in (i + 1)..L : x = list[j]
        BY <2>2, <3>1 DEF IInv, VisitInv, VisitOf, L
      <3>5. ASSUME NEW j \in (h + 1)..(L - 1) PROVE list'[j] \notin ToSet(visited[u])
        <4>1. j \in 1..(L - 1) /\ j + 1 \in (i + 1)..L /\ (j < k => j \in (i + 1)..L)
          BY <1>2, <3>2, <3>3, <3>5 DEF Shift
        <4> QED
          BY <1>5, <3>4, <4>1
      <3>6. ASSUME NEW x \in steady[u], x # n, x \notin ToSet(visited[u])
            PROVE  \E j \in (h + 1)..(L - 1) : x = list'[j]
        <4>1. PICK j \in (i + 1)..L : x = list[j]
          BY <3>4, <3>6
        <4>2. j # k /\ j \in 0..L /\ j # 0
          BY <1>2, <3>6, <4>1
        <4>3. Shift(k, j) \in (h + 1)..(L - 1) /\ Shift(k, j) # 0
          BY <1>2, <3>2, <3>3, <4>1, <4>2 DEF Shift
        <4>4. NodeAt(Shift(k, j))' = NodeAt(j)
          BY <1>11, <4>2
        <4>5. list'[Shift(k, j)] = list[j]
          BY <4>2, <4>3, <4>4 DEF NodeAt
        <4> QED
          BY <4>1, <4>3, <4>5
      <3> QED
        BY <3>5, <3>6
    <2>3. ASSUME NEW u \in Threads, u # t PROVE VisitOf(u)'
      BY <1>3, <1>5, <2>2, <2>3 DEF VisitOf, IInv, VisitInv
    <2> QED
      BY <2>1, <2>3 DEF VisitInv
  <1> QED
    BY <1>8, <1>10, <1>14, <1>16, <1>19, <1>20 DEF IInv

\* Every step of every thread preserves the invariant.
LEMMA NextIInv == IInv /\ [Next]_vars => IInv'
  <1> SUFFICES ASSUME IInv, [Next]_vars PROVE IInv'
    OBVIOUS
  <1>1. ASSUME NEW t \in Threads, Begin(t) PROVE IInv'
    <2>1. ASSUME NEW n \in Nodes, PushFront(t, n) PROVE IInv'
      BY <2>1, PushFrontStep
    <2>2. CASE Call(t, "for_each", {})
      <3>1. "for_each" \in Operations /\ {} \in SUBSET Nodes
        BY DEF Operations
      <3> QED
        BY <2>2, <3>1, CallStep
    <2>3. ASSUME NEW o \in Operations, NEW S \in Predicates, Call(t, o, S) PROVE IInv'
      BY <2>3, CallStep, Constants
    <2> QED
      BY <1>1, <2>1, <2>2, <2>3 DEF Begin
  <1>2. ASSUME NEW t \in Threads, Step(t) PROVE IInv'
    BY <1>2, LockHeadStep, ReadNextStep, EndStep, LockNextStep, AdvanceStep, UnlinkStep, FreeStep
    DEF Step
  <1>3. CASE UNCHANGED vars
    <2> USE <1>3 DEF vars
    <2>1. TypeOK'
      BY DEF IInv, TypeOK
    <2>2. UniqueInv' /\ LinkInv' /\ LockInv'
      BY DEF IInv, UniqueInv, LinkInv, LockInv, NodeAt, Holds, Inside
    <2>3. PlaceInv'
      BY DEF IInv, PlaceInv, PlaceOf, Inside, NodeAt
    <2>4. VisitInv'
      BY DEF IInv, VisitInv, VisitOf, NodeAt
    <2> QED
      BY <2>1, <2>2, <2>3, <2>4 DEF IInv
  <1> QED
    BY <1>1, <1>2, <1>3 DEF Next

\* Every reachable state of the list satisfies the inductive invariant.
THEOREM Inductive == Spec => []IInv
  BY InitIInv, NextIInv, PTL DEF Spec

-----------------------------------------------------------------------------
(* What the list promises. *)

\* Pushes and removals, however they interleave, leave the chain of next pointers their
\* callers expect, and size_ its length.
THEOREM Chain == Spec => []ChainIsList
  <1>1. ASSUME IInv PROVE ChainIsList
    <2> DEFINE chain == <<head>> \o list
               L == Len(list)
    <2>1. L \in Nat /\ list \in Seq(Links) /\ <<head>> \in Seq(Links) /\ Len(<<head>>) = 1
      <3>1. made \ freed \subseteq Links /\ head \in Links
        BY <1>1, Constants DEF IInv, TypeOK
      <3>2. list \in Seq(Links)
        BY <1>1, <3>1, SeqMonotonic DEF IInv, TypeOK
      <3> QED
        BY <1>1, <3>1, <3>2, ListFacts DEF IInv
    <2>2. Len(chain) = L + 1 /\ \A i \in 1..(L + 1) : chain[i] = NodeAt(i - 1)
      <3>1. /\ Len(chain) = Len(<<head>>) + L
            /\ \A i \in 1..(Len(<<head>>) + L) :
                 chain[i] = IF i <= Len(<<head>>) THEN <<head>>[i] ELSE list[i - Len(<<head>>)]
        BY <2>1, ConcatProperties
      <3> HIDE DEF chain
      <3>2. /\ Len(chain) = 1 + L
            /\ \A i \in 1..(1 + L) : chain[i] = IF i <= 1 THEN <<head>>[i] ELSE list[i - 1]
        BY <2>1, <3>1
      <3>3. <<head>>[1] = head
        OBVIOUS
      <3> HIDE DEF L
      <3>4. ASSUME NEW i \in 1..(L + 1) PROVE chain[i] = NodeAt(i - 1)
        <4>1. CASE i = 1
          BY <2>1, <3>2, <3>3, <4>1 DEF NodeAt
        <4>2. CASE i # 1
          <5>1. i \in 1..(1 + L) /\ ~(i <= 1) /\ i - 1 # 0
            BY <2>1, <3>4, <4>2
          <5> QED
            BY <3>2, <5>1 DEF NodeAt
        <4> QED
          BY <4>1, <4>2
      <3> QED
        BY <2>1, <3>2, <3>4
    <2> HIDE DEF chain
    <2>3. ASSUME NEW i \in 1..L PROVE next[chain[i]] = chain[i + 1]
      <3>1. i \in 1..(L + 1) /\ i + 1 \in 1..(L + 1) /\ (i + 1) - 1 = i /\ (i - 1) + 1 = i
            /\ i - 1 \in 0..(L - 1)
        BY <2>1, <2>3
      <3>2. chain[i] = NodeAt(i - 1) /\ chain[i + 1] = NodeAt((i + 1) - 1)
        BY <2>2, <3>1
      <3>3. next[NodeAt(i - 1)] = list[(i - 1) + 1]
        BY <1>1, <3>1 DEF IInv, LinkInv
      <3>4. NodeAt((i + 1) - 1) = list[i]
        BY <1>1, <2>3, <3>1, ChainUnique DEF IInv
      <3> QED
        BY <3>1, <3>2, <3>3, <3>4
    <2>4. next[chain[Len(chain)]] = Null
      <3>1. L + 1 \in 1..(L + 1) /\ (L + 1) - 1 = L
        BY <2>1
      <3>2. chain[L + 1] = NodeAt(L)
        BY <2>2, <3>1
      <3> QED
        BY <1>1, <2>2, <3>2 DEF IInv, LinkInv
    <2>5. size_ = L
      BY <1>1 DEF IInv, LinkInv
    <2> QED
      BY <2>3, <2>4, <2>5 DEF ChainIsList, chain
  <1> QED
    BY <1>1, Inductive, PTL

\* No thread inside an operation stands on, waits for or has locked a node that was freed.
THEOREM Alive == Spec => []NoUseAfterFree
  <1>1. ASSUME IInv PROVE NoUseAfterFree
    <2> SUFFICES ASSUME NEW t \in Threads, pc[t] # "idle"
                 PROVE  current[t] \notin freed /\ target[t] \notin freed
      BY DEF NoUseAfterFree
    <2>1. freed \subseteq Nodes /\ head \notin freed /\ Null \notin freed
      BY <1>1, Constants DEF IInv, TypeOK
    <2>2. \A i \in 0..Len(list) : NodeAt(i) \notin freed
      BY <1>1, <2>1, ListFacts DEF IInv, NodeAt
    <2>3. current[t] \notin freed
      BY <1>1, <2>1, <2>2 DEF IInv, PlaceInv, PlaceOf
    <2>4. target[t] \notin freed
      <3>1. CASE pc[t] \in {"want", "both"}
        BY <1>1, <3>1, NextNode, ListFacts DEF IInv
      <3>2. CASE pc[t] = "unlinked"
        BY <1>1, <3>2 DEF IInv, PlaceInv, PlaceOf
      <3>3. CASE pc[t] = "at"
        BY <1>1, <2>1, <2>3, <3>3 DEF IInv, PlaceInv, PlaceOf
      <3>4. CASE pc[t] = "call"
        BY <1>1, <2>1, <3>4 DEF IInv, PlaceInv, PlaceOf, Inside
      <3> QED
        BY <1>1, <3>1, <3>2, <3>3, <3>4 DEF IInv, TypeOK
    <2> QED
      BY <2>3, <2>4
  <1> QED
    BY <1>1, Inductive, PTL

\* A traversal that comes to the end has seen every node that stayed, and none twice.
THEOREM SeesAll == Spec => []SeesEachOnce
  <1>1. ASSUME IInv PROVE SeesEachOnce
    <2> SUFFICES ASSUME NEW t \in Threads
                 PROVE  /\ IsInjective(visited[t])
                        /\ pc[t] = "at" /\ next[current[t]] = Null
                             => steady[t] \subseteq ToSet(visited[t])
      BY DEF SeesEachOnce
    <2>1. IsInjective(visited[t])
      BY <1>1 DEF IInv, VisitInv, VisitOf
    <2>2. ASSUME pc[t] = "at", next[current[t]] = Null PROVE steady[t] \subseteq ToSet(visited[t])
      <3>1. PICK i \in 0..Len(list) : current[t] = NodeAt(i)
        BY <1>1, <2>2 DEF IInv, PlaceInv, PlaceOf, Inside
      <3>2. Len(list) \in Nat
        BY <1>1, ListFacts DEF IInv
      <3>3. ~(i < Len(list))
        BY <1>1, <2>2, <3>1, Successor DEF IInv
      <3>4. ~\E j \in (i + 1)..Len(list) : TRUE
        BY <3>1, <3>2, <3>3
      <3> QED
        BY <1>1, <2>2, <3>1, <3>4 DEF IInv, VisitInv, VisitOf
    <2> QED
      BY <2>1, <2>2
  <1> QED
    BY <1>1, Inductive, PTL
=============================================================================

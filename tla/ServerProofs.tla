---------------------------- MODULE ServerProofs ----------------------------
(***************************************************************************)
(* Theorems about Subscriptions, StateService and Server, for any streams, *)
(* publishers (which are the handlers), keys, calls, throws and crashes,   *)
(* in this order.                                                          *)
(*                                                                         *)
(* StreamsInv is inductive for Subscriptions.  Lists are reasoned about as *)
(* orders (Before), queues as which change came before which (Prec).  A    *)
(* walk has told its change to nobody ahead of it and to all it has passed *)
(* (WalkInv); a stream that is not lost is in the list that is in the map  *)
(* (MapInv), which is the list every publisher since its Add looked up     *)
(* (LookupInv).  What a stream ahead of a walk has got, and what a walk    *)
(* ahead of it tells, nobody got behind the walk's change (OrderInv).      *)
(*                                                                         *)
(* ServiceInv is inductive for StateService.  The store lock covers the    *)
(* stretch from the update of the entry to its append (LockInv), so the    *)
(* log falls behind the store only at the key of the lock's holder         *)
(* (StoreInv); a request under way has a number of its own and is not      *)
(* answered yet (FreshInv); and what a Set finds answered when it is       *)
(* called stays answered (OlderInv).                                       *)
(*                                                                         *)
(* ServerInv joins the two.  A change under way carries the request of its *)
(* handler, logged and not answered (PublishedInv), so no Set a stream has *)
(* heard of can have found it answered (HeardInv); and a Set called after  *)
(* a stream was added gets a change after it too (BegunInv).               *)
(***************************************************************************)
EXTENDS Server, SequenceTheorems, FiniteSetTheorems, TLAPS

Nodes == Streams \cup {Top}
Changes == 1..MaxChanges

\* The nodes of a list by position; its head is at 0.
NodeAt(l, i) == IF i = 0 THEN Top ELSE callbacks[l][i]

\* Node a is in front of node b in list l.
Before(l, a, b) ==
    l \in Lists /\ \E i, j \in 0..Len(callbacks[l]) : i < j /\ NodeAt(l, i) = a /\ NodeAt(l, j) = b

Listed(l, s) == Before(l, Top, s)

\* Stream s has been given change v, and v before w.
Has(s, v) == \E i \in 1..Len(Got(s)) : Got(s)[i] = v
Prec(s, v, w) == \E i, j \in 1..Len(Got(s)) : i < j /\ Got(s)[i] = v /\ Got(s)[j] = w

\* A stream between Add and its return.
Live(s) == stream[s] \in {"loop", "leaving", "removing"}

Walking(x) == at[x] # Nowhere

\* At most one list for each stream that asked for one.
CountInv == lists <= Cardinality({s \in Streams : stream[s] \notin {"new", "refused"}})

\* A node is once in one list, which its stream has a pointer to until it returns, and its id
\* is its own there.
ListInv ==
    /\ \A l \in Lists, n \in Nodes : ~Before(l, n, n)
    /\ \A l, m \in Lists, s \in Streams : Listed(l, s) /\ Listed(m, s) => l = m
    /\ \A l \in Lists, s \in Streams :
        Listed(l, s) => Live(s) \/ stream[s] = "returned"
    /\ \A l \in Lists, s \in Streams : Listed(l, s) /\ stream[s] # "returned" => subs[s] = l
    /\ \A s \in Streams : Live(s) \/ stream[s] = "listed" => subs[s] # 0
    /\ \A l \in Lists, s, t \in Streams :
        Listed(l, s) /\ Listed(l, t) /\ cb_id[s] = cb_id[t] => s = t
    /\ \A l \in Lists, s \in Streams : Listed(l, s) => cb_id[s] < next_id_[l]

\* A stream that is not lost is in the list that is in the map, and leaves it with its return.
MapInv ==
    /\ subs_map_mutex_ = {s \in Streams : stream[s] = "removing"}
    /\ \A s, t \in Streams : stream[s] = "removing" /\ stream[t] = "removing" => s = t
    /\ \A s \in Streams : stream[s] = "removing" => subs_map_ # 0
    /\ \A s \in Streams \ lost : Live(s) => Listed(subs_map_, s)
    /\ \A l \in Lists, s \in Streams : Listed(l, s) /\ stream[s] = "returned" => s \in lost

\* A walker is at a node of its list, alone, and a stream that is not lost has its own node
\* in front of it.
PlaceInv ==
    /\ \A x \in Walkers : Walking(x) =>
        at[x][1] \in Lists /\ (at[x][2] = Top \/ Listed(at[x][1], at[x][2]))
    /\ \A x, y \in Walkers : Walking(x) /\ at[x] = at[y] => x = y
    /\ \A s \in Streams : Walking(s) =>
        /\ stream[s] = "removing" /\ at[s][1] = subs_map_
        /\ s \notin lost => Before(subs_map_, at[s][2], s)
    /\ \A p \in Publishers : Walking(p) => change[p] # 0 /\ at[p][1] = list_ptr[p]
    /\ \A p \in Publishers : change[p] # 0 => list_ptr[p] # 0

\* Changes are numbered and no two publishers have the same; a stream gets none twice, none
\* before it is added, and none that is not published yet.
ChangeInv ==
    /\ \A p \in Publishers : change[p] <= changes
    /\ \A p, q \in Publishers : change[p] # 0 /\ change[p] = change[q] => p = q
    /\ \A s \in Streams, v \in Changes : Has(s, v) => v <= changes
    /\ \A s \in Streams, v \in Changes : Has(s, v) => Live(s) \/ stream[s] = "returned"
    /\ \A s \in Streams, v \in Changes : ~Prec(s, v, v)
    /\ \A s \in Streams : since[s] <= changes
    /\ \A p \in Publishers, s \in Streams :
        change[p] # 0 /\ ~Walking(p) => ~Has(s, change[p])
    /\ \A p \in Publishers, s \in Streams, l \in Lists :
        change[p] # 0 /\ Has(s, change[p]) /\ Listed(l, s) => l = list_ptr[p]

\* A publisher whose change concerns a stream has looked up the stream's list.
LookupInv ==
    \A p \in Publishers, s \in Streams \ lost :
        Live(s) /\ change[p] > since[s] => list_ptr[p] = subs_map_

\* A walk has given its change to nobody ahead of it, and to all it has passed that were there.
WalkInv ==
    \A p \in Publishers, s \in Streams : Walking(p) =>
        /\ Before(at[p][1], at[p][2], s) => ~Has(s, change[p])
        /\ /\ Listed(at[p][1], s) /\ ~Before(at[p][1], at[p][2], s)
           /\ stream[s] = "loop" /\ since[s] < change[p]
           => Has(s, change[p]) \/ <<s, change[p]>> \in threw

\* HearsEveryChange up to the count.
SettledInv ==
    \A s \in Streams \ lost, v \in Changes :
        stream[s] = "loop" /\ since[s] < v /\ v <= changes =>
            <<s, v>> \in threw \/ (\E p \in Publishers : change[p] = v) \/ Has(s, v)

\* No stream got w before v.
NoneBefore(w, v) == \A t \in Streams : ~Prec(t, w, v)

\* Streams agree on the order.  What a stream ahead of a walk has got, and what a walk ahead of
\* it tells, nobody gets after the change of the walk.
OrderInv ==
    /\ \A s \in Streams, v, w \in Changes : Prec(s, v, w) => NoneBefore(w, v)
    /\ \A q \in Publishers, s \in Streams, v \in Changes :
        Walking(q) /\ Before(at[q][1], at[q][2], s) /\ Has(s, v) => NoneBefore(change[q], v)
    /\ \A p, q \in Publishers :
        Walking(p) /\ Walking(q) /\ Before(at[q][1], at[q][2], at[p][2]) /\ at[p][1] = at[q][1]
        => NoneBefore(change[q], change[p])

StreamsInv ==
    /\ TypeOK
    /\ CountInv
    /\ ListInv
    /\ MapInv
    /\ PlaceInv
    /\ ChangeInv
    /\ LookupInv
    /\ WalkInv
    /\ SettledInv
    /\ OrderInv
    /\ undefined => lost # {}

-----------------------------------------------------------------------------
(* Sequences. *)

\* Removing the only occurrence of an element closes the gap.
LEMMA RemoveFacts ==
    ASSUME NEW S, NEW s \in Seq(S), NEW k \in 1..Len(s),
           \A i \in 1..Len(s) : s[i] = s[k] => i = k
    PROVE  /\ RemoveFirst(s, s[k]) \in Seq(S)
           /\ Len(RemoveFirst(s, s[k])) = Len(s) - 1
           /\ \A i \in 1..(Len(s) - 1) :
                RemoveFirst(s, s[k])[i] = IF i < k THEN s[i] ELSE s[i + 1]
  <1>1. Len(s) \in Nat /\ \A i \in 1..Len(s) : s[i] \in S
    BY LenProperties
  <1> DEFINE I == {i \in 1..Len(s) : s[i] = s[k]}
  <1>2. I = {k}
    OBVIOUS
  <1>3. Min(I) = k
    <2>1. Min({k}) = k
      BY <1>1 DEF Min
    <2> QED
      BY <1>2, <2>1
  <1>4. RemoveFirst(s, s[k]) = RemoveAt(s, k)
    <2>1. SelectInSeq(s, LAMBDA v : v = s[k]) = k
      BY <1>2, <1>3 DEF SelectInSeq
    <2> QED
      BY <2>1 DEF RemoveFirst
  <1> DEFINE a == SubSeq(s, 1, k - 1)
             b == SubSeq(s, k + 1, Len(s))
  <1>5. /\ a \in Seq(S) /\ Len(a) = k - 1
        /\ \A i \in 1..(k - 1) : a[i] = s[i]
    BY <1>1, SubSeqProperties
  <1>6. /\ b \in Seq(S) /\ Len(b) = Len(s) - k
        /\ \A i \in 1..(Len(s) - k) : b[i] = s[k + i]
    BY <1>1, SubSeqProperties
  <1>7. RemoveAt(s, k) = a \o b
    BY DEF RemoveAt
  <1> HIDE DEF a, b
  <1>8. /\ a \o b \in Seq(S) /\ Len(a \o b) = Len(s) - 1
        /\ \A i \in 1..(Len(s) - 1) : (a \o b)[i] = IF i < k THEN s[i] ELSE s[i + 1]
    <2>1. /\ a \o b \in Seq(S) /\ Len(a \o b) = Len(a) + Len(b)
          /\ \A i \in 1..(Len(a) + Len(b)) :
                (a \o b)[i] = IF i <= Len(a) THEN a[i] ELSE b[i - Len(a)]
      BY <1>5, <1>6, ConcatProperties
    <2>2. Len(a) + Len(b) = Len(s) - 1
      BY <1>1, <1>5, <1>6
    <2>3. ASSUME NEW i \in 1..(Len(s) - 1), i < k PROVE (a \o b)[i] = s[i]
      <3>1. i \in 1..(Len(a) + Len(b)) /\ i <= Len(a) /\ i \in 1..(k - 1)
        BY <1>1, <1>5, <2>2, <2>3
      <3> QED
        BY <1>5, <2>1, <3>1
    <2>4. ASSUME NEW i \in 1..(Len(s) - 1), ~(i < k) PROVE (a \o b)[i] = s[i + 1]
      <3>1. i \in 1..(Len(a) + Len(b)) /\ ~(i <= Len(a))
        BY <1>1, <1>5, <2>2, <2>4
      <3>2. i - Len(a) \in 1..(Len(s) - k) /\ k + (i - Len(a)) = i + 1
        BY <1>1, <1>5, <2>4
      <3>3. (a \o b)[i] = b[i - Len(a)]
        BY <2>1, <3>1
      <3>4. b[i - Len(a)] = s[k + (i - Len(a))]
        BY <1>6, <3>2
      <3> QED
        BY <3>2, <3>3, <3>4
    <2> QED
      BY <2>1, <2>2, <2>3, <2>4
  <1> QED
    BY <1>4, <1>7, <1>8

\* Putting an element in front of a sequence.
LEMMA ConsFacts ==
    ASSUME NEW S, NEW s \in Seq(S), NEW e \in S
    PROVE  /\ <<e>> \o s \in Seq(S)
           /\ Len(<<e>> \o s) = Len(s) + 1
           /\ (<<e>> \o s)[1] = e
           /\ \A i \in 1..Len(s) : (<<e>> \o s)[i + 1] = s[i]
           /\ \A i \in 2..(Len(s) + 1) : (<<e>> \o s)[i] = s[i - 1]
  <1>1. <<e>> \in Seq(S) /\ Len(<<e>>) = 1 /\ <<e>>[1] = e /\ Len(s) \in Nat
    BY LenProperties
  <1> DEFINE r == <<e>> \o s
  <1>2. /\ r \in Seq(S)
        /\ Len(r) = Len(<<e>>) + Len(s)
        /\ \A i \in 1..(Len(<<e>>) + Len(s)) :
             r[i] = IF i <= Len(<<e>>) THEN <<e>>[i] ELSE s[i - Len(<<e>>)]
    BY <1>1, ConcatProperties
  <1> HIDE DEF r
  <1>3. /\ Len(r) = 1 + Len(s)
        /\ \A i \in 1..(1 + Len(s)) : r[i] = IF i <= 1 THEN <<e>>[i] ELSE s[i - 1]
    BY <1>1, <1>2
  <1>4. r[1] = e
    BY <1>1, <1>3
  <1>5. ASSUME NEW i \in 2..(Len(s) + 1) PROVE r[i] = s[i - 1]
    <2>1. i \in 1..(1 + Len(s)) /\ ~(i <= 1)
      BY <1>1, <1>5
    <2> QED
      BY <1>3, <2>1
  <1>6. ASSUME NEW i \in 1..Len(s) PROVE r[i + 1] = s[i]
    <2>1. i + 1 \in 2..(Len(s) + 1) /\ (i + 1) - 1 = i
      BY <1>1, <1>6
    <2>2. r[i + 1] = s[(i + 1) - 1]
      BY <1>5, <2>1
    <2> QED
      BY <2>1, <2>2
  <1> QED
    BY <1>1, <1>2, <1>3, <1>4, <1>5, <1>6 DEF r

\* Taking the front of a non-empty sequence.
LEMMA TailFacts ==
    ASSUME NEW S, NEW s \in Seq(S), s # <<>>
    PROVE  /\ Tail(s) \in Seq(S)
           /\ Head(s) \in S /\ Head(s) = s[1]
           /\ Len(s) \in Nat \ {0}
           /\ Len(Tail(s)) = Len(s) - 1
           /\ \A i \in 1..(Len(s) - 1) : Tail(s)[i] = s[i + 1]
  BY HeadTailProperties, EmptySeq

-----------------------------------------------------------------------------
(* Lists as orders. *)

\* What the assumptions on the constants give the leaves below.
LEMMA Constants ==
    /\ Walkers = Streams \cup Publishers /\ Nodes = Streams \cup {Top}
    /\ Streams \cap Publishers = {} /\ Top \notin Streams /\ Top \notin Publishers
    /\ MaxChanges \in Nat /\ IsFiniteSet(Streams) /\ Cardinality(Streams) \in Nat
    /\ Lists = 1..Cardinality(Streams) /\ 0 \notin Lists
  BY SubscriptionsAssumption, FS_CardinalityType DEF Walkers, Nodes, Lists

\* Lists hold streams.
LEMMA ListFacts ==
    ASSUME TypeOK, NEW l \in Lists
    PROVE  /\ callbacks[l] \in Seq(Streams)
           /\ Len(callbacks[l]) \in Nat /\ DOMAIN callbacks[l] = 1..Len(callbacks[l])
           /\ \A i \in 1..Len(callbacks[l]) : callbacks[l][i] \in Streams
  <1>1. callbacks[l] \in Seq(Streams)
    BY DEF TypeOK
  <1> QED
    BY <1>1, LenProperties

\* A stream is in a list when it is at some position of it.
LEMMA ListedAt ==
    ASSUME TypeOK, NEW l \in Lists, NEW s
    PROVE  Listed(l, s) <=> \E i \in 1..Len(callbacks[l]) : callbacks[l][i] = s
  <1>1. Len(callbacks[l]) \in Nat /\ \A i \in 1..Len(callbacks[l]) : callbacks[l][i] # Top
    BY ListFacts, Constants
  <1>2. ASSUME NEW i \in 1..Len(callbacks[l]), callbacks[l][i] = s PROVE Listed(l, s)
    <2>1. 0 \in 0..Len(callbacks[l]) /\ i \in 0..Len(callbacks[l]) /\ 0 < i
      BY <1>1
    <2>2. NodeAt(l, 0) = Top /\ NodeAt(l, i) = s
      BY <1>2, <2>1 DEF NodeAt
    <2> QED
      BY <2>1, <2>2 DEF Listed, Before
  <1>3. ASSUME Listed(l, s) PROVE \E i \in 1..Len(callbacks[l]) : callbacks[l][i] = s
    BY <1>1, <1>3 DEF Listed, Before, NodeAt
  <1> QED
    BY <1>2, <1>3

\* A list without streams is empty.
LEMMA EmptyList ==
    ASSUME TypeOK, NEW l \in Lists
    PROVE  callbacks[l] = <<>> <=> \A s \in Streams : ~Listed(l, s)
  <1>1. ASSUME callbacks[l] # <<>> PROVE \E s \in Streams : Listed(l, s)
    <2>1. Len(callbacks[l]) # 0
      BY <1>1, ListFacts, EmptySeq
    <2>2. 1 \in 1..Len(callbacks[l])
      BY <2>1, ListFacts
    <2> QED
      BY <2>2, ListFacts, ListedAt
  <1>2. ASSUME callbacks[l] = <<>> PROVE \A s \in Streams : ~Listed(l, s)
    <2>1. Len(callbacks[l]) = 0
      BY <1>2
    <2>2. 1..Len(callbacks[l]) = {}
      BY <2>1
    <2> QED
      BY <2>2, ListedAt
  <1> QED
    BY <1>1, <1>2

\* What is in front of what are nodes of the list.
LEMMA BeforeNodes ==
    ASSUME TypeOK, NEW l, NEW a, NEW b, Before(l, a, b)
    PROVE  /\ l \in Lists /\ b \in Streams /\ Listed(l, b)
           /\ a \in Nodes /\ (a = Top \/ Listed(l, a))
  <1>1. l \in Lists
    BY DEF Before
  <1>2. PICK i, j \in 0..Len(callbacks[l]) : i < j /\ NodeAt(l, i) = a /\ NodeAt(l, j) = b
    BY DEF Before
  <1>3. j \in 1..Len(callbacks[l]) /\ callbacks[l][j] = b
    BY <1>1, <1>2, ListFacts DEF NodeAt
  <1>4. CASE i = 0
    BY <1>1, <1>2, <1>3, <1>4, ListFacts, ListedAt, Constants DEF NodeAt
  <1>5. CASE i # 0
    <2>1. i \in 1..Len(callbacks[l]) /\ callbacks[l][i] = a
      BY <1>1, <1>2, <1>5, ListFacts DEF NodeAt
    <2> QED
      BY <1>1, <1>3, <2>1, ListFacts, ListedAt, Constants
  <1> QED
    BY <1>4, <1>5

\* Nodes have positions, each its own.
LEMMA Positions ==
    ASSUME TypeOK, ListInv, NEW l \in Lists
    PROVE  /\ \A i, j \in 0..Len(callbacks[l]) : NodeAt(l, i) = NodeAt(l, j) => i = j
           /\ \A i \in 0..Len(callbacks[l]) : NodeAt(l, i) \in Nodes
           /\ \A n : (n = Top \/ Listed(l, n)) <=> \E i \in 0..Len(callbacks[l]) : NodeAt(l, i) = n
  <1>1. Len(callbacks[l]) \in Nat
    BY ListFacts
  <1>2. \A i \in 0..Len(callbacks[l]) : NodeAt(l, i) \in Nodes
    BY <1>1, ListFacts, Constants DEF NodeAt
  <1>3. ASSUME NEW i \in 0..Len(callbacks[l]), NEW j \in 0..Len(callbacks[l]),
               NodeAt(l, i) = NodeAt(l, j), i < j
        PROVE  FALSE
    <2>1. Before(l, NodeAt(l, i), NodeAt(l, i))
      BY <1>3 DEF Before
    <2> QED
      BY <1>2, <2>1 DEF ListInv
  <1>4. ASSUME NEW i \in 0..Len(callbacks[l]), NEW j \in 0..Len(callbacks[l]),
               NodeAt(l, i) = NodeAt(l, j)
        PROVE  i = j
    <2>1. i < j \/ j < i \/ i = j
      BY <1>1
    <2> QED
      BY <1>3, <1>4, <2>1
  <1>5. ASSUME NEW n
        PROVE  (n = Top \/ Listed(l, n)) <=> \E i \in 0..Len(callbacks[l]) : NodeAt(l, i) = n
    <2>1. ASSUME n = Top PROVE \E i \in 0..Len(callbacks[l]) : NodeAt(l, i) = n
      BY <1>1, <2>1 DEF NodeAt
    <2>2. ASSUME NEW i \in 0..Len(callbacks[l]), NodeAt(l, i) = n PROVE n = Top \/ Listed(l, n)
      <3>1. i = 0 \/ i \in 1..Len(callbacks[l])
        BY <1>1
      <3> QED
        BY <2>2, <3>1, ListedAt DEF NodeAt
    <2>3. ASSUME Listed(l, n) PROVE \E i \in 0..Len(callbacks[l]) : NodeAt(l, i) = n
      BY <2>3 DEF Listed, Before
    <2> QED
      BY <2>1, <2>2, <2>3
  <1> QED
    BY <1>2, <1>4, <1>5

\* A list is a strict total order of its nodes.
LEMMA BeforeOrder ==
    ASSUME TypeOK, ListInv, NEW l \in Lists
    PROVE  /\ \A a, b, c : Before(l, a, b) /\ Before(l, b, c) => Before(l, a, c)
           /\ \A a, b : Before(l, a, b) => ~Before(l, b, a) /\ a # b
           /\ \A a, b : (a = Top \/ Listed(l, a)) /\ (b = Top \/ Listed(l, b)) =>
                a = b \/ Before(l, a, b) \/ Before(l, b, a)
  <1> DEFINE P == 0..Len(callbacks[l])
  <1>1. P \subseteq Int
    BY ListFacts
  <1>2. \A i, j \in P : NodeAt(l, i) = NodeAt(l, j) => i = j
    BY Positions
  <1>3. \A a, b : Before(l, a, b) <=> \E i, j \in P : i < j /\ NodeAt(l, i) = a /\ NodeAt(l, j) = b
    BY DEF Before
  <1>4. \A n : (n = Top \/ Listed(l, n)) <=> \E i \in P : NodeAt(l, i) = n
    BY Positions
  <1> HIDE DEF P
  <1>5. ASSUME NEW a, NEW b, NEW c, Before(l, a, b), Before(l, b, c) PROVE Before(l, a, c)
    BY <1>1, <1>2, <1>3, <1>5
  <1>6. ASSUME NEW a, NEW b, Before(l, a, b) PROVE ~Before(l, b, a) /\ a # b
    BY <1>1, <1>2, <1>3, <1>6
  <1>7. ASSUME NEW a, NEW b, a = Top \/ Listed(l, a), b = Top \/ Listed(l, b)
        PROVE  a = b \/ Before(l, a, b) \/ Before(l, b, a)
    <2>1. PICK i \in P : NodeAt(l, i) = a
      BY <1>4, <1>7
    <2>2. PICK j \in P : NodeAt(l, j) = b
      BY <1>4, <1>7
    <2>3. i = j \/ i < j \/ j < i
      BY <1>1
    <2> QED
      BY <1>3, <2>1, <2>2, <2>3
  <1> QED
    BY <1>5, <1>6, <1>7

\* Nothing is between a walker's node and the one behind it.
LEMMA FollowsOrder ==
    ASSUME TypeOK, ListInv, NEW x \in Walkers, NEW n, Follows(n, x)
    PROVE  LET l == at[x][1]
               m == at[x][2]
           IN  /\ l \in Lists /\ n \in Streams /\ at[x] = <<l, m>> /\ Walking(x)
               /\ Listed(l, n) /\ Before(l, m, n)
               /\ \A a : Before(l, a, n) => a = m \/ Before(l, a, m)
               /\ \A b : Before(l, m, b) => b = n \/ Before(l, n, b)
  <1>0. PICK l \in Lists : \E i \in DOMAIN callbacks[l] :
            /\ callbacks[l][i] = n
            /\ at[x] = <<l, IF i = 1 THEN Top ELSE callbacks[l][i - 1]>>
    BY DEF Follows
  <1>1. PICK i \in DOMAIN callbacks[l] :
            /\ callbacks[l][i] = n
            /\ at[x] = <<l, IF i = 1 THEN Top ELSE callbacks[l][i - 1]>>
    BY <1>0
  <1> DEFINE m == NodeAt(l, i - 1)
             P == 0..Len(callbacks[l])
  <1>2. i \in Nat /\ i > 0 /\ i \in P /\ i - 1 \in P /\ P \subseteq Int
    BY ListFacts
  <1>3. NodeAt(l, i) = n /\ at[x] = <<l, m>> /\ n \in Streams
    BY <1>1, <1>2, ListFacts DEF NodeAt
  <1>4. Walking(x)
    BY <1>3, Constants DEF Walking, Nowhere
  <1>5. \A j, k \in P : NodeAt(l, j) = NodeAt(l, k) => j = k
    BY Positions
  <1>6. \A a, b : Before(l, a, b) <=> \E j, k \in P : j < k /\ NodeAt(l, j) = a /\ NodeAt(l, k) = b
    BY DEF Before
  <1>7. Listed(l, n)
    BY <1>1, ListFacts, ListedAt
  <1> HIDE DEF P
  <1>8. Before(l, m, n)
    BY <1>2, <1>3, <1>6
  <1>9. ASSUME NEW a, Before(l, a, n) PROVE a = m \/ Before(l, a, m)
    <2>1. PICK j, k \in P : j < k /\ NodeAt(l, j) = a /\ NodeAt(l, k) = n
      BY <1>6, <1>9
    <2>2. k = i
      BY <1>2, <1>3, <1>5, <2>1
    <2>3. j \in Int /\ k \in Int /\ i \in Int /\ j < k
      BY <1>2, <2>1
    <2>4. j = i - 1 \/ j < i - 1
      BY <2>2, <2>3
    <2> QED
      BY <1>2, <1>6, <2>1, <2>4
  <1>10. ASSUME NEW b, Before(l, m, b) PROVE b = n \/ Before(l, n, b)
    <2>1. PICK j, k \in P : j < k /\ NodeAt(l, j) = m /\ NodeAt(l, k) = b
      BY <1>6, <1>10
    <2>2. j = i - 1
      BY <1>2, <1>5, <2>1
    <2>3. j \in Int /\ k \in Int /\ i \in Int /\ j < k
      BY <1>2, <2>1
    <2>4. k = i \/ i < k
      BY <2>2, <2>3
    <2> QED
      BY <1>2, <1>3, <1>6, <2>1, <2>4
  <1> QED
    BY <1>3, <1>4, <1>7, <1>8, <1>9, <1>10

\* A walker that no node follows has none ahead of it.
LEMMA LastOrder ==
    ASSUME TypeOK, ListInv, NEW x \in Walkers, \A n \in Streams : ~Follows(n, x),
           NEW b, Before(at[x][1], at[x][2], b)
    PROVE  FALSE
  <1> DEFINE l == at[x][1]
  <1>1. l \in Lists
    BY BeforeNodes
  <1>2. PICK i, j \in 0..Len(callbacks[l]) :
            i < j /\ NodeAt(l, i) = at[x][2] /\ NodeAt(l, j) = b
    BY DEF Before
  <1>3. i + 1 \in DOMAIN callbacks[l] /\ i \in Nat
    BY <1>1, <1>2, ListFacts
  <1>4. at[x] = <<l, at[x][2]>>
    BY DEF TypeOK
  <1>5. at[x] = <<l, IF i + 1 = 1 THEN Top ELSE callbacks[l][(i + 1) - 1]>>
    <2>1. (i + 1 = 1 <=> i = 0) /\ (i + 1) - 1 = i
      BY <1>3
    <2>2. at[x][2] = IF i = 0 THEN Top ELSE callbacks[l][i]
      BY <1>2 DEF NodeAt
    <2> QED
      BY <1>4, <2>1, <2>2
  <1>6. callbacks[l][i + 1] \in Streams
    BY <1>1, <1>3, ListFacts
  <1> QED
    BY <1>1, <1>3, <1>5, <1>6 DEF Follows

\* Lists that do not change keep their order.
LEMMA SameList ==
    ASSUME UNCHANGED callbacks
    PROVE  \A l, a, b : (Before(l, a, b)' <=> Before(l, a, b)) /\ (Listed(l, a)' <=> Listed(l, a))
  BY DEF Listed, Before, NodeAt

\* A stream that is added comes between the head and all other nodes.
LEMMA AddOrder ==
    ASSUME TypeOK, NEW l \in Lists, NEW s \in Streams,
           callbacks' = [callbacks EXCEPT ![l] = <<s>> \o @]
    PROVE  /\ callbacks' \in [Lists -> Seq(Streams)]
           /\ \A m, a, b : Before(m, a, b)' <=>
                \/ Before(m, a, b)
                \/ m = l /\ a = Top /\ b = s
                \/ m = l /\ a = s /\ Listed(l, b)
  <1> DEFINE c == callbacks[l]
             r == <<s>> \o c
  <1>1. /\ c \in Seq(Streams) /\ r \in Seq(Streams) /\ Len(c) \in Nat /\ Len(r) = Len(c) + 1
        /\ r[1] = s /\ \A i \in 1..Len(c) : r[i + 1] = c[i]
    BY ListFacts, ConsFacts
  <1>2. /\ callbacks' \in [Lists -> Seq(Streams)] /\ callbacks'[l] = r
        /\ \A m \in Lists : m # l => callbacks'[m] = callbacks[m]
    BY <1>1 DEF TypeOK
  <1>3. /\ NodeAt(l, 0)' = Top /\ NodeAt(l, 1)' = s
        /\ NodeAt(l, 0) = Top
        /\ \A i \in 1..Len(c) : NodeAt(l, i + 1)' = NodeAt(l, i) /\ NodeAt(l, i) = c[i]
    <2> HIDE DEF r
    <2> QED
      BY <1>1, <1>2 DEF NodeAt
  <1>4. \A a, b : Before(l, a, b)' <=>
            \E i, j \in 0..(Len(c) + 1) : i < j /\ NodeAt(l, i)' = a /\ NodeAt(l, j)' = b
    BY <1>1, <1>2 DEF Before
  <1>5. \A a, b : Before(l, a, b) <=>
            \E i, j \in 0..Len(c) : i < j /\ NodeAt(l, i) = a /\ NodeAt(l, j) = b
    BY DEF Before
  <1>6. \A b : Listed(l, b) <=> \E i \in 1..Len(c) : NodeAt(l, i) = b
    BY <1>3, ListedAt
  <1> HIDE DEF c, r
  <1>7. ASSUME NEW a, NEW b, Before(l, a, b)'
        PROVE  Before(l, a, b) \/ (a = Top /\ b = s) \/ (a = s /\ Listed(l, b))
    <2>1. PICK i \in 0..(Len(c) + 1), j \in 0..(Len(c) + 1) :
                i < j /\ NodeAt(l, i)' = a /\ NodeAt(l, j)' = b
      BY <1>4, <1>7
    <2>2. CASE j = 1
      <3>1. i = 0
        BY <1>1, <2>1, <2>2
      <3> QED
        BY <1>3, <2>1, <2>2, <3>1
    <2>3. CASE j # 1
      <3>1. j - 1 \in 1..Len(c) /\ (j - 1) + 1 = j
        BY <1>1, <2>1, <2>3
      <3>2. NodeAt(l, j - 1) = b
        BY <1>3, <2>1, <3>1
      <3>3. CASE i = 0
        <4>1. 0 \in 0..Len(c) /\ j - 1 \in 0..Len(c) /\ 0 < j - 1
          BY <1>1, <3>1
        <4> QED
          BY <1>3, <1>5, <2>1, <3>2, <3>3, <4>1
      <3>4. CASE i = 1
        BY <1>3, <1>6, <2>1, <3>1, <3>2, <3>4
      <3>5. CASE i > 1
        <4>1. i - 1 \in 1..Len(c) /\ (i - 1) + 1 = i /\ i - 1 < j - 1
          BY <1>1, <2>1, <3>5
        <4>2. NodeAt(l, i - 1) = a
          BY <1>3, <2>1, <4>1
        <4>3. i - 1 \in 0..Len(c) /\ j - 1 \in 0..Len(c)
          BY <1>1, <3>1, <4>1
        <4> QED
          BY <1>5, <3>2, <4>1, <4>2, <4>3
      <3> QED
        BY <1>1, <2>1, <3>3, <3>4, <3>5
    <2> QED
      BY <2>2, <2>3
  <1>8. ASSUME NEW a, NEW b, Before(l, a, b) \/ (a = Top /\ b = s) \/ (a = s /\ Listed(l, b))
        PROVE  Before(l, a, b)'
    <2>1. CASE a = Top /\ b = s
      <3>1. 0 \in 0..(Len(c) + 1) /\ 1 \in 0..(Len(c) + 1) /\ 0 < 1
        BY <1>1
      <3> QED
        BY <1>3, <1>4, <2>1, <3>1
    <2>2. CASE a = s /\ Listed(l, b)
      <3>1. PICK j \in 1..Len(c) : NodeAt(l, j) = b
        BY <1>6, <2>2
      <3>2. 1 \in 0..(Len(c) + 1) /\ j + 1 \in 0..(Len(c) + 1) /\ 1 < j + 1
        BY <1>1
      <3> QED
        BY <1>3, <1>4, <2>2, <3>1, <3>2
    <2>3. CASE Before(l, a, b)
      <3>1. PICK i \in 0..Len(c), j \in 0..Len(c) : i < j /\ NodeAt(l, i) = a /\ NodeAt(l, j) = b
        BY <1>5, <2>3
      <3>2. j \in 1..Len(c) /\ j + 1 \in 0..(Len(c) + 1)
        BY <1>1, <3>1
      <3>3. CASE i = 0
        <4>1. 0 \in 0..(Len(c) + 1) /\ 0 < j + 1
          BY <1>1, <3>2
        <4> QED
          BY <1>3, <1>4, <3>1, <3>2, <3>3, <4>1
      <3>4. CASE i # 0
        <4>1. i \in 1..Len(c) /\ i + 1 \in 0..(Len(c) + 1) /\ i + 1 < j + 1
          BY <1>1, <3>1, <3>4
        <4> QED
          BY <1>3, <1>4, <3>1, <3>2, <4>1
      <3> QED
        BY <3>3, <3>4
    <2> QED
      BY <1>8, <2>1, <2>2, <2>3
  <1>9. ASSUME NEW m, m # l PROVE \A a, b : Before(m, a, b)' <=> Before(m, a, b)
    BY <1>2, <1>9 DEF Before, NodeAt
  <1> QED
    BY <1>2, <1>7, <1>8, <1>9

\* A stream that is removed leaves the others as they were.
LEMMA RemoveOrder ==
    ASSUME TypeOK, ListInv, NEW l \in Lists, NEW n, Listed(l, n),
           callbacks' = [callbacks EXCEPT ![l] = RemoveFirst(@, n)]
    PROVE  /\ callbacks' \in [Lists -> Seq(Streams)]
           /\ \A m, a, b : Before(m, a, b)' <=>
                Before(m, a, b) /\ (m = l => a # n /\ b # n)
  <1> DEFINE c == callbacks[l]
             r == RemoveFirst(c, n)
  <1>1. PICK k \in 1..Len(c) : c[k] = n
    BY ListedAt
  <1>2. c \in Seq(Streams) /\ Len(c) \in Nat
    BY ListFacts
  <1>3. \A i, j \in 0..Len(c) : NodeAt(l, i) = NodeAt(l, j) => i = j
    BY Positions
  <1>4. \A i \in 1..Len(c) : NodeAt(l, i) = c[i] /\ i \in 0..Len(c)
    BY <1>2 DEF NodeAt
  <1>5. \A i \in 1..Len(c) : c[i] = c[k] => i = k
    BY <1>3, <1>4
  <1>6. /\ r \in Seq(Streams) /\ Len(r) = Len(c) - 1
        /\ \A i \in 1..(Len(c) - 1) : r[i] = IF i < k THEN c[i] ELSE c[i + 1]
    BY <1>1, <1>2, <1>5, RemoveFacts
  <1>7. /\ callbacks' \in [Lists -> Seq(Streams)] /\ callbacks'[l] = r
        /\ \A m \in Lists : m # l => callbacks'[m] = callbacks[m]
    <2> HIDE DEF r
    <2> QED
      BY <1>6 DEF TypeOK, r
  <1>8. \A i \in 0..(Len(c) - 1) : NodeAt(l, i)' = IF i < k THEN NodeAt(l, i) ELSE NodeAt(l, i + 1)
    <2> HIDE DEF r
    <2> SUFFICES ASSUME NEW i \in 0..(Len(c) - 1)
                 PROVE  NodeAt(l, i)' = IF i < k THEN NodeAt(l, i) ELSE NodeAt(l, i + 1)
      OBVIOUS
    <2>1. CASE i = 0
      BY <1>2, <2>1 DEF NodeAt
    <2>2. CASE i # 0
      <3>1. i \in 1..(Len(c) - 1) /\ i + 1 # 0
        BY <1>2, <2>2
      <3> QED
        BY <1>6, <1>7, <2>2, <3>1 DEF NodeAt
    <2> QED
      BY <2>1, <2>2
  <1>9. \A a, b : Before(l, a, b)' <=>
            \E i, j \in 0..(Len(c) - 1) : i < j /\ NodeAt(l, i)' = a /\ NodeAt(l, j)' = b
    BY <1>6, <1>7 DEF Before
  <1>10. \A a, b : Before(l, a, b) <=>
            \E i, j \in 0..Len(c) : i < j /\ NodeAt(l, i) = a /\ NodeAt(l, j) = b
    BY DEF Before
  <1>11. NodeAt(l, k) = n
    BY <1>1, <1>4
  <1> HIDE DEF c, r
  <1>12. ASSUME NEW a, NEW b, Before(l, a, b)' PROVE Before(l, a, b) /\ a # n /\ b # n
    <2> DEFINE Old(i) == IF i < k THEN i ELSE i + 1
    <2>1. PICK i \in 0..(Len(c) - 1), j \in 0..(Len(c) - 1) :
                i < j /\ NodeAt(l, i)' = a /\ NodeAt(l, j)' = b
      BY <1>9, <1>12
    <2>2. Old(i) \in 0..Len(c) /\ Old(j) \in 0..Len(c) /\ Old(i) < Old(j) /\ k \in 0..Len(c)
          /\ Old(i) # k /\ Old(j) # k
      BY <1>2, <2>1
    <2>3. NodeAt(l, Old(i)) = a /\ NodeAt(l, Old(j)) = b
      BY <1>8, <2>1
    <2> HIDE DEF Old
    <2> QED
      BY <1>3, <1>10, <1>11, <2>2, <2>3
  <1>13. ASSUME NEW a, NEW b, Before(l, a, b), a # n, b # n PROVE Before(l, a, b)'
    <2> DEFINE New(i) == IF i < k THEN i ELSE i - 1
    <2>1. PICK i \in 0..Len(c), j \in 0..Len(c) : i < j /\ NodeAt(l, i) = a /\ NodeAt(l, j) = b
      BY <1>10, <1>13
    <2>2. i # k /\ j # k
      BY <1>11, <1>13, <2>1
    <2>3. New(i) \in 0..(Len(c) - 1) /\ New(j) \in 0..(Len(c) - 1) /\ New(i) < New(j)
      BY <1>2, <2>1, <2>2
    <2>4. \A h \in 0..Len(c) : h # k =>
            (New(h) < k => New(h) = h) /\ (~(New(h) < k) => New(h) + 1 = h)
      BY <1>2
    <2> HIDE DEF New
    <2>5. NodeAt(l, New(i))' = a /\ NodeAt(l, New(j))' = b
      BY <1>8, <2>1, <2>2, <2>3, <2>4
    <2> QED
      BY <1>9, <2>3, <2>5
  <1>14. ASSUME NEW m, m # l PROVE \A a, b : Before(m, a, b)' <=> Before(m, a, b)
    BY <1>7, <1>14 DEF Before, NodeAt
  <1> QED
    BY <1>7, <1>12, <1>13, <1>14

-----------------------------------------------------------------------------
(* What streams have been given. *)

\* Streams get changes.
LEMMA GotFacts ==
    ASSUME TypeOK, NEW s \in Streams
    PROVE  /\ inbound[s] \in Seq(Changes) /\ sent[s] \in Seq(Changes)
           /\ Got(s) \in Seq(Changes) /\ Len(Got(s)) \in Nat
           /\ \A v : Has(s, v) => v \in Changes
           /\ \A v, w : Prec(s, v, w) => Has(s, v) /\ Has(s, w)
  <1>1. inbound[s] \in Seq(Changes) /\ sent[s] \in Seq(Changes)
    BY DEF TypeOK, Changes
  <1>2. Got(s) \in Seq(Changes)
    BY <1>1, ConcatProperties DEF Got
  <1>3. Len(Got(s)) \in Nat /\ \A i \in 1..Len(Got(s)) : Got(s)[i] \in Changes
    BY <1>2, LenProperties
  <1> QED
    BY <1>1, <1>2, <1>3 DEF Has, Prec

\* A stream whose queue and client are left alone has what it had.
LEMMA SameGot ==
    ASSUME NEW s, Got(s)' = Got(s)
    PROVE  /\ \A v : Has(s, v)' <=> Has(s, v)
           /\ \A v, w : Prec(s, v, w)' <=> Prec(s, v, w)
  BY DEF Has, Prec

\* A change that is queued is behind all others.
LEMMA AppendGot ==
    ASSUME TypeOK, NEW s \in Streams, NEW c \in Changes,
           inbound'[s] = Append(inbound[s], c), sent'[s] = sent[s]
    PROVE  /\ inbound'[s] \in Seq(Changes)
           /\ \A v : Has(s, v)' <=> Has(s, v) \/ v = c
           /\ \A v, w : Prec(s, v, w)' <=> Prec(s, v, w) \/ (Has(s, v) /\ w = c)
  <1> DEFINE g == Got(s)
             a == sent[s]
             b == inbound[s]
             n == Len(g) + 1
  <1>1. a \in Seq(Changes) /\ b \in Seq(Changes)
    BY GotFacts
  <1>2. Append(b, c) \in Seq(Changes)
    BY <1>1, AppendProperties
  <1>3. a \o Append(b, c) = Append(a \o b, c)
    <2> DEFINE u == <<c>>
    <2>1. u \in Seq(Changes) /\ a \o b \in Seq(Changes)
      BY <1>1, ConcatProperties
    <2>2. Append(b, c) = b \o u /\ Append(a \o b, c) = (a \o b) \o u
      BY <1>1, <2>1, AppendIsConcat
    <2> HIDE DEF a, b, u
    <2>3. (a \o b) \o u = a \o (b \o u)
      BY <1>1, <2>1, ConcatAssociative
    <2> QED
      BY <2>2, <2>3
  <1>4. Got(s)' = Append(g, c)
    BY <1>3 DEF Got
  <1>5. g \in Seq(Changes) /\ Len(g) \in Nat
    BY GotFacts
  <1> HIDE DEF g
  <1>6. /\ Len(Append(g, c)) = n /\ Append(g, c)[n] = c
        /\ \A i \in 1..Len(g) : Append(g, c)[i] = g[i]
    BY <1>5, AppendProperties
  <1>7. \A i : i \in 1..n <=> i \in 1..Len(g) \/ i = n
    BY <1>5
  <1>8. \A v : Has(s, v) <=> \E i \in 1..Len(g) : g[i] = v
    BY DEF Has, g
  <1>9. \A v : Has(s, v)' <=> \E i \in 1..n : Append(g, c)[i] = v
    BY <1>4, <1>6 DEF Has
  <1>10. \A v, w : Prec(s, v, w) <=> \E i, j \in 1..Len(g) : i < j /\ g[i] = v /\ g[j] = w
    BY DEF Prec, g
  <1>11. \A v, w : Prec(s, v, w)' <=>
            \E i, j \in 1..n : i < j /\ Append(g, c)[i] = v /\ Append(g, c)[j] = w
    BY <1>4, <1>6 DEF Prec
  <1>12. ASSUME NEW v PROVE Has(s, v)' <=> Has(s, v) \/ v = c
    <2> HIDE DEF n
    <2> QED
      BY <1>6, <1>7, <1>8, <1>9
  <1>13. ASSUME NEW v, NEW w, Prec(s, v, w)' PROVE Prec(s, v, w) \/ (Has(s, v) /\ w = c)
    <2>1. PICK i \in 1..n, j \in 1..n : i < j /\ Append(g, c)[i] = v /\ Append(g, c)[j] = w
      BY <1>11, <1>13
    <2>2. i \in 1..Len(g) /\ (j \in 1..Len(g) \/ j = n)
      BY <1>5, <2>1
    <2> HIDE DEF n
    <2> QED
      BY <1>6, <1>8, <1>10, <2>1, <2>2
  <1>14. ASSUME NEW v, NEW w, Prec(s, v, w) PROVE Prec(s, v, w)'
    <2>1. PICK i \in 1..Len(g), j \in 1..Len(g) : i < j /\ g[i] = v /\ g[j] = w
      BY <1>10, <1>14
    <2> HIDE DEF n
    <2> QED
      BY <1>6, <1>7, <1>11, <2>1
  <1>15. ASSUME NEW v, Has(s, v) PROVE Prec(s, v, c)'
    <2>1. PICK i \in 1..Len(g) : g[i] = v
      BY <1>8, <1>15
    <2>2. i < n /\ i \in 1..n /\ n \in 1..n
      BY <1>5
    <2> HIDE DEF n
    <2> QED
      BY <1>6, <1>11, <2>1, <2>2
  <1> QED
    BY <1>2, <1>12, <1>13, <1>14, <1>15

\* A change that is written to the client was given to the stream already.
LEMMA SendGot ==
    ASSUME TypeOK, NEW s \in Streams, inbound[s] # <<>>,
           inbound'[s] = Tail(inbound[s]), sent'[s] = Append(sent[s], Head(inbound[s]))
    PROVE  /\ inbound'[s] \in Seq(Changes) /\ sent'[s] \in Seq(Changes)
           /\ Got(s)' = Got(s)
  <1> DEFINE a == sent[s]
             b == inbound[s]
             h == Head(b)
  <1>1. a \in Seq(Changes) /\ b \in Seq(Changes)
    BY GotFacts
  <1>2. h \in Changes /\ Tail(b) \in Seq(Changes)
    BY <1>1, TailFacts
  <1>3. Append(a, h) \in Seq(Changes)
    BY <1>1, <1>2, AppendProperties
  <1>4. b = <<h>> \o Tail(b)
    BY <1>1
  <1>5. Append(a, h) \o Tail(b) = a \o (<<h>> \o Tail(b))
    <2> DEFINE u == <<h>>
               d == Tail(b)
    <2>1. a \in Seq(Changes) /\ u \in Seq(Changes) /\ d \in Seq(Changes)
      BY <1>1, <1>2
    <2>2. Append(a, h) = a \o u
      BY <1>1, <1>2, AppendIsConcat
    <2> HIDE DEF a, u, d
    <2>3. (a \o u) \o d = a \o (u \o d)
      BY <2>1, ConcatAssociative
    <2> QED
      BY <2>2, <2>3 DEF u, d
  <1> QED
    BY <1>2, <1>3, <1>4, <1>5 DEF Got

\* A stream that leaves with changes in its queue was given them, but no others.
LEMMA DropGot ==
    ASSUME TypeOK, NEW s \in Streams, sent'[s] = sent[s],
           inbound'[s] = <<>> \/ (inbound[s] # <<>> /\ inbound'[s] = Tail(inbound[s]))
    PROVE  /\ inbound'[s] \in Seq(Changes)
           /\ \A v : Has(s, v)' => Has(s, v)
           /\ \A v, w : Prec(s, v, w)' => Prec(s, v, w)
  <1> DEFINE a == sent[s]
             b == inbound[s]
             c == inbound'[s]
  <1>1. a \in Seq(Changes) /\ b \in Seq(Changes) /\ Len(a) \in Nat /\ Len(b) \in Nat
    BY GotFacts, LenProperties
  <1>2. c \in Seq(Changes) /\ Len(c) \in Nat
    <2>1. <<>> \in Seq(Changes)
      OBVIOUS
    <2> QED
      BY <1>1, <2>1, TailFacts, LenProperties
  <1>3. /\ Len(c) <= Len(b)
        /\ \A i \in 1..Len(c) : i + 1 \in 1..Len(b) /\ c[i] = b[i + 1]
    <2>1. CASE c = <<>>
      <3>1. Len(c) = 0
        BY <2>1
      <3> QED
        BY <1>1, <3>1
    <2>2. CASE c # <<>>
      <3>1. b # <<>> /\ c = Tail(b)
        BY <2>2
      <3> HIDE DEF c
      <3> QED
        BY <1>1, <3>1, TailFacts
    <2> QED
      BY <2>1, <2>2
  <1> HIDE DEF a, b, c
  <1>4. /\ Len(a \o c) = Len(a) + Len(c)
        /\ \A i \in 1..(Len(a) + Len(c)) : (a \o c)[i] = IF i <= Len(a) THEN a[i] ELSE c[i - Len(a)]
    BY <1>1, <1>2, ConcatProperties
  <1>5. /\ Len(a \o b) = Len(a) + Len(b)
        /\ \A i \in 1..(Len(a) + Len(b)) : (a \o b)[i] = IF i <= Len(a) THEN a[i] ELSE b[i - Len(a)]
    BY <1>1, ConcatProperties
  <1> DEFINE Old(i) == IF i <= Len(a) THEN i ELSE i + 1
  <1>6. ASSUME NEW i \in 1..Len(a \o c)
        PROVE  Old(i) \in 1..Len(a \o b) /\ (a \o b)[Old(i)] = (a \o c)[i]
    <2>1. CASE i <= Len(a)
      <3>1. i \in 1..(Len(a) + Len(c)) /\ i \in 1..(Len(a) + Len(b))
        BY <1>1, <1>2, <1>3, <1>4, <2>1
      <3> QED
        BY <1>4, <1>5, <2>1, <3>1
    <2>2. CASE ~(i <= Len(a))
      <3>1. /\ i \in 1..(Len(a) + Len(c)) /\ i - Len(a) \in 1..Len(c)
            /\ ~(i + 1 <= Len(a)) /\ (i + 1) - Len(a) = (i - Len(a)) + 1
        BY <1>1, <1>2, <1>4, <2>2
      <3>2. (i - Len(a)) + 1 \in 1..Len(b) /\ c[i - Len(a)] = b[(i - Len(a)) + 1]
        BY <1>3, <3>1
      <3>3. i + 1 \in 1..(Len(a) + Len(b))
        BY <1>1, <3>1, <3>2
      <3> QED
        BY <1>4, <1>5, <2>2, <3>1, <3>2, <3>3
    <2> QED
      BY <2>1, <2>2
  <1>7. \A i, j \in 1..Len(a \o c) : i < j => Old(i) < Old(j)
    BY <1>1, <1>2, <1>4
  <1>8. Got(s) = a \o b /\ Got(s)' = a \o c
    BY DEF Got, a, b, c
  <1> HIDE DEF Old
  <1>9. \A v : Has(s, v)' => Has(s, v)
    BY <1>6, <1>8 DEF Has
  <1>10. \A v, w : Prec(s, v, w)' => Prec(s, v, w)
    <2> SUFFICES ASSUME NEW v, NEW w, Prec(s, v, w)' PROVE Prec(s, v, w)
      OBVIOUS
    <2>1. PICK i \in 1..Len(a \o c), j \in 1..Len(a \o c) :
                i < j /\ (a \o c)[i] = v /\ (a \o c)[j] = w
      BY <1>8 DEF Prec
    <2> QED
      BY <1>6, <1>7, <1>8, <2>1 DEF Prec
  <1> QED
    BY <1>2, <1>9, <1>10 DEF c

-----------------------------------------------------------------------------
(* The invariant holds initially and every action preserves it. *)

\* A step that leaves lists and queues alone leaves alone what is said of them.
LEMMA SameAll ==
    ASSUME UNCHANGED <<callbacks, inbound, sent>>
    PROVE  /\ \A l, a, b : Before(l, a, b)' <=> Before(l, a, b)
           /\ \A l, a : Listed(l, a)' <=> Listed(l, a)
           /\ \A s, v : Has(s, v)' <=> Has(s, v)
           /\ \A s, v, w : Prec(s, v, w)' <=> Prec(s, v, w)
  <1>1. \A s : Got(s)' = Got(s)
    BY DEF Got
  <1> QED
    BY <1>1, SameList, SameGot

\* No stream, no list and no change.
LEMMA StreamsInit == Init => StreamsInv
  <1> SUFFICES ASSUME Init PROVE StreamsInv
    OBVIOUS
  <1> USE DEF Init
  <1>1. TypeOK
    <2>1. undefined \in BOOLEAN /\ subs_map_mutex_ \subseteq Streams /\ cancelled \subseteq Streams
          /\ lost \subseteq Streams /\ threw \subseteq Streams \X (1..MaxChanges)
      OBVIOUS
    <2>2. lists \in 0..Cardinality(Streams) /\ subs_map_ \in 0..lists /\ changes \in 0..MaxChanges
      BY Constants
    <2>3. /\ callbacks \in [Lists -> Seq(Streams)] /\ next_id_ \in [Lists -> Nat]
          /\ inbound \in [Streams -> Seq(1..MaxChanges)]
          /\ sent \in [Streams -> Seq(1..MaxChanges)]
      OBVIOUS
    <2>4. /\ stream \in [Streams -> {"new", "refused", "listed", "loop", "leaving",
                                     "removing", "returned"}]
          /\ at \in [Walkers -> (0..lists) \X (Streams \cup {Top})]
      BY DEF Nowhere
    <2>5. /\ subs \in [Streams -> 0..lists] /\ cb_id \in [Streams -> Nat]
          /\ list_ptr \in [Publishers -> 0..lists] /\ change \in [Publishers -> 0..MaxChanges]
          /\ since \in [Streams -> 0..MaxChanges]
      BY Constants
    <2> QED
      BY <2>1, <2>2, <2>3, <2>4, <2>5 DEF TypeOK
  <1>2. CountInv
    <2>1. IsFiniteSet({s \in Streams : stream[s] \notin {"new", "refused"}})
      BY Constants, FS_Subset
    <2>2. Cardinality({s \in Streams : stream[s] \notin {"new", "refused"}}) \in Nat
      BY <2>1, FS_CardinalityType
    <2> QED
      BY <2>2 DEF CountInv
  <1>3. \A l, a, b : ~Before(l, a, b)
    <2> SUFFICES ASSUME NEW l, NEW a, NEW b, Before(l, a, b) PROVE FALSE
      OBVIOUS
    <2>1. l \in Lists /\ b \in Streams /\ Listed(l, b)
      BY <1>1, BeforeNodes
    <2>2. callbacks[l] = <<>>
      BY <2>1
    <2> QED
      BY <1>1, <2>1, <2>2, EmptyList
  <1>4. \A l, s : ~Listed(l, s)
    BY <1>3 DEF Listed
  <1>5. \A s \in Streams : Len(Got(s)) = 0
    BY DEF Got
  <1>6. /\ \A s \in Streams : \A v : ~Has(s, v)
        /\ \A s \in Streams : \A v, w : ~Prec(s, v, w)
    BY <1>5 DEF Has, Prec
  <1>7. ListInv /\ MapInv
    BY <1>3, <1>4 DEF ListInv, MapInv, Live
  <1>8. PlaceInv
    BY Constants DEF PlaceInv, Walking
  <1>9. ChangeInv /\ LookupInv
    BY <1>6 DEF ChangeInv, LookupInv, Live
  <1>10. WalkInv /\ SettledInv /\ OrderInv
    BY <1>6, Constants DEF WalkInv, SettledInv, OrderInv, Walking, NoneBefore
  <1> QED
    BY <1>1, <1>2, <1>7, <1>8, <1>9, <1>10 DEF StreamsInv

\* A stream that was refused, or a client that has gone, changes nothing the others see.
LEMMA QuietStep ==
    ASSUME StreamsInv,
           UNCHANGED <<mapVars, listVars, subs, cb_id, inbound, publishVars, at, undefined,
                       history>>,
           \/ UNCHANGED stream /\ cancelled' \subseteq Streams
           \/ UNCHANGED cancelled /\ \E s \in Streams :
                stream[s] = "new" /\ stream' = [stream EXCEPT ![s] = "refused"]
    PROVE  StreamsInv'
  <1> USE DEF StreamsInv, mapVars, listVars, publishVars, history
  <1>1. /\ \A l, a, b : Before(l, a, b)' <=> Before(l, a, b)
        /\ \A l, a : Listed(l, a)' <=> Listed(l, a)
        /\ \A s, v : Has(s, v)' <=> Has(s, v)
        /\ \A s, v, w : Prec(s, v, w)' <=> Prec(s, v, w)
    BY SameAll
  <1>2. TypeOK'
    BY DEF TypeOK
  <1>3. \A s \in Streams : stream'[s] = stream[s] \/ (stream[s] = "new" /\ stream'[s] = "refused")
    BY DEF TypeOK
  <1>4. CountInv'
    <2>1. {s \in Streams : stream'[s] \notin {"new", "refused"}}
          = {s \in Streams : stream[s] \notin {"new", "refused"}}
      BY <1>3
    <2> QED
      BY <2>1 DEF CountInv
  <1>5. \A s \in Streams : Live(s)' <=> Live(s)
    BY <1>3 DEF Live
  <1>6. ListInv'
    BY <1>1, <1>3, <1>5 DEF ListInv
  <1>7. MapInv'
    BY <1>1, <1>3, <1>5 DEF MapInv
  <1>8. PlaceInv'
    BY <1>1, <1>3 DEF PlaceInv, Walking
  <1>9. ChangeInv'
    BY <1>1, <1>3, <1>5 DEF ChangeInv, Walking
  <1>10. LookupInv' /\ SettledInv'
    BY <1>1, <1>3, <1>5 DEF LookupInv, SettledInv
  <1>11. WalkInv'
    BY <1>1, <1>3 DEF WalkInv, Walking
  <1>12. OrderInv'
    BY <1>1 DEF OrderInv, Walking, NoneBefore
  <1> QED
    BY <1>2, <1>4, <1>6, <1>7, <1>8, <1>9, <1>10, <1>11, <1>12

\* A list is created when the map has none: there are no more lists than streams.
LEMMA GetOrCreateStep ==
    ASSUME StreamsInv, NEW s \in Streams, GetOrCreateSubs(s)
    PROVE  StreamsInv'
  <1> USE DEF StreamsInv, listVars, publishVars, history
  <1> DEFINE A == {t \in Streams : stream[t] \notin {"new", "refused"}}
  <1>1. /\ UNCHANGED <<subs_map_mutex_, callbacks, next_id_, cb_id, inbound, cancelled, list_ptr,
                       change, changes, at, undefined, sent, since, lost, threw>>
        /\ stream[s] = "new" /\ subs_map_mutex_ = {}
        /\ lists' = IF subs_map_ = 0 THEN lists + 1 ELSE lists
        /\ subs_map_' = IF subs_map_ = 0 THEN lists' ELSE subs_map_
        /\ subs' = [subs EXCEPT ![s] = subs_map_']
        /\ stream' = [stream EXCEPT ![s] = "listed"]
    BY DEF GetOrCreateSubs
  <1>2. /\ \A l, a, b : Before(l, a, b)' <=> Before(l, a, b)
        /\ \A l, a : Listed(l, a)' <=> Listed(l, a)
        /\ \A t, v : Has(t, v)' <=> Has(t, v)
        /\ \A t, v, w : Prec(t, v, w)' <=> Prec(t, v, w)
    BY <1>1, SameAll
  <1>3. IsFiniteSet(A) /\ Cardinality(A) \in Nat /\ s \notin A
    BY <1>1, Constants, FS_Subset, FS_CardinalityType
  <1>4. /\ {t \in Streams : stream'[t] \notin {"new", "refused"}} = A \cup {s}
        /\ Cardinality(A \cup {s}) = Cardinality(A) + 1
        /\ Cardinality(A \cup {s}) <= Cardinality(Streams)
    <2>1. {t \in Streams : stream'[t] \notin {"new", "refused"}} = A \cup {s}
      BY <1>1 DEF TypeOK
    <2>2. Cardinality(A \cup {s}) = Cardinality(A) + 1
      BY <1>3, FS_AddElement
    <2>3. A \cup {s} \subseteq Streams
      OBVIOUS
    <2>4. Cardinality(A \cup {s}) <= Cardinality(Streams)
      BY <2>3, Constants, FS_Subset
    <2> QED
      BY <2>1, <2>2, <2>4
  <1>5. lists <= Cardinality(A)
    BY DEF CountInv
  <1>6. CountInv'
    <2> HIDE DEF A
    <2>1. lists \in Nat /\ lists' \in Nat /\ lists' <= lists + 1
      BY <1>1, Constants DEF TypeOK
    <2>2. lists' <= Cardinality(A \cup {s})
      BY <1>3, <1>4, <1>5, <2>1
    <2> QED
      BY <1>4, <2>2 DEF CountInv
  <1>7. /\ lists' \in 0..Cardinality(Streams) /\ subs_map_' \in 1..lists'
        /\ 0..lists \subseteq 0..lists' /\ subs_map_' \in Lists
    <2> HIDE DEF A
    <2>1. lists \in Nat /\ subs_map_ \in 0..lists
      BY Constants DEF TypeOK
    <2>2. lists' <= Cardinality(Streams)
      BY <1>1, <1>3, <1>4, <1>5, <2>1, Constants
    <2> QED
      BY <1>1, <2>1, <2>2, Constants
  <1>8. TypeOK'
    <2>1. /\ subs' \in [Streams -> 0..lists'] /\ list_ptr' \in [Publishers -> 0..lists']
          /\ at' \in [Walkers -> (0..lists') \X (Streams \cup {Top})]
      BY <1>1, <1>7 DEF TypeOK
    <2>2. stream' \in [Streams -> {"new", "refused", "listed", "loop", "leaving",
                                   "removing", "returned"}]
      BY <1>1 DEF TypeOK
    <2>3. subs_map_' \in 0..lists'
      BY <1>7, Constants
    <2> QED
      BY <1>1, <1>7, <2>1, <2>2, <2>3 DEF TypeOK
  <1>9. /\ \A t \in Streams : t # s => stream'[t] = stream[t] /\ subs'[t] = subs[t]
        /\ stream'[s] = "listed" /\ subs'[s] = subs_map_'
    BY <1>1 DEF TypeOK
  <1>10. \A t \in Streams : (Live(t)' <=> Live(t)) /\ (stream'[t] = "loop" <=> stream[t] = "loop")
            /\ (stream'[t] = "returned" <=> stream[t] = "returned")
            /\ (stream'[t] = "removing" <=> stream[t] = "removing")
    BY <1>1, <1>9 DEF Live
  <1>11. \A l \in Lists : ~Listed(l, s)
    BY <1>1 DEF ListInv, Live
  <1>12. \A t \in Streams \ lost : Live(t) => subs_map_' = subs_map_
    <2> SUFFICES ASSUME NEW t \in Streams \ lost, Live(t) PROVE subs_map_' = subs_map_
      OBVIOUS
    <2>1. Listed(subs_map_, t)
      BY DEF MapInv
    <2>2. subs_map_ \in Lists
      BY <2>1, BeforeNodes DEF Listed
    <2> QED
      BY <1>1, <2>2, Constants
  <1>13. ListInv'
    <2>1. \A t \in Streams : Live(t)' \/ stream'[t] = "listed" => subs'[t] # 0
      BY <1>7, <1>9, <1>10, Constants DEF ListInv
    <2> QED
      BY <1>1, <1>2, <1>9, <1>10, <1>11, <2>1 DEF ListInv
  <1>14. MapInv'
    BY <1>1, <1>2, <1>9, <1>10, <1>12 DEF MapInv
  <1>15. PlaceInv'
    <2>1. \A t \in Streams : ~Walking(t)
      BY <1>1 DEF PlaceInv, MapInv
    <2> QED
      BY <1>1, <1>2, <2>1 DEF PlaceInv, Walking
  <1>16. ChangeInv'
    BY <1>1, <1>2, <1>10 DEF ChangeInv, Walking
  <1>17. LookupInv'
    BY <1>1, <1>10, <1>12 DEF LookupInv
  <1>18. WalkInv' /\ SettledInv'
    BY <1>1, <1>2, <1>10 DEF WalkInv, SettledInv, Walking
  <1>19. OrderInv'
    BY <1>1, <1>2 DEF OrderInv, Walking, NoneBefore
  <1> QED
    BY <1>1, <1>6, <1>8, <1>13, <1>14, <1>15, <1>16, <1>17, <1>18, <1>19

\* A stream is added in front of all others, where no walker is: it hears what is looked up
\* from now on, unless its list has left the map.
LEMMA AddStep ==
    ASSUME StreamsInv, NEW s \in Streams, Add(s)
    PROVE  StreamsInv'
  <1> USE DEF StreamsInv, mapVars, publishVars
  <1> DEFINE k == subs[s]
  <1>1. /\ UNCHANGED <<subs_map_mutex_, subs_map_, lists, subs, inbound, cancelled, list_ptr,
                       change, changes, at, undefined, sent, threw>>
        /\ stream[s] = "listed" /\ Free(k, Top)
        /\ cb_id' = [cb_id EXCEPT ![s] = next_id_[k]]
        /\ next_id_' = [next_id_ EXCEPT ![k] = @ + 1]
        /\ callbacks' = [callbacks EXCEPT ![k] = <<s>> \o @]
        /\ stream' = [stream EXCEPT ![s] = "loop"]
        /\ since' = [since EXCEPT ![s] = changes]
        /\ lost' = IF k = subs_map_ THEN lost ELSE lost \cup {s}
    BY DEF Add
  <1>2. k \in Lists /\ k # 0
    <2>1. k # 0 /\ k \in 0..lists /\ lists \in 0..Cardinality(Streams)
      BY <1>1 DEF ListInv, TypeOK
    <2> QED
      BY <2>1, Constants
  <1> HIDE DEF k
  <1>3. /\ callbacks' \in [Lists -> Seq(Streams)]
        /\ \A m, a, b : Before(m, a, b)' <=>
             \/ Before(m, a, b)
             \/ m = k /\ a = Top /\ b = s
             \/ m = k /\ a = s /\ Listed(k, b)
    BY <1>1, <1>2, AddOrder
  <1>4. /\ \A t, v : Has(t, v)' <=> Has(t, v)
        /\ \A t, v, w : Prec(t, v, w)' <=> Prec(t, v, w)
    <2>1. \A t : Got(t)' = Got(t)
      BY <1>1 DEF Got
    <2> QED
      BY <2>1, SameGot
  <1>5. /\ \A t \in Streams : t # s =>
             stream'[t] = stream[t] /\ cb_id'[t] = cb_id[t] /\ since'[t] = since[t]
        /\ stream'[s] = "loop" /\ cb_id'[s] = next_id_[k] /\ since'[s] = changes
        /\ \A l \in Lists : l # k => next_id_'[l] = next_id_[l]
        /\ next_id_'[k] = next_id_[k] + 1 /\ next_id_[k] \in Nat
        /\ \A t \in Streams : t # s => (t \in lost' <=> t \in lost)
        /\ lost \subseteq lost'
    BY <1>1, <1>2 DEF TypeOK
  <1>6. TypeOK'
    <2>1. stream' \in [Streams -> {"new", "refused", "listed", "loop", "leaving",
                                   "removing", "returned"}]
      BY <1>1 DEF TypeOK
    <2>2. cb_id' \in [Streams -> Nat] /\ next_id_' \in [Lists -> Nat]
          /\ since' \in [Streams -> 0..MaxChanges]
      BY <1>1, <1>2, <1>5 DEF TypeOK
    <2>3. lost' \subseteq Streams
      BY <1>1 DEF TypeOK
    <2> QED
      BY <1>1, <1>3, <2>1, <2>2, <2>3 DEF TypeOK
  <1>7. CountInv'
    <2>1. {t \in Streams : stream'[t] \notin {"new", "refused"}}
          = {t \in Streams : stream[t] \notin {"new", "refused"}}
      BY <1>1, <1>5
    <2> QED
      BY <1>1, <2>1 DEF CountInv
  <1>8. \A l \in Lists : ~Listed(l, s)
    BY <1>1 DEF ListInv, Live
  <1>9. \A l, t : Listed(l, t)' <=> Listed(l, t) \/ (l = k /\ t = s)
    <2>1. \A l, t : Listed(l, t)' <=> Before(l, Top, t)'
      BY DEF Listed
    <2> QED
      BY <1>3, <2>1, Constants DEF Listed
  <1>10. \A t \in Streams : t # s => (Live(t)' <=> Live(t))
    BY <1>5 DEF Live
  <1>11. Live(s)'
    BY <1>5 DEF Live
  <1>12. ListInv'
    <2>1. ASSUME NEW l \in Lists, NEW n \in Nodes, Before(l, n, n)' PROVE FALSE
      <3>1. s # Top
        BY Constants
      <3> QED
        BY <1>2, <1>3, <1>8, <2>1, <3>1 DEF ListInv
    <2>2. \A l, m \in Lists, t \in Streams : Listed(l, t)' /\ Listed(m, t)' => l = m
      BY <1>8, <1>9 DEF ListInv
    <2>3. \A l \in Lists, t \in Streams : Listed(l, t)' => Live(t)' \/ stream'[t] = "returned"
      BY <1>5, <1>9, <1>10, <1>11 DEF ListInv
    <2>4. \A l \in Lists, t \in Streams : Listed(l, t)' /\ stream'[t] # "returned" => subs'[t] = l
      BY <1>1, <1>5, <1>8, <1>9 DEF ListInv, k
    <2>5. \A t \in Streams : Live(t)' \/ stream'[t] = "listed" => subs'[t] # 0
      BY <1>1, <1>2, <1>5, <1>10 DEF ListInv, k
    <2>6. \A l \in Lists, t \in Streams : Listed(l, t)' => cb_id'[t] < next_id_'[l]
      <3> SUFFICES ASSUME NEW l \in Lists, NEW t \in Streams, Listed(l, t)'
                   PROVE  cb_id'[t] < next_id_'[l]
        OBVIOUS
      <3>1. cb_id[t] \in Nat /\ next_id_[l] \in Nat
        BY DEF TypeOK
      <3>2. CASE t = s
        <4>1. l = k
          BY <1>8, <1>9, <3>2
        <4> QED
          BY <1>5, <3>2, <4>1
      <3>3. CASE t # s
        <4>1. cb_id[t] < next_id_[l]
          BY <1>9, <3>3 DEF ListInv
        <4> QED
          BY <1>5, <3>1, <3>3, <4>1
      <3> QED
        BY <3>2, <3>3
    <2>7. \A t \in Streams : Listed(k, t) => cb_id[t] # next_id_[k]
      BY <1>2, <1>5 DEF ListInv, TypeOK
    <2>8. \A l \in Lists, t, u \in Streams :
            Listed(l, t)' /\ Listed(l, u)' /\ cb_id'[t] = cb_id'[u] => t = u
      BY <1>5, <1>8, <1>9, <2>7 DEF ListInv
    <2> QED
      BY <2>1, <2>2, <2>3, <2>4, <2>5, <2>6, <2>8 DEF ListInv
  <1>13. MapInv'
    <2>1. s \notin lost' => Listed(subs_map_, s)'
      BY <1>1, <1>9
    <2> QED
      BY <1>1, <1>5, <1>9, <1>10, <2>1 DEF MapInv
  <1>14. \A x \in Walkers : Walking(x) /\ at[x][1] = k => at[x][2] # Top
    <2> SUFFICES ASSUME NEW x \in Walkers, at[x][1] = k, at[x][2] = Top PROVE FALSE
      BY DEF Walking
    <2>1. at[x] = <<k, Top>>
      BY DEF TypeOK
    <2> QED
      BY <1>1, <2>1 DEF Free
  <1>15. \A x \in Walkers, t \in Streams : Walking(x) /\ t # s =>
            (Before(at[x][1], at[x][2], t)' <=> Before(at[x][1], at[x][2], t))
    <2> SUFFICES ASSUME NEW x \in Walkers, NEW t \in Streams, Walking(x), t # s
                 PROVE  Before(at[x][1], at[x][2], t)' <=> Before(at[x][1], at[x][2], t)
      OBVIOUS
    <2>1. at[x][2] # s
      BY <1>8, Constants DEF PlaceInv
    <2>2. PICK l, n : l = at[x][1] /\ n = at[x][2] /\ l = at'[x][1] /\ n = at'[x][2]
      BY <1>1
    <2>3. Before(l, n, t)' <=> Before(l, n, t)
      BY <1>3, <2>1, <2>2
    <2> QED
      BY <2>2, <2>3
  <1>16. \A x \in Walkers : Walking(x) => ~Before(at[x][1], at[x][2], s)'
    <2> SUFFICES ASSUME NEW x \in Walkers, Walking(x), Before(at[x][1], at[x][2], s)' PROVE FALSE
      OBVIOUS
    <2>1. PICK l, n : l = at[x][1] /\ n = at[x][2] /\ l = at'[x][1] /\ n = at'[x][2]
      BY <1>1
    <2>2. Before(l, n, s)' /\ (l = k => n # Top)
      BY <1>14, <2>1
    <2>3. Before(l, n, s) \/ (l = k /\ Listed(k, s))
      BY <1>3, <2>2
    <2> QED
      BY <1>2, <1>8, <2>3, BeforeNodes
  <1>17. \A x \in Walkers : Walking(x)' <=> Walking(x)
    BY <1>1 DEF Walking
  <1>18. PlaceInv'
    <2>1. \A x \in Walkers : Walking(x)' => at'[x][1] \in Lists
                /\ (at'[x][2] = Top \/ Listed(at[x][1], at[x][2])')
      <3> SUFFICES ASSUME NEW x \in Walkers, Walking(x)
                   PROVE  at[x][1] \in Lists /\ (at[x][2] = Top \/ Listed(at[x][1], at[x][2])')
        BY <1>1, <1>17
      <3>1. PICK l, n : l = at[x][1] /\ n = at[x][2] /\ l = at'[x][1] /\ n = at'[x][2]
        BY <1>1
      <3>2. Listed(l, n) => Listed(l, n)'
        BY <1>9
      <3> QED
        BY <3>1, <3>2 DEF PlaceInv
    <2>2. \A t \in Streams : Walking(t)' =>
            /\ stream'[t] = "removing" /\ at'[t][1] = subs_map_'
            /\ t \notin lost' => Before(subs_map_, at[t][2], t)'
      <3> SUFFICES ASSUME NEW t \in Streams, Walking(t)
                   PROVE  /\ stream'[t] = "removing" /\ at[t][1] = subs_map_
                          /\ t \notin lost' => Before(subs_map_, at[t][2], t)'
        BY <1>1, <1>17, Constants
      <3>1. stream[t] = "removing" /\ at[t][1] = subs_map_ /\ t # s
            /\ (t \notin lost => Before(subs_map_, at[t][2], t))
        BY <1>1 DEF PlaceInv
      <3> QED
        BY <1>1, <1>5, <1>15, <3>1, Constants
    <2> QED
      BY <1>1, <1>17, <2>1, <2>2, Constants DEF PlaceInv
  <1>19. \A v \in Changes : ~Has(s, v)
    BY <1>1 DEF ChangeInv, Live
  <1>20. ChangeInv'
    <2>1. \A t \in Streams : since'[t] <= changes'
      BY <1>1, <1>5 DEF ChangeInv, TypeOK
    <2>2. \A p \in Publishers, t \in Streams, l \in Lists :
            change[p] # 0 /\ Has(t, change[p]) /\ Listed(l, t)' => l = list_ptr[p]
      BY <1>9, <1>19, GotFacts DEF ChangeInv
    <2> QED
      BY <1>1, <1>4, <1>5, <1>10, <1>11, <1>17, <2>1, <2>2, Constants DEF ChangeInv
  <1>21. LookupInv'
    <2>1. \A p \in Publishers : ~(change[p] > changes)
      BY DEF ChangeInv, TypeOK
    <2> QED
      BY <1>1, <1>5, <1>10, <2>1 DEF LookupInv
  <1>22. WalkInv'
    <2> SUFFICES ASSUME NEW p \in Publishers, NEW t \in Streams, Walking(p)
                 PROVE  /\ Before(at[p][1], at[p][2], t)' => ~Has(t, change[p])
                        /\ /\ Listed(at[p][1], t)' /\ ~Before(at[p][1], at[p][2], t)'
                           /\ stream'[t] = "loop" /\ since'[t] < change[p]
                           => Has(t, change[p]) \/ <<t, change[p]>> \in threw
      BY <1>1, <1>4, <1>17, Constants DEF WalkInv
    <2>1. CASE t = s
      <3>1. ~(changes < change[p])
        BY DEF ChangeInv, TypeOK
      <3> QED
        BY <1>5, <1>16, <2>1, <3>1, Constants
    <2>2. CASE t # s
      <3>1. Listed(at[p][1], t)' <=> Listed(at[p][1], t)
        <4>1. PICK l : l = at[p][1] /\ l = at'[p][1]
          BY <1>1
        <4>2. Listed(l, t)' <=> Listed(l, t)
          BY <1>9, <2>2
        <4> QED
          BY <4>1, <4>2
      <3>2. Before(at[p][1], at[p][2], t)' <=> Before(at[p][1], at[p][2], t)
        BY <1>15, <2>2, Constants
      <3> QED
        BY <1>5, <2>2, <3>1, <3>2 DEF WalkInv
    <2> QED
      BY <2>1, <2>2
  <1>23. SettledInv'
    <2>1. \A v \in Changes : ~(changes < v /\ v <= changes)
      BY Constants DEF TypeOK, Changes
    <2> QED
      BY <1>1, <1>4, <1>5, <2>1 DEF SettledInv
  <1>24. OrderInv'
    <2>1. \A t \in Streams, v, w \in Changes : Prec(t, v, w)' => NoneBefore(w, v)'
      BY <1>4 DEF OrderInv, NoneBefore
    <2>2. \A v, w : NoneBefore(w, v)' <=> NoneBefore(w, v)
      BY <1>4 DEF NoneBefore
    <2>3. ASSUME NEW q \in Publishers, NEW t \in Streams, NEW v \in Changes,
                 Walking(q)', Before(at[q][1], at[q][2], t)', Has(t, v)'
          PROVE  NoneBefore(change[q], v)'
      <3>1. Walking(q) /\ t # s /\ Before(at[q][1], at[q][2], t) /\ Has(t, v)
        BY <1>4, <1>15, <1>16, <1>17, <2>3, Constants
      <3>2. NoneBefore(change[q], v)
        BY <3>1 DEF OrderInv
      <3> QED
        BY <1>1, <1>4, <3>2 DEF NoneBefore
    <2>4. ASSUME NEW p \in Publishers, NEW q \in Publishers, Walking(p)', Walking(q)',
                 Before(at[q][1], at[q][2], at[p][2])', at'[p][1] = at'[q][1]
          PROVE  NoneBefore(change[q], change[p])'
      <3>1. PICK n : n = at[p][2] /\ n = at'[p][2]
        BY <1>1
      <3>2. Before(at[q][1], at[q][2], n)'
        BY <2>4, <3>1
      <3>3. Walking(p) /\ Walking(q) /\ at[p][1] = at[q][1]
        BY <1>1, <1>17, <2>4, Constants
      <3>4. n \in Streams \cup {Top} /\ n # s
        <4>1. p \in Walkers /\ s # Top
          BY Constants
        <4>2. n \in Streams \cup {Top}
          BY <3>1, <4>1 DEF TypeOK
        <4>3. at[p][1] \in Lists /\ (n = Top \/ Listed(at[p][1], n))
          BY <3>1, <3>3, <4>1 DEF PlaceInv
        <4> QED
          BY <1>8, <4>1, <4>2, <4>3
      <3>5. n # Top
        <4>1. PICK l, m : l = at[q][1] /\ m = at[q][2] /\ l = at'[q][1] /\ m = at'[q][2]
          BY <1>1
        <4>2. Before(l, m, n)'
          BY <3>2, <4>1
        <4>3. n \in Streams
          BY <1>3, <4>2, BeforeNodes DEF Listed
        <4> QED
          BY <4>3, Constants
      <3>6. Before(at[q][1], at[q][2], n)
        BY <1>15, <3>2, <3>3, <3>4, <3>5, Constants
      <3>7. NoneBefore(change[q], change[p])
        BY <3>1, <3>3, <3>6 DEF OrderInv
      <3> QED
        BY <1>1, <1>4, <3>7 DEF NoneBefore
    <2> QED
      BY <2>1, <2>3, <2>4 DEF OrderInv
  <1> QED
    BY <1>1, <1>5, <1>6, <1>7, <1>12, <1>13, <1>18, <1>20, <1>21, <1>22, <1>23, <1>24

\* One round of a stream's loop: a change goes from the queue to the client, or the stream
\* stops listening.
LEMMA StreamLoopStep ==
    ASSUME StreamsInv, NEW s \in Streams, StreamLoop(s)
    PROVE  StreamsInv'
  <1> USE DEF StreamsInv, mapVars, listVars, publishVars
  <1>1. /\ UNCHANGED <<subs_map_mutex_, subs_map_, lists, callbacks, next_id_, subs, cb_id,
                       cancelled, list_ptr, change, changes, at, undefined, since, lost, threw>>
        /\ stream[s] = "loop"
    BY DEF StreamLoop
  <1>2. /\ stream' = stream \/ stream' = [stream EXCEPT ![s] = "leaving"]
        /\ inbound' = inbound \/ inbound' = [inbound EXCEPT ![s] = Tail(@)]
        /\ sent' = sent \/ sent' = [sent EXCEPT ![s] = Append(@, Head(inbound[s]))]
    BY DEF StreamLoop
  <1>3. /\ \A t \in Streams : t # s =>
             stream'[t] = stream[t] /\ inbound'[t] = inbound[t] /\ sent'[t] = sent[t]
        /\ stream'[s] \in {"loop", "leaving"}
    BY <1>1, <1>2 DEF TypeOK
  <1>4. \/ inbound'[s] = inbound[s] /\ sent'[s] = sent[s]
        \/ /\ inbound[s] # <<>> /\ inbound'[s] = Tail(inbound[s])
           /\ sent'[s] = Append(sent[s], Head(inbound[s]))
        \/ /\ stream'[s] = "leaving" /\ inbound[s] # <<>>
           /\ inbound'[s] = Tail(inbound[s]) /\ sent'[s] = sent[s]
    BY <1>1 DEF StreamLoop, TypeOK
  <1>5. /\ inbound'[s] \in Seq(Changes) /\ sent'[s] \in Seq(Changes)
        /\ stream'[s] = "leaving" \/ Got(s)' = Got(s)
        /\ \A v : Has(s, v)' => Has(s, v)
        /\ \A v, w : Prec(s, v, w)' => Prec(s, v, w)
    <2>1. CASE inbound'[s] = inbound[s] /\ sent'[s] = sent[s]
      <3>1. Got(s)' = Got(s)
        BY <2>1 DEF Got
      <3> QED
        BY <2>1, <3>1, GotFacts, SameGot
    <2>2. CASE /\ inbound[s] # <<>> /\ inbound'[s] = Tail(inbound[s])
               /\ sent'[s] = Append(sent[s], Head(inbound[s]))
      <3>1. Got(s)' = Got(s) /\ inbound'[s] \in Seq(Changes) /\ sent'[s] \in Seq(Changes)
        BY <2>2, SendGot
      <3> QED
        BY <3>1, SameGot
    <2>3. CASE /\ stream'[s] = "leaving" /\ inbound[s] # <<>>
               /\ inbound'[s] = Tail(inbound[s]) /\ sent'[s] = sent[s]
      BY <2>3, DropGot, GotFacts
    <2> QED
      BY <1>4, <2>1, <2>2, <2>3
  <1>6. \A t \in Streams : t # s => Got(t)' = Got(t)
    BY <1>3 DEF Got
  <1>7. /\ \A t \in Streams : \A v : Has(t, v)' => Has(t, v)
        /\ \A t \in Streams : \A v, w : Prec(t, v, w)' => Prec(t, v, w)
        /\ \A t \in Streams : \A v : stream'[t] = "loop" /\ Has(t, v) => Has(t, v)'
    BY <1>5, <1>6, SameGot
  <1>8. /\ \A l, a, b : Before(l, a, b)' <=> Before(l, a, b)
        /\ \A l, a : Listed(l, a)' <=> Listed(l, a)
    BY <1>1, SameList
  <1>9. TypeOK'
    <2>1. stream' \in [Streams -> {"new", "refused", "listed", "loop", "leaving",
                                   "removing", "returned"}]
      BY <1>2 DEF TypeOK
    <2>2. inbound' \in [Streams -> Seq(1..MaxChanges)] /\ sent' \in [Streams -> Seq(1..MaxChanges)]
      BY <1>2, <1>5 DEF TypeOK, Changes
    <2> QED
      BY <1>1, <2>1, <2>2 DEF TypeOK
  <1>10. CountInv'
    <2>1. {t \in Streams : stream'[t] \notin {"new", "refused"}}
          = {t \in Streams : stream[t] \notin {"new", "refused"}}
      BY <1>1, <1>3
    <2> QED
      BY <1>1, <2>1 DEF CountInv
  <1>11. \A t \in Streams : (Live(t)' <=> Live(t)) /\ (stream'[t] = "loop" => stream[t] = "loop")
            /\ (stream'[t] = "returned" <=> stream[t] = "returned")
            /\ (stream'[t] = "removing" <=> stream[t] = "removing")
            /\ (stream'[t] = "listed" <=> stream[t] = "listed")
    BY <1>1, <1>3 DEF Live
  <1>12. ListInv'
    BY <1>1, <1>8, <1>11 DEF ListInv
  <1>13. MapInv'
    BY <1>1, <1>8, <1>11 DEF MapInv
  <1>14. PlaceInv'
    BY <1>1, <1>8, <1>11 DEF PlaceInv, Walking
  <1>15. ChangeInv'
    BY <1>1, <1>7, <1>8, <1>11 DEF ChangeInv, Walking
  <1>16. LookupInv'
    BY <1>1, <1>11 DEF LookupInv
  <1>17. WalkInv'
    BY <1>1, <1>7, <1>8, <1>11 DEF WalkInv, Walking
  <1>18. SettledInv'
    BY <1>1, <1>7, <1>11 DEF SettledInv
  <1>19. OrderInv'
    BY <1>1, <1>7, <1>8 DEF OrderInv, Walking, NoneBefore
  <1> QED
    BY <1>1, <1>9, <1>10, <1>12, <1>13, <1>14, <1>15, <1>16, <1>17, <1>18, <1>19

\* remove_callback takes the mutex of the map, which has a list.
LEMMA RemoveBeginStep ==
    ASSUME StreamsInv, NEW s \in Streams, RemoveLock(s), subs_map_ # 0
    PROVE  StreamsInv'
  <1> USE DEF StreamsInv, listVars, publishVars, history
  <1>1. /\ UNCHANGED <<subs_map_, lists, callbacks, next_id_, subs, cb_id, inbound, cancelled,
                       list_ptr, change, changes, at, undefined, sent, since, lost, threw>>
        /\ stream[s] = "leaving" /\ subs_map_mutex_ = {} /\ subs_map_mutex_' = {s}
        /\ stream' = [stream EXCEPT ![s] = "removing"]
    BY DEF RemoveLock
  <1>2. /\ \A l, a, b : Before(l, a, b)' <=> Before(l, a, b)
        /\ \A l, a : Listed(l, a)' <=> Listed(l, a)
        /\ \A t, v : Has(t, v)' <=> Has(t, v)
        /\ \A t, v, w : Prec(t, v, w)' <=> Prec(t, v, w)
    BY <1>1, SameAll
  <1>3. \A t \in Streams : t # s => stream'[t] = stream[t] /\ stream'[s] = "removing"
    BY <1>1 DEF TypeOK
  <1>4. stream'[s] = "removing" /\ \A t \in Streams : stream[t] # "removing"
    BY <1>1 DEF TypeOK, MapInv
  <1>5. TypeOK'
    BY <1>1 DEF TypeOK
  <1>6. CountInv'
    <2>1. {t \in Streams : stream'[t] \notin {"new", "refused"}}
          = {t \in Streams : stream[t] \notin {"new", "refused"}}
      BY <1>1, <1>3, <1>4
    <2> QED
      BY <1>1, <2>1 DEF CountInv
  <1>7. \A t \in Streams : (Live(t)' <=> Live(t)) /\ (stream'[t] = "loop" <=> stream[t] = "loop")
            /\ (stream'[t] = "returned" <=> stream[t] = "returned")
            /\ (stream'[t] = "removing" <=> t = s)
            /\ (stream'[t] = "listed" <=> stream[t] = "listed")
    BY <1>1, <1>3, <1>4 DEF Live
  <1>8. ListInv'
    BY <1>1, <1>2, <1>7 DEF ListInv
  <1>9. MapInv'
    BY <1>1, <1>2, <1>7 DEF MapInv
  <1>10. PlaceInv'
    <2>1. \A t \in Streams : ~Walking(t)
      BY <1>4 DEF PlaceInv
    <2> QED
      BY <1>1, <1>2, <2>1 DEF PlaceInv, Walking
  <1>11. ChangeInv' /\ LookupInv'
    BY <1>1, <1>2, <1>7 DEF ChangeInv, LookupInv, Walking
  <1>12. WalkInv' /\ SettledInv'
    BY <1>1, <1>2, <1>7 DEF WalkInv, SettledInv, Walking
  <1>13. OrderInv'
    BY <1>1, <1>2 DEF OrderInv, Walking, NoneBefore
  <1> QED
    BY <1>1, <1>5, <1>6, <1>8, <1>9, <1>10, <1>11, <1>12, <1>13

\* A walker that moves takes a node nobody is at.
LEMMA MovePlace ==
    ASSUME TypeOK, NEW x \in Walkers, NEW l \in Lists, NEW n, n = Top \/ Listed(l, n), Free(l, n),
           at' = [at EXCEPT ![x] = <<l, n>>]
    PROVE  /\ at' \in [Walkers -> (Lists \cup {0}) \X Nodes] /\ at'[x] = <<l, n>>
           /\ Walking(x)' /\ \A y \in Walkers : y # x => (Walking(y)' <=> Walking(y))
           /\ \A y \in Walkers : y # x => at'[y] = at[y] /\ at[y] # <<l, n>>
  <1>1. n \in Nodes
    BY BeforeNodes, Constants DEF Listed
  <1>2. \A y \in Walkers : at[y] \in (Lists \cup {0}) \X Nodes
    <2>1. 0..lists \subseteq Lists \cup {0}
      BY Constants DEF TypeOK
    <2> QED
      BY <2>1, Constants DEF TypeOK
  <1>3. at' \in [Walkers -> (Lists \cup {0}) \X Nodes] /\ at'[x] = <<l, n>>
        /\ \A y \in Walkers : y # x => at'[y] = at[y]
    BY <1>1, <1>2 DEF TypeOK
  <1>4. <<l, n>> # Nowhere
    BY Constants DEF Nowhere
  <1> QED
    BY <1>3, <1>4 DEF Walking, Free

\* remove_first_if takes the head, or goes on to a node with another id: a stream that is not
\* lost keeps its own node in front of it.
LEMMA RemoveWalkStep ==
    ASSUME StreamsInv, NEW s \in Streams, RemoveWalk(s)
    PROVE  StreamsInv'
  <1> USE DEF StreamsInv, mapVars, listVars, frameVars, publishVars, history
  <1>1. /\ UNCHANGED <<subs_map_mutex_, subs_map_, lists, callbacks, next_id_, stream, subs, cb_id,
                       inbound, cancelled, list_ptr, change, changes, undefined, sent, since,
                       lost, threw>>
        /\ stream[s] = "removing"
    BY DEF RemoveWalk
  <1>2. subs_map_ \in Lists /\ subs_map_ \in 0..lists
    <2>1. subs_map_ # 0 /\ subs_map_ \in 0..lists /\ lists \in 0..Cardinality(Streams)
      BY <1>1 DEF MapInv, TypeOK
    <2> QED
      BY <2>1, Constants
  <1>3. s \notin lost => Listed(subs_map_, s)
    BY <1>1 DEF MapInv, Live
  <1>4. s \in Walkers
    BY Constants
  <1>5. PICK n : /\ n = Top \/ Listed(subs_map_, n)
                 /\ Free(subs_map_, n)
                 /\ at' = [at EXCEPT ![s] = <<subs_map_, n>>]
                 /\ s \notin lost => Before(subs_map_, n, s)
    <2>1. CASE LockHead(s, subs_map_)
      BY <1>3, <2>1 DEF LockHead, Listed
    <2>2. ASSUME NEW n \in Streams, cb_id[n] # cb_id[s], LockNext(s, n)
          PROVE  /\ Listed(subs_map_, n) /\ Free(subs_map_, n)
                 /\ at' = [at EXCEPT ![s] = <<subs_map_, n>>]
                 /\ s \notin lost => Before(subs_map_, n, s)
      <3>1. Follows(n, s) /\ Free(at[s][1], n) /\ at' = [at EXCEPT ![s] = <<at[s][1], n>>]
        BY <2>2 DEF LockNext
      <3>2. /\ at[s] = <<at[s][1], at[s][2]>> /\ Walking(s) /\ Listed(at[s][1], n)
            /\ \A b : Before(at[s][1], at[s][2], b) => b = n \/ Before(at[s][1], n, b)
        BY <1>4, <3>1, FollowsOrder
      <3>3. at[s][1] = subs_map_ /\ (s \notin lost => Before(subs_map_, at[s][2], s))
        BY <3>2 DEF PlaceInv
      <3>4. s # n
        BY <2>2
      <3> QED
        BY <3>1, <3>2, <3>3, <3>4
    <2> QED
      BY <2>1, <2>2 DEF RemoveWalk
  <1>6. /\ at' \in [Walkers -> (Lists \cup {0}) \X Nodes] /\ at'[s] = <<subs_map_, n>>
        /\ Walking(s)' /\ \A y \in Walkers : y # s => (Walking(y)' <=> Walking(y))
        /\ \A y \in Walkers : y # s => at'[y] = at[y] /\ at[y] # <<subs_map_, n>>
    BY <1>2, <1>4, <1>5, MovePlace
  <1>7. /\ \A l, a, b : Before(l, a, b)' <=> Before(l, a, b)
        /\ \A l, a : Listed(l, a)' <=> Listed(l, a)
        /\ \A t, v : Has(t, v)' <=> Has(t, v)
        /\ \A t, v, w : Prec(t, v, w)' <=> Prec(t, v, w)
    BY <1>1, SameAll
  <1>8. \A t \in Streams : Live(t)' <=> Live(t)
    BY <1>1 DEF Live
  <1>9. TypeOK'
    <2>1. n \in Streams \cup {Top}
      BY <1>5, BeforeNodes DEF Listed
    <2>2. at' \in [Walkers -> (0..lists) \X (Streams \cup {Top})]
      BY <1>2, <1>5, <2>1 DEF TypeOK
    <2> QED
      BY <1>1, <2>2 DEF TypeOK
  <1>10. CountInv' /\ ListInv' /\ MapInv'
    BY <1>1, <1>7, <1>8 DEF CountInv, ListInv, MapInv
  <1>11. PlaceInv'
    <2>1. \A x \in Walkers : Walking(x)' =>
            at'[x][1] \in Lists /\ (at'[x][2] = Top \/ Listed(at[x][1], at[x][2])')
      <3> SUFFICES ASSUME NEW x \in Walkers, Walking(x)'
                   PROVE  at'[x][1] \in Lists
                          /\ (at'[x][2] = Top \/ Listed(at[x][1], at[x][2])')
        OBVIOUS
      <3>1. PICK l, m : l = at'[x][1] /\ m = at'[x][2]
        OBVIOUS
      <3>2. l \in Lists /\ (m = Top \/ Listed(l, m))
        BY <1>2, <1>5, <1>6, <3>1 DEF PlaceInv
      <3>3. Listed(l, m) => Listed(l, m)'
        BY <1>7
      <3> QED
        BY <3>1, <3>2, <3>3
    <2>2. \A x, y \in Walkers : Walking(x)' /\ at'[x] = at'[y] => x = y
      BY <1>6 DEF PlaceInv
    <2>3. \A t \in Streams : Walking(t)' =>
            /\ stream'[t] = "removing" /\ at'[t][1] = subs_map_'
            /\ t \notin lost' => Before(subs_map_, at[t][2], t)'
      BY <1>1, <1>4, <1>5, <1>6, <1>7, Constants DEF PlaceInv
    <2>4. \A p \in Publishers : Walking(p)' => change'[p] # 0 /\ at'[p][1] = list_ptr'[p]
      BY <1>1, <1>6, Constants DEF PlaceInv
    <2>5. \A p \in Publishers : change'[p] # 0 => list_ptr'[p] # 0
      BY <1>1 DEF PlaceInv
    <2> QED
      BY <2>1, <2>2, <2>3, <2>4, <2>5 DEF PlaceInv
  <1>12. \A p \in Publishers : at'[p] = at[p] /\ (Walking(p)' <=> Walking(p))
    BY <1>6, Constants
  <1>13. ChangeInv' /\ LookupInv'
    BY <1>1, <1>7, <1>8, <1>12 DEF ChangeInv, LookupInv
  <1>14. WalkInv' /\ SettledInv'
    BY <1>1, <1>7, <1>12 DEF WalkInv, SettledInv
  <1>15. OrderInv'
    BY <1>1, <1>7, <1>12 DEF OrderInv, NoneBefore
  <1> QED
    BY <1>1, <1>9, <1>10, <1>11, <1>13, <1>14, <1>15

\* The lists after a step: one without streams is empty.
LEMMA EmptyListNext ==
    ASSUME callbacks' \in [Lists -> Seq(Streams)], NEW l \in Lists
    PROVE  callbacks'[l] = <<>> <=> \A s \in Streams : ~Listed(l, s)'
  <1> DEFINE c == callbacks'[l]
  <1>1. c \in Seq(Streams)
    OBVIOUS
  <1>2. Len(c) \in Nat /\ \A i \in 1..Len(c) : c[i] \in Streams
    BY <1>1, LenProperties
  <1>3. ASSUME c # <<>> PROVE \E s \in Streams : Listed(l, s)'
    <2>1. Len(c) # 0
      BY <1>1, <1>3, EmptySeq
    <2>2. 0 \in 0..Len(c) /\ 1 \in 0..Len(c) /\ c[1] \in Streams /\ 0 < 1
      BY <1>2, <2>1
    <2>3. PICK s : s = c[1]
      OBVIOUS
    <2>4. NodeAt(l, 0)' = Top /\ NodeAt(l, 1)' = s
      BY <2>3 DEF NodeAt
    <2>5. Before(l, Top, s)'
      BY <2>2, <2>4 DEF Before
    <2> QED
      BY <2>2, <2>3, <2>5 DEF Listed
  <1>4. ASSUME c = <<>>, NEW s \in Streams, Listed(l, s)' PROVE FALSE
    <2>1. Len(c) = 0
      BY <1>4
    <2>2. \A i, j \in 0..Len(c) : ~(i < j)
      BY <2>1
    <2> QED
      BY <1>4, <2>2 DEF Listed, Before
  <1> QED
    BY <1>3, <1>4

\* When a list is destroyed with a node in it, the node's stream has let go of the list: it
\* has returned, and was lost.
LEMMA ReleaseLost ==
    ASSUME TypeOK', ListInv', MapInv', NEW l, l \in 0..lists', Release(l)
    PROVE  undefined' => lost' # {}
  <1> SUFFICES ASSUME undefined' PROVE lost' # {}
    OBVIOUS
  <1>1. l # 0 /\ callbacks'[l] # <<>> /\ l \notin Range(subs')
    BY DEF Release
  <1>2. l \in Lists /\ callbacks' \in [Lists -> Seq(Streams)]
    BY <1>1, Constants DEF TypeOK
  <1>3. PICK s \in Streams : Listed(l, s)'
    BY <1>1, <1>2, EmptyListNext
  <1>4. subs'[s] # l
    BY <1>1 DEF Range, TypeOK
  <1>5. stream'[s] = "returned"
    BY <1>2, <1>3, <1>4 DEF ListInv
  <1> QED
    BY <1>2, <1>3, <1>5 DEF MapInv

\* Subscribe returns.  Nobody's node goes but that of the stream, or of one that is lost by
\* it, and no walker is at it.
LEMMA ReturnStep ==
    ASSUME StreamsInv, NEW s \in Streams, stream[s] \in {"leaving", "removing"},
           subs_map_mutex_ \subseteq {s},
           Return(s),
           subs_map_' \in {0, subs_map_},
           callbacks' \in [Lists -> Seq(Streams)],
           lost \subseteq lost', lost' \subseteq Streams,
           \A m, a, b : Before(m, a, b)' => Before(m, a, b),
           \A m, a, b : Before(m, a, b) /\ (a = Top \/ Listed(m, a)') /\ Listed(m, b)'
                            => Before(m, a, b)',
           \A m : \A t \in Streams : Listed(m, t) /\ ~Listed(m, t)' =>
                (t = s \/ t \in lost') /\ \A x \in Walkers : at[x] # <<m, t>>,
           \A m : Listed(m, s)' => s \in lost',
           \A m : m = subs_map_ /\ m # subs_map_' => \A t \in Streams : ~Listed(m, t)'
    PROVE  StreamsInv'
  <1> USE DEF StreamsInv, publishVars
  <1>1. /\ UNCHANGED <<lists, next_id_, cb_id, cancelled, list_ptr, change, changes, sent, since,
                       threw>>
        /\ stream' = [stream EXCEPT ![s] = "returned"]
        /\ subs' = [subs EXCEPT ![s] = 0]
        /\ inbound' = [inbound EXCEPT ![s] = <<>>]
        /\ at' = [at EXCEPT ![s] = Nowhere]
        /\ subs_map_mutex_' = {}
        /\ Release(subs[s])
    BY DEF Return
  <1>2. s \in Walkers /\ Publishers \subseteq Walkers /\ Streams \subseteq Walkers
        /\ \A p \in Publishers : p # s
    BY Constants
  <1>3. /\ stream'[s] = "returned" /\ subs'[s] = 0 /\ inbound'[s] = <<>> /\ at'[s] = Nowhere
        /\ \A t \in Streams : t # s =>
             stream'[t] = stream[t] /\ subs'[t] = subs[t] /\ inbound'[t] = inbound[t]
        /\ \A x \in Walkers : x # s => at'[x] = at[x]
    BY <1>1, <1>2 DEF TypeOK
  <1>4. \A t \in Streams : t # s => stream[t] # "removing"
    BY DEF MapInv
  <1>5. /\ inbound'[s] \in Seq(Changes)
        /\ \A v : Has(s, v)' => Has(s, v)
        /\ \A v, w : Prec(s, v, w)' => Prec(s, v, w)
    BY <1>1, <1>3, DropGot
  <1>6. \A t \in Streams : t # s => Got(t)' = Got(t)
    BY <1>1, <1>3 DEF Got
  <1>7. /\ \A t \in Streams : \A v : Has(t, v)' => Has(t, v)
        /\ \A t \in Streams : \A v, w : Prec(t, v, w)' => Prec(t, v, w)
        /\ \A t \in Streams : \A v : t # s /\ Has(t, v) => Has(t, v)'
    BY <1>5, <1>6, SameGot
  <1>8. \A m, t : Listed(m, t)' => Listed(m, t)
    BY DEF Listed
  <1>9. TypeOK'
    <2>1. undefined' \in BOOLEAN
      BY <1>1 DEF Release
    <2>2. stream' \in [Streams -> {"new", "refused", "listed", "loop", "leaving",
                                   "removing", "returned"}]
      BY <1>1 DEF TypeOK
    <2>3. 0 \in 0..lists /\ Nowhere \in (0..lists) \X (Streams \cup {Top})
      BY Constants DEF TypeOK, Nowhere
    <2>4. subs' \in [Streams -> 0..lists] /\ at' \in [Walkers -> (0..lists) \X (Streams \cup {Top})]
      BY <1>1, <2>3 DEF TypeOK
    <2>5. inbound' \in [Streams -> Seq(1..MaxChanges)]
      BY <1>1, <1>5 DEF TypeOK, Changes
    <2>6. subs_map_' \in 0..lists' /\ subs_map_mutex_' \subseteq Streams
      BY <1>1, <2>3 DEF TypeOK
    <2> QED
      BY <1>1, <2>1, <2>2, <2>4, <2>5, <2>6 DEF TypeOK
  <1>10. CountInv'
    <2>1. {t \in Streams : stream'[t] \notin {"new", "refused"}}
          = {t \in Streams : stream[t] \notin {"new", "refused"}}
      BY <1>3
    <2> QED
      BY <1>1, <2>1 DEF CountInv
  <1>11. ~Live(s)' /\ \A t \in Streams : t # s => (Live(t)' <=> Live(t))
    BY <1>3 DEF Live
  <1>12. ListInv'
    <2>1. \A l \in Lists, n \in Nodes : ~Before(l, n, n)'
      BY DEF ListInv
    <2>2. \A l \in Lists, t \in Streams : Listed(l, t)' => Live(t)' \/ stream'[t] = "returned"
      BY <1>3, <1>8, <1>11 DEF ListInv
    <2>3. \A l \in Lists, t \in Streams : Listed(l, t)' /\ stream'[t] # "returned" => subs'[t] = l
      BY <1>3, <1>8 DEF ListInv
    <2>4. \A t \in Streams : Live(t)' \/ stream'[t] = "listed" => subs'[t] # 0
      BY <1>3, <1>11 DEF ListInv
    <2> QED
      BY <1>1, <1>8, <2>1, <2>2, <2>3, <2>4 DEF ListInv
  <1>13. MapInv'
    <2>1. \A t \in Streams : stream'[t] # "removing"
      BY <1>3, <1>4
    <2>2. \A t \in Streams \ lost' : Live(t)' => Listed(subs_map_, t)'
      <3> SUFFICES ASSUME NEW t \in Streams \ lost', Live(t)' PROVE Listed(subs_map_, t)'
        OBVIOUS
      <3>1. t # s /\ Live(t) /\ Listed(subs_map_, t)
        BY <1>11 DEF MapInv
      <3>2. PICK m : m = subs_map_
        OBVIOUS
      <3>3. Listed(m, t)'
        BY <3>1, <3>2
      <3>4. subs_map_' = m
        BY <3>2, <3>3
      <3> QED
        BY <3>2, <3>3, <3>4
    <2>3. \A l \in Lists, t \in Streams : Listed(l, t)' /\ stream'[t] = "returned" => t \in lost'
      BY <1>3, <1>8 DEF MapInv
    <2> QED
      BY <1>1, <2>1, <2>2, <2>3 DEF MapInv
  <1>14. ~Walking(s)' /\ \A x \in Walkers : x # s => (Walking(x)' <=> Walking(x))
    BY <1>3 DEF Walking
  <1>15. \A t \in Streams : ~Walking(t)'
    <2>1. \A t \in Streams : t # s => ~Walking(t)
      BY <1>4 DEF PlaceInv
    <2> QED
      BY <1>2, <1>14, <2>1
  <1>16. \A x \in Walkers : Walking(x)' =>
            at'[x] = at[x] /\ Walking(x) /\ x \in Publishers /\ at[x][1] \in Lists
            /\ (at[x][2] = Top \/ Listed(at[x][1], at[x][2]))
    BY <1>3, <1>14, <1>15, Constants DEF PlaceInv
  <1>17. \A x \in Walkers : Walking(x)' => at'[x][2] = Top \/ Listed(at[x][1], at[x][2])'
    <2> SUFFICES ASSUME NEW x \in Walkers, Walking(x)', at'[x][2] # Top
                 PROVE  Listed(at[x][1], at[x][2])'
      OBVIOUS
    <2>1. PICK m, n : at[x] = <<m, n>> /\ n \in Streams \cup {Top}
      BY DEF TypeOK
    <2>2. at'[x] = <<m, n>> /\ Listed(m, n) /\ n \in Streams
      BY <1>16, <2>1
    <2>3. Listed(m, n)'
      BY <2>1, <2>2
    <2> QED
      BY <2>2, <2>3
  <1>18. PlaceInv'
    <2>1. \A x, y \in Walkers : Walking(x)' /\ at'[x] = at'[y] => x = y
      BY <1>3, <1>14, <1>16 DEF PlaceInv, Walking
    <2>2. \A p \in Publishers : Walking(p)' => change'[p] # 0 /\ at'[p][1] = list_ptr'[p]
      BY <1>1, <1>2, <1>16 DEF PlaceInv
    <2>3. \A p \in Publishers : change'[p] # 0 => list_ptr'[p] # 0
      BY <1>1 DEF PlaceInv
    <2> QED
      BY <1>15, <1>16, <1>17, <2>1, <2>2, <2>3 DEF PlaceInv
  <1>19. ChangeInv'
    <2>1. \A t \in Streams, v \in Changes : Has(t, v)' => Live(t)' \/ stream'[t] = "returned"
      BY <1>3, <1>7, <1>11 DEF ChangeInv
    <2> QED
      BY <1>1, <1>2, <1>7, <1>8, <1>14, <2>1 DEF ChangeInv
  <1>20. LookupInv'
    <2>1. \A t \in Streams \ lost' : Live(t)' => subs_map_' = subs_map_
      <3> SUFFICES ASSUME NEW t \in Streams \ lost', Live(t)' PROVE subs_map_' = subs_map_
        OBVIOUS
      <3>1. PICK k : k = subs_map_'
        OBVIOUS
      <3>2. Listed(k, t)'
        BY <1>13, <3>1 DEF MapInv
      <3>3. k \in Lists
        BY <3>2 DEF Listed, Before
      <3> QED
        BY <3>1, <3>3, Constants
    <2> QED
      BY <1>1, <1>11, <2>1 DEF LookupInv
  <1>21. WalkInv'
    <2> SUFFICES ASSUME NEW p \in Publishers, NEW t \in Streams, Walking(p)'
                 PROVE  /\ Before(at[p][1], at[p][2], t)' => ~Has(t, change[p])'
                        /\ /\ Listed(at[p][1], t)' /\ ~Before(at[p][1], at[p][2], t)'
                           /\ stream'[t] = "loop" /\ since'[t] < change'[p]
                           => Has(t, change[p])' \/ <<t, change'[p]>> \in threw'
      BY DEF WalkInv
    <2>1. PICK m, n, v : m = at[p][1] /\ n = at[p][2] /\ v = change[p]
      OBVIOUS
    <2>2. m = at'[p][1] /\ n = at'[p][2] /\ v = change'[p] /\ Walking(p)
          /\ (n = Top \/ Listed(m, n)')
      BY <1>1, <1>2, <1>16, <1>17, <2>1
    <2>3. Before(m, n, t)' => ~Has(t, v)'
      <3>1. Before(m, n, t)' => Before(m, n, t)
        OBVIOUS
      <3>2. Before(m, n, t) => ~Has(t, v)
        BY <2>1, <2>2 DEF WalkInv
      <3> QED
        BY <1>7, <3>1, <3>2
    <2>4. ASSUME Listed(m, t)', ~Before(m, n, t)', stream'[t] = "loop", since[t] < v
          PROVE  Has(t, v)' \/ <<t, v>> \in threw
      <3>1. t # s /\ stream[t] = "loop" /\ Listed(m, t)
        BY <1>3, <1>8, <2>4
      <3>2. ~Before(m, n, t)
        BY <2>2, <2>4
      <3>3. Has(t, v) \/ <<t, v>> \in threw
        BY <2>1, <2>2, <2>4, <3>1, <3>2 DEF WalkInv
      <3> QED
        BY <1>7, <3>1, <3>3
    <2> QED
      BY <1>1, <2>2, <2>3, <2>4
  <1>22. SettledInv'
    BY <1>1, <1>3, <1>7 DEF SettledInv
  <1>23. OrderInv'
    <2>1. \A v, w : NoneBefore(v, w) => NoneBefore(v, w)'
      BY <1>7 DEF NoneBefore
    <2>2. \A t \in Streams, v, w \in Changes : Prec(t, v, w)' => NoneBefore(w, v)'
      BY <1>7, <2>1 DEF OrderInv
    <2>3. ASSUME NEW q \in Publishers, NEW t \in Streams, NEW v \in Changes,
                 Walking(q)', Before(at[q][1], at[q][2], t)', Has(t, v)'
          PROVE  NoneBefore(change[q], v)'
      <3>1. PICK m, n, w : m = at[q][1] /\ n = at[q][2] /\ w = change[q]
        OBVIOUS
      <3>2. m = at'[q][1] /\ n = at'[q][2] /\ w = change'[q] /\ Walking(q)
        BY <1>1, <1>2, <1>16, <2>3, <3>1
      <3>3. Before(m, n, t) /\ Has(t, v)
        BY <1>7, <2>3, <3>2
      <3>4. NoneBefore(w, v)
        BY <3>1, <3>2, <3>3 DEF OrderInv
      <3> QED
        BY <2>1, <3>2, <3>4
    <2>4. ASSUME NEW p \in Publishers, NEW q \in Publishers, Walking(p)', Walking(q)',
                 Before(at[q][1], at[q][2], at[p][2])', at'[p][1] = at'[q][1]
          PROVE  NoneBefore(change[q], change[p])'
      <3>1. PICK m, n, w, k, v : /\ m = at[q][1] /\ n = at[q][2] /\ w = change[q]
                                 /\ k = at[p][2] /\ v = change[p]
        OBVIOUS
      <3>2. /\ m = at'[q][1] /\ n = at'[q][2] /\ w = change'[q] /\ Walking(q)
            /\ k = at'[p][2] /\ v = change'[p] /\ Walking(p) /\ at[p][1] = at[q][1]
        BY <1>1, <1>2, <1>16, <2>4, <3>1
      <3>3. Before(m, n, k)
        BY <2>4, <3>2
      <3>4. NoneBefore(w, v)
        BY <3>1, <3>2, <3>3 DEF OrderInv
      <3> QED
        BY <2>1, <3>2, <3>4
    <2> QED
      BY <2>2, <2>3, <2>4 DEF OrderInv
  <1>24. undefined' => lost' # {}
    <2>1. subs[s] \in 0..lists'
      BY <1>1 DEF TypeOK
    <2> QED
      BY <1>1, <1>9, <1>12, <1>13, <2>1, ReleaseLost
  <1> QED
    BY <1>9, <1>10, <1>12, <1>13, <1>18, <1>19, <1>20, <1>21, <1>22, <1>23, <1>24

\* A stream that finds no list in the map was lost, and returns.
LEMMA RemoveNoneStep ==
    ASSUME StreamsInv, NEW s \in Streams, RemoveLock(s), subs_map_ = 0
    PROVE  StreamsInv'
  <1> USE DEF StreamsInv
  <1>1. /\ stream[s] = "leaving" /\ subs_map_mutex_ = {} /\ Return(s)
        /\ UNCHANGED <<subs_map_, callbacks, lost>>
    BY DEF RemoveLock
  <1>2. s \in lost
    <2>1. ~Listed(subs_map_, s)
      BY Constants DEF Listed, Before
    <2> QED
      BY <1>1, <2>1 DEF MapInv, Live
  <1>3. /\ \A l, a, b : Before(l, a, b)' <=> Before(l, a, b)
        /\ \A l, a : Listed(l, a)' <=> Listed(l, a)
    BY <1>1, SameList
  <1>4. callbacks' \in [Lists -> Seq(Streams)] /\ lost' \subseteq Streams
    BY <1>1 DEF TypeOK
  <1> QED
    BY <1>1, <1>2, <1>3, <1>4, ReturnStep

\* remove_callback has gone through the list in vain: the stream was lost.
LEMMA RemoveNothingStep ==
    ASSUME StreamsInv, NEW s \in Streams, RemoveNothing(s)
    PROVE  StreamsInv'
  <1> USE DEF StreamsInv
  <1>1. /\ stream[s] = "removing" /\ at[s] # Nowhere /\ \A n \in Streams : ~Follows(n, s)
        /\ Return(s) /\ UNCHANGED <<callbacks, lost>> /\ EraseIfEmpty
    BY DEF RemoveNothing
  <1>2. s \in Walkers
    BY Constants
  <1>3. s \in lost
    <2>1. ~Before(at[s][1], at[s][2], s)
      BY <1>1, <1>2, LastOrder
    <2>2. at[s][1] = subs_map_ /\ (s \notin lost => Before(subs_map_, at[s][2], s))
      BY <1>1 DEF PlaceInv, Walking
    <2> QED
      BY <2>1, <2>2
  <1>4. /\ \A l, a, b : Before(l, a, b)' <=> Before(l, a, b)
        /\ \A l, a : Listed(l, a)' <=> Listed(l, a)
    BY <1>1, SameList
  <1>5. callbacks' \in [Lists -> Seq(Streams)] /\ lost' \subseteq Streams
    BY <1>1 DEF TypeOK
  <1>6. subs_map_mutex_ \subseteq {s} /\ subs_map_ \in Lists
    BY <1>1, Constants DEF MapInv, TypeOK
  <1>7. subs_map_' \in {0, subs_map_}
        /\ \A m : m = subs_map_ /\ m # subs_map_' => \A t \in Streams : ~Listed(m, t)'
    BY <1>1, <1>5, <1>6, EmptyListNext DEF EraseIfEmpty
  <1> QED
    BY <1>1, <1>3, <1>4, <1>5, <1>6, <1>7, ReturnStep

\* remove_callback unlinks the node with its id: its own, unless it was lost.
LEMMA RemoveFoundStep ==
    ASSUME StreamsInv, NEW s \in Streams, RemoveFound(s)
    PROVE  StreamsInv'
  <1> USE DEF StreamsInv
  <1>1. /\ stream[s] = "removing" /\ Return(s) /\ EraseIfEmpty
        /\ \E n \in Streams :
             /\ Follows(n, s) /\ cb_id[n] = cb_id[s] /\ Free(subs_map_, n)
             /\ callbacks' = [callbacks EXCEPT ![subs_map_] = RemoveFirst(@, n)]
             /\ lost' = IF n = s THEN lost ELSE lost \cup {n}
    BY DEF RemoveFound
  <1>2. PICK n \in Streams :
             /\ Follows(n, s) /\ cb_id[n] = cb_id[s] /\ Free(subs_map_, n)
             /\ callbacks' = [callbacks EXCEPT ![subs_map_] = RemoveFirst(@, n)]
             /\ lost' = IF n = s THEN lost ELSE lost \cup {n}
    BY <1>1
  <1>3. PICK k : k = subs_map_
    OBVIOUS
  <1>4. s \in Walkers
    BY Constants
  <1>5. Walking(s) /\ Listed(at[s][1], n)
    BY <1>2, <1>4, FollowsOrder
  <1>6. Listed(k, n) /\ k \in Lists
    <2>1. at[s][1] = k
      BY <1>3, <1>5 DEF PlaceInv
    <2> QED
      BY <1>5, <2>1, BeforeNodes DEF Listed
  <1>7. /\ callbacks' \in [Lists -> Seq(Streams)]
        /\ \A m, a, b : Before(m, a, b)' <=> Before(m, a, b) /\ (m = k => a # n /\ b # n)
    BY <1>2, <1>3, <1>6, RemoveOrder
  <1>8. n # Top
    BY Constants
  <1>9. \A m, t : Listed(m, t)' <=> Listed(m, t) /\ (m = k => t # n)
    <2>1. \A m, t : Listed(m, t)' <=> Before(m, Top, t)'
      BY DEF Listed
    <2> QED
      BY <1>7, <1>8, <2>1 DEF Listed
  <1>10. n = s \/ s \in lost
    <2>1. s \notin lost => Listed(k, s)
      BY <1>1, <1>3 DEF MapInv, Live
    <2> QED
      BY <1>2, <1>6, <2>1 DEF ListInv
  <1>11. lost \subseteq lost' /\ lost' \subseteq Streams /\ (n = s \/ n \in lost')
    BY <1>2 DEF TypeOK
  <1>12. \A m : Listed(m, s)' => s \in lost'
    <2> SUFFICES ASSUME NEW m, Listed(m, s)', n = s PROVE FALSE
      BY <1>10, <1>11
    <2>1. Listed(m, s) /\ m # k /\ m \in Lists
      BY <1>9, BeforeNodes DEF Listed
    <2> QED
      BY <1>6, <2>1 DEF ListInv
  <1>13. subs_map_mutex_ \subseteq {s}
    BY <1>1 DEF MapInv
  <1>14. subs_map_' \in {0, subs_map_}
         /\ \A m : m = subs_map_ /\ m # subs_map_' => \A t \in Streams : ~Listed(m, t)'
    BY <1>1, <1>3, <1>6, <1>7, EmptyListNext DEF EraseIfEmpty
  <1>15. \A m : \A t \in Streams : Listed(m, t) /\ ~Listed(m, t)' =>
            (t = s \/ t \in lost') /\ \A x \in Walkers : at[x] # <<m, t>>
    BY <1>2, <1>3, <1>9, <1>11 DEF Free
  <1>16. /\ \A m, a, b : Before(m, a, b)' => Before(m, a, b)
         /\ \A m, a, b : Before(m, a, b) /\ (a = Top \/ Listed(m, a)') /\ Listed(m, b)'
                            => Before(m, a, b)'
    BY <1>7, <1>8, <1>9
  <1> QED
    BY <1>1, <1>7, <1>11, <1>12, <1>13, <1>14, <1>15, <1>16, ReturnStep

\* publish_change looks the list up: a new change, which nobody has.
LEMMA PublishLookupStep ==
    ASSUME StreamsInv, NEW p \in Publishers, PublishLookup(p)
    PROVE  StreamsInv'
  <1> USE DEF StreamsInv, mapVars, listVars, frameVars, history
  <1> DEFINE c == IF subs_map_ = 0 THEN 0 ELSE changes + 1
  <1>1. /\ UNCHANGED <<subs_map_mutex_, subs_map_, lists, callbacks, next_id_, stream, subs, cb_id,
                       inbound, cancelled, at, undefined, sent, since, lost, threw>>
        /\ change[p] = 0 /\ changes < MaxChanges /\ changes' = changes + 1
        /\ list_ptr' = [list_ptr EXCEPT ![p] = subs_map_]
        /\ change' = [change EXCEPT ![p] = c]
    BY DEF PublishLookup
  <1>2. /\ \A l, a, b : Before(l, a, b)' <=> Before(l, a, b)
        /\ \A l, a : Listed(l, a)' <=> Listed(l, a)
        /\ \A t, v : Has(t, v)' <=> Has(t, v)
        /\ \A t, v, w : Prec(t, v, w)' <=> Prec(t, v, w)
    BY <1>1, SameAll
  <1>3. changes \in Nat /\ changes + 1 \in Changes /\ c \in 0..MaxChanges
    BY <1>1, Constants DEF TypeOK, Changes
  <1>4. /\ change'[p] = c /\ list_ptr'[p] = subs_map_
        /\ \A q \in Publishers : q # p => change'[q] = change[q] /\ list_ptr'[q] = list_ptr[q]
    BY <1>1 DEF TypeOK
  <1>5. TypeOK'
    <2>1. change' \in [Publishers -> 0..MaxChanges] /\ list_ptr' \in [Publishers -> 0..lists]
      BY <1>1, <1>3 DEF TypeOK
    <2>2. changes' \in 0..MaxChanges
      BY <1>1, <1>3 DEF Changes
    <2> QED
      BY <1>1, <2>1, <2>2 DEF TypeOK
  <1>6. \A t \in Streams : Live(t)' <=> Live(t)
    BY <1>1 DEF Live
  <1>7. CountInv' /\ ListInv' /\ MapInv'
    BY <1>1, <1>2, <1>6 DEF CountInv, ListInv, MapInv
  <1>8. \A x \in Walkers : Walking(x)' <=> Walking(x)
    BY <1>1 DEF Walking
  <1>9. ~Walking(p)
    BY <1>1 DEF PlaceInv
  <1>10. \A q \in Publishers : Walking(q) => q # p /\ change'[q] = change[q]
    BY <1>4, <1>9
  <1>11. PlaceInv'
    <2>1. \A q \in Publishers : Walking(q)' => change'[q] # 0 /\ at'[q][1] = list_ptr'[q]
      BY <1>1, <1>4, <1>8, <1>9, Constants DEF PlaceInv
    <2>2. \A q \in Publishers : change'[q] # 0 => list_ptr'[q] # 0
      BY <1>4 DEF PlaceInv
    <2> QED
      BY <1>1, <1>2, <1>8, <2>1, <2>2, Constants DEF PlaceInv
  <1>12. \A t \in Streams : ~Has(t, changes + 1)
    BY <1>3 DEF ChangeInv
  <1>13. \A q \in Publishers : change[q] \in Nat /\ change[q] <= changes
    BY DEF ChangeInv, TypeOK
  <1>14. ChangeInv'
    <2>1. \A q \in Publishers : change'[q] <= changes'
      BY <1>1, <1>3, <1>4, <1>13
    <2>2. \A q, r \in Publishers : change'[q] # 0 /\ change'[q] = change'[r] => q = r
      <3>1. \A q \in Publishers : q # p => change[q] # changes + 1
        BY <1>3, <1>13
      <3> QED
        BY <1>4, <3>1 DEF ChangeInv
    <2>3. \A t \in Streams, v \in Changes : Has(t, v)' => v <= changes'
      BY <1>1, <1>2, <1>3 DEF ChangeInv, Changes
    <2>4. \A t \in Streams : since'[t] <= changes'
      BY <1>1, <1>3 DEF ChangeInv, TypeOK
    <2>5. \A q \in Publishers, t \in Streams : change'[q] # 0 /\ ~Walking(q)' => ~Has(t, change[q])'
      <3> SUFFICES ASSUME NEW q \in Publishers, NEW t \in Streams, change'[q] # 0, ~Walking(q)'
                   PROVE  ~Has(t, change[q])'
        OBVIOUS
      <3>1. PICK v : v = change'[q]
        OBVIOUS
      <3>2. ~Has(t, v)
        BY <1>4, <1>8, <1>12, <3>1, Constants DEF ChangeInv
      <3> QED
        BY <1>2, <3>1, <3>2
    <2>6. \A q \in Publishers, t \in Streams, l \in Lists :
            change'[q] # 0 /\ Has(t, change[q])' /\ Listed(l, t)' => l = list_ptr'[q]
      <3> SUFFICES ASSUME NEW q \in Publishers, NEW t \in Streams, NEW l \in Lists,
                          change'[q] # 0, Has(t, change[q])', Listed(l, t)'
                   PROVE  l = list_ptr'[q]
        OBVIOUS
      <3>1. PICK v : v = change'[q]
        OBVIOUS
      <3>2. Has(t, v) /\ Listed(l, t)
        BY <1>2, <3>1
      <3> QED
        BY <1>4, <1>12, <3>1, <3>2 DEF ChangeInv
    <2> QED
      BY <1>2, <1>6, <1>1, <2>1, <2>2, <2>3, <2>4, <2>5, <2>6 DEF ChangeInv
  <1>15. LookupInv'
    BY <1>1, <1>4, <1>6 DEF LookupInv
  <1>16. WalkInv'
    BY <1>1, <1>2, <1>8, <1>10, Constants DEF WalkInv
  <1>17. SettledInv'
    <2> SUFFICES ASSUME NEW t \in Streams \ lost, NEW v \in Changes,
                        stream[t] = "loop", since[t] < v, v <= changes + 1
                 PROVE  <<t, v>> \in threw \/ (\E q \in Publishers : change'[q] = v) \/ Has(t, v)
      BY <1>1, <1>2 DEF SettledInv
    <2>1. CASE v = changes + 1
      <3>1. Listed(subs_map_, t)
        BY DEF MapInv, Live
      <3>2. subs_map_ # 0
        BY <3>1, BeforeNodes, Constants DEF Listed
      <3> QED
        BY <1>4, <2>1, <3>2
    <2>2. CASE v # changes + 1
      <3>1. v <= changes
        BY <1>3, <2>2, Constants DEF Changes
      <3>2. <<t, v>> \in threw \/ (\E q \in Publishers : change[q] = v) \/ Has(t, v)
        BY <3>1 DEF SettledInv
      <3>3. v # 0
        BY Constants DEF Changes
      <3> QED
        BY <1>1, <1>4, <3>2, <3>3
    <2> QED
      BY <2>1, <2>2
  <1>18. OrderInv'
    BY <1>1, <1>2, <1>8, <1>10, Constants DEF OrderInv, NoneBefore
  <1> QED
    BY <1>1, <1>5, <1>7, <1>11, <1>14, <1>15, <1>16, <1>17, <1>18

\* A walk begins at the head: everybody is ahead of it, and nobody has its change.
LEMMA PublishBeginStep ==
    ASSUME StreamsInv, NEW p \in Publishers, PublishBegin(p)
    PROVE  StreamsInv'
  <1> USE DEF StreamsInv, mapVars, listVars, frameVars, publishVars, history
  <1>1. /\ UNCHANGED <<subs_map_mutex_, subs_map_, lists, callbacks, next_id_, stream, subs, cb_id,
                       inbound, cancelled, list_ptr, change, changes, undefined, sent, since,
                       lost, threw>>
        /\ change[p] # 0 /\ at[p] = Nowhere /\ Free(list_ptr[p], Top)
        /\ at' = [at EXCEPT ![p] = <<list_ptr[p], Top>>]
    BY DEF PublishBegin, LockHead
  <1>2. PICK k : k = list_ptr[p]
    OBVIOUS
  <1>3. k \in Lists /\ k \in 0..lists
    <2>1. k # 0 /\ k \in 0..lists /\ lists \in 0..Cardinality(Streams)
      BY <1>1, <1>2 DEF PlaceInv, TypeOK
    <2> QED
      BY <2>1, Constants
  <1>4. p \in Walkers /\ ~Walking(p)
    BY <1>1, Constants DEF Walking
  <1>5. /\ at'[p] = <<k, Top>>
        /\ Walking(p)' /\ \A y \in Walkers : y # p => (Walking(y)' <=> Walking(y))
        /\ \A y \in Walkers : y # p => at'[y] = at[y] /\ at[y] # <<k, Top>>
    BY <1>1, <1>2, <1>3, <1>4, MovePlace
  <1>6. /\ \A l, a, b : Before(l, a, b)' <=> Before(l, a, b)
        /\ \A l, a : Listed(l, a)' <=> Listed(l, a)
        /\ \A t, v : Has(t, v)' <=> Has(t, v)
        /\ \A t, v, w : Prec(t, v, w)' <=> Prec(t, v, w)
    BY <1>1, SameAll
  <1>7. \A t \in Streams : Live(t)' <=> Live(t)
    BY <1>1 DEF Live
  <1>8. TypeOK'
    <2>1. at' \in [Walkers -> (0..lists) \X (Streams \cup {Top})]
      BY <1>1, <1>2, <1>3 DEF TypeOK
    <2> QED
      BY <1>1, <2>1 DEF TypeOK
  <1>9. CountInv' /\ ListInv' /\ MapInv'
    BY <1>1, <1>6, <1>7 DEF CountInv, ListInv, MapInv
  <1>10. \A x \in Walkers : x # p /\ Walking(x)' => Walking(x) /\ at'[x] = at[x]
    BY <1>5
  <1>11. PlaceInv'
    <2>1. \A x \in Walkers : Walking(x)' =>
            at'[x][1] \in Lists /\ (at'[x][2] = Top \/ Listed(at[x][1], at[x][2])')
      <3> SUFFICES ASSUME NEW x \in Walkers, Walking(x)'
                   PROVE  at'[x][1] \in Lists
                          /\ (at'[x][2] = Top \/ Listed(at[x][1], at[x][2])')
        OBVIOUS
      <3>1. PICK l, m : l = at'[x][1] /\ m = at'[x][2]
        OBVIOUS
      <3>2. l \in Lists /\ (m = Top \/ Listed(l, m))
        BY <1>3, <1>5, <3>1 DEF PlaceInv
      <3>3. Listed(l, m) => Listed(l, m)'
        BY <1>6
      <3> QED
        BY <3>1, <3>2, <3>3
    <2>2. \A x, y \in Walkers : Walking(x)' /\ at'[x] = at'[y] => x = y
      BY <1>5 DEF PlaceInv
    <2>3. \A t \in Streams : Walking(t)' =>
            /\ stream'[t] = "removing" /\ at'[t][1] = subs_map_'
            /\ t \notin lost' => Before(subs_map_, at[t][2], t)'
      BY <1>1, <1>5, <1>6, Constants DEF PlaceInv
    <2>4. \A q \in Publishers : Walking(q)' => change'[q] # 0 /\ at'[q][1] = list_ptr'[q]
      BY <1>1, <1>2, <1>5, Constants DEF PlaceInv
    <2>5. \A q \in Publishers : change'[q] # 0 => list_ptr'[q] # 0
      BY <1>1 DEF PlaceInv
    <2> QED
      BY <2>1, <2>2, <2>3, <2>4, <2>5 DEF PlaceInv
  <1>12. ChangeInv'
    <2>1. \A q \in Publishers : ~Walking(q)' => ~Walking(q)
      BY <1>4, <1>5, Constants
    <2> QED
      BY <1>1, <1>6, <1>7, <2>1 DEF ChangeInv
  <1>13. LookupInv' /\ SettledInv'
    BY <1>1, <1>6, <1>7 DEF LookupInv, SettledInv
  <1>14. \A t \in Streams : ~Has(t, change[p])
    BY <1>1, <1>4 DEF ChangeInv
  <1>15. WalkInv'
    <2> SUFFICES ASSUME NEW q \in Publishers, NEW t \in Streams, Walking(q)'
                 PROVE  /\ Before(at[q][1], at[q][2], t)' => ~Has(t, change[q])'
                        /\ /\ Listed(at[q][1], t)' /\ ~Before(at[q][1], at[q][2], t)'
                           /\ stream'[t] = "loop" /\ since'[t] < change'[q]
                           => Has(t, change[q])' \/ <<t, change'[q]>> \in threw'
      BY DEF WalkInv
    <2>1. PICK m, n, v : m = at'[q][1] /\ n = at'[q][2] /\ v = change'[q]
      OBVIOUS
    <2>2. CASE q = p
      <3>1. m = k /\ n = Top /\ v = change[p]
        BY <1>1, <1>5, <2>1, <2>2
      <3>2. ~Has(t, v)' /\ (Listed(m, t)' => Before(m, n, t)')
        BY <1>6, <1>14, <3>1 DEF Listed
      <3> QED
        BY <2>1, <3>2
    <2>3. CASE q # p
      <3>1. Walking(q) /\ m = at[q][1] /\ n = at[q][2] /\ v = change[q]
        BY <1>1, <1>10, <2>1, <2>3, Constants
      <3>2. /\ Before(m, n, t) => ~Has(t, v)
            /\ Listed(m, t) /\ ~Before(m, n, t) /\ stream[t] = "loop" /\ since[t] < v
                => Has(t, v) \/ <<t, v>> \in threw
        BY <3>1 DEF WalkInv
      <3> QED
        BY <1>1, <1>6, <2>1, <3>2
    <2> QED
      BY <2>2, <2>3
  <1>16. OrderInv'
    <2>1. \A v, w : NoneBefore(v, w)' <=> NoneBefore(v, w)
      BY <1>6 DEF NoneBefore
    <2>2. \A v : NoneBefore(change[p], v)
      BY <1>14, GotFacts DEF NoneBefore
    <2>3. \A t \in Streams, v, w \in Changes : Prec(t, v, w)' => NoneBefore(w, v)'
      BY <1>6, <2>1 DEF OrderInv
    <2>4. ASSUME NEW q \in Publishers, NEW t \in Streams, NEW v \in Changes,
                 Walking(q)', Before(at[q][1], at[q][2], t)', Has(t, v)'
          PROVE  NoneBefore(change[q], v)'
      <3>1. PICK m, n, w : m = at'[q][1] /\ n = at'[q][2] /\ w = change'[q]
        OBVIOUS
      <3>2. Before(m, n, t) /\ Has(t, v)
        BY <1>6, <2>4, <3>1
      <3>3. NoneBefore(w, v)
        BY <1>1, <1>10, <2>2, <2>4, <3>1, <3>2, Constants DEF OrderInv
      <3> QED
        BY <2>1, <3>1, <3>3
    <2>5. ASSUME NEW r \in Publishers, NEW q \in Publishers, Walking(r)', Walking(q)',
                 Before(at[q][1], at[q][2], at[r][2])', at'[r][1] = at'[q][1]
          PROVE  NoneBefore(change[q], change[r])'
      <3>1. PICK m, n, w, j, v : /\ m = at'[q][1] /\ n = at'[q][2] /\ w = change'[q]
                                 /\ j = at'[r][2] /\ v = change'[r]
        OBVIOUS
      <3>2. Before(m, n, j)
        BY <1>6, <2>5, <3>1
      <3>3. r # p
        BY <1>5, <3>1, <3>2, BeforeNodes, Constants
      <3>4. NoneBefore(w, v)
        <4>1. CASE q = p
          BY <1>1, <2>2, <3>1, <4>1
        <4>2. CASE q # p
          BY <1>1, <1>10, <2>5, <3>1, <3>2, <3>3, <4>2, Constants DEF OrderInv
        <4> QED
          BY <4>1, <4>2
      <3> QED
        BY <2>1, <3>1, <3>4
    <2> QED
      BY <2>3, <2>4, <2>5 DEF OrderInv
  <1> QED
    BY <1>1, <1>8, <1>9, <1>11, <1>12, <1>13, <1>15, <1>16

\* A walk ends behind the last node: everybody it concerns has its change.
LEMMA PublishEndStep ==
    ASSUME StreamsInv, NEW p \in Publishers, PublishEnd(p)
    PROVE  StreamsInv'
  <1> USE DEF StreamsInv, mapVars, listVars, frameVars, history
  <1>1. /\ UNCHANGED <<subs_map_mutex_, subs_map_, lists, callbacks, next_id_, stream, subs, cb_id,
                       inbound, cancelled, changes, sent, since, lost, threw>>
        /\ at[p] # Nowhere /\ \A s \in Streams : ~Follows(s, p)
        /\ at' = [at EXCEPT ![p] = Nowhere]
        /\ list_ptr' = [list_ptr EXCEPT ![p] = 0]
        /\ change' = [change EXCEPT ![p] = 0]
        /\ Release(list_ptr[p])
    BY DEF PublishEnd
  <1>2. p \in Walkers /\ Walking(p)
    BY <1>1, Constants DEF Walking
  <1>3. /\ at'[p] = Nowhere /\ list_ptr'[p] = 0 /\ change'[p] = 0
        /\ \A y \in Walkers : y # p => at'[y] = at[y]
        /\ \A q \in Publishers : q # p => change'[q] = change[q] /\ list_ptr'[q] = list_ptr[q]
    BY <1>1, <1>2 DEF TypeOK
  <1>4. ~Walking(p)' /\ \A y \in Walkers : y # p => (Walking(y)' <=> Walking(y))
    BY <1>3 DEF Walking
  <1>5. /\ \A l, a, b : Before(l, a, b)' <=> Before(l, a, b)
        /\ \A l, a : Listed(l, a)' <=> Listed(l, a)
        /\ \A t, v : Has(t, v)' <=> Has(t, v)
        /\ \A t, v, w : Prec(t, v, w)' <=> Prec(t, v, w)
    BY <1>1, SameAll
  <1>6. \A t \in Streams : Live(t)' <=> Live(t)
    BY <1>1 DEF Live
  <1>7. TypeOK'
    <2>1. undefined' \in BOOLEAN
      BY <1>1 DEF Release
    <2>2. 0 \in 0..lists /\ Nowhere \in (0..lists) \X (Streams \cup {Top}) /\ 0 \in 0..MaxChanges
      BY Constants DEF TypeOK, Nowhere
    <2>3. /\ at' \in [Walkers -> (0..lists) \X (Streams \cup {Top})]
          /\ list_ptr' \in [Publishers -> 0..lists] /\ change' \in [Publishers -> 0..MaxChanges]
      BY <1>1, <2>2 DEF TypeOK
    <2> QED
      BY <1>1, <2>1, <2>3 DEF TypeOK
  <1>8. CountInv' /\ ListInv' /\ MapInv'
    BY <1>1, <1>5, <1>6 DEF CountInv, ListInv, MapInv
  <1>9. \A x \in Walkers : Walking(x)' => x # p /\ Walking(x) /\ at'[x] = at[x]
    BY <1>3, <1>4
  <1>10. \A q \in Publishers : Walking(q)' =>
            q # p /\ Walking(q) /\ at'[q] = at[q] /\ change'[q] = change[q]
    BY <1>3, <1>9, Constants
  <1>11. PlaceInv'
    <2>1. \A x \in Walkers : Walking(x)' =>
            at'[x][1] \in Lists /\ (at'[x][2] = Top \/ Listed(at[x][1], at[x][2])')
      BY <1>5, <1>9 DEF PlaceInv
    <2>2. \A x, y \in Walkers : Walking(x)' /\ at'[x] = at'[y] => x = y
      BY <1>3, <1>4, <1>9 DEF PlaceInv, Walking
    <2>3. \A t \in Streams : Walking(t)' =>
            /\ stream'[t] = "removing" /\ at'[t][1] = subs_map_'
            /\ t \notin lost' => Before(subs_map_, at[t][2], t)'
      BY <1>1, <1>5, <1>9, Constants DEF PlaceInv
    <2>4. \A q \in Publishers : Walking(q)' => change'[q] # 0 /\ at'[q][1] = list_ptr'[q]
      BY <1>3, <1>9, Constants DEF PlaceInv
    <2>5. \A q \in Publishers : change'[q] # 0 => list_ptr'[q] # 0
      BY <1>3 DEF PlaceInv
    <2> QED
      BY <2>1, <2>2, <2>3, <2>4, <2>5 DEF PlaceInv
  <1>12. ChangeInv'
    <2>1. \A q \in Publishers : change'[q] # 0 =>
            q # p /\ change'[q] = change[q] /\ list_ptr'[q] = list_ptr[q]
            /\ (Walking(q)' <=> Walking(q))
      BY <1>3, <1>4, Constants
    <2>2. \A q \in Publishers : change'[q] <= changes'
      BY <1>1, <1>3 DEF ChangeInv, TypeOK
    <2> QED
      BY <1>1, <1>5, <1>6, <2>1, <2>2 DEF ChangeInv
  <1>13. LookupInv'
    <2>1. \A q \in Publishers, t \in Streams : change'[q] > since[t] =>
            q # p /\ change'[q] = change[q] /\ list_ptr'[q] = list_ptr[q]
      BY <1>3 DEF TypeOK
    <2> QED
      BY <1>1, <1>6, <2>1 DEF LookupInv
  <1>14. WalkInv'
    BY <1>1, <1>5, <1>10 DEF WalkInv
  <1>15. SettledInv'
    <2> SUFFICES ASSUME NEW t \in Streams \ lost, NEW v \in Changes,
                        stream[t] = "loop", since[t] < v, v <= changes
                 PROVE  <<t, v>> \in threw \/ (\E q \in Publishers : change'[q] = v) \/ Has(t, v)
      BY <1>1, <1>5 DEF SettledInv
    <2>1. CASE v = change[p]
      <3>1. list_ptr[p] = subs_map_ /\ Listed(subs_map_, t)
        <4>1. Live(t) /\ change[p] > since[t]
          BY <2>1, Constants DEF Live, TypeOK, Changes
        <4> QED
          BY <4>1 DEF LookupInv, MapInv
      <3>2. at[p][1] = subs_map_
        BY <1>2, <3>1 DEF PlaceInv
      <3>3. ~Before(at[p][1], at[p][2], t)
        BY <1>1, <1>2, LastOrder
      <3> QED
        BY <1>2, <2>1, <3>1, <3>2, <3>3 DEF WalkInv
    <2>2. CASE v # change[p]
      BY <1>3, <2>2 DEF SettledInv
    <2> QED
      BY <2>1, <2>2
  <1>16. OrderInv'
    BY <1>1, <1>5, <1>10 DEF OrderInv, NoneBefore
  <1>17. undefined' => lost' # {}
    <2>1. list_ptr[p] \in 0..lists'
      BY <1>1 DEF TypeOK
    <2> QED
      BY <1>1, <1>7, <1>8, <2>1, ReleaseLost
  <1> QED
    BY <1>7, <1>8, <1>11, <1>12, <1>13, <1>14, <1>15, <1>16, <1>17

\* What a callback does: the change of walk p is behind all else that stream s has, or the
\* callback threw.
Told(p, s) ==
    /\ \A t \in Streams : \A v : Has(t, v) => Has(t, v)'
    /\ \A t \in Streams : \A v : Has(t, v)' => Has(t, v) \/ (t = s /\ v = change[p])
    /\ \A t \in Streams : \A v, w : Prec(t, v, w)' =>
        Prec(t, v, w) \/ (t = s /\ Has(s, v) /\ w = change[p])
    /\ \A v : v = change[p] => Has(s, v)' \/ <<s, v>> \in threw'
    /\ threw \subseteq threw'

\* A callback pushes the change or throws.
LEMMA CallbackTold ==
    ASSUME TypeOK, NEW p \in Publishers, NEW s \in Streams, change[p] \in Changes, UNCHANGED sent,
           \/ inbound' = [inbound EXCEPT ![s] = Append(@, change[p])] /\ UNCHANGED threw
           \/ threw' = threw \cup {<<s, change[p]>>} /\ UNCHANGED inbound
    PROVE  Told(p, s) /\ inbound'[s] \in Seq(Changes)
  <1>1. PICK c : c = change[p]
    OBVIOUS
  <1>2. \A t \in Streams : t # s => Got(t)' = Got(t)
    BY DEF Got, TypeOK
  <1>3. CASE inbound' = [inbound EXCEPT ![s] = Append(@, change[p])] /\ UNCHANGED threw
    <2>1. inbound'[s] = Append(inbound[s], c) /\ sent'[s] = sent[s]
      BY <1>1, <1>3 DEF TypeOK
    <2>2. /\ inbound'[s] \in Seq(Changes)
          /\ \A v : Has(s, v)' <=> Has(s, v) \/ v = c
          /\ \A v, w : Prec(s, v, w)' <=> Prec(s, v, w) \/ (Has(s, v) /\ w = c)
      BY <1>1, <2>1, AppendGot
    <2>3. \A t \in Streams : t # s =>
              /\ \A v : Has(t, v)' <=> Has(t, v)
              /\ \A v, w : Prec(t, v, w)' <=> Prec(t, v, w)
      BY <1>2, SameGot
    <2> QED
      BY <1>1, <1>3, <2>2, <2>3 DEF Told
  <1>4. CASE threw' = threw \cup {<<s, change[p]>>} /\ UNCHANGED inbound
    <2>1. \A t : Got(t)' = Got(t)
      BY <1>4 DEF Got
    <2>2. /\ \A t, v : Has(t, v)' <=> Has(t, v)
          /\ \A t, v, w : Prec(t, v, w)' <=> Prec(t, v, w)
      BY <2>1, SameGot
    <2> QED
      BY <1>4, <2>2, GotFacts DEF Told
  <1> QED
    BY <1>3, <1>4

\* Hand over hand: what walk p tells stream s, nobody has or will get in another order, since
\* the walks behind p have not reached s and those ahead of p have told their changes before.
LEMMA NextOrder ==
    ASSUME StreamsInv, NEW p \in Publishers, NEW s \in Streams, Follows(s, p), Told(p, s),
           UNCHANGED <<callbacks, change>>,
           at' = [at EXCEPT ![p] = <<at[p][1], s>>]
    PROVE  OrderInv'
  <1> USE DEF StreamsInv
  <1>1. PICK k, m, c : k = at[p][1] /\ m = at[p][2] /\ c = change[p]
    OBVIOUS
  <1>2. p \in Walkers
    BY Constants
  <1>3. /\ k \in Lists /\ at[p] = <<k, m>> /\ Walking(p) /\ Listed(k, s) /\ Before(k, m, s)
        /\ \A a : Before(k, a, s) => a = m \/ Before(k, a, m)
        /\ \A b : Before(k, m, b) => b = s \/ Before(k, s, b)
    BY <1>1, <1>2, FollowsOrder
  <1>4. /\ at'[p] = <<k, s>> /\ Walking(p)'
        /\ \A q \in Publishers : q # p => at'[q] = at[q] /\ (Walking(q)' <=> Walking(q))
        /\ \A q \in Publishers : Walking(q)' => Walking(q)
    <2>1. at'[p] = <<k, s>> /\ \A q \in Walkers : q # p => at'[q] = at[q]
      BY <1>1, <1>2 DEF TypeOK
    <2>2. Walking(p)'
      BY <1>3, <2>1, Constants DEF Walking, Nowhere
    <2>3. \A q \in Publishers : q # p => at'[q] = at[q] /\ (Walking(q)' <=> Walking(q))
      BY <2>1, Constants DEF Walking
    <2> QED
      BY <1>3, <2>1, <2>2, <2>3
  <1>5. \A l, a, b : Before(l, a, b)' <=> Before(l, a, b)
    BY SameList
  <1>6. ~Has(s, c) /\ c # 0 /\ c \in Changes
    <2>1. ~Has(s, c)
      BY <1>1, <1>3 DEF WalkInv
    <2>2. c # 0
      BY <1>1, <1>3 DEF PlaceInv
    <2> QED
      BY <1>1, <2>1, <2>2, Constants DEF TypeOK, Changes
  <1>7. \A q \in Publishers : change[q] = c => q = p
    BY <1>1, <1>6 DEF ChangeInv
  <1>8. \A t \in Streams : \A v, w : Prec(t, v, w)' =>
            Prec(t, v, w) \/ (t = s /\ Has(s, v) /\ w = c)
    BY <1>1 DEF Told
  <1>9. \A t \in Streams : \A v : Has(t, v)' => Has(t, v) \/ (t = s /\ v = c)
    BY <1>1 DEF Told
  <1>10. \A a, b, d : Before(k, a, b) /\ Before(k, b, d) => Before(k, a, d)
    BY <1>3, BeforeOrder
  <1>11. \A v, w : w # c /\ NoneBefore(v, w) => NoneBefore(v, w)'
    BY <1>8 DEF NoneBefore
  <1>12. \A v : NoneBefore(v, c) /\ ~Has(s, v) => NoneBefore(v, c)'
    BY <1>8 DEF NoneBefore
  \* A walk behind p was behind it before.
  <1>13. ASSUME NEW q \in Publishers, Walking(q), q # p, at[q][1] = k, Before(k, at[q][2], s)
         PROVE  Before(k, at[q][2], m) /\ NoneBefore(change[q], c) /\ ~Has(s, change[q])
    <2>1. at[q] # at[p]
      BY <1>2, <1>3, <1>13, Constants DEF PlaceInv
    <2>2. at[q][2] # m
      <3>1. at[q] = <<at[q][1], at[q][2]>>
        BY Constants DEF TypeOK
      <3> QED
        BY <1>3, <1>13, <2>1, <3>1
    <2>3. Before(k, at[q][2], m)
      BY <1>3, <1>13, <2>2
    <2>4. Before(at[q][1], at[q][2], at[p][2]) /\ at[p][1] = at[q][1]
      BY <1>1, <1>13, <2>3
    <2>5. NoneBefore(change[q], change[p])
      BY <1>3, <1>13, <2>4 DEF OrderInv
    <2>6. ~Has(s, change[q])
      BY <1>13 DEF WalkInv
    <2> QED
      BY <1>1, <2>3, <2>5, <2>6
  <1>14. ASSUME NEW t \in Streams, NEW v \in Changes, NEW w \in Changes, Prec(t, v, w)'
         PROVE  NoneBefore(w, v)'
    <2>1. CASE Prec(t, v, w)
      <3>1. NoneBefore(w, v)
        BY <2>1 DEF OrderInv
      <3>2. CASE v # c
        BY <1>11, <3>1, <3>2
      <3>3. CASE v = c
        <4> SUFFICES ASSUME Has(s, w) PROVE FALSE
          BY <1>12, <3>1, <3>3
        <4>1. NoneBefore(c, w)
          BY <1>1, <1>3 DEF OrderInv
        <4> QED
          BY <2>1, <3>3, <4>1 DEF NoneBefore
      <3> QED
        BY <3>2, <3>3
    <2>2. CASE t = s /\ Has(s, v) /\ w = c
      <3>1. Before(at[p][1], at[p][2], s) /\ Walking(p)
        BY <1>1, <1>3
      <3>2. NoneBefore(c, v)
        BY <1>1, <2>2, <3>1 DEF OrderInv
      <3>3. v # c
        BY <1>6, <2>2
      <3> QED
        BY <1>11, <2>2, <3>2, <3>3
    <2> QED
      BY <1>8, <1>14, <2>1, <2>2
  <1>15. ASSUME NEW q \in Publishers, NEW t \in Streams, NEW v \in Changes,
                Walking(q)', Before(at[q][1], at[q][2], t)', Has(t, v)'
         PROVE  NoneBefore(change[q], v)'
    <2>1. PICK l, n, w : l = at'[q][1] /\ n = at'[q][2] /\ w = change[q]
      OBVIOUS
    <2>2. Before(l, n, t) /\ w = change'[q]
      BY <1>5, <1>15, <2>1
    <2> SUFFICES NoneBefore(w, v)'
      BY <2>2
    <2>3. CASE q = p
      <3>1. l = k /\ n = s /\ w = c
        BY <1>1, <1>4, <2>1, <2>3
      <3>2. Before(k, m, t) /\ t # s
        BY <1>3, <1>10, <2>2, <3>1, BeforeOrder
      <3>3. ~Has(t, c)
        BY <1>1, <1>3, <3>2 DEF WalkInv
      <3>4. Has(t, v) /\ v # c
        BY <1>9, <1>15, <3>2, <3>3
      <3>5. NoneBefore(c, v)
        BY <1>1, <1>3, <3>2, <3>4 DEF OrderInv
      <3> QED
        BY <1>11, <3>1, <3>4, <3>5
    <2>4. CASE q # p
      <3>1. Walking(q) /\ l = at[q][1] /\ n = at[q][2]
        BY <1>4, <1>15, <2>1, <2>4
      <3>2. l \in Lists /\ Listed(l, t) /\ (n = Top \/ Listed(l, n))
        BY <2>2, BeforeNodes
      <3>3. CASE t = s /\ v = c
        <4>1. l = k
          BY <1>3, <3>2, <3>3 DEF ListInv
        <4>2. NoneBefore(w, c) /\ ~Has(s, w)
          BY <1>13, <2>1, <2>2, <2>4, <3>1, <3>3, <4>1
        <4> QED
          BY <1>12, <3>3, <4>2
      <3>4. CASE Has(t, v)
        <4>1. NoneBefore(w, v)
          BY <2>1, <2>2, <3>1, <3>4 DEF OrderInv
        <4>2. CASE v # c
          BY <1>11, <4>1, <4>2
        <4>3. CASE v = c
          <5> SUFFICES ASSUME Has(s, w) PROVE FALSE
            BY <1>12, <4>1, <4>3
          <5>1. w # 0 /\ list_ptr[q] = l
            BY <2>1, <3>1 DEF PlaceInv
          <5>2. k = l
            BY <1>3, <2>1, <5>1 DEF ChangeInv
          <5>3. ~Before(k, n, s)
            BY <2>1, <3>1, <5>2 DEF WalkInv
          <5>4. n = s \/ Before(k, s, n)
            BY <1>3, <3>2, <5>2, <5>3, BeforeOrder
          <5>5. Before(k, m, t)
            BY <1>3, <1>10, <2>2, <5>2, <5>4
          <5> QED
            BY <1>1, <1>3, <3>4, <4>3, <5>5 DEF WalkInv
        <4> QED
          BY <4>2, <4>3
      <3> QED
        BY <1>9, <1>15, <3>3, <3>4
    <2> QED
      BY <2>3, <2>4
  <1>16. ASSUME NEW r \in Publishers, NEW q \in Publishers, Walking(r)', Walking(q)',
                Before(at[q][1], at[q][2], at[r][2])', at'[r][1] = at'[q][1]
         PROVE  NoneBefore(change[q], change[r])'
    <2>1. PICK l, n, w, j, v : /\ l = at'[q][1] /\ n = at'[q][2] /\ w = change[q]
                               /\ j = at'[r][2] /\ v = change[r]
      OBVIOUS
    <2>2. Before(l, n, j) /\ w = change'[q] /\ v = change'[r]
      BY <1>5, <1>16, <2>1
    <2> SUFFICES NoneBefore(w, v)'
      BY <2>2
    <2>3. n # j
      BY <2>2, BeforeNodes, BeforeOrder
    <2>4. CASE r = p
      <3>1. q # p /\ l = k /\ j = s /\ v = c
        BY <1>1, <1>4, <1>16, <2>1, <2>3, <2>4
      <3>2. Walking(q) /\ l = at[q][1] /\ n = at[q][2]
        BY <1>4, <1>16, <2>1, <3>1
      <3>3. NoneBefore(w, c) /\ ~Has(s, w)
        BY <1>13, <2>1, <2>2, <3>1, <3>2
      <3> QED
        BY <1>12, <3>1, <3>3
    <2>5. CASE r # p
      <3>1. v # c /\ Walking(r) /\ at[r][1] = l /\ j = at[r][2]
        BY <1>4, <1>7, <1>16, <2>1, <2>5
      <3>2. CASE q = p
        <4>1. l = k /\ n = s /\ w = c
          BY <1>1, <1>4, <2>1, <3>2
        <4>2. Before(k, m, j)
          BY <1>3, <1>10, <2>2, <4>1
        <4>3. NoneBefore(c, v)
          BY <1>1, <1>3, <2>1, <3>1, <4>1, <4>2 DEF OrderInv
        <4> QED
          BY <1>11, <3>1, <4>1, <4>3
      <3>3. CASE q # p
        <4>1. Walking(q) /\ l = at[q][1] /\ n = at[q][2]
          BY <1>4, <1>16, <2>1, <3>3
        <4>2. NoneBefore(w, v)
          BY <2>1, <2>2, <3>1, <4>1 DEF OrderInv
        <4> QED
          BY <1>11, <3>1, <4>2
      <3> QED
        BY <3>2, <3>3
    <2> QED
      BY <2>4, <2>5
  <1> QED
    BY <1>14, <1>15, <1>16 DEF OrderInv

\* A walk goes on to the next node and calls its callback.
LEMMA PublishNextStep ==
    ASSUME StreamsInv, NEW p \in Publishers, PublishNext(p)
    PROVE  StreamsInv'
  <1> USE DEF StreamsInv, mapVars, listVars, publishVars
  <1>1. /\ UNCHANGED <<subs_map_mutex_, subs_map_, lists, callbacks, next_id_, stream, subs, cb_id,
                       cancelled, list_ptr, change, changes, sent, since, lost>>
        /\ \E s \in Streams :
            /\ LockNext(p, s)
            /\ undefined' = (stream[s] = "returned")
            /\ \/ /\ inbound' = [inbound EXCEPT ![s] = Append(@, change[p])]
                  /\ UNCHANGED threw
               \/ /\ threw' = threw \cup {<<s, change[p]>>}
                  /\ UNCHANGED inbound
    BY DEF PublishNext
  <1>2. PICK s \in Streams :
            /\ LockNext(p, s)
            /\ undefined' = (stream[s] = "returned")
            /\ \/ /\ inbound' = [inbound EXCEPT ![s] = Append(@, change[p])]
                  /\ UNCHANGED threw
               \/ /\ threw' = threw \cup {<<s, change[p]>>}
                  /\ UNCHANGED inbound
    BY <1>1
  <1>3. PICK k, m, c : k = at[p][1] /\ m = at[p][2] /\ c = change[p]
    OBVIOUS
  <1>4. p \in Walkers
    BY Constants
  <1>5. Follows(s, p) /\ Free(k, s) /\ at' = [at EXCEPT ![p] = <<k, s>>]
    BY <1>2, <1>3 DEF LockNext
  <1>6. /\ k \in Lists /\ at[p] = <<k, m>> /\ Walking(p) /\ Listed(k, s) /\ Before(k, m, s)
        /\ \A a : Before(k, a, s) => a = m \/ Before(k, a, m)
        /\ \A b : Before(k, m, b) => b = s \/ Before(k, s, b)
    BY <1>3, <1>4, <1>5, FollowsOrder
  <1>7. /\ at'[p] = <<k, s>>
        /\ Walking(p)' /\ \A y \in Walkers : y # p => (Walking(y)' <=> Walking(y))
        /\ \A y \in Walkers : y # p => at'[y] = at[y] /\ at[y] # <<k, s>>
    BY <1>4, <1>5, <1>6, MovePlace
  <1>8. c # 0 /\ c \in Changes /\ c \in 1..MaxChanges /\ k = list_ptr[p] /\ k \in 0..lists
    <2>1. c # 0 /\ k = list_ptr[p]
      BY <1>3, <1>6 DEF PlaceInv
    <2> QED
      BY <1>3, <2>1, Constants DEF TypeOK, Changes
  <1>9. ~Has(s, c)
    BY <1>3, <1>6 DEF WalkInv
  <1>10. Told(p, s) /\ inbound'[s] \in Seq(Changes)
    BY <1>1, <1>2, <1>3, <1>8, CallbackTold
  <1>11. /\ \A l, a, b : Before(l, a, b)' <=> Before(l, a, b)
         /\ \A l, a : Listed(l, a)' <=> Listed(l, a)
    BY <1>1, SameList
  <1>12. \A t \in Streams : Live(t)' <=> Live(t)
    BY <1>1 DEF Live
  <1>13. TypeOK'
    <2>1. at' \in [Walkers -> (0..lists) \X (Streams \cup {Top})]
      BY <1>5, <1>8 DEF TypeOK
    <2>2. inbound' \in [Streams -> Seq(1..MaxChanges)]
      BY <1>2, <1>10 DEF TypeOK, Changes
    <2>3. threw' \subseteq Streams \X (1..MaxChanges)
      BY <1>2, <1>3, <1>8 DEF TypeOK
    <2>4. undefined' \in BOOLEAN
      BY <1>2
    <2> QED
      BY <1>1, <2>1, <2>2, <2>3, <2>4 DEF TypeOK
  <1>14. CountInv' /\ ListInv' /\ MapInv'
    BY <1>1, <1>11, <1>12 DEF CountInv, ListInv, MapInv
  <1>15. PlaceInv'
    <2>1. \A x \in Walkers : Walking(x)' =>
            at'[x][1] \in Lists /\ (at'[x][2] = Top \/ Listed(at[x][1], at[x][2])')
      <3> SUFFICES ASSUME NEW x \in Walkers, Walking(x)'
                   PROVE  at'[x][1] \in Lists
                          /\ (at'[x][2] = Top \/ Listed(at[x][1], at[x][2])')
        OBVIOUS
      <3>1. PICK l, n : l = at'[x][1] /\ n = at'[x][2]
        OBVIOUS
      <3>2. l \in Lists /\ (n = Top \/ Listed(l, n))
        BY <1>6, <1>7, <3>1 DEF PlaceInv
      <3>3. Listed(l, n) => Listed(l, n)'
        BY <1>11
      <3> QED
        BY <3>1, <3>2, <3>3
    <2>2. \A x, y \in Walkers : Walking(x)' /\ at'[x] = at'[y] => x = y
      BY <1>7 DEF PlaceInv
    <2>3. \A t \in Streams : Walking(t)' =>
            /\ stream'[t] = "removing" /\ at'[t][1] = subs_map_'
            /\ t \notin lost' => Before(subs_map_, at[t][2], t)'
      BY <1>1, <1>7, <1>11, Constants DEF PlaceInv
    <2>4. \A q \in Publishers : Walking(q)' => change'[q] # 0 /\ at'[q][1] = list_ptr'[q]
      BY <1>1, <1>3, <1>7, <1>8, Constants DEF PlaceInv
    <2>5. \A q \in Publishers : change'[q] # 0 => list_ptr'[q] # 0
      BY <1>1 DEF PlaceInv
    <2> QED
      BY <2>1, <2>2, <2>3, <2>4, <2>5 DEF PlaceInv
  <1>16. \A t \in Streams : \A v : Has(t, v)' => Has(t, v) \/ (t = s /\ v = c)
    BY <1>3, <1>10 DEF Told
  <1>17. \A q \in Publishers : q # p => change[q] # c
    BY <1>3, <1>8 DEF ChangeInv
  <1>18. \A q \in Publishers : q # p => at'[q] = at[q] /\ (Walking(q)' <=> Walking(q))
    BY <1>7, Constants
  <1>19. ChangeInv'
    <2>1. c <= changes
      BY <1>3 DEF ChangeInv
    <2>2. \A t \in Streams, v \in Changes : Has(t, v)' => v <= changes'
      BY <1>1, <1>16, <2>1 DEF ChangeInv
    <2>3. \A t \in Streams, v \in Changes : Has(t, v)' => Live(t)' \/ stream'[t] = "returned"
      BY <1>1, <1>6, <1>12, <1>16 DEF ChangeInv, ListInv
    <2>4. \A t \in Streams, v \in Changes : ~Prec(t, v, v)'
      BY <1>3, <1>9, <1>10 DEF Told, ChangeInv
    <2>5. \A q \in Publishers, t \in Streams : change'[q] # 0 /\ ~Walking(q)' => ~Has(t, change[q])'
      BY <1>1, <1>7, <1>16, <1>17, <1>18 DEF ChangeInv
    <2>6. ASSUME NEW q \in Publishers, NEW t \in Streams, NEW l \in Lists,
                 change'[q] # 0, Has(t, change[q])', Listed(l, t)'
          PROVE  l = list_ptr'[q]
      <3>1. Listed(l, t) /\ (Has(t, change[q]) \/ (t = s /\ q = p))
        BY <1>1, <1>11, <1>16, <1>17, <2>6
      <3> QED
        BY <1>1, <1>6, <1>8, <2>6, <3>1 DEF ChangeInv, ListInv
    <2> QED
      BY <1>1, <2>2, <2>3, <2>4, <2>5, <2>6 DEF ChangeInv
  <1>20. LookupInv'
    BY <1>1, <1>12 DEF LookupInv
  <1>21. WalkInv'
    <2> SUFFICES ASSUME NEW q \in Publishers, NEW t \in Streams, Walking(q)'
                 PROVE  /\ Before(at[q][1], at[q][2], t)' => ~Has(t, change[q])'
                        /\ /\ Listed(at[q][1], t)' /\ ~Before(at[q][1], at[q][2], t)'
                           /\ stream'[t] = "loop" /\ since'[t] < change'[q]
                           => Has(t, change[q])' \/ <<t, change'[q]>> \in threw'
      BY DEF WalkInv
    <2>1. PICK l, n, v : l = at'[q][1] /\ n = at'[q][2] /\ v = change'[q]
      OBVIOUS
    <2>2. (Has(t, v) => Has(t, v)') /\ threw \subseteq threw'
      BY <1>10 DEF Told
    <2>3. CASE q = p
      <3>1. l = k /\ n = s /\ v = c
        BY <1>1, <1>3, <1>7, <2>1, <2>3
      <3>2. /\ Before(k, m, t) => ~Has(t, c)
            /\ Listed(k, t) /\ ~Before(k, m, t) /\ stream[t] = "loop" /\ since[t] < c
                => Has(t, c) \/ <<t, c>> \in threw
        BY <1>3, <1>6 DEF WalkInv
      <3>3. Before(k, s, t) => Before(k, m, t) /\ t # s
        BY <1>6, BeforeOrder
      <3>4. Has(s, c)' \/ <<s, c>> \in threw'
        BY <1>3, <1>10 DEF Told
      <3>5. Before(l, n, t)' => ~Has(t, v)'
        BY <1>11, <1>16, <3>1, <3>2, <3>3
      <3>6. Listed(l, t)' /\ ~Before(l, n, t)' /\ stream'[t] = "loop" /\ since'[t] < v
                => Has(t, v)' \/ <<t, v>> \in threw'
        BY <1>1, <1>6, <1>11, <2>2, <3>1, <3>2, <3>4
      <3> QED
        BY <2>1, <3>5, <3>6
    <2>4. CASE q # p
      <3>1. Walking(q) /\ l = at[q][1] /\ n = at[q][2] /\ v = change[q] /\ v # c
        BY <1>1, <1>17, <1>18, <2>1, <2>4
      <3>2. /\ Before(l, n, t) => ~Has(t, v)
            /\ Listed(l, t) /\ ~Before(l, n, t) /\ stream[t] = "loop" /\ since[t] < v
                => Has(t, v) \/ <<t, v>> \in threw
        BY <3>1 DEF WalkInv
      <3>3. Before(l, n, t)' => ~Has(t, v)'
        BY <1>11, <1>16, <3>1, <3>2
      <3>4. Listed(l, t)' /\ ~Before(l, n, t)' /\ stream'[t] = "loop" /\ since'[t] < v
                => Has(t, v)' \/ <<t, v>> \in threw'
        BY <1>1, <1>11, <2>2, <3>2
      <3> QED
        BY <2>1, <3>3, <3>4
    <2> QED
      BY <2>3, <2>4
  <1>22. SettledInv'
    BY <1>1, <1>10 DEF SettledInv, Told
  <1>23. OrderInv'
    BY <1>1, <1>3, <1>5, <1>10, NextOrder
  <1>24. undefined' => lost' # {}
    BY <1>1, <1>2, <1>6 DEF MapInv
  <1> QED
    BY <1>13, <1>14, <1>15, <1>19, <1>20, <1>21, <1>22, <1>23, <1>24

\* StreamsInv is inductive: one case for each action.
LEMMA StreamsNext == StreamsInv /\ [Next]_vars => StreamsInv'
  <1> SUFFICES ASSUME StreamsInv, [Next]_vars PROVE StreamsInv'
    OBVIOUS
  <1>1. ASSUME NEW s \in Streams,
               Add(s) \/ StreamLoop(s) \/ RemoveWalk(s) \/ RemoveFound(s) \/ RemoveNothing(s)
        PROVE  StreamsInv'
    BY <1>1, AddStep, StreamLoopStep, RemoveWalkStep, RemoveFoundStep, RemoveNothingStep
  <1>2. ASSUME NEW s \in Streams, RemoveLock(s) PROVE StreamsInv'
    BY <1>2, RemoveNoneStep, RemoveBeginStep
  <1>3. ASSUME NEW s \in Streams, Refuse(s) \/ Cancel(s) PROVE StreamsInv'
    <2>1. UNCHANGED <<mapVars, listVars, subs, cb_id, inbound, publishVars, at, undefined, history>>
      BY <1>3 DEF Refuse, Cancel, frameVars
    <2>2. \/ UNCHANGED stream /\ cancelled' \subseteq Streams
          \/ UNCHANGED cancelled /\ \E t \in Streams :
                stream[t] = "new" /\ stream' = [stream EXCEPT ![t] = "refused"]
      BY <1>3 DEF Refuse, Cancel, frameVars, StreamsInv, TypeOK
    <2> QED
      BY <2>1, <2>2, QuietStep
  <1>4. ASSUME NEW s \in Streams, GetOrCreateSubs(s) PROVE StreamsInv'
    BY <1>4, GetOrCreateStep
  <1>5. ASSUME NEW p \in Publishers,
               PublishLookup(p) \/ PublishBegin(p) \/ PublishNext(p) \/ PublishEnd(p)
        PROVE  StreamsInv'
    BY <1>5, PublishLookupStep, PublishBeginStep, PublishNextStep, PublishEndStep
  <1>6. CASE UNCHANGED vars
    <2>1. UNCHANGED <<mapVars, listVars, subs, cb_id, inbound, publishVars, at, undefined, history>>
      BY <1>6 DEF vars, frameVars
    <2>2. UNCHANGED stream /\ cancelled' \subseteq Streams
      BY <1>6 DEF vars, frameVars, StreamsInv, TypeOK
    <2> QED
      BY <2>1, <2>2, QuietStep
  <1> QED
    BY <1>1, <1>2, <1>3, <1>4, <1>5, <1>6 DEF Next, Subscribe, Publish

\* StreamsInv is an invariant of the streams and their publishers.
THEOREM StreamsInductive == Spec => []StreamsInv
  BY StreamsInit, StreamsNext, PTL DEF Spec

-----------------------------------------------------------------------------
(* What the invariant says of the streams. *)

\* A settled change that is not under way and was not thrown at is in the stream once.
LEMMA HearsOnce == StreamsInv => HearsEveryChange
  <1> SUFFICES ASSUME StreamsInv, NEW s \in Streams \ lost, stream[s] = "loop",
                      NEW v \in (since[s] + 1)..changes,
                      <<s, v>> \notin threw, v \notin Range(change)
               PROVE  Cardinality({i \in DOMAIN Got(s) : Got(s)[i] = v}) = 1
    BY DEF HearsEveryChange
  <1> USE DEF StreamsInv
  <1>1. v \in Changes /\ since[s] < v /\ v <= changes
    BY Constants DEF TypeOK, Changes
  <1>2. \A p \in Publishers : change[p] # v
    BY DEF Range, TypeOK
  <1>3. Has(s, v)
    BY <1>1, <1>2 DEF SettledInv
  <1>4. Got(s) \in Seq(Changes) /\ Len(Got(s)) \in Nat
    BY GotFacts
  <1>5. DOMAIN Got(s) = 1..Len(Got(s))
    BY <1>4, LenProperties
  <1>6. PICK i \in 1..Len(Got(s)) : Got(s)[i] = v
    BY <1>3 DEF Has
  <1>7. \A j \in 1..Len(Got(s)) : Got(s)[j] = v => j = i
    <2> SUFFICES ASSUME NEW j \in 1..Len(Got(s)), Got(s)[j] = v, j # i PROVE FALSE
      OBVIOUS
    <2>1. i < j \/ j < i
      BY <1>4
    <2> QED
      BY <1>1, <1>6, <2>1 DEF ChangeInv, Prec
  <1>8. {j \in DOMAIN Got(s) : Got(s)[j] = v} = {i}
    BY <1>5, <1>6, <1>7
  <1> QED
    BY <1>8, FS_Singleton

\* Two changes that two streams have are in the same order in both.
LEMMA AgreeOnOrder == StreamsInv => SameOrder
  <1> SUFFICES ASSUME StreamsInv, NEW s \in Streams, NEW t \in Streams,
                      NEW i \in DOMAIN Got(s), NEW j \in DOMAIN Got(s),
                      NEW k \in DOMAIN Got(t), NEW m \in DOMAIN Got(t),
                      i < j, Got(s)[i] = Got(t)[k], Got(s)[j] = Got(t)[m], ~(k < m)
               PROVE  FALSE
    BY DEF SameOrder
  <1> USE DEF StreamsInv
  <1>1. /\ Got(s) \in Seq(Changes) /\ Len(Got(s)) \in Nat
        /\ Got(t) \in Seq(Changes) /\ Len(Got(t)) \in Nat
    BY GotFacts
  <1>2. DOMAIN Got(s) = 1..Len(Got(s)) /\ DOMAIN Got(t) = 1..Len(Got(t))
    BY <1>1, LenProperties
  <1>3. PICK v, w \in Changes : v = Got(s)[i] /\ w = Got(s)[j]
    BY <1>1, <1>2, LenProperties
  <1>4. Prec(s, v, w)
    BY <1>2, <1>3 DEF Prec
  <1>5. k = m \/ m < k
    BY <1>1, <1>2
  <1>6. CASE k = m
    BY <1>3, <1>4, <1>6 DEF ChangeInv
  <1>7. CASE m < k
    <2>1. Prec(t, w, v)
      BY <1>2, <1>3, <1>7 DEF Prec
    <2> QED
      BY <1>3, <1>4, <2>1 DEF OrderInv, NoneBefore
  <1> QED
    BY <1>5, <1>6, <1>7

\* A node whose stream has returned is that of a lost one.
LEMMA LostDangle == StreamsInv => OnlyLostDangle
  <1> SUFFICES ASSUME StreamsInv PROVE OnlyLostDangle
    OBVIOUS
  <1> USE DEF StreamsInv
  <1>1. ASSUME NEW l \in Lists, NEW s \in Range(callbacks[l]), stream[s] = "returned"
        PROVE  s \in lost
    <2>1. PICK i \in 1..Len(callbacks[l]) : callbacks[l][i] = s
      BY ListFacts DEF Range
    <2>2. s \in Streams /\ Listed(l, s)
      BY <2>1, ListFacts, ListedAt
    <2> QED
      BY <1>1, <2>2 DEF MapInv
  <1> QED
    BY <1>1 DEF OnlyLostDangle

\* A stream that is not lost gets every change published after it was added, exactly once: for
\* any number of streams and publishers, with streams coming and going and callbacks throwing.
THEOREM EveryChangeOnce == Spec => []HearsEveryChange
  BY StreamsInductive, HearsOnce, PTL

\* Any two streams get the changes they both get in the same order, however many publishers are
\* in the list at once.
THEOREM OneOrder == Spec => []SameOrder
  BY StreamsInductive, AgreeOnOrder, PTL

\* Without a lost stream no callback outlives its stream and no list is destroyed with nodes.
THEOREM NoneDangle == Spec => []OnlyLostDangle
  BY StreamsInductive, LostDangle, PTL

-----------------------------------------------------------------------------
(* Set and Get: the invariant of the service. *)

\* The handler between the update of the entry and its append holds the store lock, alone.
LockInv ==
    /\ \A h \in Publishers : h \in mutex_ <=> pc[h] = "log"
    /\ \A g, h \in mutex_ : g = h

\* Requests under way are numbered, told apart by their numbers, and not answered yet.
FreshInv ==
    /\ \A h \in Publishers : pc[h] # "idle" => req[h].value \in 1..sets /\ req[h] \notin acked
    /\ \A g, h \in Publishers :
        g # h /\ pc[g] # "idle" /\ pc[h] # "idle" => req[g].value # req[h].value

Numbered(log) == \A i \in DOMAIN log : log[i].value \in 1..sets

\* What is logged or answered has a number that was given out.
NumberInv ==
    /\ Numbered(store_wal) /\ Numbered(server_wal)
    /\ \A r \in acked : r.value \in 1..sets

\* What was answered when a Set was called is answered.
OlderInv == \A v \in 1..MaxChanges : older[v] \subseteq acked

Ordered(log) == \A i, j \in DOMAIN log : i < j => log[j] \notin older[log[i].value]

\* LogsKeepCallOrder, log by log.
LogOrderInv == Ordered(store_wal) /\ Ordered(server_wal)

\* A Set that is past its append to wal.log is in it.
PastInv == \A h \in Publishers : pc[h] \in {"server_log", "reply"} => Svc!Logged(req[h])

Settled(k) == Svc!Rebuilds(k) \/ [key |-> k, value |-> store_[k]] \in failed

\* wal.log is behind the store at the key that the lock's holder has updated, nowhere else.
StoreInv ==
    /\ booted \in 0..Len(store_wal)
    /\ \A h \in mutex_ : store_[req[h].key] = req[h].value
    /\ \A k \in Keys : (\A h \in mutex_ : req[h].key # k) => Settled(k)

ServiceInv ==
    /\ Svc!TypeOK
    /\ LockInv
    /\ FreshInv
    /\ NumberInv
    /\ OlderInv
    /\ LogOrderInv
    /\ PastInv
    /\ Svc!ToldIsLogged
    /\ StoreInv

-----------------------------------------------------------------------------
(* What an append does to a log. *)

\* The lines that were there stay, and the new one is the last.
LEMMA AppendLog ==
    ASSUME NEW log \in Seq(Svc!Requests), NEW r \in Svc!Requests
    PROVE  /\ Append(log, r) \in Seq(Svc!Requests)
           /\ Len(log) \in Nat
           /\ DOMAIN log = 1..Len(log)
           /\ DOMAIN Append(log, r) = 1..(Len(log) + 1)
           /\ \A i \in 1..Len(log) : Append(log, r)[i] = log[i]
           /\ Append(log, r)[Len(log) + 1] = r
           /\ Len(Append(log, r)) = Len(log) + 1
  BY AppendProperties, LenProperties

\* A log in call order stays so when a request is appended that is not answered yet: no
\* Set can have found it answered.
LEMMA AppendOrdered ==
    ASSUME OlderInv, NEW log \in Seq(Svc!Requests), NEW r \in Svc!Requests, r \notin acked,
           Numbered(log), Ordered(log), sets \in 0..MaxChanges, MaxChanges \in Nat
    PROVE  Ordered(Append(log, r))
  <1> SUFFICES ASSUME NEW i \in DOMAIN Append(log, r), NEW j \in DOMAIN Append(log, r), i < j
               PROVE  Append(log, r)[j] \notin older[Append(log, r)[i].value]
    BY DEF Ordered
  <1>1. i \in 1..Len(log) /\ Append(log, r)[i] = log[i] /\ i \in DOMAIN log
    BY AppendLog
  <1>2. CASE j \in 1..Len(log)
    BY <1>1, <1>2, AppendLog DEF Ordered
  <1>3. CASE j = Len(log) + 1
    <2>1. log[i].value \in 1..MaxChanges
      BY <1>1 DEF Numbered
    <2> QED
      BY <1>1, <1>3, <2>1, AppendLog DEF OlderInv
  <1> QED
    BY <1>2, <1>3, AppendLog

\* Numbers stay given out.
LEMMA AppendNumbered ==
    ASSUME NEW log \in Seq(Svc!Requests), NEW r \in Svc!Requests, r.value \in 1..sets, Numbered(log)
    PROVE  Numbered(Append(log, r))
  BY AppendLog DEF Numbered

\* What is logged stays logged, and the appended request is.
LEMMA AppendLogged ==
    ASSUME NEW r \in Svc!Requests, store_wal \in Seq(Svc!Requests),
           store_wal' = Append(store_wal, r)
    PROVE  /\ \A q : Svc!Logged(q) => Svc!Logged(q)'
           /\ Svc!Logged(r)'
  BY AppendLog DEF Svc!Logged

-----------------------------------------------------------------------------
(* It holds initially and every action of the service preserves it. *)

\* The first process starts with empty logs and an empty store.
LEMMA ServiceInit == Svc!Init => ServiceInv
  <1> SUFFICES ASSUME Svc!Init PROVE ServiceInv
    OBVIOUS
  <1>1. Svc!NoRequest \in Svc!Requests
    BY ServerAssumption, SubscriptionsAssumption DEF Svc!NoRequest, Svc!Requests
  <1>2. Svc!TypeOK
    BY <1>1, ServerAssumption, SubscriptionsAssumption DEF Svc!Init, Svc!TypeOK
  <1>3. LockInv /\ FreshInv /\ PastInv /\ Svc!ToldIsLogged
    BY DEF Svc!Init, LockInv, FreshInv, PastInv, Svc!ToldIsLogged
  <1>4. NumberInv /\ LogOrderInv /\ OlderInv
    BY DEF Svc!Init, NumberInv, Numbered, LogOrderInv, Ordered, OlderInv
  <1>5. StoreInv
    BY DEF Svc!Init, StoreInv, Settled, Svc!Rebuilds
  <1> QED
    BY <1>2, <1>3, <1>4, <1>5 DEF ServiceInv

\* A Set begins: it gets a new number, and everything answered so far is older than it.
LEMMA SetCallStep ==
    ASSUME ServiceInv, NEW h \in Publishers, NEW k \in Keys, Svc!SetCall(h, k)
    PROVE  ServiceInv'
  <1> USE ServerAssumption, SubscriptionsAssumption DEF ServiceInv
  <1>1. [key |-> k, value |-> sets + 1] \in Svc!Requests /\ sets' \in 0..MaxChanges
        /\ sets + 1 \in 1..MaxChanges
    BY DEF Svc!SetCall, Svc!TypeOK, Svc!Requests
  <1>2. Svc!TypeOK'
    BY <1>1 DEF Svc!SetCall, Svc!Goto, Svc!TypeOK
  <1>3. LockInv'
    BY DEF Svc!SetCall, Svc!Goto, LockInv, Svc!TypeOK
  <1>4. FreshInv'
    <2>1. \A r \in acked : r.value # sets + 1
      BY DEF NumberInv, Svc!TypeOK
    <2>2. \A g \in Publishers : pc[g] # "idle" => req[g].value # sets + 1
      BY DEF FreshInv, Svc!TypeOK
    <2> QED
      BY <1>1, <2>1, <2>2 DEF Svc!SetCall, Svc!Goto, FreshInv, Svc!TypeOK
  <1>5. NumberInv'
    BY <1>1 DEF Svc!SetCall, NumberInv, Numbered, Svc!TypeOK
  <1>6. OlderInv'
    BY <1>1 DEF Svc!SetCall, OlderInv, Svc!TypeOK
  <1>7. LogOrderInv'
    BY <1>1 DEF Svc!SetCall, LogOrderInv, Ordered, NumberInv, Numbered, Svc!TypeOK
  <1>8. PastInv' /\ Svc!ToldIsLogged'
    BY DEF Svc!SetCall, Svc!Goto, PastInv, Svc!ToldIsLogged, Svc!Logged, Svc!TypeOK
  <1>9. StoreInv'
    <2>1. \A g \in mutex_ : req'[g] = req[g]
      BY DEF Svc!SetCall, LockInv, Svc!TypeOK
    <2> QED
      BY <2>1 DEF Svc!SetCall, StoreInv, Settled, Svc!Rebuilds
  <1> QED
    BY <1>2, <1>3, <1>4, <1>5, <1>6, <1>7, <1>8, <1>9

\* MemStore::set takes the lock and updates the entry.
LEMMA SetStoreStep ==
    ASSUME ServiceInv, NEW h \in Publishers, Svc!SetStore(h)
    PROVE  ServiceInv'
  <1> USE ServerAssumption, SubscriptionsAssumption DEF ServiceInv
  <1>1. req[h] \in Svc!Requests /\ req[h].key \in Keys /\ req[h].value \in 0..MaxChanges
    BY DEF Svc!TypeOK, Svc!Requests
  <1>2. Svc!TypeOK'
    BY <1>1 DEF Svc!SetStore, Svc!Goto, Svc!TypeOK
  <1>3. LockInv'
    BY DEF Svc!SetStore, Svc!Goto, LockInv, Svc!TypeOK
  <1>4. FreshInv' /\ NumberInv' /\ OlderInv' /\ LogOrderInv'
    BY DEF Svc!SetStore, Svc!Goto, FreshInv, NumberInv, Numbered, OlderInv, LogOrderInv, Ordered,
           Svc!TypeOK
  <1>5. PastInv' /\ Svc!ToldIsLogged'
    BY DEF Svc!SetStore, Svc!Goto, PastInv, Svc!ToldIsLogged, Svc!Logged, Svc!TypeOK
  <1>6. StoreInv'
    <2>1. \A k \in Keys : k # req[h].key => store_'[k] = store_[k] /\ Settled(k)
      BY <1>1 DEF Svc!SetStore, StoreInv, Svc!TypeOK
    <2>2. store_'[req[h].key] = req[h].value
      BY <1>1 DEF Svc!SetStore, Svc!TypeOK
    <2> QED
      BY <1>1, <2>1, <2>2 DEF Svc!SetStore, StoreInv, Settled, Svc!Rebuilds
  <1> QED
    BY <1>2, <1>3, <1>4, <1>5, <1>6

\* The append to wal.log that reaches the file makes the log tell the entry of its key, which
\* only the holder of the lock has touched, and leaves the other keys as they were.
LEMMA AppendSettles ==
    ASSUME ServiceInv, NEW h \in Publishers, pc[h] = "log", store_wal' = Append(store_wal, req[h]),
           mutex_' = {}, UNCHANGED <<store_, req, booted>>, failed \subseteq failed'
    PROVE  StoreInv'
  <1> USE DEF ServiceInv
  <1> DEFINE n == Len(store_wal) + 1
  <1>1. /\ req[h] \in Svc!Requests
        /\ req[h].key \in Keys
        /\ Len(store_wal) \in Nat
        /\ DOMAIN store_wal = 1..Len(store_wal)
        /\ DOMAIN store_wal' = 1..n
        /\ \A i \in 1..Len(store_wal) : store_wal'[i] = store_wal[i]
        /\ store_wal'[n] = req[h]
        /\ Len(store_wal') = n
    BY AppendLog DEF Svc!TypeOK, Svc!Requests
  <1>2. booted' \in 0..Len(store_wal')
    BY <1>1 DEF StoreInv
  <1>3. mutex_ = {h}
    BY DEF LockInv, Svc!TypeOK
  <1>4. ASSUME NEW k \in Keys PROVE Settled(k)'
    <2> DEFINE lines == {i \in DOMAIN store_wal : i > booted /\ store_wal[i].key = k}
               lines2 == {i \in DOMAIN store_wal' : i > booted' /\ store_wal'[i].key = k}
    <2>1. CASE k = req[h].key
      <3>1. n \in lines2 /\ \A j \in lines2 : j <= n
        BY <1>1, <2>1 DEF StoreInv
      <3>2. store_'[k] = store_wal'[n].value
        BY <1>1, <1>3, <2>1 DEF StoreInv
      <3> QED
        BY <3>1, <3>2 DEF Settled, Svc!Rebuilds
    <2>2. CASE k # req[h].key
      <3>1. Settled(k)
        BY <1>3, <2>2 DEF StoreInv
      <3>2. lines2 = lines
        BY <1>1, <2>2 DEF StoreInv
      <3>3. \A i \in lines : store_wal'[i] = store_wal[i]
        BY <1>1
      <3> HIDE DEF lines, lines2
      <3>4. Svc!Rebuilds(k) => Svc!Rebuilds(k)'
        BY <3>2, <3>3 DEF Svc!Rebuilds, lines, lines2
      <3> QED
        BY <3>1, <3>4 DEF Settled
    <2> QED
      BY <2>1, <2>2
  <1> QED
    BY <1>2, <1>4 DEF StoreInv

\* MemStore::set appends to wal.log and releases the lock.
LEMMA SetLogStep ==
    ASSUME ServiceInv, NEW h \in Publishers, Svc!SetLog(h)
    PROVE  ServiceInv'
  <1> USE DEF ServiceInv
  <1>1. /\ req[h] \in Svc!Requests
        /\ req[h].value \in 1..sets
        /\ req[h] \notin acked
        /\ store_wal \in Seq(Svc!Requests)
        /\ sets \in 0..MaxChanges /\ MaxChanges \in Nat
    BY ServerAssumption, SubscriptionsAssumption DEF Svc!SetLog, Svc!TypeOK, FreshInv
  <1>2. UNCHANGED <<store_, server_wal, req, sets, booted, acked, seen, older, crashes>>
        /\ mutex_' = {} /\ pc[h] = "log"
    BY DEF Svc!SetLog
  <1>3. \/ store_wal' = Append(store_wal, req[h]) /\ Svc!Goto(h, "server_log")
        \/ store_wal' = Append(store_wal, req[h]) /\ Svc!Goto(h, "idle")
        \/ store_wal' = store_wal /\ Svc!Goto(h, "idle")
    BY DEF Svc!SetLog
  <1>4. failed' = failed \/ failed' = failed \cup {req[h]}
    BY DEF Svc!SetLog
  <1>5. Svc!TypeOK'
    <2>1. store_wal' \in Seq(Svc!Requests)
      BY <1>1, <1>3, AppendLog
    <2>2. failed' \in SUBSET Svc!Requests
      BY <1>1, <1>4 DEF Svc!TypeOK
    <2>3. pc' \in [Publishers -> {"idle", "store", "log", "server_log", "reply"}]
      BY <1>3 DEF Svc!Goto, Svc!TypeOK
    <2> QED
      BY <1>2, <2>1, <2>2, <2>3 DEF Svc!TypeOK
  <1>6. LockInv'
    BY <1>2, <1>3 DEF Svc!Goto, LockInv, Svc!TypeOK
  <1>7. FreshInv' /\ OlderInv'
    BY <1>2, <1>3 DEF Svc!Goto, FreshInv, OlderInv, Svc!TypeOK
  <1>8. NumberInv'
    <2>1. Numbered(store_wal')
      BY <1>1, <1>3, AppendNumbered DEF NumberInv
    <2> QED
      BY <1>2, <2>1 DEF NumberInv, Numbered
  <1>9. LogOrderInv'
    <2>1. Ordered(store_wal')
      BY <1>1, <1>3, AppendOrdered DEF NumberInv, LogOrderInv
    <2> QED
      BY <1>2, <2>1 DEF LogOrderInv, Ordered
  <1>10. \A q : Svc!Logged(q) => Svc!Logged(q)'
    BY <1>1, <1>3, AppendLogged DEF Svc!Logged
  <1>11. PastInv' /\ Svc!ToldIsLogged'
    <2>1. Svc!ToldIsLogged'
      BY <1>2, <1>4, <1>10 DEF Svc!ToldIsLogged
    <2>2. PastInv'
      <3> SUFFICES ASSUME NEW g \in Publishers, pc'[g] \in {"server_log", "reply"}
                   PROVE  Svc!Logged(req[g])'
        BY <1>2 DEF PastInv
      <3>1. CASE g = h
        BY <1>1, <1>2, <1>3, <3>1, AppendLogged DEF Svc!Goto, Svc!TypeOK
      <3>2. CASE g # h
        <4>1. Svc!Logged(req[g])
          BY <1>3, <3>2 DEF Svc!Goto, PastInv, Svc!TypeOK
        <4> QED
          BY <4>1, <1>10, <1>2 DEF Svc!Logged
      <3> QED
        BY <3>1, <3>2
    <2> QED
      BY <2>1, <2>2
  <1>12. StoreInv'
    <2>1. CASE store_wal' = Append(store_wal, req[h])
      BY <1>2, <1>4, <2>1, AppendSettles
    <2>2. CASE store_wal' = store_wal /\ failed' = failed \cup {req[h]}
      <3>1. mutex_ = {h}
        BY <1>2 DEF LockInv, Svc!TypeOK
      <3>2. [key |-> req[h].key, value |-> store_[req[h].key]] = req[h]
        BY <1>1, <3>1 DEF StoreInv, Svc!Requests
      <3> QED
        BY <1>2, <2>2, <3>1, <3>2 DEF StoreInv, Settled, Svc!Rebuilds
    <2> QED
      BY <2>1, <2>2 DEF Svc!SetLog
  <1> QED
    BY <1>5, <1>6, <1>7, <1>8, <1>9, <1>11, <1>12

\* The handler appends to custom.wal, or the append throws and is ignored.
LEMMA SetServerLogStep ==
    ASSUME ServiceInv, NEW h \in Publishers, Svc!SetServerLog(h)
    PROVE  ServiceInv'
  <1> USE DEF ServiceInv
  <1>1. /\ req[h] \in Svc!Requests
        /\ req[h].value \in 1..sets
        /\ req[h] \notin acked
        /\ server_wal \in Seq(Svc!Requests)
        /\ sets \in 0..MaxChanges /\ MaxChanges \in Nat
    BY ServerAssumption, SubscriptionsAssumption DEF Svc!SetServerLog, Svc!TypeOK, FreshInv
  <1>2. server_wal' = server_wal \/ server_wal' = Append(server_wal, req[h])
    BY DEF Svc!SetServerLog
  <1>3. Svc!TypeOK'
    <2>1. server_wal' \in Seq(Svc!Requests)
      BY <1>1, <1>2, AppendLog
    <2> QED
      BY <2>1 DEF Svc!SetServerLog, Svc!Goto, Svc!TypeOK
  <1>4. LockInv' /\ FreshInv' /\ OlderInv'
    BY DEF Svc!SetServerLog, Svc!Goto, LockInv, FreshInv, OlderInv, Svc!TypeOK
  <1>5. NumberInv'
    <2>1. Numbered(server_wal')
      BY <1>1, <1>2, AppendNumbered DEF NumberInv
    <2> QED
      BY <2>1 DEF Svc!SetServerLog, NumberInv, Numbered
  <1>6. LogOrderInv'
    <2>1. Ordered(server_wal')
      BY <1>1, <1>2, AppendOrdered DEF NumberInv, LogOrderInv
    <2> QED
      BY <2>1 DEF Svc!SetServerLog, LogOrderInv, Ordered
  <1>7. PastInv' /\ Svc!ToldIsLogged'
    BY DEF Svc!SetServerLog, Svc!Goto, PastInv, Svc!ToldIsLogged, Svc!Logged, Svc!TypeOK
  <1>8. StoreInv'
    BY DEF Svc!SetServerLog, StoreInv, Settled, Svc!Rebuilds
  <1> QED
    BY <1>3, <1>4, <1>5, <1>6, <1>7, <1>8

\* The reply says success: the request is in wal.log by then.
LEMMA SetReplyStep ==
    ASSUME ServiceInv, NEW h \in Publishers, Svc!SetReply(h)
    PROVE  ServiceInv'
  <1> USE DEF ServiceInv
  <1>1. req[h] \in Svc!Requests /\ req[h].value \in 1..sets /\ Svc!Logged(req[h])
    BY DEF Svc!SetReply, Svc!TypeOK, FreshInv, PastInv
  <1>2. Svc!TypeOK'
    BY <1>1 DEF Svc!SetReply, Svc!Goto, Svc!TypeOK
  <1>3. LockInv'
    BY DEF Svc!SetReply, Svc!Goto, LockInv, Svc!TypeOK
  <1>4. FreshInv'
    BY DEF Svc!SetReply, Svc!Goto, FreshInv, Svc!TypeOK
  <1>5. NumberInv' /\ OlderInv' /\ LogOrderInv'
    BY <1>1 DEF Svc!SetReply, NumberInv, Numbered, OlderInv, LogOrderInv, Ordered
  <1>6. PastInv' /\ Svc!ToldIsLogged'
    BY <1>1 DEF Svc!SetReply, Svc!Goto, PastInv, Svc!ToldIsLogged, Svc!Logged, Svc!TypeOK
  <1>7. StoreInv'
    BY DEF Svc!SetReply, StoreInv, Settled, Svc!Rebuilds
  <1> QED
    BY <1>2, <1>3, <1>4, <1>5, <1>6, <1>7

\* Get answers with a value that is in wal.log or whose append threw: the lock is free.
LEMMA GetStep ==
    ASSUME ServiceInv, NEW h \in Publishers, NEW k \in Keys, Svc!Get(h, k)
    PROVE  ServiceInv'
  <1> USE DEF ServiceInv
  <1> DEFINE r == [key |-> k, value |-> store_[k]]
  <1>1. r \in Svc!Requests
    BY DEF Svc!TypeOK, Svc!Requests
  <1>2. Svc!Logged(r) \/ r \in failed
    <2>1. Settled(k)
      BY DEF Svc!Get, StoreInv
    <2>2. ASSUME Svc!Rebuilds(k) PROVE Svc!Logged(r)
      <3>1. PICK i \in DOMAIN store_wal : store_wal[i].key = k /\ store_[k] = store_wal[i].value
        BY <2>2 DEF Svc!Rebuilds, Svc!Get
      <3>2. store_wal[i] \in Svc!Requests
        BY ElementOfSeq, LenProperties DEF Svc!TypeOK
      <3>3. store_wal[i] = r
        BY <3>1, <3>2 DEF Svc!Requests
      <3> QED
        BY <3>3 DEF Svc!Logged
    <2> QED
      BY <2>1, <2>2 DEF Settled
  <1>3. Svc!ToldIsLogged'
    BY <1>2 DEF Svc!Get, Svc!ToldIsLogged, Svc!Logged
  <1>4. Svc!TypeOK'
    BY <1>1 DEF Svc!Get, Svc!TypeOK
  <1>5. LockInv' /\ FreshInv' /\ NumberInv' /\ OlderInv' /\ LogOrderInv' /\ PastInv'
    BY DEF Svc!Get, LockInv, FreshInv, NumberInv, Numbered, OlderInv, LogOrderInv, Ordered, PastInv,
           Svc!Logged
  <1>6. StoreInv'
    BY DEF Svc!Get, StoreInv, Settled, Svc!Rebuilds
  <1> QED
    BY <1>3, <1>4, <1>5, <1>6

\* The process dies and the next one starts with an empty store and both logs as they are.
LEMMA CrashStep ==
    ASSUME ServiceInv, Svc!Crash
    PROVE  ServiceInv'
  <1> USE DEF ServiceInv
  <1>1. /\ Svc!NoRequest \in Svc!Requests /\ Len(store_wal) \in Nat
        /\ DOMAIN store_wal = 1..Len(store_wal)
    BY ServerAssumption, SubscriptionsAssumption, LenProperties
    DEF Svc!NoRequest, Svc!Requests, Svc!TypeOK
  <1>2. Svc!TypeOK'
    BY <1>1, ServerAssumption, SubscriptionsAssumption DEF Svc!Crash, Svc!TypeOK
  <1>3. LockInv' /\ FreshInv' /\ PastInv'
    BY DEF Svc!Crash, LockInv, FreshInv, PastInv
  <1>4. NumberInv' /\ OlderInv' /\ LogOrderInv' /\ Svc!ToldIsLogged'
    BY DEF Svc!Crash, NumberInv, Numbered, OlderInv, LogOrderInv, Ordered, Svc!ToldIsLogged,
           Svc!Logged
  <1>5. StoreInv'
    BY <1>1 DEF Svc!Crash, StoreInv, Settled, Svc!Rebuilds
  <1> QED
    BY <1>2, <1>3, <1>4, <1>5

\* ServiceInv is inductive: one case for each action of the service.
LEMMA ServiceNext == ServiceInv /\ [Svc!Next]_Svc!vars => ServiceInv'
  <1> SUFFICES ASSUME ServiceInv, [Svc!Next]_Svc!vars PROVE ServiceInv'
    OBVIOUS
  <1>1. ASSUME NEW h \in Publishers, Svc!Set(h) PROVE ServiceInv'
    BY <1>1, SetStoreStep, SetLogStep, SetServerLogStep, SetReplyStep DEF Svc!Set
  <1>2. ASSUME NEW h \in Publishers, NEW k \in Keys, Svc!SetCall(h, k) PROVE ServiceInv'
    BY <1>2, SetCallStep
  <1>3. ASSUME NEW h \in Publishers, NEW k \in Keys, Svc!Get(h, k) PROVE ServiceInv'
    BY <1>3, GetStep
  <1>4. CASE Svc!Crash
    BY <1>4, CrashStep
  <1>5. CASE UNCHANGED Svc!vars
    <2>1. Svc!TypeOK' /\ LockInv' /\ FreshInv'
      BY <1>5 DEF Svc!vars, ServiceInv, Svc!TypeOK, LockInv, FreshInv
    <2>2. NumberInv' /\ OlderInv' /\ LogOrderInv'
      BY <1>5 DEF Svc!vars, ServiceInv, NumberInv, Numbered, OlderInv, LogOrderInv, Ordered
    <2>3. PastInv' /\ Svc!ToldIsLogged' /\ StoreInv'
      BY <1>5 DEF Svc!vars, ServiceInv, PastInv, Svc!ToldIsLogged, Svc!Logged, StoreInv, Settled,
                  Svc!Rebuilds
    <2> QED
      BY <2>1, <2>2, <2>3 DEF ServiceInv
  <1> QED
    BY <1>1, <1>2, <1>3, <1>4, <1>5 DEF Svc!Next

\* ServiceInv is an invariant of the service.
THEOREM ServiceInductive == Svc!Spec => []ServiceInv
  BY ServiceInit, ServiceNext, PTL DEF Svc!Spec

\* What the invariant says of the service: wal.log tells the store unless its lock is held, what
\* a handler told a client is logged, and both logs are in call order.
LEMMA ServiceTells ==
    ServiceInv => Svc!StoreMatchesLog /\ Svc!ToldIsLogged /\ Svc!LogsKeepCallOrder
  BY DEF ServiceInv, StoreInv, Settled, Svc!StoreMatchesLog, LogOrderInv, Ordered,
         Svc!LogsKeepCallOrder

-----------------------------------------------------------------------------
(* The server: the invariant that joins the two. *)

\* A published change carries a request that is logged; while it is being published its
\* handler has not answered.
PublishedInv ==
    /\ published \in [Changes -> Svc!Requests] /\ begun \in [Streams -> 0..MaxChanges]
    /\ \A v \in Changes : v <= changes =>
        published[v].value \in 1..sets /\ Svc!Logged(published[v])
    /\ \A p \in Publishers : change[p] # 0 => pc[p] = "reply" /\ published[change[p]] = req[p]

\* KeepsCallOrder for the streams, by the order of changes.
HeardInv ==
    \A s \in Streams, v, w \in Changes :
        Prec(s, v, w) => published[w] \notin older[published[v].value]

\* Changes made before a stream was added carry Sets that were called before it was, and a Set
\* called and answered since then has been published.
BegunInv ==
    /\ \A s \in Streams, v \in Changes :
        v <= changes /\ v <= since[s] => published[v].value <= begun[s]
    /\ \A s \in Streams, r \in acked : Live(s) /\ r.value > begun[s] => Published(r)

ServerInv ==
    /\ StreamsInv
    /\ ServiceInv
    /\ PublishedInv
    /\ HeardInv
    /\ BegunInv

-----------------------------------------------------------------------------
(* It holds initially and every action of the server preserves it. *)

\* What the service's part of the invariant says of requests under way, and of what streams
\* have been given.
LEMMA ServerFacts ==
    ASSUME ServerInv
    PROVE  /\ MaxChanges \in Nat /\ sets \in 0..MaxChanges /\ changes \in 0..MaxChanges
           /\ change \in [Publishers -> 0..MaxChanges] /\ since \in [Streams -> 0..MaxChanges]
           /\ pc \in [Publishers -> {"idle", "store", "log", "server_log", "reply"}]
           /\ req \in [Publishers -> Svc!Requests] /\ acked \in SUBSET Svc!Requests
           /\ older \in [Changes -> SUBSET Svc!Requests]
           /\ \A p \in Publishers : change[p] # 0 => change[p] \in Changes /\ change[p] <= changes
           /\ \A s \in Streams : \A v, w : Prec(s, v, w) =>
                v \in Changes /\ w \in Changes /\ v <= changes /\ w <= changes
           /\ \A v \in Changes : v <= changes => published[v].value \in Changes
  <1>1. /\ MaxChanges \in Nat /\ sets \in 0..MaxChanges /\ changes \in 0..MaxChanges
        /\ change \in [Publishers -> 0..MaxChanges] /\ since \in [Streams -> 0..MaxChanges]
        /\ pc \in [Publishers -> {"idle", "store", "log", "server_log", "reply"}]
        /\ req \in [Publishers -> Svc!Requests] /\ acked \in SUBSET Svc!Requests
        /\ older \in [Changes -> SUBSET Svc!Requests]
    BY Constants DEF ServerInv, StreamsInv, ServiceInv, TypeOK, Svc!TypeOK, Changes
  <1>2. \A p \in Publishers : change[p] # 0 => change[p] \in Changes /\ change[p] <= changes
    BY <1>1 DEF ServerInv, StreamsInv, ChangeInv, Changes
  <1>3. ASSUME NEW s \in Streams, NEW v, NEW w, Prec(s, v, w)
        PROVE  v \in Changes /\ w \in Changes /\ v <= changes /\ w <= changes
    <2>1. Has(s, v) /\ Has(s, w) /\ v \in Changes /\ w \in Changes
      BY <1>3, GotFacts DEF ServerInv, StreamsInv
    <2> QED
      BY <2>1 DEF ServerInv, StreamsInv, ChangeInv
  <1>4. \A v \in Changes : v <= changes => published[v].value \in Changes
    BY <1>1 DEF ServerInv, PublishedInv, Changes
  <1> QED
    BY <1>1, <1>2, <1>3, <1>4

\* Nothing is called, published or heard.
LEMMA ServerBegins == ServerInit => ServerInv
  <1> SUFFICES ASSUME ServerInit PROVE ServerInv
    OBVIOUS
  <1>1. StreamsInv /\ ServiceInv
    BY StreamsInit, ServiceInit DEF ServerInit
  <1>2. changes = 0 /\ acked = {} /\ \A p \in Publishers : change[p] = 0
    BY DEF ServerInit, Init, Svc!Init
  <1>3. \A v \in Changes : ~(v <= changes)
    BY <1>2, Constants DEF Changes
  <1>4. PublishedInv
    <2>1. Svc!NoRequest \in Svc!Requests /\ MaxChanges \in Nat
      BY ServerAssumption, Constants DEF Svc!NoRequest, Svc!Requests
    <2>2. published \in [Changes -> Svc!Requests] /\ begun \in [Streams -> 0..MaxChanges]
      BY <2>1 DEF ServerInit, Unpublished, NotBegun, Changes
    <2> QED
      BY <1>2, <1>3, <2>2 DEF PublishedInv
  <1>5. HeardInv
    <2>1. ASSUME NEW s \in Streams, NEW v \in Changes, NEW w \in Changes, Prec(s, v, w) PROVE FALSE
      <3>1. Has(s, v)
        BY <1>1, <2>1, GotFacts DEF StreamsInv
      <3> QED
        BY <1>1, <1>3, <3>1 DEF StreamsInv, ChangeInv
    <2> QED
      BY <2>1 DEF HeardInv
  <1>6. BegunInv
    BY <1>2, <1>3 DEF BegunInv
  <1> QED
    BY <1>1, <1>4, <1>5, <1>6 DEF ServerInv

\* A step of Set or Get up to the answer.  What counts is that a handler in publish_change
\* stays there, that what is logged stays logged, and that only what is published is answered.
LEMMA HandlerStep ==
    ASSUME ServerInv, StreamsInv', ServiceInv', UNCHANGED <<vars, published, begun>>,
           sets <= sets', \A r : Svc!Logged(r) => Svc!Logged(r)',
           \A v \in 1..sets : older'[v] = older[v],
           \A p \in Publishers : change[p] # 0 => pc'[p] = pc[p] /\ req'[p] = req[p],
           \A r \in acked' : r \in acked \/ Published(r)
    PROVE  ServerInv'
  <1>1. UNCHANGED <<callbacks, inbound, sent, changes, change, stream, since, published, begun>>
    BY DEF vars, mapVars, listVars, frameVars, publishVars, history
  <1>2. sets \in Nat /\ sets' \in Nat
    BY DEF ServerInv, ServiceInv, Svc!TypeOK
  <1>3. PublishedInv'
    <2>1. published' \in [Changes -> Svc!Requests] /\ begun' \in [Streams -> 0..MaxChanges]
      BY <1>1 DEF ServerInv, PublishedInv
    <2>2. \A v \in Changes : v <= changes' => published'[v].value \in 1..sets'
      BY <1>1, <1>2 DEF ServerInv, PublishedInv
    <2>3. ASSUME NEW v \in Changes, v <= changes' PROVE Svc!Logged(published[v])'
      <3>1. PICK r : r = published[v] /\ r = published'[v]
        BY <1>1
      <3>2. Svc!Logged(r)
        BY <1>1, <2>3, <3>1 DEF ServerInv, PublishedInv
      <3>3. Svc!Logged(r)'
        BY <3>2
      <3> QED
        BY <3>1, <3>3 DEF Svc!Logged
    <2>4. \A p \in Publishers : change'[p] # 0 =>
              pc'[p] = "reply" /\ published'[change'[p]] = req'[p]
      BY <1>1 DEF ServerInv, PublishedInv
    <2> QED
      BY <2>1, <2>2, <2>3, <2>4 DEF PublishedInv
  <1>4. HeardInv'
    <2>1. \A s, v, w : Prec(s, v, w)' <=> Prec(s, v, w)
      BY <1>1, SameAll
    <2>2. ASSUME NEW s \in Streams, NEW v \in Changes, NEW w \in Changes, Prec(s, v, w)
          PROVE  published[w] \notin older'[published[v].value]
      <3>1. published[v].value \in 1..sets
        BY <2>2, ServerFacts DEF ServerInv, PublishedInv
      <3> QED
        BY <2>2, <3>1 DEF ServerInv, HeardInv
    <2> QED
      BY <1>1, <2>1, <2>2 DEF HeardInv
  <1>5. BegunInv'
    <2>1. \A s \in Streams : Live(s)' <=> Live(s)
      BY <1>1 DEF Live
    <2>2. \A r : Published(r)' <=> Published(r)
      BY <1>1 DEF Published
    <2> QED
      BY <1>1, <2>1, <2>2 DEF ServerInv, BegunInv
  <1> QED
    BY <1>3, <1>4, <1>5 DEF ServerInv

\* A step of a stream or a walk.  What is told has to be in order with what the stream has got,
\* and a stream that is added has all Sets called so far behind it.
LEMMA ListenerStep ==
    ASSUME ServerInv, StreamsInv', UNCHANGED <<serviceVars, published>>, UNCHANGED changes,
           \A p \in Publishers : change'[p] = change[p] \/ change'[p] = 0,
           \A s \in Streams, v, w \in Changes : Prec(s, v, w)' =>
                Prec(s, v, w) \/ published[w] \notin older[published[v].value],
           begun' \in [Streams -> 0..MaxChanges],
           \A s \in Streams :
                \/ since'[s] = since[s] /\ begun'[s] = begun[s] /\ (Live(s)' => Live(s))
                \/ begun'[s] = sets
    PROVE  ServerInv'
  <1>1. UNCHANGED <<store_wal, pc, req, sets, acked, older>> /\ UNCHANGED Svc!vars
    BY DEF serviceVars, Svc!vars
  <1>2. ServiceInv'
    BY <1>1, ServiceNext DEF ServerInv
  <1>3. PublishedInv'
    <2>1. published' \in [Changes -> Svc!Requests]
      BY DEF ServerInv, PublishedInv
    <2>2. \A v \in Changes : v <= changes' =>
            published'[v].value \in 1..sets' /\ Svc!Logged(published[v])'
      BY <1>1 DEF ServerInv, PublishedInv, Svc!Logged
    <2>3. \A p \in Publishers : change'[p] # 0 =>
              pc'[p] = "reply" /\ published'[change'[p]] = req'[p]
      BY <1>1 DEF ServerInv, PublishedInv
    <2> QED
      BY <2>1, <2>2, <2>3 DEF PublishedInv
  <1>4. HeardInv'
    BY <1>1 DEF ServerInv, HeardInv
  <1>5. BegunInv'
    <2>1. \A r : Published(r)' <=> Published(r)
      BY DEF Published
    <2>2. ASSUME NEW s \in Streams, begun'[s] = sets
          PROVE  /\ \A v \in Changes : v <= changes => published[v].value <= begun'[s]
                 /\ \A r \in acked : ~(r.value > begun'[s])
      <3>1. \A v \in Changes : v <= changes => published[v].value \in 1..sets
        BY DEF ServerInv, PublishedInv
      <3>2. \A r \in acked : r.value \in 1..sets
        BY DEF ServerInv, ServiceInv, NumberInv
      <3>3. sets \in Nat
        BY ServerFacts
      <3> QED
        BY <2>2, <3>1, <3>2, <3>3
    <2>3. ASSUME NEW s \in Streams, NEW v \in Changes, v <= changes, v <= since'[s]
          PROVE  published[v].value <= begun'[s]
      BY <2>2, <2>3 DEF ServerInv, BegunInv
    <2>4. ASSUME NEW s \in Streams, NEW r \in acked, Live(s)', r.value > begun'[s]
          PROVE  Published(r)
      BY <2>2, <2>4 DEF ServerInv, BegunInv
    <2> QED
      BY <1>1, <2>1, <2>3, <2>4 DEF BegunInv
  <1> QED
    BY <1>2, <1>3, <1>4, <1>5 DEF ServerInv

\* Set is called, or Get: nobody in publish_change is concerned, and what the new Set finds
\* answered is noted under a number of its own.
LEMMA CallStep ==
    ASSUME ServerInv, StreamsInv', NEW p \in Publishers, Call(p)
    PROVE  ServerInv'
  <1>1. PICK k \in Keys : Svc!SetCall(p, k) \/ Svc!Get(p, k)
    BY DEF Call
  <1>2. ServiceInv'
    BY <1>1, SetCallStep, GetStep DEF ServerInv
  <1>3. pc[p] = "idle" /\ change[p] = 0
    BY <1>1 DEF Svc!SetCall, Svc!Get, ServerInv, PublishedInv
  <1>4. /\ sets <= sets' /\ UNCHANGED <<store_wal, acked>>
        /\ \A v \in 1..sets : older'[v] = older[v]
    <2>1. sets \in 0..MaxChanges /\ MaxChanges \in Nat /\ DOMAIN older = 1..MaxChanges
      BY ServerFacts DEF Changes
    <2>2. CASE Svc!SetCall(p, k)
      BY <2>1, <2>2 DEF Svc!SetCall
    <2>3. CASE Svc!Get(p, k)
      BY <2>1, <2>3 DEF Svc!Get
    <2> QED
      BY <1>1, <2>2, <2>3
  <1>5. \A q \in Publishers : change[q] # 0 => pc'[q] = pc[q] /\ req'[q] = req[q]
    BY <1>1, <1>3, ServerFacts DEF Svc!SetCall, Svc!Get, Svc!Goto
  <1>6. \A r : Svc!Logged(r) => Svc!Logged(r)'
    BY <1>4 DEF Svc!Logged
  <1> QED
    BY <1>2, <1>4, <1>5, <1>6, HandlerStep DEF Call

\* A handler that updates the store or appends to a log is not in publish_change yet.
LEMMA LogStep ==
    ASSUME ServerInv, StreamsInv', NEW p \in Publishers, Log(p)
    PROVE  ServerInv'
  <1>1. Svc!SetStore(p) \/ Svc!SetLog(p) \/ Svc!SetServerLog(p)
    BY DEF Log
  <1>2. ServiceInv'
    BY <1>1, SetStoreStep, SetLogStep, SetServerLogStep DEF ServerInv
  <1>3. pc[p] # "reply" /\ change[p] = 0
    BY <1>1 DEF Svc!SetStore, Svc!SetLog, Svc!SetServerLog, ServerInv, PublishedInv
  <1>4. UNCHANGED <<sets, older, acked, req>>
    BY <1>1 DEF Svc!SetStore, Svc!SetLog, Svc!SetServerLog
  <1>5. \A q \in Publishers : q # p => pc'[q] = pc[q]
    BY <1>1, ServerFacts DEF Svc!SetStore, Svc!SetLog, Svc!SetServerLog, Svc!Goto
  <1>6. store_wal' = store_wal \/ store_wal' = Append(store_wal, req[p])
    BY <1>1 DEF Svc!SetStore, Svc!SetLog, Svc!SetServerLog
  <1>7. \A r : Svc!Logged(r) => Svc!Logged(r)'
    <2>1. req[p] \in Svc!Requests /\ store_wal \in Seq(Svc!Requests)
      BY DEF ServerInv, ServiceInv, Svc!TypeOK
    <2>2. CASE store_wal' = store_wal
      BY <2>2 DEF Svc!Logged
    <2>3. CASE store_wal' = Append(store_wal, req[p])
      BY <2>1, <2>3, AppendLogged
    <2> QED
      BY <1>6, <2>2, <2>3
  <1>8. sets <= sets'
    BY <1>4, ServerFacts
  <1> QED
    BY <1>2, <1>3, <1>4, <1>5, <1>7, <1>8, HandlerStep DEF Log

\* The handler answers what it has published.
LEMMA ReplyStep ==
    ASSUME ServerInv, StreamsInv', NEW p \in Publishers, Reply(p)
    PROVE  ServerInv'
  <1>1. Svc!SetReply(p) /\ Published(req[p]) /\ change[p] = 0
    BY DEF Reply
  <1>2. ServiceInv'
    BY <1>1, SetReplyStep DEF ServerInv
  <1>3. UNCHANGED <<sets, older, store_wal, req>> /\ acked' = acked \cup {req[p]}
    BY <1>1 DEF Svc!SetReply
  <1>4. \A q \in Publishers : q # p => pc'[q] = pc[q]
    BY <1>1, ServerFacts DEF Svc!SetReply, Svc!Goto
  <1>5. \A r : Svc!Logged(r) => Svc!Logged(r)'
    BY <1>3 DEF Svc!Logged
  <1>6. sets <= sets'
    BY <1>3, ServerFacts
  <1> QED
    BY <1>1, <1>2, <1>3, <1>4, <1>5, <1>6, HandlerStep DEF Reply

\* publish_change begins: the change carries a request that is logged and not answered.
LEMMA PublishChangeStep ==
    ASSUME ServerInv, StreamsInv', NEW p \in Publishers, PublishChange(p)
    PROVE  ServerInv'
  <1> DEFINE r == req[p]
  <1>1. /\ pc[p] = "reply" /\ change[p] = 0 /\ changes < MaxChanges
        /\ changes' = changes + 1
        /\ change' = [change EXCEPT ![p] = IF subs_map_ = 0 THEN 0 ELSE changes']
        /\ published' = [published EXCEPT ![changes'] = r]
        /\ UNCHANGED <<callbacks, inbound, sent, stream, since, begun>>
        /\ UNCHANGED <<store_wal, pc, req, sets, acked, older>> /\ UNCHANGED Svc!vars
    BY DEF PublishChange, PublishLookup, listVars, frameVars, history, serviceVars, Svc!vars
  <1>2. ServiceInv'
    BY <1>1, ServiceNext DEF ServerInv
  <1>3. r \in Svc!Requests /\ r.value \in 1..sets /\ Svc!Logged(r)
    BY <1>1, ServerFacts DEF ServerInv, ServiceInv, FreshInv, PastInv
  <1>4. changes' \in Changes /\ published \in [Changes -> Svc!Requests]
    BY <1>1, ServerFacts DEF Changes, ServerInv, PublishedInv
  <1>5. /\ published'[changes'] = r
        /\ \A v \in Changes : v <= changes => published'[v] = published[v] /\ v <= changes'
        /\ \A v \in Changes : v <= changes' => v = changes' \/ v <= changes
    BY <1>1, <1>4, ServerFacts DEF Changes
  <1>6. PublishedInv'
    <2>1. published' \in [Changes -> Svc!Requests] /\ begun' \in [Streams -> 0..MaxChanges]
      BY <1>1, <1>3, <1>4 DEF ServerInv, PublishedInv
    <2>2. ASSUME NEW v \in Changes, v <= changes'
          PROVE  published'[v].value \in 1..sets' /\ Svc!Logged(published[v])'
      BY <1>1, <1>3, <1>5, <2>2 DEF ServerInv, PublishedInv, Svc!Logged
    <2>3. ASSUME NEW q \in Publishers, change'[q] # 0
          PROVE  pc'[q] = "reply" /\ published'[change'[q]] = req'[q]
      <3>1. CASE q = p
        BY <1>1, <1>5, <2>3, <3>1, ServerFacts
      <3>2. CASE q # p
        BY <1>1, <1>5, <2>3, <3>2, ServerFacts DEF ServerInv, PublishedInv
      <3> QED
        BY <3>1, <3>2
    <2> QED
      BY <2>1, <2>2, <2>3 DEF PublishedInv
  <1>7. HeardInv'
    <2>1. \A s, v, w : Prec(s, v, w)' <=> Prec(s, v, w)
      BY <1>1, SameAll
    <2> QED
      BY <1>1, <1>5, <2>1, ServerFacts DEF ServerInv, HeardInv
  <1>8. BegunInv'
    <2>1. \A s \in Streams : since[s] <= changes
      BY DEF ServerInv, StreamsInv, ChangeInv
    <2>2. ASSUME NEW s \in Streams, NEW v \in Changes, v <= changes', v <= since'[s]
          PROVE  published'[v].value <= begun'[s]
      <3>1. v <= changes
        BY <1>1, <2>1, <2>2, ServerFacts DEF Changes
      <3> QED
        BY <1>1, <1>5, <2>2, <3>1 DEF ServerInv, BegunInv
    <2>3. ASSUME NEW q, Published(q) PROVE Published(q)'
      <3>1. PICK v \in 1..changes : published[v] = q
        BY <2>3 DEF Published
      <3>2. v \in Changes /\ v <= changes /\ v \in 1..changes'
        BY <1>1, <3>1, ServerFacts DEF Changes
      <3> QED
        BY <1>5, <3>1, <3>2 DEF Published
    <2>4. \A s \in Streams : Live(s)' <=> Live(s)
      BY <1>1 DEF Live
    <2> QED
      BY <1>1, <2>2, <2>3, <2>4 DEF ServerInv, BegunInv
  <1> QED
    BY <1>2, <1>6, <1>7, <1>8 DEF ServerInv

\* A walk tells a stream of a Set that is not answered, so none of those the stream has heard of
\* was called after it.
LEMMA WalkStep ==
    ASSUME ServerInv, StreamsInv', NEW p \in Publishers, Walk(p)
    PROVE  ServerInv'
  <1>1. /\ UNCHANGED <<serviceVars, published>> /\ UNCHANGED begun
        /\ PublishBegin(p) \/ PublishNext(p) \/ PublishEnd(p)
    BY DEF Walk, Publish
  <1>2. UNCHANGED <<changes, since, stream, sent>>
    BY <1>1 DEF PublishBegin, PublishNext, PublishEnd, frameVars, publishVars, history
  <1>3. \A q \in Publishers : change'[q] = change[q] \/ change'[q] = 0
    BY <1>1, ServerFacts DEF PublishBegin, PublishNext, PublishEnd, publishVars
  <1>4. \A s \in Streams : since'[s] = since[s] /\ begun'[s] = begun[s] /\ (Live(s)' => Live(s))
    BY <1>1, <1>2 DEF Live
  <1>5. begun' \in [Streams -> 0..MaxChanges]
    BY <1>1 DEF ServerInv, PublishedInv
  <1>6. ASSUME NEW s \in Streams, NEW v \in Changes, NEW w \in Changes, Prec(s, v, w)'
        PROVE  Prec(s, v, w) \/ published[w] \notin older[published[v].value]
    <2>1. CASE PublishBegin(p) \/ PublishEnd(p)
      <3>1. UNCHANGED inbound
        BY <2>1 DEF PublishBegin, PublishEnd, frameVars
      <3>2. Got(s)' = Got(s)
        BY <1>2, <3>1 DEF Got
      <3> QED
        BY <1>6, <3>2, SameGot
    <2>2. CASE PublishNext(p)
      <3>1. PICK t \in Streams :
                /\ LockNext(p, t)
                /\ \/ inbound' = [inbound EXCEPT ![t] = Append(@, change[p])] /\ UNCHANGED threw
                   \/ threw' = threw \cup {<<t, change[p]>>} /\ UNCHANGED inbound
        BY <2>2 DEF PublishNext
      <3>2. change[p] # 0
        <4>1. Walking(p)
          BY <3>1, FollowsOrder, Constants DEF LockNext, ServerInv, StreamsInv
        <4> QED
          BY <4>1 DEF ServerInv, StreamsInv, PlaceInv
      <3>3. change[p] \in Changes /\ change[p] <= changes
        BY <3>2, ServerFacts
      <3>4. Told(p, t)
        BY <1>2, <3>1, <3>3, CallbackTold DEF ServerInv, StreamsInv
      <3>5. CASE s = t /\ Has(s, v) /\ w = change[p]
        <4>1. published[w] = req[p] /\ req[p] \notin acked
          BY <3>2, <3>5 DEF ServerInv, PublishedInv, ServiceInv, FreshInv
        <4>2. v <= changes
          BY <3>5 DEF ServerInv, StreamsInv, ChangeInv
        <4>3. older[published[v].value] \subseteq acked
          BY <4>2, ServerFacts DEF ServerInv, ServiceInv, OlderInv, Changes
        <4> QED
          BY <4>1, <4>3
      <3> QED
        BY <1>6, <3>4, <3>5 DEF Told
    <2> QED
      BY <1>1, <2>1, <2>2
  <1> QED
    BY <1>1, <1>2, <1>3, <1>4, <1>5, <1>6, ListenerStep

\* A stream that is added, served or removed hears of nothing new.
LEMMA ServeStep ==
    ASSUME ServerInv, StreamsInv', NEW s \in Streams, Serve(s)
    PROVE  ServerInv'
  <1> DEFINE A == Add(s)
             E == RemoveLock(s) \/ RemoveFound(s) \/ RemoveNothing(s)
             Q == Refuse(s) \/ GetOrCreateSubs(s) \/ Cancel(s) \/ RemoveWalk(s)
  <1>1. /\ UNCHANGED <<serviceVars, published>>
        /\ A \/ Q \/ StreamLoop(s) \/ E
        /\ begun' = [begun EXCEPT ![s] = IF stream[s] = "listed" THEN sets ELSE @]
    BY DEF Serve, Subscribe
  <1>2. UNCHANGED <<changes, change>>
    <2>1. CASE A
      BY <2>1 DEF Add, publishVars
    <2>2. CASE Q
      BY <2>2 DEF Refuse, GetOrCreateSubs, Cancel, RemoveWalk, publishVars
    <2>3. CASE StreamLoop(s)
      BY <2>3 DEF StreamLoop, publishVars
    <2>4. CASE E
      BY <2>4 DEF RemoveLock, RemoveFound, RemoveNothing, Return, publishVars
    <2> QED
      BY <1>1, <2>1, <2>2, <2>3, <2>4
  <1>3. begun \in [Streams -> 0..MaxChanges] /\ sets \in 0..MaxChanges
        /\ stream \in [Streams -> {"new", "refused", "listed", "loop", "leaving",
                                   "removing", "returned"}]
        /\ since \in [Streams -> 0..MaxChanges]
        /\ inbound \in [Streams -> Seq(Changes)] /\ sent \in [Streams -> Seq(Changes)]
    BY ServerFacts DEF ServerInv, PublishedInv, StreamsInv, TypeOK, Changes
  <1>4. begun' \in [Streams -> 0..MaxChanges]
    BY <1>1, <1>3
  <1>5. ASSUME NEW t \in Streams
        PROVE  \/ since'[t] = since[t] /\ begun'[t] = begun[t] /\ (Live(t)' => Live(t))
               \/ begun'[t] = sets
    <2>1. begun'[t] = begun[t] \/ begun'[t] = sets
      BY <1>1, <1>3
    <2>2. CASE A
      BY <1>1, <1>3, <2>2 DEF Add, Live
    <2>3. CASE Q
      BY <1>3, <2>1, <2>3
      DEF Refuse, GetOrCreateSubs, Cancel, RemoveWalk, frameVars, history, Live
    <2>4. CASE StreamLoop(s)
      BY <1>3, <2>1, <2>4 DEF StreamLoop, Live
    <2>5. CASE E
      BY <1>3, <2>1, <2>5 DEF RemoveLock, RemoveFound, RemoveNothing, Return, history, Live
    <2> QED
      BY <1>1, <2>2, <2>3, <2>4, <2>5
  <1>6. ASSUME NEW t \in Streams, NEW v \in Changes, NEW w \in Changes, Prec(t, v, w)'
        PROVE  Prec(t, v, w)
    <2>1. \/ inbound'[t] = inbound[t] /\ sent'[t] = sent[t]
          \/ /\ inbound[t] # <<>> /\ inbound'[t] = Tail(inbound[t])
             /\ sent'[t] = Append(sent[t], Head(inbound[t]))
          \/ /\ sent'[t] = sent[t]
             /\ inbound'[t] = <<>> \/ (inbound[t] # <<>> /\ inbound'[t] = Tail(inbound[t]))
      <3>1. CASE A
        BY <3>1 DEF Add
      <3>2. CASE Q
        BY <3>2 DEF Refuse, GetOrCreateSubs, Cancel, RemoveWalk, frameVars, history
      <3>3. CASE StreamLoop(s)
        BY <1>3, <3>3 DEF StreamLoop
      <3>4. CASE E
        BY <1>3, <3>4 DEF RemoveLock, RemoveFound, RemoveNothing, Return, history
      <3> QED
        BY <1>1, <3>1, <3>2, <3>3, <3>4
    <2>2. CASE inbound'[t] = inbound[t] /\ sent'[t] = sent[t]
      <3>1. Got(t)' = Got(t)
        BY <2>2 DEF Got
      <3> QED
        BY <1>6, <3>1, SameGot
    <2>3. CASE /\ inbound[t] # <<>> /\ inbound'[t] = Tail(inbound[t])
               /\ sent'[t] = Append(sent[t], Head(inbound[t]))
      <3>1. Got(t)' = Got(t)
        BY <2>3, SendGot DEF ServerInv, StreamsInv
      <3> QED
        BY <1>6, <3>1, SameGot
    <2>4. CASE /\ sent'[t] = sent[t]
               /\ inbound'[t] = <<>> \/ (inbound[t] # <<>> /\ inbound'[t] = Tail(inbound[t]))
      BY <1>6, <2>4, DropGot DEF ServerInv, StreamsInv
    <2> QED
      BY <2>1, <2>2, <2>3, <2>4
  <1> QED
    BY <1>1, <1>2, <1>4, <1>5, <1>6, ListenerStep

\* The process dies: the next one starts without streams and changes, and with the logs.
LEMMA DieStep ==
    ASSUME ServerInv, Die, ~undefined
    PROVE  ServerInv'
  <1>1. StreamsInv'
    <2>1. undefined = FALSE
      BY DEF ServerInv, StreamsInv, TypeOK
    <2>2. Init'
      BY <2>1 DEF Die, Init
    <2>3. (Init => StreamsInv)'
      BY StreamsInit, PTL
    <2> QED
      BY <2>2, <2>3
  <1>2. ServiceInv'
    BY CrashStep DEF Die, ServerInv
  <1>3. changes' = 0 /\ \A p \in Publishers : change'[p] = 0
    BY DEF Die
  <1>4. \A v \in Changes : ~(v <= changes')
    BY <1>3, Constants DEF Changes
  <1>5. PublishedInv'
    <2>1. Svc!NoRequest \in Svc!Requests /\ MaxChanges \in Nat
      BY ServerAssumption, Constants DEF Svc!NoRequest, Svc!Requests
    <2>2. published' \in [Changes -> Svc!Requests] /\ begun' \in [Streams -> 0..MaxChanges]
      BY <2>1 DEF Die, Unpublished, NotBegun, Changes
    <2> QED
      BY <1>3, <1>4, <2>2 DEF PublishedInv
  <1>6. HeardInv'
    <2>1. ASSUME NEW s \in Streams, NEW v \in Changes, NEW w \in Changes, Prec(s, v, w)'
          PROVE  FALSE
      <3>1. Got(s)' = <<>>
        BY DEF Die, Got
      <3>2. Len(Got(s))' = 0
        BY <3>1
      <3> QED
        BY <2>1, <3>2 DEF Prec
    <2> QED
      BY <2>1 DEF HeardInv
  <1>7. BegunInv'
    <2>1. \A s \in Streams : ~Live(s)'
      BY DEF Die, Live
    <2> QED
      BY <1>4, <2>1 DEF BegunInv
  <1> QED
    BY <1>1, <1>2, <1>5, <1>6, <1>7 DEF ServerInv

\* ServerInv is inductive: one case for each action.
LEMMA ServerStep == ServerInv /\ [ServerNext]_serverVars => ServerInv'
  <1> SUFFICES ASSUME ServerInv, [ServerNext]_serverVars PROVE ServerInv'
    OBVIOUS
  <1>1. ASSUME UNCHANGED vars PROVE StreamsInv'
    BY <1>1, StreamsNext DEF ServerInv
  <1>2. ASSUME NEW p \in Publishers, Call(p) \/ Log(p) \/ Reply(p) PROVE ServerInv'
    <2>1. StreamsInv'
      BY <1>1, <1>2 DEF Call, Log, Reply
    <2> QED
      BY <1>2, <2>1, CallStep, LogStep, ReplyStep
  <1>3. ASSUME NEW p \in Publishers, ~undefined, PublishChange(p) PROVE ServerInv'
    <2>1. Next
      BY <1>3 DEF PublishChange, Next
    <2> QED
      BY <1>3, <2>1, StreamsNext, PublishChangeStep DEF ServerInv
  <1>4. ASSUME NEW p \in Publishers, Walk(p) PROVE ServerInv'
    <2>1. Next
      BY <1>4 DEF Walk, Next
    <2> QED
      BY <1>4, <2>1, StreamsNext, WalkStep DEF ServerInv
  <1>5. ASSUME NEW s \in Streams, ~undefined, Serve(s) PROVE ServerInv'
    <2>1. Next
      BY <1>5 DEF Serve, Subscribe, Next
    <2> QED
      BY <1>5, <2>1, StreamsNext, ServeStep DEF ServerInv
  <1>6. CASE UNCHANGED serverVars
    <2>1. StreamsInv' /\ UNCHANGED vars /\ UNCHANGED <<serviceVars, published>> /\ UNCHANGED begun
      BY <1>1, <1>6 DEF serverVars
    <2>2. UNCHANGED <<callbacks, inbound, sent, changes, change, since, stream>>
      BY <2>1 DEF vars, listVars, frameVars, publishVars, history
    <2>3. \A s, v, w : Prec(s, v, w)' <=> Prec(s, v, w)
      BY <2>2, SameAll
    <2>4. \A s \in Streams : Live(s)' <=> Live(s)
      BY <2>2 DEF Live
    <2>5. begun' \in [Streams -> 0..MaxChanges]
      BY <2>1 DEF ServerInv, PublishedInv
    <2> QED
      BY <2>1, <2>2, <2>3, <2>4, <2>5, ListenerStep
  <1>7. CASE ~undefined /\ Die
    BY <1>7, DieStep
  <1> QED
    BY <1>2, <1>3, <1>4, <1>5, <1>6, <1>7 DEF ServerNext

\* ServerInv is an invariant of the server.
THEOREM ServerInductive == ServerSpec => []ServerInv
  BY ServerBegins, ServerStep, PTL DEF ServerSpec

-----------------------------------------------------------------------------
(* What the invariant says of the server. *)

\* Whenever the store lock is free, wal.log tells the content of the store, except for a key
\* whose latest append threw: for any number of handlers, streams and crashes.
THEOREM StoreIsLogged == ServerSpec => []StoreMatchesLog
  <1>1. ServerInv => StoreMatchesLog
    BY ServiceTells DEF ServerInv, StoreMatchesLog
  <1> QED
    BY <1>1, ServerInductive, PTL

\* "Sync WAL before ack": what Set acknowledged and what a stream hears is in wal.log, and so is
\* what Get returned unless its append threw, across crashes.
THEOREM ToldLogged == ServerSpec => []ToldIsLogged
  <1>1. ASSUME ServerInv, NEW s \in Streams, NEW i \in DOMAIN Got(s)
        PROVE  Svc!Logged(published[Got(s)[i]])
    <2>1. Got(s) \in Seq(Changes) /\ DOMAIN Got(s) = 1..Len(Got(s))
      BY <1>1, GotFacts, LenProperties DEF ServerInv, StreamsInv
    <2>2. Has(s, Got(s)[i]) /\ Got(s)[i] \in Changes
      BY <2>1, <1>1, ElementOfSeq DEF Has
    <2>3. Got(s)[i] <= changes
      BY <1>1, <2>2 DEF ServerInv, StreamsInv, ChangeInv
    <2> QED
      BY <1>1, <2>2, <2>3 DEF ServerInv, PublishedInv
  <1>2. ServerInv => ToldIsLogged
    BY <1>1, ServiceTells DEF ServerInv, ToldIsLogged
  <1> QED
    BY <1>2, ServerInductive, PTL

\* In wal.log, in custom.wal and in what a stream hears, a Set that was called after another one
\* was answered is behind it.
THEOREM CallOrder == ServerSpec => []KeepsCallOrder
  <1>1. ASSUME ServerInv, NEW s \in Streams, NEW i \in DOMAIN Got(s), NEW j \in DOMAIN Got(s), i < j
        PROVE  published[Got(s)[j]] \notin older[published[Got(s)[i]].value]
    <2>1. Got(s) \in Seq(Changes) /\ DOMAIN Got(s) = 1..Len(Got(s))
      BY <1>1, GotFacts, LenProperties DEF ServerInv, StreamsInv
    <2>2. Prec(s, Got(s)[i], Got(s)[j])
      BY <1>1, <2>1 DEF Prec
    <2>3. Got(s)[i] \in Changes /\ Got(s)[j] \in Changes
      BY <1>1, <2>2, ServerFacts
    <2> QED
      BY <1>1, <2>2, <2>3 DEF ServerInv, HeardInv
  <1>2. ServerInv => KeepsCallOrder
    BY <1>1, ServiceTells DEF ServerInv, KeepsCallOrder
  <1> QED
    BY <1>2, ServerInductive, PTL

\* A Set answered with success has reached every stream that was added before it was called, is
\* still served and not lost, unless the stream's callback threw at it.
THEOREM AnswerAfterTelling == ServerSpec => []AnsweredIsHeard
  <1>1. ASSUME ServerInv, NEW s \in Streams \ lost, NEW r \in acked, stream[s] = "loop",
               r.value > begun[s]
        PROVE  \E v \in 1..changes : published[v] = r /\ (<<s, v>> \in threw \/ v \in Range(Got(s)))
    <2>1. Published(r)
      BY <1>1 DEF ServerInv, BegunInv, Live
    <2>2. PICK v \in 1..changes : published[v] = r
      BY <2>1 DEF Published
    <2>3. v \in Changes /\ v <= changes
      BY <1>1, <2>2, ServerFacts DEF Changes
    <2>4. since[s] < v
      <3>1. ~(v <= since[s])
        <4>1. SUFFICES ASSUME v <= since[s] PROVE FALSE
          OBVIOUS
        <4>2. r.value <= begun[s]
          BY <1>1, <2>2, <2>3, <4>1 DEF ServerInv, BegunInv
        <4>3. r.value \in Int /\ begun[s] \in Int
          <5>1. r.value \in 1..sets /\ begun[s] \in 0..MaxChanges
            BY <1>1 DEF ServerInv, ServiceInv, NumberInv, PublishedInv
          <5> QED
            BY <5>1
        <4> QED
          BY <1>1, <4>2, <4>3
      <3>2. since[s] \in Int
        BY <1>1, ServerFacts
      <3> QED
        BY <3>1, <3>2
    <2>5. ASSUME NEW p \in Publishers, change[p] = v PROVE FALSE
      <3>1. change[p] # 0
        BY <2>2, <2>5
      <3>2. published[change[p]] = req[p] /\ req[p] \notin acked
        BY <1>1, <3>1 DEF ServerInv, PublishedInv, ServiceInv, FreshInv
      <3> QED
        BY <1>1, <2>2, <2>5, <3>2
    <2>6. <<s, v>> \in threw \/ Has(s, v)
      BY <1>1, <2>3, <2>4, <2>5 DEF ServerInv, StreamsInv, SettledInv
    <2>7. ASSUME Has(s, v) PROVE v \in Range(Got(s))
      <3>1. DOMAIN Got(s) = 1..Len(Got(s))
        BY <1>1, GotFacts, LenProperties DEF ServerInv, StreamsInv
      <3> QED
        BY <2>7, <3>1 DEF Has, Range
    <2> QED
      BY <2>2, <2>6, <2>7
  <1>2. ServerInv => AnsweredIsHeard
    BY <1>1 DEF AnsweredIsHeard
  <1> QED
    BY <1>2, ServerInductive, PTL

\* Streams do not change what Set and Get promise: the server behaves as the service does, so
\* every invariant of the service is one of the server.
THEOREM ServerIsService == ServerSpec => Svc!Spec
  <1>1. ServerInit => Svc!Init
    BY DEF ServerInit
  <1>2. ASSUME [ServerNext]_serverVars PROVE [Svc!Next]_Svc!vars
    <2>1. ASSUME NEW p \in Publishers, Call(p) \/ Log(p) \/ Reply(p) PROVE Svc!Next
      BY <2>1 DEF Call, Log, Reply, Svc!Next, Svc!Set
    <2>2. ASSUME NEW p \in Publishers, PublishChange(p) \/ Walk(p) PROVE UNCHANGED Svc!vars
      BY <2>2 DEF PublishChange, Walk, serviceVars, Svc!vars
    <2>3. ASSUME NEW s \in Streams, Serve(s) PROVE UNCHANGED Svc!vars
      BY <2>3 DEF Serve, serviceVars, Svc!vars
    <2>4. CASE Die
      BY <2>4 DEF Die, Svc!Next
    <2>5. CASE UNCHANGED serverVars
      BY <2>5 DEF serverVars, serviceVars, Svc!vars
    <2> QED
      BY <1>2, <2>1, <2>2, <2>3, <2>4, <2>5 DEF ServerNext
  <1> QED
    BY <1>1, <1>2, PTL DEF ServerSpec, Svc!Spec
=============================================================================

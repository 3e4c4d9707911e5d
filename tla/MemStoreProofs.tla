--------------------------- MODULE MemStoreProofs ---------------------------
(***************************************************************************)
(* Theorems about MemStore for any keys and deadlines, any number of       *)
(* writes, any clock, and appends that may or may not throw.               *)
(*                                                                         *)
(* What makes the properties inductive is what a cleanup_expired that has  *)
(* looked at a key and not acted yet may rely on, although it holds no     *)
(* lock: an entry it will erase belongs to a key one of whose deadlines    *)
(* has passed (EraseInv), and a node it will drop is not the only one of   *)
(* an entry that has got a deadline since (DropInv).                       *)
(***************************************************************************)
EXTENDS MemStore, SequenceTheorems, TLAPS

Entries == [value : Values, version : Values, expires_at : 0..Forever]

\* A key has had no more entries, and its entry no more versions, than there were writes.
CountInv == \A k \in Keys : births[k] <= writes /\ store_[k].version <= writes

\* The deadline of an entry is one that a set gave its key.
EntryInv ==
    \A k \in Keys : Exists(k) =>
        store_[k].expires_at = Forever \/ store_[k].expires_at \in deadlines[k]

\* LivesUntilDeadline without what EntryInv says about the deadline.
ValueInv ==
    \A k \in Keys :
        latest[k] # 0 /\ (\A d \in deadlines[k] : now <= d) =>
            Exists(k) /\ store_[k].value = latest[k]

\* What cleanup_expired is about to erase has had its deadline.
EraseInv == verdict = "erase" => \E d \in deadlines[ttl_index_[At]] : d < now

\* A key whose node cleanup_expired is about to drop has another node in front of it, if its
\* entry has come back with a deadline.
DropInv ==
    verdict = "drop" =>
        LET k == ttl_index_[At]
        IN  Exists(k) /\ store_[k].expires_at # Forever =>
                \E i \in 1..(At - 1) : ttl_index_[i] = k

\* A successful set_if_version used a version that its entry, if it is still there, is past.
WinInv ==
    \A i \in DOMAIN wins :
        LET w == wins[i]
        IN  /\ w.birth <= births[w.key]
            /\ w.birth = births[w.key] /\ Exists(w.key) => w.version < store_[w.key].version

\* VisibleIsLogged, for expired entries too.
LogInv ==
    \A k \in Keys : \/ store_[k].value = 0
                    \/ LastLogged(k, store_[k].value)
                    \/ store_[k].value \in threw

IInv ==
    /\ TypeOK
    /\ CountInv
    /\ EntryInv
    /\ ValueInv
    /\ EraseInv
    /\ IndexCoversDeadlines
    /\ DropInv
    /\ WinInv
    /\ OneWinnerPerVersion
    /\ LogInv

-----------------------------------------------------------------------------
(* The operators of the model. *)

\* What the assumptions on the constants give the leaves below.
LEMMA Constants ==
    /\ MaxWrites \in Nat /\ MaxTime \in Nat \ {0} /\ Ttls \subseteq Nat
    /\ Values = 0..MaxWrites /\ Forever = MaxTime + 1
  BY MemStoreAssumption DEF Values, Forever

\* operator[] returns the entry, or makes a fresh one.
LEMMA EntryFacts ==
    ASSUME TypeOK, NEW k \in Keys
    PROVE  /\ store_[k] \in Entries /\ Entry(k) \in Entries
           /\ Exists(k) => Entry(k) = store_[k]
           /\ ~Exists(k) => /\ store_[k] = Absent
                            /\ Entry(k).value = 0 /\ Entry(k).version = 0
                            /\ Entry(k).expires_at = Forever
  <1>1. store_[k] \in Entries
    BY DEF TypeOK, Entries
  <1>2. Fresh \in Entries
    BY Constants DEF Fresh, Entries
  <1> QED
    BY <1>1, <1>2 DEF Entry, Exists, Fresh

\* What ttl_index_.push_front does to the list.
LEMMA PushFacts ==
    ASSUME NEW s \in Seq(Keys), NEW k \in Keys
    PROVE  /\ <<k>> \o s \in Seq(Keys)
           /\ Len(s) \in Nat /\ Len(<<k>> \o s) = Len(s) + 1
           /\ (<<k>> \o s)[1] = k
           /\ \A i \in 1..Len(s) : (<<k>> \o s)[i + 1] = s[i]
           /\ ToSet(<<k>> \o s) = ToSet(s) \cup {k}
  <1>1. <<k>> \in Seq(Keys) /\ Len(<<k>>) = 1 /\ <<k>>[1] = k
    OBVIOUS
  <1>2. /\ <<k>> \o s \in Seq(Keys)
        /\ Len(s) \in Nat /\ Len(<<k>> \o s) = Len(s) + 1
        /\ \A i \in 1..(Len(s) + 1) : (<<k>> \o s)[i] = IF i <= 1 THEN k ELSE s[i - 1]
        /\ DOMAIN s = 1..Len(s) /\ DOMAIN (<<k>> \o s) = 1..(Len(s) + 1)
    BY <1>1, ConcatProperties, LenProperties
  <1>3. \A i \in 1..Len(s) : i + 1 \in 1..(Len(s) + 1) /\ (<<k>> \o s)[i + 1] = s[i]
    BY <1>2
  <1>4. (<<k>> \o s)[1] = k
    BY <1>2
  <1>5. ToSet(<<k>> \o s) = ToSet(s) \cup {k}
    <2>1. \A j \in 1..(Len(s) + 1) : (<<k>> \o s)[j] \in ToSet(s) \cup {k}
      <3> TAKE j \in 1..(Len(s) + 1)
      <3>1. CASE j = 1
        BY <3>1, <1>4
      <3>2. CASE j # 1
        <4>1. j - 1 \in 1..Len(s) /\ (<<k>> \o s)[j] = s[j - 1]
          BY <3>2, <1>2
        <4> QED
          BY <4>1, <1>2 DEF ToSet
      <3> QED
        BY <3>1, <3>2
    <2>2. \A i \in 1..Len(s) : s[i] \in ToSet(<<k>> \o s)
      BY <1>2, <1>3 DEF ToSet
    <2>3. k \in ToSet(<<k>> \o s)
      BY <1>2, <1>4 DEF ToSet
    <2> QED
      BY <1>2, <2>1, <2>2, <2>3 DEF ToSet
  <1> QED
    BY <1>2, <1>3, <1>4, <1>5

\* What remove_if does to the list when it removes the node at i.
LEMMA RemoveFacts ==
    ASSUME NEW s \in Seq(Keys), NEW i \in 1..Len(s)
    PROVE  /\ RemoveAt(s, i) \in Seq(Keys)
           /\ \A j \in 1..Len(s) : j # i => s[j] \in ToSet(RemoveAt(s, i))
  <1> DEFINE a == SubSeq(s, 1, i - 1)
             b == SubSeq(s, i + 1, Len(s))
  <1>1. Len(s) \in Nat /\ \A j \in 1..Len(s) : s[j] \in Keys
    BY LenProperties, ElementOfSeq
  <1>2. /\ a \in Seq(Keys) /\ Len(a) = i - 1
        /\ \A j \in 1..(i - 1) : a[j] = s[j]
    BY <1>1, SubSeqProperties
  <1>3. /\ b \in Seq(Keys) /\ Len(b) = Len(s) - i
        /\ \A j \in 1..(Len(s) - i) : b[j] = s[i + j]
    <2>1. \A j \in (i + 1)..Len(s) : s[j] \in Keys
      BY <1>1
    <2>2. /\ b \in Seq(Keys)
          /\ Len(b) = IF i + 1 <= Len(s) THEN Len(s) - (i + 1) + 1 ELSE 0
          /\ \A j \in 1..(Len(s) - (i + 1) + 1) : b[j] = s[(i + 1) + j - 1]
      BY <1>1, <2>1, SubSeqProperties
    <2>3. Len(b) = Len(s) - i /\ Len(s) - (i + 1) + 1 = Len(s) - i
      BY <1>1, <2>2
    <2>4. \A j \in 1..(Len(s) - i) : (i + 1) + j - 1 = i + j
      BY <1>1
    <2> QED
      BY <2>2, <2>3, <2>4
  <1> HIDE DEF a, b
  <1>4. /\ a \o b \in Seq(Keys)
        /\ DOMAIN (a \o b) = 1..(Len(s) - 1)
        /\ \A j \in 1..(Len(s) - 1) : (a \o b)[j] = IF j <= i - 1 THEN a[j] ELSE b[j - (i - 1)]
    <2>1. Len(a) + Len(b) = Len(s) - 1
      BY <1>1, <1>2, <1>3
    <2>2. /\ a \o b \in Seq(Keys) /\ Len(a \o b) = Len(a) + Len(b)
          /\ \A j \in 1..(Len(a) + Len(b)) :
                (a \o b)[j] = IF j <= Len(a) THEN a[j] ELSE b[j - Len(a)]
      BY <1>2, <1>3, ConcatProperties
    <2> QED
      BY <1>2, <2>1, <2>2, LenProperties
  <1>5. ASSUME NEW j \in 1..Len(s), j # i PROVE s[j] \in ToSet(a \o b)
    <2>1. CASE j < i
      <3>1. j \in 1..(Len(s) - 1) /\ (a \o b)[j] = s[j]
        BY <1>1, <1>2, <1>4, <2>1
      <3> QED
        BY <1>4, <3>1 DEF ToSet
    <2>2. CASE j > i
      <3>1. j - 1 \in 1..(Len(s) - 1) /\ (j - 1) - (i - 1) \in 1..(Len(s) - i)
            /\ i + ((j - 1) - (i - 1)) = j /\ ~(j - 1 <= i - 1)
        BY <1>1, <2>2
      <3>2. (a \o b)[j - 1] = s[j]
        BY <1>3, <1>4, <3>1
      <3> QED
        BY <1>4, <3>1, <3>2 DEF ToSet
    <2> QED
      BY <1>1, <1>5, <2>1, <2>2
  <1> QED
    BY <1>4, <1>5 DEF RemoveAt, a, b

\* What wal_.append does for the key: its value is the last one logged, or has thrown; the
\* other keys are not affected.
LEMMA LogStep ==
    ASSUME IInv, NEW k \in Keys, NEW e \in Entries, LogAppend(k, e.value),
           store_' = [store_ EXCEPT ![k] = e]
    PROVE  LogInv' /\ log' \in Seq([key : Keys, value : Values]) /\ threw' \in SUBSET Values
  <1> DEFINE r == [key |-> k, value |-> e.value]
             Rec == [key : Keys, value : Values]
  <1> USE DEF IInv
  <1>1. r \in Rec /\ e.value \in Values /\ log \in Seq(Rec) /\ threw \in SUBSET Values
    BY DEF Entries, TypeOK
  <1>2. store_'[k] = e /\ \A j \in Keys : j # k => store_'[j] = store_[j]
    BY DEF TypeOK
  <1>3. CASE log' = Append(log, r) /\ UNCHANGED threw
    <2>1. /\ log' \in Seq(Rec) /\ Len(log) \in Nat
          /\ DOMAIN log = 1..Len(log) /\ DOMAIN log' = 1..(Len(log) + 1)
          /\ \A i \in 1..Len(log) : log'[i] = log[i]
          /\ log'[Len(log) + 1] = r
      BY <1>1, <1>3, AppendProperties, LenProperties
    <2>2. LastLogged(k, e.value)'
      BY <2>1 DEF LastLogged
    <2>3. ASSUME NEW j \in Keys, j # k, NEW v, LastLogged(j, v) PROVE LastLogged(j, v)'
      BY <2>1, <2>3 DEF LastLogged
    <2> QED
      BY <1>1, <1>2, <1>3, <2>1, <2>2, <2>3 DEF LogInv
  <1>4. CASE threw' = threw \cup {e.value} /\ UNCHANGED log
    BY <1>1, <1>2, <1>4 DEF LogInv, LastLogged
  <1> QED
    BY <1>3, <1>4 DEF LogAppend

-----------------------------------------------------------------------------
(* The invariant holds initially and every action preserves it. *)

\* An empty store.
LEMMA InitIInv == Init => IInv
  <1> SUFFICES ASSUME Init PROVE IInv
    OBVIOUS
  <1>1. TypeOK
    <2>1. Absent \in Entries
      BY Constants DEF Absent, Entries
    <2>2. store_ \in [Keys -> Entries] /\ left \in 0..Len(ttl_index_)
      BY <2>1 DEF Init
    <2>3. /\ ttl_index_ \in Seq(Keys) /\ log \in Seq([key : Keys, value : Values])
          /\ wins \in Seq([key : Keys, birth : Values, version : Values])
      BY DEF Init
    <2>4. /\ now \in 1..MaxTime /\ writes \in Values /\ latest \in [Keys -> Values]
          /\ births \in [Keys -> Values]
      BY Constants DEF Init
    <2> QED
      BY <2>2, <2>3, <2>4 DEF Init, TypeOK, Entries
  <1>2. CountInv /\ EntryInv /\ ValueInv /\ EraseInv /\ IndexCoversDeadlines /\ DropInv
    BY Constants DEF Init, CountInv, EntryInv, ValueInv, EraseInv, IndexCoversDeadlines, DropInv,
                     Exists, Absent
  <1>3. WinInv /\ OneWinnerPerVersion /\ LogInv
    BY DEF Init, WinInv, OneWinnerPerVersion, IsInjective, LogInv, Absent
  <1> QED
    BY <1>1, <1>2, <1>3 DEF IInv

\* The version that operator[] finds is no more than the number of writes.
LEMMA VersionFacts ==
    ASSUME IInv, NEW k \in Keys
    PROVE  /\ writes \in 0..MaxWrites /\ Entry(k) \in Entries
           /\ Entry(k).version <= writes /\ Entry(k).version \in Nat
  <1>1. writes \in 0..MaxWrites /\ Entry(k) \in Entries
    BY EntryFacts, Constants DEF IInv, TypeOK
  <1>2. Entry(k).version \in Nat
    BY <1>1, Constants DEF Entries
  <1>3. Entry(k).version <= writes
    BY <1>1, EntryFacts DEF IInv, CountInv
  <1> QED
    BY <1>1, <1>2, <1>3

\* Counting the writes and the births of an entry that is written to.
LEMMA BornFacts ==
    ASSUME IInv, NEW k \in Keys, Born(k), writes < MaxWrites, writes' = writes + 1,
           NEW e \in Entries, e.version <= Entry(k).version + 1,
           store_' = [store_ EXCEPT ![k] = e]
    PROVE  /\ writes' \in Values /\ births' \in [Keys -> Values] /\ CountInv'
           /\ births'[k] = IF Exists(k) THEN births[k] ELSE births[k] + 1
           /\ \A j \in Keys : j # k => births'[j] = births[j]
           /\ store_' \in [Keys -> Entries] /\ store_'[k] = e
           /\ \A j \in Keys : j # k => store_'[j] = store_[j]
  <1> USE DEF IInv
  <1>1. /\ births' = [births EXCEPT ![k] = IF Exists(k) THEN @ ELSE @ + 1]
        /\ births \in [Keys -> Values] /\ writes \in 0..MaxWrites /\ Values = 0..MaxWrites
    BY Constants DEF Born, TypeOK
  <1>2. /\ births'[k] = IF Exists(k) THEN births[k] ELSE births[k] + 1
        /\ \A j \in Keys : j # k => births'[j] = births[j]
    BY <1>1
  <1>3. \A j \in Keys : births'[j] \in Values /\ births'[j] <= writes'
    BY <1>1, <1>2, Constants DEF CountInv
  <1>4. births' \in [Keys -> Values]
    BY <1>1, <1>3
  <1>5. /\ store_' \in [Keys -> Entries] /\ store_'[k] = e
        /\ \A j \in Keys : j # k => store_'[j] = store_[j]
    BY DEF TypeOK, Entries
  <1>6. \A j \in Keys : store_'[j].version <= writes'
    <2>1. Entry(k).version <= writes /\ Entry(k).version \in Nat /\ e.version \in Nat
      BY VersionFacts, Constants DEF Entries
    <2>2. \A j \in Keys : store_[j].version \in Nat
      BY Constants DEF TypeOK
    <2> QED
      BY <1>1, <1>5, <2>1, <2>2 DEF CountInv
  <1> QED
    BY <1>1, <1>2, <1>3, <1>4, <1>5, <1>6, Constants DEF CountInv

\* The type of a successful set_if_version.
LEMMA WinFacts ==
    ASSUME IInv, NEW i \in DOMAIN wins
    PROVE  wins[i].key \in Keys /\ wins[i].birth \in Nat /\ wins[i].version \in Nat
  <1>1. wins[i] \in [key : Keys, birth : Values, version : Values]
    BY ElementOfSeq, LenProperties DEF IInv, TypeOK
  <1> QED
    BY <1>1, Constants

\* cleanup_expired stands at a node of the index.
LEMMA AtFacts ==
    ASSUME IInv, left > 0
    PROVE  /\ At \in 1..Len(ttl_index_) /\ ttl_index_[At] \in Keys
           /\ Len(ttl_index_) \in Nat /\ left \in Nat
  <1>1. left \in 1..Len(ttl_index_) /\ Len(ttl_index_) \in Nat
    BY LenProperties DEF IInv, TypeOK
  <1>2. At \in 1..Len(ttl_index_)
    BY <1>1 DEF At
  <1> QED
    BY <1>1, <1>2, ElementOfSeq DEF IInv, TypeOK

\* A write moves its entry on to a later version, or creates it anew: the versions that were
\* used up stay used up.
LEMMA WinsKept ==
    ASSUME IInv, NEW k \in Keys, NEW e \in Entries,
           births'[k] = IF Exists(k) THEN births[k] ELSE births[k] + 1,
           \A j \in Keys : j # k => births'[j] = births[j],
           store_'[k] = e, \A j \in Keys : j # k => store_'[j] = store_[j],
           Exists(k) => store_[k].version <= e.version,
           NEW i \in DOMAIN wins
    PROVE  /\ wins[i].birth <= births'[wins[i].key]
           /\ wins[i].birth = births'[wins[i].key] /\ store_'[wins[i].key] # Absent =>
                  wins[i].version < store_'[wins[i].key].version
  <1> USE DEF IInv
  <1> DEFINE w == wins[i]
  <1>1. /\ w.key \in Keys /\ w.birth \in Nat /\ w.version \in Nat
        /\ births[w.key] \in Nat /\ births[k] \in Nat
        /\ store_[k].version \in Nat /\ e.version \in Nat
    <2>1. w.key \in Keys /\ w.birth \in Nat /\ w.version \in Nat
      BY WinFacts
    <2>2. births[w.key] \in Nat /\ births[k] \in Nat
      BY <2>1, Constants DEF TypeOK
    <2>3. store_[k].version \in Nat /\ e.version \in Nat
      BY Constants DEF TypeOK, Entries
    <2> QED
      BY <2>1, <2>2, <2>3
  <1>2. /\ w.birth <= births[w.key]
        /\ w.birth = births[w.key] /\ Exists(w.key) => w.version < store_[w.key].version
    BY DEF WinInv
  <1> HIDE DEF w
  <1>3. CASE w.key = k
    BY <1>1, <1>2, <1>3 DEF w, Exists
  <1>4. CASE w.key # k
    BY <1>1, <1>2, <1>4 DEF w, Exists
  <1> QED
    BY <1>3, <1>4

\* An entry that is written to without a deadline keeps the one it had, or has none.
LEMMA SameDeadline ==
    ASSUME IInv, NEW k \in Keys, NEW e \in Entries, e # Absent,
           e.expires_at = Entry(k).expires_at,
           store_'[k] = e, \A j \in Keys : j # k => store_'[j] = store_[j],
           UNCHANGED <<ttl_index_, now, left, verdict, deadlines>>
    PROVE  EntryInv' /\ EraseInv' /\ IndexCoversDeadlines' /\ DropInv'
  <1> USE DEF IInv
  <1>1. /\ Exists(k)' /\ \A j \in Keys : j # k => Exists(j)' = Exists(j)
        /\ Exists(k) => e.expires_at = store_[k].expires_at
        /\ ~Exists(k) => e.expires_at = Forever
    BY EntryFacts DEF Exists, Absent
  <1>2. EntryInv'
    BY <1>1 DEF EntryInv, Forever
  <1>3. EraseInv'
    BY DEF EraseInv, At
  <1>4. IndexCoversDeadlines'
    BY <1>1 DEF IndexCoversDeadlines, Forever
  <1>5. DropInv'
    <2>1. ASSUME verdict = "drop" PROVE ttl_index_[At] \in Keys
      BY <2>1, AtFacts DEF TypeOK
    <2> QED
      BY <1>1, <2>1 DEF DropInv, At, Forever
  <1> QED
    BY <1>2, <1>3, <1>4, <1>5

\* set without ttl_secs.
LEMMA SetStep ==
    ASSUME IInv, NEW k \in Keys, Set(k)
    PROVE  IInv'
  <1> USE DEF IInv
  <1> DEFINE e == [Entry(k) EXCEPT !.value = writes', !.version = @ + 1]
  <1>1. /\ writes < MaxWrites /\ writes' = writes + 1 /\ Born(k)
        /\ store_' = [store_ EXCEPT ![k] = e]
        /\ latest' = [latest EXCEPT ![k] = writes']
        /\ LogAppend(k, writes')
        /\ UNCHANGED <<ttl_index_, now, left, verdict, deadlines, wins>>
    BY DEF Set, cleaning
  <1>2. /\ e \in Entries /\ e.value = writes' /\ e.version = Entry(k).version + 1
        /\ e.expires_at = Entry(k).expires_at /\ e # Absent /\ writes' \in Nat \ {0}
    <2>1. /\ writes \in 0..MaxWrites /\ Entry(k) \in Entries
          /\ Entry(k).version <= writes /\ Entry(k).version \in Nat
      BY VersionFacts
    <2>2. writes' \in Values /\ Entry(k).version + 1 \in Values /\ writes' \in Nat \ {0}
      BY <1>1, <2>1, Constants
    <2> QED
      BY <2>1, <2>2 DEF Entries, Absent
  <1> HIDE DEF e
  <1>3. /\ writes' \in Values /\ births' \in [Keys -> Values] /\ CountInv'
        /\ births'[k] = IF Exists(k) THEN births[k] ELSE births[k] + 1
        /\ \A j \in Keys : j # k => births'[j] = births[j]
        /\ store_' \in [Keys -> Entries] /\ store_'[k] = e
        /\ \A j \in Keys : j # k => store_'[j] = store_[j]
    <2>1. e.version <= Entry(k).version + 1
      BY <1>2, Constants DEF Entries
    <2> QED
      BY <1>1, <1>2, <2>1, BornFacts
  <1>4. LogInv' /\ log' \in Seq([key : Keys, value : Values]) /\ threw' \in SUBSET Values
    BY <1>1, <1>2, LogStep
  <1>5. EntryInv' /\ EraseInv' /\ IndexCoversDeadlines' /\ DropInv'
    BY <1>1, <1>2, <1>3, SameDeadline
  <1>6. TypeOK'
    BY <1>1, <1>3, <1>4 DEF TypeOK, Entries
  <1>7. ValueInv'
    <2>1. Exists(k)' /\ store_'[k].value = latest'[k]
      BY <1>1, <1>2, <1>3 DEF Exists, TypeOK
    <2>2. ASSUME NEW j \in Keys, j # k
          PROVE  latest'[j] = latest[j] /\ store_'[j] = store_[j] /\ Exists(j)' = Exists(j)
      BY <1>1, <1>3, <2>2 DEF TypeOK, Exists
    <2> QED
      BY <1>1, <2>1, <2>2 DEF ValueInv
  <1>8. WinInv' /\ OneWinnerPerVersion'
    <2>1. Exists(k) => store_[k].version <= e.version
      BY <1>2, EntryFacts, Constants DEF Entries
    <2>2. \A i \in DOMAIN wins :
              /\ wins[i].birth <= births'[wins[i].key]
              /\ wins[i].birth = births'[wins[i].key] /\ store_'[wins[i].key] # Absent =>
                     wins[i].version < store_'[wins[i].key].version
      BY <1>2, <1>3, <2>1, WinsKept
    <2> QED
      BY <1>1, <2>2 DEF WinInv, Exists, OneWinnerPerVersion
  <1> QED
    BY <1>3, <1>4, <1>5, <1>6, <1>7, <1>8

\* set with ttl_secs: the key gets a deadline and a node at the front of the index.
LEMMA SetTtlStep ==
    ASSUME IInv, NEW k \in Keys, NEW ttl \in Ttls, SetTtl(k, ttl)
    PROVE  IInv'
  <1> USE DEF IInv
  <1> DEFINE d == Deadline(ttl)
             e == [value |-> writes', version |-> Entry(k).version + 1, expires_at |-> d]
  <1>1. /\ writes < MaxWrites /\ writes' = writes + 1 /\ Born(k)
        /\ store_' = [store_ EXCEPT ![k] = e]
        /\ ttl_index_' = <<k>> \o ttl_index_
        /\ deadlines' = [deadlines EXCEPT ![k] = @ \cup {d}]
        /\ latest' = [latest EXCEPT ![k] = writes']
        /\ LogAppend(k, writes')
        /\ UNCHANGED <<now, left, verdict, wins>>
    BY DEF SetTtl, cleaning
  <1>2. d \in 1..MaxTime
    BY Constants DEF Deadline, TypeOK
  <1>3. /\ e \in Entries /\ e.value = writes' /\ e.version = Entry(k).version + 1
        /\ e.expires_at = d /\ e # Absent /\ writes' \in Nat \ {0}
    <2>1. /\ writes \in 0..MaxWrites /\ Entry(k) \in Entries
          /\ Entry(k).version <= writes /\ Entry(k).version \in Nat
      BY VersionFacts
    <2>2. writes' \in Values /\ Entry(k).version + 1 \in Values /\ writes' \in Nat \ {0}
          /\ d \in 0..Forever
      BY <1>1, <1>2, <2>1, Constants
    <2> QED
      BY <2>1, <2>2 DEF Entries, Absent
  <1> HIDE DEF d, e
  <1>4. /\ writes' \in Values /\ births' \in [Keys -> Values] /\ CountInv'
        /\ births'[k] = IF Exists(k) THEN births[k] ELSE births[k] + 1
        /\ \A j \in Keys : j # k => births'[j] = births[j]
        /\ store_' \in [Keys -> Entries] /\ store_'[k] = e
        /\ \A j \in Keys : j # k => store_'[j] = store_[j]
    <2>1. e.version <= Entry(k).version + 1
      BY <1>3, Constants DEF Entries
    <2> QED
      BY <1>1, <1>3, <2>1, BornFacts
  <1>5. LogInv' /\ log' \in Seq([key : Keys, value : Values]) /\ threw' \in SUBSET Values
    BY <1>1, <1>3, LogStep
  <1>6. /\ ttl_index_' \in Seq(Keys)
        /\ Len(ttl_index_) \in Nat /\ Len(ttl_index_') = Len(ttl_index_) + 1
        /\ ttl_index_'[1] = k
        /\ \A i \in 1..Len(ttl_index_) : ttl_index_'[i + 1] = ttl_index_[i]
        /\ ToSet(ttl_index_') = ToSet(ttl_index_) \cup {k}
    BY <1>1, PushFacts DEF TypeOK
  <1>7. /\ deadlines' \in [Keys -> SUBSET (0..MaxTime)]
        /\ deadlines'[k] = deadlines[k] \cup {d}
        /\ \A j \in Keys : j # k => deadlines'[j] = deadlines[j]
    BY <1>1, <1>2 DEF TypeOK
  <1>8. /\ Exists(k)'
        /\ \A j \in Keys : j # k => Exists(j)' = Exists(j)
    BY <1>3, <1>4 DEF Exists
  <1>9. TypeOK'
    <2>1. left' \in 0..Len(ttl_index_')
      BY <1>1, <1>6 DEF TypeOK
    <2>2. latest' \in [Keys -> Values]
      BY <1>1, <1>4 DEF TypeOK
    <2> QED
      BY <1>1, <1>4, <1>5, <1>6, <1>7, <2>1, <2>2 DEF TypeOK, Entries
  <1>10. EntryInv'
    BY <1>3, <1>4, <1>7, <1>8 DEF EntryInv, Forever
  <1>11. ValueInv'
    <2>1. latest'[k] = writes' /\ \A j \in Keys : j # k => latest'[j] = latest[j]
      BY <1>1 DEF TypeOK
    <2> QED
      BY <1>1, <1>3, <1>4, <1>7, <1>8, <2>1 DEF ValueInv
  <1>12. ASSUME verdict # "none"
         PROVE  /\ At \in 1..Len(ttl_index_) /\ At' = At + 1
                /\ ttl_index_[At] \in Keys /\ ttl_index_'[At'] = ttl_index_[At]
    <2>1. left \in 1..Len(ttl_index_)
      BY <1>6, <1>12 DEF TypeOK
    <2>2. At \in 1..Len(ttl_index_) /\ At' = At + 1
      BY <1>1, <1>6, <2>1 DEF At
    <2> QED
      BY <1>6, <2>2, ElementOfSeq DEF TypeOK
  <1>13. EraseInv'
    <2> SUFFICES ASSUME verdict = "erase" PROVE \E c \in deadlines'[ttl_index_'[At']] : c < now'
      BY <1>1 DEF EraseInv
    <2>1. PICK c \in deadlines[ttl_index_[At]] : c < now
      BY DEF EraseInv
    <2>2. c \in deadlines'[ttl_index_'[At']]
      BY <1>7, <1>12, <2>1
    <2> QED
      BY <1>1, <2>1, <2>2
  <1>14. IndexCoversDeadlines'
    BY <1>4, <1>6, <1>8 DEF IndexCoversDeadlines, Forever
  <1>15. DropInv'
    <2> DEFINE j == ttl_index_[At]
    <2> SUFFICES ASSUME verdict = "drop", Exists(j)', store_'[j].expires_at # Forever
                 PROVE  \E i \in 1..(At' - 1) : ttl_index_'[i] = j
      BY <1>1, <1>12 DEF DropInv, Forever, Exists
    <2>1. CASE j = k
      BY <1>6, <1>12, <2>1
    <2>2. CASE j # k
      <3>1. PICK i \in 1..(At - 1) : ttl_index_[i] = j
        BY <1>4, <1>8, <1>12, <2>2 DEF DropInv, Exists
      <3>2. i \in 1..Len(ttl_index_) /\ i + 1 \in 1..(At' - 1)
        BY <1>6, <1>12
      <3> QED
        BY <1>6, <3>1, <3>2
    <2> QED
      BY <2>1, <2>2
  <1>16. WinInv' /\ OneWinnerPerVersion'
    <2>1. Exists(k) => store_[k].version <= e.version
      BY <1>3, EntryFacts, Constants DEF Entries
    <2>2. \A i \in DOMAIN wins :
              /\ wins[i].birth <= births'[wins[i].key]
              /\ wins[i].birth = births'[wins[i].key] /\ store_'[wins[i].key] # Absent =>
                     wins[i].version < store_'[wins[i].key].version
      BY <1>3, <1>4, <2>1, WinsKept
    <2> QED
      BY <1>1, <2>2 DEF WinInv, Exists, OneWinnerPerVersion
  <1> QED
    BY <1>4, <1>5, <1>9, <1>10, <1>11, <1>13, <1>14, <1>15, <1>16

\* del: only the entry goes; its nodes stay in the index.
LEMMA DelStep ==
    ASSUME IInv, NEW k \in Keys, Del(k)
    PROVE  IInv'
  <1> USE DEF IInv
  <1>1. /\ store_' = [store_ EXCEPT ![k] = Absent]
        /\ latest' = [latest EXCEPT ![k] = 0]
        /\ UNCHANGED <<ttl_index_, now, log, left, verdict, writes, deadlines, births, wins,
                       threw>>
    BY DEF Del, cleaning
  <1>2. Absent \in Entries /\ Absent.value = 0 /\ Absent.version = 0 /\ 0 \in Values
    BY Constants DEF Absent, Entries
  <1>3. /\ store_' \in [Keys -> Entries] /\ store_'[k] = Absent
        /\ \A j \in Keys : j # k => store_'[j] = store_[j]
        /\ latest' \in [Keys -> Values] /\ latest'[k] = 0
        /\ \A j \in Keys : j # k => latest'[j] = latest[j]
    BY <1>1, <1>2 DEF TypeOK, Entries
  <1>4. ~Exists(k)' /\ \A j \in Keys : j # k => Exists(j)' = Exists(j)
    BY <1>3 DEF Exists
  <1>5. TypeOK'
    BY <1>1, <1>3 DEF TypeOK, Entries
  <1>6. CountInv'
    BY <1>1, <1>2, <1>3, Constants DEF CountInv, TypeOK
  <1>7. EntryInv' /\ ValueInv' /\ EraseInv' /\ IndexCoversDeadlines'
    BY <1>1, <1>3, <1>4 DEF EntryInv, ValueInv, EraseInv, IndexCoversDeadlines, At, Forever
  <1>8. DropInv'
    <2>1. ASSUME verdict = "drop" PROVE ttl_index_[At] \in Keys
      BY <2>1, AtFacts DEF TypeOK
    <2> QED
      BY <1>1, <1>3, <1>4, <2>1 DEF DropInv, At, Forever
  <1>9. WinInv'
    <2>1. \A i \in DOMAIN wins : wins[i].key \in Keys
      BY WinFacts
    <2> QED
      BY <1>1, <1>3, <1>4, <2>1 DEF WinInv, Exists
  <1>10. OneWinnerPerVersion' /\ LogInv'
    BY <1>1, <1>2, <1>3 DEF OneWinnerPerVersion, LogInv, LastLogged
  <1> QED
    BY <1>5, <1>6, <1>7, <1>8, <1>9, <1>10

\* set_if_version: an entry of another version stays as it is, or is left behind empty; the
\* right version is used up.
LEMMA SetIfVersionStep ==
    ASSUME IInv, NEW k \in Keys, NEW expected \in 0..MaxWrites, SetIfVersion(k, expected)
    PROVE  IInv'
  <1> USE DEF IInv
  <1>1. /\ writes < MaxWrites /\ writes' = writes + 1 /\ Born(k)
        /\ UNCHANGED <<ttl_index_, now, left, verdict, deadlines>>
    BY DEF SetIfVersion, cleaning
  <1>2. /\ writes \in 0..MaxWrites /\ Entry(k) \in Entries
        /\ Entry(k).version <= writes /\ Entry(k).version \in Nat
    BY VersionFacts
  <1>3. CASE /\ Entry(k).version # expected
             /\ store_' = [store_ EXCEPT ![k] = Entry(k)]
             /\ UNCHANGED <<latest, log, wins, threw>>
    <2> DEFINE e == Entry(k)
    <2>1. e \in Entries /\ e # Absent /\ e.version <= Entry(k).version + 1
          /\ e.expires_at = Entry(k).expires_at
      BY <1>2, Constants DEF Entry, Exists, Fresh, Absent, Forever
    <2>2. e.value = store_[k].value
      BY EntryFacts DEF Absent
    <2>3. Exists(k) => store_[k].version <= e.version
      BY EntryFacts, Constants DEF Entries
    <2> HIDE DEF e
    <2>4. /\ writes' \in Values /\ births' \in [Keys -> Values] /\ CountInv'
          /\ births'[k] = IF Exists(k) THEN births[k] ELSE births[k] + 1
          /\ \A j \in Keys : j # k => births'[j] = births[j]
          /\ store_' \in [Keys -> Entries] /\ store_'[k] = e
          /\ \A j \in Keys : j # k => store_'[j] = store_[j]
      BY <1>1, <1>3, <2>1, BornFacts DEF e
    <2>5. EntryInv' /\ EraseInv' /\ IndexCoversDeadlines' /\ DropInv'
      BY <1>1, <2>1, <2>4, SameDeadline
    <2>6. TypeOK'
      BY <1>1, <1>3, <2>4 DEF TypeOK, Entries
    <2>7. \A j \in Keys : store_'[j].value = store_[j].value /\ (Exists(j) => Exists(j)')
      BY <2>1, <2>2, <2>4 DEF Exists
    <2>8. ValueInv' /\ LogInv'
      BY <1>1, <1>3, <2>7 DEF ValueInv, LogInv, LastLogged
    <2>9. WinInv' /\ OneWinnerPerVersion'
      <3>1. \A i \in DOMAIN wins :
                /\ wins[i].birth <= births'[wins[i].key]
                /\ wins[i].birth = births'[wins[i].key] /\ store_'[wins[i].key] # Absent =>
                       wins[i].version < store_'[wins[i].key].version
        BY <2>1, <2>3, <2>4, WinsKept
      <3> QED
        BY <1>3, <3>1 DEF WinInv, Exists, OneWinnerPerVersion
    <2> QED
      BY <2>4, <2>5, <2>6, <2>8, <2>9
  <1>4. CASE /\ Entry(k).version = expected
             /\ store_' = [store_ EXCEPT ![k] = [Entry(k) EXCEPT !.value = writes',
                                                                 !.version = @ + 1]]
             /\ latest' = [latest EXCEPT ![k] = writes']
             /\ wins' = Append(wins, [key |-> k, birth |-> births'[k], version |-> expected])
             /\ LogAppend(k, writes')
    <2> DEFINE e == [Entry(k) EXCEPT !.value = writes', !.version = @ + 1]
               won == [key |-> k, birth |-> births'[k], version |-> expected]
               Win == [key : Keys, birth : Values, version : Values]
    <2>1. /\ e \in Entries /\ e.value = writes' /\ e.version = Entry(k).version + 1
          /\ e.version <= Entry(k).version + 1
          /\ e.expires_at = Entry(k).expires_at /\ e # Absent /\ writes' \in Nat \ {0}
      <3>1. writes' \in Values /\ Entry(k).version + 1 \in Values /\ writes' \in Nat \ {0}
        BY <1>1, <1>2, Constants
      <3>2. e \in Entries /\ e.value = writes' /\ e.version = Entry(k).version + 1
            /\ e.expires_at = Entry(k).expires_at
        BY <1>2, <3>1 DEF Entries
      <3> QED
        <4> HIDE DEF e
        <4>1. Absent.version = 0 /\ e.version # 0 /\ e.version <= e.version
          BY <1>2, <3>2 DEF Absent
        <4> QED
          BY <3>1, <3>2, <4>1
    <2>2. store_' = [store_ EXCEPT ![k] = e]
      BY <1>4
    <2> HIDE DEF e
    <2>3. Exists(k) => store_[k].version <= e.version
      BY <1>2, <2>1, EntryFacts
    <2>4. /\ writes' \in Values /\ births' \in [Keys -> Values] /\ CountInv'
          /\ births'[k] = IF Exists(k) THEN births[k] ELSE births[k] + 1
          /\ \A j \in Keys : j # k => births'[j] = births[j]
          /\ store_' \in [Keys -> Entries] /\ store_'[k] = e
          /\ \A j \in Keys : j # k => store_'[j] = store_[j]
      BY <1>1, <2>1, <2>2, BornFacts
    <2>5. LogInv' /\ log' \in Seq([key : Keys, value : Values]) /\ threw' \in SUBSET Values
      BY <1>4, <2>1, <2>2, LogStep
    <2>6. EntryInv' /\ EraseInv' /\ IndexCoversDeadlines' /\ DropInv'
      BY <1>1, <2>1, <2>4, SameDeadline
    <2>7. won \in Win /\ won.key = k /\ won.birth = births'[k] /\ won.version = expected
      BY <2>4, Constants
    <2>8. /\ wins \in Seq(Win) /\ wins' \in Seq(Win) /\ Len(wins) \in Nat
          /\ DOMAIN wins = 1..Len(wins) /\ DOMAIN wins' = 1..(Len(wins) + 1)
          /\ \A i \in 1..Len(wins) : wins'[i] = wins[i]
          /\ wins'[Len(wins) + 1] = won
      BY <1>4, <2>7, AppendProperties, LenProperties DEF TypeOK
    <2> HIDE DEF won
    <2>9. TypeOK'
      <3>1. latest' \in [Keys -> Values]
        BY <1>4, <2>4 DEF TypeOK
      <3> QED
        BY <1>1, <2>4, <2>5, <2>8, <3>1 DEF TypeOK, Entries
    <2>10. ValueInv'
      <3>1. latest'[k] = writes' /\ \A j \in Keys : j # k => latest'[j] = latest[j]
        BY <1>4 DEF TypeOK
      <3> QED
        BY <1>1, <2>1, <2>4, <3>1 DEF ValueInv, Exists
    <2>11. \A i \in DOMAIN wins :
               /\ wins[i].birth <= births'[wins[i].key]
               /\ wins[i].birth = births'[wins[i].key] /\ store_'[wins[i].key] # Absent =>
                      wins[i].version < store_'[wins[i].key].version
      BY <2>1, <2>3, <2>4, WinsKept
    <2>12. WinInv'
      <3>1. births'[k] <= births'[k] /\ expected < e.version
        BY <1>2, <1>4, <2>1, <2>4, Constants
      <3> QED
        BY <2>4, <2>7, <2>8, <2>11, <3>1 DEF WinInv, Exists
    <2>13. OneWinnerPerVersion'
      <3>1. ASSUME NEW i \in 1..Len(wins) PROVE wins[i] # won
        <4>1. /\ wins[i].key \in Keys /\ wins[i].birth \in Nat /\ wins[i].version \in Nat
              /\ births[k] \in Nat
          <5>1. births[k] \in Nat
            BY Constants DEF TypeOK
          <5> QED
            BY <2>8, <5>1, WinFacts
        <4>2. /\ wins[i].birth <= births[wins[i].key]
              /\ wins[i].birth = births[wins[i].key] /\ Exists(wins[i].key) =>
                     wins[i].version < store_[wins[i].key].version
          BY <2>8 DEF WinInv
        <4>3. CASE Exists(k)
          BY <1>2, <1>4, <2>4, <2>7, <4>1, <4>2, <4>3, EntryFacts
        <4>4. CASE ~Exists(k)
          BY <2>4, <2>7, <4>1, <4>2, <4>4
        <4> QED
          BY <4>3, <4>4
      <3> QED
        BY <2>8, <3>1 DEF OneWinnerPerVersion, IsInjective
    <2> QED
      BY <2>4, <2>5, <2>6, <2>9, <2>10, <2>12, <2>13
  <1> QED
    BY <1>3, <1>4 DEF SetIfVersion

\* cleanup_expired begins, or passes a live entry, or makes up its mind: what it has seen is
\* true when it sees it.
LEMMA CleanLookStep ==
    ASSUME IInv, CleanStart \/ CleanLook
    PROVE  IInv'
  <1> USE DEF IInv
  <1>1. UNCHANGED <<store_, ttl_index_, now, log, writes, latest, deadlines, births, wins, threw>>
    BY DEF CleanStart, CleanLook
  <1>2. /\ CountInv' /\ EntryInv' /\ ValueInv' /\ IndexCoversDeadlines'
        /\ WinInv' /\ OneWinnerPerVersion' /\ LogInv'
    BY <1>1 DEF CountInv, EntryInv, ValueInv, IndexCoversDeadlines, Exists, Forever, WinInv,
                OneWinnerPerVersion, LogInv, LastLogged
  <1>3. left \in 0..Len(ttl_index_) /\ Len(ttl_index_) \in Nat
    BY LenProperties DEF TypeOK
  <1>4. CASE CleanStart
    <2>1. verdict = "none" /\ verdict' = "none" /\ left' = Len(ttl_index_)
      BY <1>4 DEF CleanStart, TypeOK
    <2>2. TypeOK'
      BY <1>1, <1>3, <2>1 DEF TypeOK
    <2>3. EraseInv' /\ DropInv'
      BY <2>1 DEF EraseInv, DropInv
    <2> QED
      BY <1>2, <2>2, <2>3
  <1>5. CASE CleanLook
    <2> DEFINE k == ttl_index_[At]
    <2>1. left > 0 /\ verdict = "none" /\ At \in 1..Len(ttl_index_) /\ k \in Keys
      BY <1>5, AtFacts DEF CleanLook
    <2>2. CASE ~Exists(k) /\ verdict' = "drop" /\ UNCHANGED left
      <3>1. TypeOK'
        BY <1>1, <2>1, <2>2 DEF TypeOK
      <3>2. EraseInv' /\ DropInv'
        BY <1>1, <2>2 DEF EraseInv, DropInv, At, Exists
      <3> QED
        BY <1>2, <3>1, <3>2
    <2>3. CASE Exists(k) /\ Expired(store_[k]) /\ verdict' = "erase" /\ UNCHANGED left
      <3>1. TypeOK'
        BY <1>1, <2>1, <2>3 DEF TypeOK
      <3>2. store_[k].expires_at \in deadlines[k] /\ store_[k].expires_at < now
        <4>1. store_[k].expires_at \in Nat /\ now > store_[k].expires_at /\ now \in 1..MaxTime
          <5>1. store_[k].expires_at \in 0..Forever
            BY <2>1, EntryFacts DEF Entries
          <5>2. now > store_[k].expires_at /\ now \in 1..MaxTime
            BY <2>3 DEF Expired, TypeOK
          <5> QED
            BY <5>1, <5>2, Constants
        <4>2. store_[k].expires_at # Forever
          BY <4>1, Constants
        <4> QED
          BY <2>1, <2>3, <4>1, <4>2 DEF EntryInv
      <3>3. EraseInv' /\ DropInv'
        BY <1>1, <2>3, <3>2 DEF EraseInv, DropInv, At
      <3> QED
        BY <1>2, <3>1, <3>3
    <2>4. CASE Visible(k) /\ left' = left - 1 /\ UNCHANGED verdict
      <3>1. left' \in 0..Len(ttl_index_)
        BY <1>3, <2>1, <2>4
      <3>2. TypeOK'
        BY <1>1, <2>1, <2>4, <3>1 DEF TypeOK
      <3>3. EraseInv' /\ DropInv'
        BY <2>1, <2>4 DEF EraseInv, DropInv
      <3> QED
        BY <1>2, <3>2, <3>3
    <2> QED
      BY <1>5, <2>2, <2>3, <2>4 DEF CleanLook
  <1> QED
    BY <1>4, <1>5

\* cleanup_expired acts on what it saw, whatever has happened since: the entry it erases is
\* one whose key has had a deadline, and the node it removes is not the last one needed.
LEMMA CleanRemoveStep ==
    ASSUME IInv, CleanRemove
    PROVE  IInv'
  <1> USE DEF IInv
  <1> DEFINE k == ttl_index_[At]
  <1>1. /\ verdict \in {"drop", "erase"}
        /\ store_' = IF verdict = "erase" THEN [store_ EXCEPT ![k] = Absent] ELSE store_
        /\ ttl_index_' = RemoveAt(ttl_index_, At)
        /\ left' = 0 /\ verdict' = "none"
        /\ UNCHANGED <<now, log, writes, latest, deadlines, births, wins, threw>>
    BY DEF CleanRemove, TypeOK
  <1>2. At \in 1..Len(ttl_index_) /\ k \in Keys /\ Len(ttl_index_) \in Nat
    BY <1>1, AtFacts DEF TypeOK
  <1>3. Absent \in Entries /\ Absent.value = 0 /\ Absent.version = 0
    BY Constants DEF Absent, Entries
  <1>4. /\ store_' \in [Keys -> Entries]
        /\ \A j \in Keys : j # k => store_'[j] = store_[j]
        /\ verdict = "erase" => store_'[k] = Absent
        /\ verdict = "drop" => store_'[k] = store_[k]
    BY <1>1, <1>2, <1>3 DEF TypeOK, Entries
  <1>5. \A j \in Keys : Exists(j)' => Exists(j) /\ store_'[j] = store_[j]
    BY <1>1, <1>2, <1>4 DEF Exists
  <1>6. /\ ttl_index_' \in Seq(Keys)
        /\ \A i \in 1..Len(ttl_index_) : i # At => ttl_index_[i] \in ToSet(ttl_index_')
    BY <1>1, <1>2, RemoveFacts DEF TypeOK
  <1>7. TypeOK'
    <2>1. left' \in 0..Len(ttl_index_')
      BY <1>1, <1>6, LenProperties
    <2> QED
      BY <1>1, <1>4, <1>6, <2>1 DEF TypeOK, Entries
  <1>8. CountInv'
    <2>1. \A j \in Keys : store_'[j] = store_[j] \/ store_'[j].version = 0
      BY <1>1, <1>3, <1>4
    <2>2. 0 <= writes
      BY Constants DEF TypeOK
    <2> QED
      BY <1>1, <2>1, <2>2 DEF CountInv
  <1>9. EntryInv' /\ EraseInv' /\ DropInv'
    BY <1>1, <1>5 DEF EntryInv, EraseInv, DropInv, Forever
  <1>10. ValueInv'
    <2>1. verdict = "erase" => \E d \in deadlines[k] : ~(now <= d)
      <3>1. \A d \in deadlines[k] : d \in Nat
        BY <1>2 DEF TypeOK
      <3> QED
        BY <3>1 DEF EraseInv, TypeOK
    <2> QED
      BY <1>1, <1>2, <1>4, <2>1 DEF ValueInv, Exists
  <1>11. IndexCoversDeadlines'
    <2> SUFFICES ASSUME NEW j \in Keys, Exists(j)', store_'[j].expires_at # Forever
                 PROVE  j \in ToSet(ttl_index_')
      BY DEF IndexCoversDeadlines, Forever, Exists
    <2>1. Exists(j) /\ store_[j].expires_at # Forever /\ j \in ToSet(ttl_index_)
      BY <1>5 DEF IndexCoversDeadlines
    <2>2. CASE j = k
      <3>1. verdict = "drop"
        BY <1>1, <1>4, <2>2 DEF Exists
      <3>2. PICK i \in 1..(At - 1) : ttl_index_[i] = k
        BY <2>1, <2>2, <3>1 DEF DropInv
      <3>3. i \in 1..Len(ttl_index_) /\ i # At
        BY <1>2
      <3> QED
        BY <1>6, <2>2, <3>2, <3>3
    <2>3. CASE j # k
      <3>1. PICK i \in 1..Len(ttl_index_) : ttl_index_[i] = j
        BY <2>1, LenProperties DEF ToSet, TypeOK
      <3> QED
        BY <1>6, <2>3, <3>1
    <2> QED
      BY <2>2, <2>3
  <1>12. WinInv' /\ OneWinnerPerVersion'
    BY <1>1, <1>5, WinFacts DEF WinInv, OneWinnerPerVersion, Exists
  <1>13. LogInv'
    <2>1. \A j \in Keys : store_'[j] = store_[j] \/ store_'[j].value = 0
      BY <1>1, <1>3, <1>4
    <2> QED
      BY <1>1, <2>1 DEF LogInv, LastLogged
  <1> QED
    BY <1>7, <1>8, <1>9, <1>10, <1>11, <1>12, <1>13

\* Time passes: a deadline that is over stays over.
LEMMA TickStep ==
    ASSUME IInv, Tick
    PROVE  IInv'
  <1> USE DEF IInv
  <1>1. /\ now' = now + 1 /\ now \in 1..MaxTime /\ now' \in 1..MaxTime
        /\ UNCHANGED <<store_, ttl_index_, log, left, verdict, writes, latest, deadlines, births,
                       wins, threw>>
    BY Constants DEF Tick, cleaning, TypeOK
  <1>2. TypeOK'
    BY <1>1 DEF TypeOK
  <1>3. /\ CountInv' /\ EntryInv' /\ IndexCoversDeadlines' /\ DropInv'
        /\ WinInv' /\ OneWinnerPerVersion' /\ LogInv'
    BY <1>1 DEF CountInv, EntryInv, IndexCoversDeadlines, DropInv, At, Exists, Forever, WinInv,
                OneWinnerPerVersion, LogInv, LastLogged
  <1>4. \A k \in Keys : \A d \in deadlines[k] : d \in Nat
    BY DEF TypeOK
  <1>5. ValueInv'
    BY <1>1, <1>4 DEF ValueInv, Exists
  <1>6. EraseInv'
    <2>1. verdict = "erase" => ttl_index_[At] \in Keys
      BY AtFacts DEF TypeOK
    <2> QED
      BY <1>1, <1>4, <2>1 DEF EraseInv, At
  <1> QED
    BY <1>2, <1>3, <1>5, <1>6

\* Every step of MemStore preserves the invariant.
LEMMA NextIInv == IInv /\ [Next]_vars => IInv'
  <1> SUFFICES ASSUME IInv, [Next]_vars PROVE IInv'
    OBVIOUS
  <1>1. CASE Next
    BY <1>1, SetStep, DelStep, SetTtlStep, SetIfVersionStep, CleanLookStep, CleanRemoveStep,
       TickStep
       DEF Next
  <1>2. CASE UNCHANGED vars
    BY <1>2 DEF vars, IInv, TypeOK, CountInv, EntryInv, ValueInv, EraseInv, IndexCoversDeadlines,
                DropInv, WinInv, OneWinnerPerVersion, LogInv, LastLogged, Exists, At
  <1> QED
    BY <1>1, <1>2

\* Every reachable state of MemStore satisfies the inductive invariant.
THEOREM Inductive == Spec => []IInv
  BY InitIInv, NextIInv, PTL DEF Spec

-----------------------------------------------------------------------------
(* What MemStore promises. *)

\* A written value can be read until the key is written again or deleted, or a deadline some
\* set gave it has passed, although cleanup_expired takes no lock.
THEOREM Lives == Spec => []LivesUntilDeadline
  <1>1. ASSUME IInv PROVE LivesUntilDeadline
    <2> SUFFICES ASSUME NEW k \in Keys, latest[k] # 0, \A d \in deadlines[k] : now <= d
                 PROVE  Visible(k) /\ store_[k].value = latest[k]
      BY DEF LivesUntilDeadline
    <2>1. Exists(k) /\ store_[k].value = latest[k]
      BY <1>1 DEF IInv, ValueInv
    <2>2. store_[k].expires_at = Forever \/ store_[k].expires_at \in deadlines[k]
      BY <1>1, <2>1 DEF IInv, EntryInv
    <2>3. now \in 1..MaxTime /\ deadlines[k] \subseteq Nat
      BY <1>1 DEF IInv, TypeOK
    <2>4. ~(now > store_[k].expires_at)
      BY <2>2, <2>3, Constants
    <2> QED
      BY <2>1, <2>4 DEF Visible, Expired
  <1> QED
    BY <1>1, Inductive, PTL

\* Every entry with a deadline has its key in ttl_index_, whatever cleanup_expired removed
\* from it while others wrote.
THEOREM IndexCovers == Spec => []IndexCoversDeadlines
  BY Inductive, PTL DEF IInv

\* No two set_if_version calls succeed on the same version of the same entry.
THEOREM OneWinner == Spec => []OneWinnerPerVersion
  BY Inductive, PTL DEF IInv

\* What get returns is what was logged last for the key, unless its append threw.
THEOREM VisibleLogged == Spec => []VisibleIsLogged
  <1>1. IInv => VisibleIsLogged
    BY DEF IInv, LogInv, VisibleIsLogged
  <1> QED
    BY <1>1, Inductive, PTL
=============================================================================

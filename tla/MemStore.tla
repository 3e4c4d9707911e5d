------------------------------ MODULE MemStore ------------------------------
(***************************************************************************)
(* src/mem_store.{h,cpp}: entries with a version and an optional deadline, *)
(* the index of keys that were given one, and the operations set, get,     *)
(* del, set_if_version and cleanup_expired.                                *)
(*                                                                         *)
(* set, del and set_if_version hold mutex_ exclusively from beginning to   *)
(* end, so each is one step; get is what Visible says.  cleanup_expired    *)
(* takes no lock: whatever the others do can come between its look at an   *)
(* entry and its erase.  It walks ttl_index_ with remove_if, which goes on *)
(* from a node it has freed; the walk is taken to end there, as it does    *)
(* when the freed memory still holds the null pointer left in it.          *)
(*                                                                         *)
(* A key stands for an (actor_id, key) pair.  Values are numbered in the   *)
(* order they are written; 0 is the empty string of a new entry.           *)
(***************************************************************************)
EXTENDS Naturals, Sequences, SequencesExt, FiniteSets

CONSTANTS
    Keys,
    Ttls,           \* the values of ttl_secs callers pass
    AppendMayThrow, \* whether WAL::append may throw
    MaxWrites,      \* bound: calls that write
    MaxTime         \* bound: the clock

ASSUME MemStoreAssumption ==
    /\ Ttls \subseteq Nat
    /\ AppendMayThrow \in BOOLEAN
    /\ MaxWrites \in Nat
    /\ MaxTime \in Nat \ {0}

VARIABLES
    store_,         \* the entry of each key, or Absent
    ttl_index_,     \* keys, the one pushed last first
    now,            \* Clock::now()
    log,            \* what was appended to the WAL, or handed to the write-behind worker
    left,           \* nodes of ttl_index_ cleanup_expired has not passed; 0: not running
    verdict,        \* what its predicate has decided about the node there
    writes,
    latest,         \* history: the value last written to each key, 0 after del
    deadlines,      \* history: the deadlines each key was given
    births,         \* history: how often the entry of each key was created
    wins,           \* history: the successful set_if_version calls
    threw           \* history: the values whose append threw

vars == <<store_, ttl_index_, now, log, left, verdict, writes, latest, deadlines, births,
          wins, threw>>
cleaning == <<left, verdict>>

Forever == MaxTime + 1      \* expires_at without a value
Absent == [value |-> 0, version |-> 0, expires_at |-> 0]
Fresh == [value |-> 0, version |-> 0, expires_at |-> Forever]

Init ==
    /\ store_ = [k \in Keys |-> Absent]
    /\ ttl_index_ = <<>>
    /\ now = 1
    /\ log = <<>>
    /\ left = 0
    /\ verdict = "none"
    /\ writes = 0
    /\ latest = [k \in Keys |-> 0]
    /\ deadlines = [k \in Keys |-> {}]
    /\ births = [k \in Keys |-> 0]
    /\ wins = <<>>
    /\ threw = {}

Exists(k) == store_[k] # Absent

\* store_[actor_id][key]: the entry, created if there is none.
Entry(k) == IF Exists(k) THEN store_[k] ELSE Fresh
Born(k) == births' = [births EXCEPT ![k] = IF Exists(k) THEN @ ELSE @ + 1]

Expired(e) == now > e.expires_at

\* What get returns something for.
Visible(k) == Exists(k) /\ ~Expired(store_[k])

\* The entry has been updated already when append throws; it stays updated.
LogAppend(k, v) ==
    \/ log' = Append(log, [key |-> k, value |-> v]) /\ UNCHANGED threw
    \/ AppendMayThrow /\ threw' = threw \cup {v} /\ UNCHANGED log

Deadline(ttl) == IF now + ttl > MaxTime THEN MaxTime ELSE now + ttl

\* Bug: only a new entry is put into the index.
SetTtl_OnlyNew(k, ttl) ==
    /\ writes < MaxWrites
    /\ writes' = writes + 1
    /\ Born(k)
    /\ store_' = [store_ EXCEPT ![k] = [value |-> writes', version |-> Entry(k).version + 1,
                                        expires_at |-> Deadline(ttl)]]
    /\ ttl_index_' = IF Exists(k) THEN ttl_index_ ELSE <<k>> \o ttl_index_
    /\ deadlines' = [deadlines EXCEPT ![k] = @ \cup {Deadline(ttl)}]
    /\ latest' = [latest EXCEPT ![k] = writes']
    /\ LogAppend(k, writes')
    /\ UNCHANGED <<now, cleaning, wins>>

\* set with ttl_secs.
SetTtl(k, ttl) ==
    /\ writes < MaxWrites
    /\ writes' = writes + 1
    /\ Born(k)
    /\ store_' = [store_ EXCEPT ![k] = [value |-> writes', version |-> Entry(k).version + 1,
                                        expires_at |-> Deadline(ttl)]]
    /\ ttl_index_' = <<k>> \o ttl_index_
    /\ deadlines' = [deadlines EXCEPT ![k] = @ \cup {Deadline(ttl)}]
    /\ latest' = [latest EXCEPT ![k] = writes']
    /\ LogAppend(k, writes')
    /\ UNCHANGED <<now, cleaning, wins>>

\* set without ttl_secs: an earlier deadline of the entry stays.
Set(k) ==
    /\ writes < MaxWrites
    /\ writes' = writes + 1
    /\ Born(k)
    /\ store_' = [store_ EXCEPT ![k] = [Entry(k) EXCEPT !.value = writes', !.version = @ + 1]]
    /\ latest' = [latest EXCEPT ![k] = writes']
    /\ LogAppend(k, writes')
    /\ UNCHANGED <<ttl_index_, now, cleaning, deadlines, wins>>

Del(k) ==
    /\ Exists(k)
    /\ store_' = [store_ EXCEPT ![k] = Absent]
    /\ latest' = [latest EXCEPT ![k] = 0]
    /\ UNCHANGED <<ttl_index_, now, log, cleaning, writes, deadlines, births, wins, threw>>

\* Bug: a conditional write does not count as a version.
SetIfVersion_SameVersion(k, expected) ==
    /\ writes < MaxWrites
    /\ writes' = writes + 1
    /\ Born(k)
    /\ \/ /\ Entry(k).version # expected
          /\ store_' = [store_ EXCEPT ![k] = Entry(k)]
          /\ UNCHANGED <<latest, log, wins, threw>>
       \/ /\ Entry(k).version = expected
          /\ store_' = [store_ EXCEPT ![k] = [Entry(k) EXCEPT !.value = writes']]
          /\ latest' = [latest EXCEPT ![k] = writes']
          /\ wins' = Append(wins, [key |-> k, birth |-> births'[k], version |-> expected])
          /\ LogAppend(k, writes')
    /\ UNCHANGED <<ttl_index_, now, cleaning, deadlines>>

\* Bug: a conditional write is not logged.
SetIfVersion_NotLogged(k, expected) ==
    /\ writes < MaxWrites
    /\ writes' = writes + 1
    /\ Born(k)
    /\ \/ /\ Entry(k).version # expected
          /\ store_' = [store_ EXCEPT ![k] = Entry(k)]
          /\ UNCHANGED <<latest, wins>>
       \/ /\ Entry(k).version = expected
          /\ store_' = [store_ EXCEPT ![k] = [Entry(k) EXCEPT !.value = writes',
                                                              !.version = @ + 1]]
          /\ latest' = [latest EXCEPT ![k] = writes']
          /\ wins' = Append(wins, [key |-> k, birth |-> births'[k], version |-> expected])
    /\ UNCHANGED <<ttl_index_, now, log, cleaning, deadlines, threw>>

\* set_if_version looks the entry up with operator[], so a failed call on a key that
\* is not there leaves an empty entry of version 0 behind.
SetIfVersion(k, expected) ==
    /\ writes < MaxWrites
    /\ writes' = writes + 1
    /\ Born(k)
    /\ \/ /\ Entry(k).version # expected
          /\ store_' = [store_ EXCEPT ![k] = Entry(k)]
          /\ UNCHANGED <<latest, log, wins, threw>>
       \/ /\ Entry(k).version = expected
          /\ store_' = [store_ EXCEPT ![k] = [Entry(k) EXCEPT !.value = writes',
                                                              !.version = @ + 1]]
          /\ latest' = [latest EXCEPT ![k] = writes']
          /\ wins' = Append(wins, [key |-> k, birth |-> births'[k], version |-> expected])
          /\ LogAppend(k, writes')
    /\ UNCHANGED <<ttl_index_, now, cleaning, deadlines>>

(***************************************************************************)
(* cleanup_expired.  Keys are pushed in front of where the walk stands, so *)
(* the number of nodes it has still to pass is not disturbed by them.      *)
(***************************************************************************)
At == Len(ttl_index_) - left + 1

CleanStart ==
    /\ left = 0
    /\ ttl_index_ # <<>>
    /\ left' = Len(ttl_index_)
    /\ UNCHANGED <<store_, ttl_index_, now, log, verdict, writes, latest, deadlines, births,
                   wins, threw>>

\* Bug: the deadline of the entry is not looked at.
CleanLook_AnyEntry ==
    /\ left > 0
    /\ verdict = "none"
    /\ verdict' = IF Exists(ttl_index_[At]) THEN "erase" ELSE "drop"
    /\ UNCHANGED <<store_, ttl_index_, now, log, left, writes, latest, deadlines, births,
                   wins, threw>>

\* The predicate looks the key up and tests its deadline.
CleanLook ==
    /\ left > 0
    /\ verdict = "none"
    /\ LET k == ttl_index_[At]
       IN  \/ ~Exists(k) /\ verdict' = "drop" /\ UNCHANGED left
           \/ Exists(k) /\ Expired(store_[k]) /\ verdict' = "erase" /\ UNCHANGED left
           \/ Visible(k) /\ left' = left - 1 /\ UNCHANGED verdict
    /\ UNCHANGED <<store_, ttl_index_, now, log, writes, latest, deadlines, births, wins,
                   threw>>

\* The predicate erases the key, whatever its entry has become, and its node is removed.
CleanRemove ==
    /\ verdict # "none"
    /\ store_' = IF verdict = "erase" THEN [store_ EXCEPT ![ttl_index_[At]] = Absent]
                                      ELSE store_
    /\ ttl_index_' = RemoveAt(ttl_index_, At)
    /\ left' = 0
    /\ verdict' = "none"
    /\ UNCHANGED <<now, log, writes, latest, deadlines, births, wins, threw>>

Tick ==
    /\ now < MaxTime
    /\ now' = now + 1
    /\ UNCHANGED <<store_, ttl_index_, log, cleaning, writes, latest, deadlines, births, wins,
                   threw>>

Next ==
    \/ \E k \in Keys : Set(k) \/ Del(k)
    \/ \E k \in Keys, ttl \in Ttls : SetTtl(k, ttl)
    \/ \E k \in Keys, expected \in 0..MaxWrites : SetIfVersion(k, expected)
    \/ CleanStart \/ CleanLook \/ CleanRemove
    \/ Tick

Spec == Init /\ [][Next]_vars

(***************************************************************************)
(* Properties.                                                             *)
(***************************************************************************)
Values == 0..MaxWrites

\* The type of every variable.
TypeOK ==
    /\ store_ \in [Keys -> [value : Values, version : Values, expires_at : 0..Forever]]
    /\ ttl_index_ \in Seq(Keys)
    /\ now \in 1..MaxTime
    /\ log \in Seq([key : Keys, value : Values])
    /\ left \in 0..Len(ttl_index_)
    /\ verdict \in {"none", "drop", "erase"} /\ (verdict # "none" => left > 0)
    /\ writes \in Values
    /\ latest \in [Keys -> Values]
    /\ deadlines \in [Keys -> SUBSET (0..MaxTime)]
    /\ births \in [Keys -> Values]
    /\ wins \in Seq([key : Keys, birth : Values, version : Values])
    /\ threw \in SUBSET Values

\* A written value stays there to be read until the key is written again, deleted, or a
\* deadline that some set gave the key has passed; conditional writes that fail, writes
\* to other keys and a cleanup that runs without the lock take nothing away before that.
LivesUntilDeadline ==
    \A k \in Keys :
        latest[k] # 0 /\ (\A d \in deadlines[k] : now <= d) =>
            Visible(k) /\ store_[k].value = latest[k]

\* cleanup_expired finds every entry that has a deadline: its key is in the index, however
\* often it was set, deleted, refreshed and cleaned up before.
IndexCoversDeadlines ==
    \A k \in Keys :
        Exists(k) /\ store_[k].expires_at # Forever => k \in ToSet(ttl_index_)

\* As long as an entry is not erased, a version lets one conditional write through, never two.
OneWinnerPerVersion == IsInjective(wins)

LastLogged(k, v) ==
    \E i \in DOMAIN log : /\ log[i] = [key |-> k, value |-> v]
                          /\ \A j \in DOMAIN log : j > i => log[j].key # k

\* What get returns for a key is what was logged last for it, by whichever of the two
\* writing operations, unless its append threw; an empty entry was never written.
VisibleIsLogged ==
    \A k \in Keys :
        Visible(k) => LET v == store_[k].value
                      IN  v = 0 \/ LastLogged(k, v) \/ v \in threw
=============================================================================

----------------------------- MODULE OrderedLog -----------------------------
(***************************************************************************)
(* What a store in WriteBehind mode relies on, with the queue, the         *)
(* batches, the two threads that flush them and starts and stops left out: *)
(* records are numbered as they are produced and reach the log in that     *)
(* order, one by one.  Only an append that throws loses some: records at   *)
(* the front of those that wait, the first of which may have got into the  *)
(* log.                                                                    *)
(***************************************************************************)
EXTENDS Naturals, Sequences, SequencesExt

VARIABLES
    produced,       \* number of records so far
    pending,        \* those on their way to the log, in order
    log,
    lost            \* those given up

logVars == <<produced, pending, log, lost>>

LogInit == produced = 0 /\ pending = <<>> /\ log = <<>> /\ lost = {}

Produce ==
    /\ produced' = produced + 1
    /\ pending' = Append(pending, produced + 1)
    /\ UNCHANGED <<log, lost>>

Write ==
    /\ pending # <<>>
    /\ log' = Append(log, Head(pending))
    /\ pending' = Tail(pending)
    /\ UNCHANGED <<produced, lost>>

Lose ==
    /\ \E n \in 1..Len(pending) : \E written \in {<<>>, <<Head(pending)>>} :
        /\ log' = log \o written
        /\ lost' = lost \cup (ToSet(SubSeq(pending, 1, n)) \ ToSet(written))
        /\ pending' = SubSeq(pending, n + 1, Len(pending))
    /\ UNCHANGED produced

LogNext == Produce \/ Write \/ Lose

LogSpec == LogInit /\ [][LogNext]_logVars
=============================================================================

---------------------------- MODULE BoundedFifo -----------------------------
(***************************************************************************)
(* What users of BoundedThreadsafeQueue rely on, with the mutex, the       *)
(* condition variables and the waiting left out: a sequence of at most     *)
(* Capacity items; a Put adds one at the end, a Take hands out the first;  *)
(* only a lossy queue that is full may drop its first; and once the queue  *)
(* is closed at most one more item gets in (the Push that had already      *)
(* passed its test of stopped_).                                           *)
(***************************************************************************)
EXTENDS Naturals, Sequences

CONSTANTS Items, Capacity

VARIABLES
    lossy,          \* whether the overflow policy discards old items
    contents,
    taken,          \* everything handed out so far, in order
    closed,
    late            \* how many items were put in after closing

fifoVars == <<lossy, contents, taken, closed, late>>

FifoInit ==
    /\ lossy \in BOOLEAN
    /\ contents = <<>>
    /\ taken = <<>>
    /\ closed = FALSE
    /\ late = 0

Put(v) ==
    /\ Len(contents) < Capacity
    /\ closed => late = 0
    /\ contents' = Append(contents, v)
    /\ late' = IF closed THEN 1 ELSE 0
    /\ UNCHANGED <<lossy, taken, closed>>

Take ==
    /\ contents # <<>>
    /\ contents' = Tail(contents)
    /\ taken' = Append(taken, Head(contents))
    /\ UNCHANGED <<lossy, closed, late>>

Drop ==
    /\ lossy
    /\ Len(contents) = Capacity
    /\ contents' = Tail(contents)
    /\ UNCHANGED <<lossy, taken, closed, late>>

Close ==
    /\ closed' = TRUE
    /\ UNCHANGED <<lossy, contents, taken, late>>

FifoNext == (\E v \in Items : Put(v)) \/ Take \/ Drop \/ Close

FifoSpec == FifoInit /\ [][FifoNext]_fifoVars
=============================================================================

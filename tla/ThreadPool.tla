----------------------------- MODULE ThreadPool -----------------------------
(***************************************************************************)
(* utils/thread_pool.{h,inl}: workers that poll one work queue.            *)
(*                                                                         *)
(* The queue is BoundedQueue with its default bound of 2^32 - 1 elements,  *)
(* taken as unbounded, and is only used with Push and TryPop.  A task is a *)
(* value; what it does is defined by the module that extends this one,     *)
(* which takes a worker from "running" back to "loop" with Finish.         *)
(***************************************************************************)
EXTENDS Naturals, Sequences, SequencesExt

CONSTANTS
    Workers,
    NoTask

VARIABLES
    work_queue,
    done,
    worker,         \* where each worker thread is
    task,           \* the task it runs, or NoTask
    stopper         \* the caller of Stop(): "idle", "joining" or "stopped"

poolVars == <<work_queue, done, worker, task, stopper>>

PoolInit ==
    /\ work_queue = <<>>
    /\ done = FALSE
    /\ worker = [w \in Workers |-> "loop"]
    /\ task = [w \in Workers |-> NoTask]
    /\ stopper = "idle"

\* Submit: a stopped pool takes nothing.
Submit(x) ==
    /\ work_queue' = IF done THEN work_queue ELSE Append(work_queue, x)
    /\ UNCHANGED <<done, worker, task, stopper>>

\* while (!done)
WorkerLoop(w) ==
    /\ worker[w] = "loop"
    /\ worker' = [worker EXCEPT ![w] = IF done THEN "exited" ELSE "try"]
    /\ UNCHANGED <<work_queue, done, task, stopper>>

\* TryPop; an empty queue sends the worker round again.
WorkerTryPop(w) ==
    /\ worker[w] = "try"
    /\ \/ /\ work_queue # <<>>
          /\ work_queue' = Tail(work_queue)
          /\ task' = [task EXCEPT ![w] = Head(work_queue)]
          /\ worker' = [worker EXCEPT ![w] = "running"]
       \/ /\ work_queue = <<>>
          /\ worker' = [worker EXCEPT ![w] = "loop"]
          /\ UNCHANGED <<work_queue, task>>
    /\ UNCHANGED <<done, stopper>>

\* The task has returned or thrown; an exception is swallowed.
Finish(w) ==
    /\ worker' = [worker EXCEPT ![w] = "loop"]
    /\ task' = [task EXCEPT ![w] = NoTask]
    /\ UNCHANGED <<work_queue, done, stopper>>

StopCall ==
    /\ stopper = "idle"
    /\ done' = TRUE
    /\ stopper' = "joining"
    /\ UNCHANGED <<work_queue, worker, task>>

\* Stop returns when every worker has been joined.
StopReturn ==
    /\ stopper = "joining"
    /\ \A w \in Workers : worker[w] = "exited"
    /\ stopper' = "stopped"
    /\ UNCHANGED <<work_queue, done, worker, task>>
=============================================================================

----------------------------- MODULE Scheduler -----------------------------
(***************************************************************************)
(* src/scheduler.{h,cpp} on its ThreadPool, as ActorSystem owns them:      *)
(* ScheduleAt and ScheduleEvery from any thread, the timer thread, the     *)
(* actor loop that keeps one pool worker busy, Shutdown and destruction.   *)
(*                                                                         *)
(* work_queues is empty: Register and Deregister are templates defined in  *)
(* scheduler.cpp that nothing instantiates.  A timed task returns without  *)
(* calling the scheduler.  Time is a counter; timer_mutex is held by       *)
(* nobody ("free") or by the timer thread, the only thread that keeps it   *)
(* over more than one step.                                                *)
(***************************************************************************)
EXTENDS ThreadPool, FiniteSets

CONSTANTS
    Tasks,          \* each is scheduled once, by a thread of its own
    Actors,         \* the task that runs ScheduleActors
    Intervals,      \* of ScheduleEvery
    MaxTime         \* bound: the clock stops there when no task is waiting

ASSUME SchedulerAssumption ==
    /\ Cardinality(Workers) >= 2
    /\ {Actors, NoTask} \cap Tasks = {} /\ Actors # NoTask
    /\ Intervals \subseteq Nat /\ MaxTime \in Nat

VARIABLES
    now,
    timer_queue,    \* a set of TimedTask
    timer_mutex,    \* "free" or "timer"
    timer,          \* where the timer thread is
    wake_at,        \* when its wait ends by itself, as a set
    next_task,      \* the TimedTask it has popped, as a set
    read_at,        \* its local now
    caller,         \* where the thread that schedules each task is
    shut,           \* Scheduler::done
    owner,          \* where the thread inside Shutdown and the destructor is
    interval,       \* history: how each task was scheduled, 0: once
    ran             \* history: how often each task has run

timerVars == <<timer_queue, timer_mutex, timer, wake_at, next_task, read_at>>
history == <<interval, ran>>
vars == <<poolVars, now, timerVars, caller, shut, owner, history>>

TimedTask(x, when, every) == [fn |-> x, run_at |-> when, repeat_interval |-> every]

\* The constructor submits the actor loop and starts the timer thread.
Init ==
    /\ work_queue = <<Actors>>
    /\ done = FALSE
    /\ worker = [w \in Workers |-> "loop"]
    /\ task = [w \in Workers |-> NoTask]
    /\ stopper = "idle"
    /\ now = 0
    /\ timer_queue = {}
    /\ timer_mutex = "free"
    /\ timer = "relock"
    /\ wake_at = {}
    /\ next_task = {}
    /\ read_at = 0
    /\ caller = [x \in Tasks |-> "new"]
    /\ shut = FALSE
    /\ owner = "use"
    /\ interval = [x \in Tasks |-> 0]
    /\ ran = [x \in Tasks |-> 0]

\* timer_cv.notify_one or notify_all: the timer thread is its only waiter.
Notify == timer' = IF timer = "sleep" THEN "relock" ELSE timer

(***************************************************************************)
(* ScheduleAt and ScheduleEvery: push under the mutex, then notify.        *)
(***************************************************************************)
Push(x, t) ==
    /\ caller[x] = "new" /\ owner = "use"
    /\ timer_mutex = "free"
    /\ timer_queue' = timer_queue \cup {t}
    /\ caller' = [caller EXCEPT ![x] = "notify"]
    /\ interval' = [interval EXCEPT ![x] = t.repeat_interval]
    /\ UNCHANGED <<poolVars, now, timer_mutex, timer, wake_at, next_task, read_at, shut,
                   owner, ran>>

ScheduleAt(x) ==
    \E when \in 0..MaxTime : now <= MaxTime /\ Push(x, TimedTask(x, when, 0))

ScheduleEvery(x) ==
    \E every \in Intervals :
        now <= MaxTime /\ Push(x, TimedTask(x, now + every, every))

\* Bug: only the first task of an empty queue notifies.
ScheduleNotify_OnlyFirst(x) ==
    /\ caller[x] = "notify"
    /\ caller' = [caller EXCEPT ![x] = "returned"]
    /\ IF Cardinality(timer_queue) = 1 THEN Notify ELSE UNCHANGED timer
    /\ UNCHANGED <<poolVars, now, timer_queue, timer_mutex, wake_at, next_task, read_at,
                   shut, owner, history>>

ScheduleNotify(x) ==
    /\ caller[x] = "notify"
    /\ caller' = [caller EXCEPT ![x] = "returned"]
    /\ Notify
    /\ UNCHANGED <<poolVars, now, timer_queue, timer_mutex, wake_at, next_task, read_at,
                   shut, owner, history>>

(***************************************************************************)
(* ScheduleTimers, the timer thread.                                       *)
(***************************************************************************)
TimerLock ==
    /\ timer = "relock" /\ timer_mutex = "free"
    /\ timer_mutex' = "timer"
    /\ timer' = "test"
    /\ UNCHANGED <<poolVars, now, timer_queue, wake_at, next_task, read_at, caller, shut,
                   owner, history>>

\* while (!done)
TimerTest ==
    /\ timer = "test"
    /\ wake_at' = {}
    /\ timer' = IF shut THEN "exited" ELSE "look"
    /\ timer_mutex' = IF shut THEN "free" ELSE timer_mutex
    /\ UNCHANGED <<poolVars, now, timer_queue, next_task, read_at, caller, shut,
                   owner, history>>

\* top(): a task with the earliest run_at.
IsTop(t) == t \in timer_queue /\ \A u \in timer_queue : t.run_at <= u.run_at

\* wait and wait_until release the mutex and sleep in one step.
TimerSleep ==
    /\ timer = "look"
    /\ \/ /\ timer_queue = {}
          /\ wake_at' = {}
       \/ \E t \in timer_queue :
            /\ IsTop(t) /\ now < t.run_at
            /\ wake_at' = {t.run_at}
    /\ timer' = "sleep"
    /\ timer_mutex' = "free"
    /\ UNCHANGED <<poolVars, now, timer_queue, next_task, read_at, caller, shut, owner,
                   history>>

\* Bug: the task stays in the queue.
TimerPop_LeavesTop ==
    /\ timer = "look"
    /\ \E t \in timer_queue :
        /\ IsTop(t) /\ now >= t.run_at
        /\ next_task' = {t}
    /\ read_at' = now
    /\ timer' = "submit"
    /\ timer_mutex' = "free"
    /\ UNCHANGED <<poolVars, now, timer_queue, wake_at, caller, shut, owner, history>>

TimerPop ==
    /\ timer = "look"
    /\ \E t \in timer_queue :
        /\ IsTop(t) /\ now >= t.run_at
        /\ timer_queue' = timer_queue \ {t}
        /\ next_task' = {t}
    /\ read_at' = now
    /\ timer' = "submit"
    /\ timer_mutex' = "free"
    /\ UNCHANGED <<poolVars, now, wake_at, caller, shut, owner, history>>

TimerSubmit ==
    /\ timer = "submit"
    /\ \E t \in next_task :
        /\ Submit(t.fn)
        /\ \/ /\ t.repeat_interval > 0
              /\ timer' = "again"
              /\ UNCHANGED <<next_task, read_at>>
           \/ /\ t.repeat_interval = 0
              /\ timer' = "relock"
              /\ next_task' = {} /\ read_at' = 0
    /\ UNCHANGED <<now, timer_queue, timer_mutex, wake_at, caller, shut, owner, history>>

\* Bug: a periodic task is not put back.
TimerAgain_Forgets ==
    /\ timer = "again" /\ timer_mutex = "free"
    /\ next_task' = {}
    /\ read_at' = 0
    /\ timer' = "relock"
    /\ UNCHANGED <<poolVars, now, timer_queue, timer_mutex, wake_at, caller, shut, owner, history>>

\* A periodic task is put back with ScheduleAt, which does not repeat it.  The notification
\* finds nobody: the timer thread itself sends it.
TimerAgain ==
    /\ timer = "again" /\ timer_mutex = "free"
    /\ timer_queue' = timer_queue \cup
            {TimedTask(t.fn, read_at + t.repeat_interval, 0) : t \in next_task}
    /\ next_task' = {}
    /\ read_at' = 0
    /\ timer' = "relock"
    /\ UNCHANGED <<poolVars, now, timer_mutex, wake_at, caller, shut, owner, history>>

\* wait_until reaches its time.
TimerTimeout ==
    /\ timer = "sleep" /\ \E t \in wake_at : now >= t
    /\ timer' = "relock"
    /\ UNCHANGED <<poolVars, now, timer_queue, timer_mutex, wake_at, next_task, read_at,
                   caller, shut, owner, history>>

TimerSpurious ==
    /\ timer = "sleep"
    /\ timer' = "relock"
    /\ UNCHANGED <<poolVars, now, timer_queue, timer_mutex, wake_at, next_task, read_at,
                   caller, shut, owner, history>>

Tick ==
    /\ now < MaxTime \/ \E t \in timer_queue : now < t.run_at
    /\ now' = now + 1
    /\ UNCHANGED <<poolVars, timerVars, caller, shut, owner, history>>

(***************************************************************************)
(* The pool's workers.                                                     *)
(***************************************************************************)
\* ScheduleActors goes round its empty list until the scheduler is shut down.
ActorsReturn(w) ==
    /\ task[w] = Actors /\ shut
    /\ Finish(w)
    /\ UNCHANGED <<now, timerVars, caller, shut, owner, history>>

TaskReturn(w) ==
    /\ task[w] \in Tasks
    /\ ran' = [ran EXCEPT ![task[w]] = @ + 1]
    /\ Finish(w)
    /\ UNCHANGED <<now, timerVars, caller, shut, owner, interval>>

Work(w) ==
    \/ ActorsReturn(w)
    \/ TaskReturn(w)
    \/ /\ WorkerLoop(w) \/ WorkerTryPop(w)
       /\ UNCHANGED <<now, timerVars, caller, shut, owner, history>>

(***************************************************************************)
(* Shutdown by ActorSystem::Shutdown, then the destructors: they call      *)
(* Shutdown again, which returns at once, and destroy the pool.            *)
(***************************************************************************)
\* done.exchange(true)
ShutdownCall ==
    /\ owner = "use"
    /\ shut' = TRUE
    /\ owner' = "lock"
    /\ UNCHANGED <<poolVars, now, timerVars, caller, history>>

\* Bug: the mutex is not taken.
ShutdownLock_Skipped ==
    /\ owner = "lock"
    /\ owner' = "notify"
    /\ UNCHANGED <<poolVars, now, timerVars, caller, shut, history>>

\* The mutex is locked and unlocked: the timer thread is not between test and wait.
ShutdownLock ==
    /\ owner = "lock" /\ timer_mutex = "free"
    /\ owner' = "notify"
    /\ UNCHANGED <<poolVars, now, timerVars, caller, shut, history>>

ShutdownNotify ==
    /\ owner = "notify"
    /\ Notify
    /\ owner' = "join"
    /\ UNCHANGED <<poolVars, now, timer_queue, timer_mutex, wake_at, next_task, read_at,
                   caller, shut, history>>

ShutdownJoin ==
    /\ owner = "join" /\ timer = "exited"
    /\ owner' = "returned"
    /\ UNCHANGED <<poolVars, now, timerVars, caller, shut, history>>

\* The pool's destructor calls Stop.
Destroy ==
    /\ owner = "returned"
    /\ StopCall \/ StopReturn
    /\ UNCHANGED <<now, timerVars, caller, shut, owner, history>>

Timer == TimerLock \/ TimerTest \/ TimerSleep \/ TimerPop \/ TimerSubmit \/ TimerAgain
             \/ TimerTimeout

Owner == ShutdownLock \/ ShutdownNotify \/ ShutdownJoin \/ Destroy

Next ==
    \/ \E x \in Tasks : ScheduleAt(x) \/ ScheduleEvery(x)
    \/ \E x \in Tasks : ScheduleNotify(x)
    \/ Timer \/ TimerSpurious \/ Tick
    \/ \E w \in Workers : Work(w)
    \/ ShutdownCall \/ Owner

Spec == Init /\ [][Next]_vars

\* Every thread is scheduled, time passes, tasks return, and a mutex that becomes free again
\* and again is eventually won.  Nothing makes anybody schedule a task or shut down.
FairSpec ==
    /\ Spec
    /\ \A x \in Tasks : WF_vars(ScheduleNotify(x))
    /\ SF_vars(Timer)
    /\ WF_vars(Tick)
    /\ \A w \in Workers : WF_vars(Work(w))
    /\ SF_vars(Owner)

(***************************************************************************)
(* Properties.                                                             *)
(***************************************************************************)
TimedTasks == [fn : Tasks, run_at : Nat, repeat_interval : Intervals \cup {0}]

TypeOK ==
    /\ work_queue \in Seq(Tasks \cup {Actors})
    /\ done \in BOOLEAN
    /\ worker \in [Workers -> {"loop", "try", "running", "exited"}]
    /\ task \in [Workers -> Tasks \cup {Actors, NoTask}]
    /\ stopper \in {"idle", "joining", "stopped"}
    /\ now \in Nat
    /\ timer_queue \subseteq TimedTasks
    /\ timer_mutex = IF timer \in {"test", "look"} THEN "timer" ELSE "free"
    /\ timer \in {"relock", "test", "look", "sleep", "submit", "again", "exited"}
    /\ wake_at \subseteq Nat
    /\ next_task \subseteq TimedTasks /\ Cardinality(next_task) <= 1
    /\ read_at \in Nat
    /\ caller \in [Tasks -> {"new", "notify", "returned"}]
    /\ shut \in BOOLEAN
    /\ owner \in {"use", "lock", "notify", "join", "returned"}
    /\ interval \in [Tasks -> Intervals \cup {0}]
    /\ ran \in [Tasks -> Nat]

\* The timer thread never sleeps past a task: whatever was pushed while it slept, it wakes by
\* the earliest run_at, or a notification is still to come.
NeverOversleeps ==
    timer = "sleep" => \A t \in timer_queue :
        (\E u \in wake_at : u <= t.run_at) \/ caller[t.fn] = "notify"

\* Where the runs of task x that have not happened are.
Pending(x) ==
    Cardinality({t \in timer_queue \cup next_task : t.fn = x})
    + Cardinality({i \in DOMAIN work_queue : work_queue[i] = x})
    + Cardinality({w \in Workers : task[w] = x})

\* A one-off task that was scheduled is in the timer queue, with the timer thread, in the
\* pool's queue, with a worker, or has run, exactly once altogether: none is lost or doubled on
\* the way through the two queues, until the pool is stopped.
OneOffOnce ==
    \A x \in Tasks :
        (caller[x] # "new" /\ interval[x] = 0 /\ ~done) => Pending(x) + ran[x] = 1

\* Every scheduled task runs, although a worker is kept by the actor loop, and a periodic one
\* runs again, unless the scheduler is shut down.
TasksRun ==
    []<>(shut \/ \A x \in Tasks : caller[x] # "new" =>
                    ran[x] = IF interval[x] > 0 THEN 2 ELSE 1)

\* Shutdown and the destruction that follows come to an end, wherever the timer thread and the
\* workers are when it begins.
ShutdownReturns == shut ~> stopper = "stopped"
=============================================================================

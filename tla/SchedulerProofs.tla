-------------------------- MODULE SchedulerProofs ---------------------------
(***************************************************************************)
(* Theorems about Scheduler for any tasks, intervals, workers and clock.   *)
(*                                                                         *)
(* OneOffOnce counts; its inductive form, OnceInv, says where the one run  *)
(* of a task is.  It needs that the timer thread has a task in hand only   *)
(* between pop and push and that a one-off task is not in its queue then   *)
(* (TimerInv), that a worker that takes a task has none (WorkerInv), and   *)
(* that a task nobody has scheduled is nowhere (NewInv).                   *)
(***************************************************************************)
EXTENDS Scheduler, SequenceTheorems, FiniteSetTheorems, TLAPS

\* What the timer thread has popped, and what it may still do with it.
TimerInv ==
    /\ timer \notin {"submit", "again"} => next_task = {}
    /\ timer \in {"submit", "again"} => \E t \in next_task : next_task = {t}
    /\ timer = "again" => \A t \in next_task : t.repeat_interval # 0
    /\ \A t \in timer_queue \cup next_task : interval[t.fn] = 0 => t.repeat_interval = 0
    /\ \A t \in next_task : interval[t.fn] = 0 => t \notin timer_queue

\* Only a worker that is running has a task.
WorkerInv == \A w \in Workers : worker[w] # "running" => task[w] = NoTask

\* A task that was not scheduled is nowhere and has not run.
NewInv ==
    \A x \in Tasks : caller[x] = "new" =>
        /\ \A t \in timer_queue \cup next_task : t.fn # x
        /\ \A i \in DOMAIN work_queue : work_queue[i] # x
        /\ \A w \in Workers : task[w] # x
        /\ ran[x] = 0

Timed(x) == {t \in timer_queue \cup next_task : t.fn = x}
Queued(x) == {i \in DOMAIN work_queue : work_queue[i] = x}
Running(x) == {w \in Workers : task[w] = x}

\* The one run of x is to come, at exactly one place, or is over.
Once(x) ==
    \/ (\E t \in Timed(x) : Timed(x) = {t}) /\ Queued(x) = {} /\ Running(x) = {} /\ ran[x] = 0
    \/ Timed(x) = {} /\ (\E i \in Queued(x) : Queued(x) = {i}) /\ Running(x) = {} /\ ran[x] = 0
    \/ Timed(x) = {} /\ Queued(x) = {} /\ (\E w \in Running(x) : Running(x) = {w}) /\ ran[x] = 0
    \/ Timed(x) = {} /\ Queued(x) = {} /\ Running(x) = {} /\ ran[x] = 1

OnceInv == \A x \in Tasks : caller[x] # "new" /\ interval[x] = 0 /\ ~done => Once(x)

IInv ==
    /\ TypeOK
    /\ TimerInv
    /\ WorkerInv
    /\ NewInv
    /\ OnceInv
    /\ NeverOversleeps

-----------------------------------------------------------------------------
(* The invariant holds initially and every action preserves it. *)

\* What the assumptions on the constants give the leaves below.
LEMMA Constants ==
    /\ Actors \notin Tasks /\ NoTask \notin Tasks /\ Actors # NoTask
    /\ Intervals \subseteq Nat /\ MaxTime \in Nat
  BY SchedulerAssumption

\* What the timer thread may have in hand.
LEMMA OneInHand ==
    /\ Cardinality({}) <= 1
    /\ \A t : Cardinality({t}) <= 1
  BY FS_EmptySet, FS_Singleton

\* The constructor: only the actor loop is queued.
LEMMA InitIInv == Init => IInv
  <1> SUFFICES ASSUME Init PROVE IInv
    OBVIOUS
  <1>1. TypeOK
    <2>1. work_queue \in Seq(Tasks \cup {Actors})
      BY DEF Init
    <2>2. done \in BOOLEAN /\ shut \in BOOLEAN
      BY DEF Init
    <2>3. /\ worker \in [Workers -> {"loop", "try", "running", "exited"}]
          /\ task \in [Workers -> Tasks \cup {Actors, NoTask}]
          /\ caller \in [Tasks -> {"new", "notify", "returned"}]
          /\ interval \in [Tasks -> Intervals \cup {0}]
          /\ ran \in [Tasks -> Nat]
      BY DEF Init
    <2>4. next_task \subseteq TimedTasks /\ Cardinality(next_task) <= 1
      BY OneInHand DEF Init
    <2> QED
      BY <2>1, <2>2, <2>3, <2>4 DEF Init, TypeOK
  <1>2. TimerInv /\ WorkerInv /\ NeverOversleeps /\ OnceInv
    BY DEF Init, TimerInv, WorkerInv, NeverOversleeps, OnceInv
  <1>3. NewInv
    <2>1. \A i \in DOMAIN work_queue : work_queue[i] = Actors
      BY DEF Init
    <2> QED
      BY <2>1, Constants DEF Init, NewInv
  <1> QED
    BY <1>1, <1>2, <1>3 DEF IInv

\* A step that moves no task leaves every task where it is.
LEMMA SamePlaces ==
    ASSUME NewInv, OnceInv,
           UNCHANGED <<timer_queue, next_task, work_queue, task, ran, interval>>,
           \A x \in Tasks : caller'[x] = "new" <=> caller[x] = "new",
           done => done'
    PROVE  NewInv' /\ OnceInv'
  <1>1. NewInv'
    BY DEF NewInv
  <1>2. ASSUME NEW x \in Tasks, Once(x) PROVE Once(x)'
    BY <1>2 DEF Once, Timed, Queued, Running
  <1>3. OnceInv'
    BY <1>2 DEF OnceInv
  <1> QED
    BY <1>1, <1>3

\* Steps of the timer thread, the clock, the callers of Shutdown and of the notification
\* after a push: they move no task.
LEMMA QuietStep ==
    ASSUME IInv, \/ TimerLock \/ TimerTest \/ TimerSleep \/ TimerTimeout \/ TimerSpurious
                 \/ Tick \/ (\E x \in Tasks : ScheduleNotify(x))
                 \/ ShutdownCall \/ ShutdownLock \/ ShutdownNotify \/ ShutdownJoin
    PROVE  IInv'
  <1> USE DEF IInv, timerVars, history, poolVars
  <1>1. UNCHANGED <<timer_queue, next_task, work_queue, done, worker, task, stopper, ran,
                    interval, read_at>>
    BY DEF TimerLock, TimerTest, TimerSleep, TimerTimeout, TimerSpurious, Tick, ScheduleNotify,
           ShutdownCall, ShutdownLock, ShutdownNotify, ShutdownJoin
  <1>2. /\ caller' \in [Tasks -> {"new", "notify", "returned"}]
        /\ \A x \in Tasks : caller'[x] = "new" <=> caller[x] = "new"
    <2>1. CASE \E x \in Tasks : ScheduleNotify(x)
      BY <2>1 DEF ScheduleNotify, TypeOK
    <2>2. CASE UNCHANGED caller
      BY <2>2 DEF TypeOK
    <2> QED
      BY <2>1, <2>2 DEF TimerLock, TimerTest, TimerSleep, TimerTimeout, TimerSpurious, Tick,
                        ShutdownCall, ShutdownLock, ShutdownNotify, ShutdownJoin
  <1>3. NewInv' /\ OnceInv'
    BY <1>1, <1>2, SamePlaces
  <1>4. WorkerInv'
    BY <1>1 DEF WorkerInv
  <1>5. /\ timer' \in {"relock", "test", "look", "sleep", "exited"} \/ timer' = timer
        /\ timer \notin {"submit", "again"} \/ timer' = timer
    BY DEF TimerLock, TimerTest, TimerSleep, TimerTimeout, TimerSpurious, Tick, ScheduleNotify,
           ShutdownCall, ShutdownLock, ShutdownNotify, ShutdownJoin, Notify, TypeOK
  <1>6. TimerInv'
    BY <1>1, <1>5 DEF TimerInv
  <1>7. /\ timer' \in {"relock", "test", "look", "sleep", "submit", "again", "exited"}
        /\ timer_mutex' = IF timer' \in {"test", "look"} THEN "timer" ELSE "free"
    BY DEF TimerLock, TimerTest, TimerSleep, TimerTimeout, TimerSpurious, Tick, ScheduleNotify,
           ShutdownCall, ShutdownLock, ShutdownNotify, ShutdownJoin, Notify, TypeOK
  <1>8. shut' \in BOOLEAN
    BY DEF TimerLock, TimerTest, TimerSleep, TimerTimeout, TimerSpurious, Tick, ScheduleNotify,
           ShutdownCall, ShutdownLock, ShutdownNotify, ShutdownJoin, TypeOK
  <1>9. now' \in Nat /\ owner' \in {"use", "lock", "notify", "join", "returned"}
    BY DEF TimerLock, TimerTest, TimerSleep, TimerTimeout, TimerSpurious, Tick, ScheduleNotify,
           ShutdownCall, ShutdownLock, ShutdownNotify, ShutdownJoin, TypeOK
  <1>10. wake_at' \subseteq Nat
    <2>1. CASE TimerSleep
      BY <2>1 DEF TimerSleep, TypeOK, TimedTasks
    <2>2. CASE wake_at' \in {{}, wake_at}
      BY <2>2 DEF TypeOK
    <2> QED
      BY <2>1, <2>2 DEF TimerLock, TimerTest, TimerTimeout, TimerSpurious, Tick, ScheduleNotify,
           ShutdownCall, ShutdownLock, ShutdownNotify, ShutdownJoin
  <1>11. TypeOK'
    BY <1>1, <1>2, <1>7, <1>8, <1>9, <1>10 DEF TypeOK
  <1>12. NeverOversleeps'
    <2>1. CASE TimerSleep
      <3>1. CASE timer_queue = {}
        BY <1>1, <3>1 DEF NeverOversleeps
      <3>2. ASSUME NEW t \in timer_queue, IsTop(t), wake_at' = {t.run_at} PROVE NeverOversleeps'
        BY <1>1, <3>2 DEF NeverOversleeps, IsTop
      <3> QED
        BY <2>1, <3>1, <3>2 DEF TimerSleep
    <2>2. CASE \E x \in Tasks : ScheduleNotify(x)
      BY <2>2 DEF ScheduleNotify, Notify, NeverOversleeps
    <2>3. CASE timer' # "sleep"
      BY <2>3 DEF NeverOversleeps
    <2>4. CASE UNCHANGED <<timer, wake_at, caller>>
      BY <1>1, <2>4 DEF NeverOversleeps
    <2> QED
      BY <2>1, <2>2, <2>3, <2>4
         DEF TimerLock, TimerTest, TimerTimeout, TimerSpurious, Tick, ShutdownCall, ShutdownLock,
             ShutdownNotify, ShutdownJoin, Notify
  <1> QED
    BY <1>3, <1>4, <1>6, <1>11, <1>12

\* ScheduleAt and ScheduleEvery push a task nobody had scheduled.
LEMMA PushStep ==
    ASSUME IInv, NEW x \in Tasks, NEW t \in TimedTasks, t.fn = x, Push(x, t)
    PROVE  IInv'
  <1> USE DEF IInv
  <1>1. /\ caller[x] = "new" /\ timer_queue' = timer_queue \cup {t}
        /\ caller' = [caller EXCEPT ![x] = "notify"]
        /\ interval' = [interval EXCEPT ![x] = t.repeat_interval]
        /\ UNCHANGED <<work_queue, done, worker, task, stopper, now, timer_mutex, timer, wake_at,
                       next_task, read_at, shut, owner, ran>>
    BY DEF Push, poolVars
  <1>2. /\ caller'[x] = "notify" /\ interval'[x] = t.repeat_interval
        /\ \A y \in Tasks : y # x => caller'[y] = caller[y] /\ interval'[y] = interval[y]
        /\ caller' \in [Tasks -> {"new", "notify", "returned"}]
        /\ interval' \in [Tasks -> Intervals \cup {0}]
    BY <1>1 DEF TypeOK, TimedTasks
  <1>3. TypeOK'
    BY <1>1, <1>2 DEF TypeOK
  <1>4. \A u \in timer_queue \cup next_task : u.fn # x /\ u.fn \in Tasks
    BY <1>1 DEF NewInv, TypeOK, TimedTasks
  <1>5. TimerInv'
    BY <1>1, <1>2, <1>4 DEF TimerInv
  <1>6. WorkerInv'
    BY <1>1 DEF WorkerInv
  <1>7. NewInv'
    BY <1>1, <1>2 DEF NewInv
  <1>8. NeverOversleeps'
    BY <1>1, <1>2, <1>4 DEF NeverOversleeps
  <1>9. OnceInv'
    <2>1. Timed(x)' = {t} /\ Queued(x)' = {} /\ Running(x)' = {} /\ ran'[x] = 0
      BY <1>1, <1>4 DEF NewInv, Timed, Queued, Running
    <2>2. Once(x)'
      BY <2>1 DEF Once
    <2>3. ASSUME NEW y \in Tasks, y # x, Once(y) PROVE Once(y)'
      <3>1. Timed(y)' = Timed(y) /\ Queued(y)' = Queued(y) /\ Running(y)' = Running(y)
        BY <1>1, <2>3 DEF Timed, Queued, Running
      <3> QED
        BY <1>1, <2>3, <3>1 DEF Once
    <2> QED
      BY <1>1, <1>2, <2>2, <2>3 DEF OnceInv
  <1> QED
    BY <1>3, <1>5, <1>6, <1>7, <1>8, <1>9

\* ScheduleAt and ScheduleEvery.
LEMMA ScheduleStep ==
    ASSUME IInv, NEW x \in Tasks, ScheduleAt(x) \/ ScheduleEvery(x)
    PROVE  IInv'
  <1>1. CASE ScheduleAt(x)
    <2>1. PICK when \in 0..MaxTime : Push(x, TimedTask(x, when, 0))
      BY <1>1 DEF ScheduleAt
    <2>2. TimedTask(x, when, 0) \in TimedTasks /\ TimedTask(x, when, 0).fn = x
      BY Constants DEF TimedTask, TimedTasks
    <2> QED
      BY <2>1, <2>2, PushStep
  <1>2. CASE ScheduleEvery(x)
    <2>1. PICK every \in Intervals : Push(x, TimedTask(x, now + every, every))
      BY <1>2 DEF ScheduleEvery
    <2>2. now + every \in Nat
      BY Constants DEF IInv, TypeOK
    <2>3. /\ TimedTask(x, now + every, every) \in TimedTasks
          /\ TimedTask(x, now + every, every).fn = x
      BY <2>2 DEF TimedTask, TimedTasks
    <2> QED
      BY <2>1, <2>3, PushStep
  <1> QED
    BY <1>1, <1>2

\* The timer thread takes the top of its queue in hand.
LEMMA TimerPopStep ==
    ASSUME IInv, TimerPop
    PROVE  IInv'
  <1> USE DEF IInv
  <1>1. PICK t \in timer_queue : /\ timer_queue' = timer_queue \ {t}
                                 /\ next_task' = {t}
    BY DEF TimerPop
  <1>2. /\ timer = "look" /\ timer' = "submit" /\ timer_mutex' = "free" /\ read_at' = now
        /\ UNCHANGED <<work_queue, done, worker, task, stopper, now, wake_at, caller, shut, owner,
                       interval, ran>>
    BY DEF TimerPop, poolVars, history
  <1>3. next_task = {} /\ timer_queue' \cup next_task' = timer_queue \cup next_task
    BY <1>1, <1>2 DEF TimerInv
  <1>4. t \in TimedTasks /\ Cardinality(next_task') <= 1
    BY <1>1, OneInHand DEF TypeOK
  <1>5. TypeOK'
    BY <1>1, <1>2, <1>4 DEF TypeOK
  <1>6. TimerInv'
    BY <1>1, <1>2, <1>3, <1>4 DEF TimerInv
  <1>7. WorkerInv' /\ NeverOversleeps'
    BY <1>2 DEF WorkerInv, NeverOversleeps
  <1>8. NewInv'
    BY <1>2, <1>3 DEF NewInv
  <1>9. OnceInv'
    <2>1. ASSUME NEW x \in Tasks, Once(x) PROVE Once(x)'
      <3>1. Timed(x)' = Timed(x)
        BY <1>3 DEF Timed
      <3> QED
        BY <1>2, <2>1, <3>1 DEF Once, Queued, Running
    <2> QED
      BY <1>2, <2>1 DEF OnceInv
  <1> QED
    BY <1>5, <1>6, <1>7, <1>8, <1>9

\* The timer thread hands its task to the pool; a one-off task is then in the pool's queue
\* and nowhere else.
LEMMA TimerSubmitStep ==
    ASSUME IInv, TimerSubmit
    PROVE  IInv'
  <1> USE DEF IInv
  <1>1. PICK t \in next_task :
            /\ Submit(t.fn)
            /\ \/ t.repeat_interval > 0 /\ timer' = "again" /\ UNCHANGED <<next_task, read_at>>
               \/ t.repeat_interval = 0 /\ timer' = "relock" /\ next_task' = {} /\ read_at' = 0
    BY DEF TimerSubmit
  <1>2. /\ timer = "submit"
        /\ work_queue' = IF done THEN work_queue ELSE Append(work_queue, t.fn)
        /\ UNCHANGED <<done, worker, task, stopper, now, timer_queue, timer_mutex, wake_at, caller,
                       shut, owner, interval, ran>>
    BY <1>1 DEF TimerSubmit, Submit, history
  <1>3. t \in TimedTasks /\ t.fn \in Tasks /\ next_task = {t}
    BY <1>1, <1>2 DEF TypeOK, TimedTasks, TimerInv
  <1>4. /\ work_queue \in Seq(Tasks \cup {Actors}) /\ Len(work_queue) \in Nat
        /\ DOMAIN work_queue = 1..Len(work_queue)
    BY LenProperties DEF TypeOK
  <1>5. ASSUME ~done
        PROVE  /\ work_queue' \in Seq(Tasks \cup {Actors})
               /\ DOMAIN work_queue' = 1..(Len(work_queue) + 1)
               /\ \A i \in DOMAIN work_queue : work_queue'[i] = work_queue[i]
               /\ work_queue'[Len(work_queue) + 1] = t.fn
    BY <1>2, <1>3, <1>4, <1>5, AppendProperties, LenProperties
  <1>6. /\ timer' \in {"again", "relock"} /\ read_at' \in Nat
        /\ next_task' \subseteq TimedTasks /\ Cardinality(next_task') <= 1
    <2>1. timer' \in {"again", "relock"} /\ (next_task' = next_task \/ next_task' = {})
          /\ read_at' \in Nat
      BY <1>1 DEF TypeOK
    <2> QED
      BY <2>1, OneInHand DEF TypeOK
  <1>7. TypeOK'
    <2>1. work_queue' \in Seq(Tasks \cup {Actors})
      BY <1>2, <1>4, <1>5
    <2> QED
      BY <1>2, <1>6, <2>1 DEF TypeOK
  <1>8. TimerInv'
    BY <1>1, <1>2, <1>3 DEF TimerInv
  <1>9. WorkerInv' /\ NeverOversleeps'
    BY <1>2, <1>6 DEF WorkerInv, NeverOversleeps
  <1>10. next_task' \subseteq next_task /\ caller[t.fn] # "new"
    BY <1>1, <1>3 DEF NewInv
  <1>11. NewInv'
    <2>1. \A i \in DOMAIN work_queue' :
            \/ i \in DOMAIN work_queue /\ work_queue'[i] = work_queue[i]
            \/ work_queue'[i] = t.fn
      BY <1>2, <1>4, <1>5
    <2> QED
      BY <1>2, <1>10, <2>1 DEF NewInv
  <1>12. OnceInv'
    <2> SUFFICES ASSUME NEW x \in Tasks, caller[x] # "new", interval[x] = 0, ~done PROVE Once(x)'
      BY <1>2 DEF OnceInv
    <2>1. Once(x) /\ Running(x)' = Running(x) /\ ran'[x] = ran[x]
      BY <1>2 DEF OnceInv, Running
    <2>2. CASE x = t.fn
      <3>1. t.repeat_interval = 0 /\ next_task' = {} /\ t \notin timer_queue
        BY <1>1, <1>3, <2>2 DEF TimerInv
      <3>2. Timed(x) = {t} /\ Queued(x) = {} /\ Running(x) = {} /\ ran[x] = 0
        <4>1. t \in Timed(x)
          BY <1>3, <2>2 DEF Timed
        <4> QED
          BY <2>1, <4>1 DEF Once
      <3>3. Timed(x)' = {}
        BY <1>2, <3>1, <3>2 DEF Timed
      <3>4. Queued(x)' = {Len(work_queue) + 1}
        BY <1>4, <1>5, <2>2, <3>2 DEF Queued
      <3> QED
        BY <2>1, <3>2, <3>3, <3>4 DEF Once
    <2>3. CASE x # t.fn
      <3>1. Timed(x)' = Timed(x)
        BY <1>1, <1>2, <1>3, <2>3 DEF Timed
      <3>2. Queued(x)' = Queued(x)
        BY <1>4, <1>5, <2>3 DEF Queued
      <3> QED
        BY <2>1, <3>1, <3>2 DEF Once
    <2> QED
      BY <2>2, <2>3
  <1> QED
    BY <1>7, <1>8, <1>9, <1>11, <1>12

\* The timer thread puts a periodic task back.
LEMMA TimerAgainStep ==
    ASSUME IInv, TimerAgain
    PROVE  IInv'
  <1> USE DEF IInv
  <1>1. PICK t \in TimedTasks : next_task = {t}
    BY DEF TypeOK, TimerInv, TimerAgain
  <1> DEFINE u == TimedTask(t.fn, read_at + t.repeat_interval, 0)
  <1>2. /\ timer = "again" /\ timer' = "relock" /\ next_task' = {} /\ read_at' = 0
        /\ timer_queue' = timer_queue \cup {u} /\ timer_mutex' = "free"
        /\ UNCHANGED <<work_queue, done, worker, task, stopper, now, wake_at, caller, shut, owner,
                       interval, ran>>
    BY <1>1 DEF TimerAgain, poolVars, history
  <1>3. t.fn \in Tasks /\ interval[t.fn] # 0 /\ caller[t.fn] # "new"
    BY <1>1, <1>2 DEF TimerInv, TimedTasks, NewInv
  <1>4. u \in TimedTasks /\ u.fn = t.fn /\ u.repeat_interval = 0
    <2>1. read_at + t.repeat_interval \in Nat
      <3>1. t.repeat_interval \in Intervals \cup {0} /\ read_at \in Nat
        BY DEF TypeOK, TimedTasks
      <3>2. Intervals \cup {0} \subseteq Nat
        BY Constants
      <3> DEFINE r == t.repeat_interval
      <3>3. r \in Nat
        BY <3>1, <3>2
      <3> HIDE DEF r
      <3>4. read_at + r \in Nat
        BY <3>1, <3>3
      <3> QED
        BY <3>4 DEF r
    <2> QED
      BY <1>3, <2>1 DEF TimedTask, TimedTasks
  <1> HIDE DEF u
  <1>5. TypeOK'
    BY <1>2, <1>4, OneInHand DEF TypeOK
  <1>6. TimerInv'
    BY <1>2, <1>4 DEF TimerInv
  <1>7. WorkerInv' /\ NeverOversleeps'
    BY <1>2 DEF WorkerInv, NeverOversleeps
  <1>8. NewInv'
    BY <1>2, <1>3, <1>4 DEF NewInv
  <1>9. OnceInv'
    <2> SUFFICES ASSUME NEW x \in Tasks, caller[x] # "new", interval[x] = 0, ~done PROVE Once(x)'
      BY <1>2 DEF OnceInv
    <2>1. Once(x) /\ x # t.fn
      BY <1>3 DEF OnceInv
    <2>2. Timed(x)' = Timed(x) /\ Queued(x)' = Queued(x) /\ Running(x)' = Running(x)
      BY <1>1, <1>2, <1>4, <2>1 DEF Timed, Queued, Running
    <2> QED
      BY <1>2, <2>1, <2>2 DEF Once
  <1> QED
    BY <1>5, <1>6, <1>7, <1>8, <1>9

\* A worker goes round its loop, or the pool is stopped: no task moves.
LEMMA PoolQuietStep ==
    ASSUME IInv, \/ (\E w \in Workers : WorkerLoop(w)) \/ StopCall \/ StopReturn,
           UNCHANGED <<now, timerVars, caller, shut, owner, history>>
    PROVE  IInv'
  <1> USE DEF IInv, timerVars, history
  <1>1. UNCHANGED <<work_queue, task, timer_queue, next_task, timer, wake_at, caller, ran,
                    interval>>
    BY DEF WorkerLoop, StopCall, StopReturn
  <1>2. /\ worker' \in [Workers -> {"loop", "try", "running", "exited"}]
        /\ \A w \in Workers : worker[w] = "running" => worker'[w] = "running"
    BY DEF WorkerLoop, StopCall, StopReturn, TypeOK
  <1>3. (done => done') /\ done' \in BOOLEAN
    BY DEF WorkerLoop, StopCall, StopReturn, TypeOK
  <1>4. stopper' \in {"idle", "joining", "stopped"}
    BY DEF WorkerLoop, StopCall, StopReturn, TypeOK
  <1>5. TypeOK'
    BY <1>1, <1>2, <1>3, <1>4 DEF TypeOK
  <1>6. TimerInv' /\ NeverOversleeps'
    BY <1>1 DEF TimerInv, NeverOversleeps
  <1>7. WorkerInv'
    BY <1>1, <1>2 DEF WorkerInv
  <1>8. NewInv' /\ OnceInv'
    BY <1>1, <1>3, SamePlaces
  <1> QED
    BY <1>5, <1>6, <1>7, <1>8

\* A worker takes the front of the queue, or finds it empty.
LEMMA WorkerTryPopStep ==
    ASSUME IInv, NEW w \in Workers, WorkerTryPop(w),
           UNCHANGED <<now, timerVars, caller, shut, owner, history>>
    PROVE  IInv'
  <1> USE DEF IInv, timerVars, history
  <1>1. /\ worker[w] = "try" /\ task[w] = NoTask
        /\ UNCHANGED <<done, stopper, timer_queue, next_task, timer, wake_at, caller, ran,
                       interval>>
    BY DEF WorkerTryPop, WorkerInv
  <1>2. TimerInv' /\ NeverOversleeps'
    BY <1>1 DEF TimerInv, NeverOversleeps
  <1>3. CASE work_queue = <<>> /\ worker' = [worker EXCEPT ![w] = "loop"]
             /\ UNCHANGED <<work_queue, task>>
    <2>1. TypeOK'
      BY <1>1, <1>3 DEF TypeOK
    <2>2. WorkerInv'
      BY <1>1, <1>3 DEF WorkerInv, TypeOK
    <2>3. NewInv' /\ OnceInv'
      BY <1>1, <1>3, SamePlaces
    <2> QED
      BY <1>2, <2>1, <2>2, <2>3
  <1>4. CASE /\ work_queue # <<>>
             /\ work_queue' = Tail(work_queue)
             /\ task' = [task EXCEPT ![w] = Head(work_queue)]
             /\ worker' = [worker EXCEPT ![w] = "running"]
    <2> DEFINE h == Head(work_queue)
               n == Len(work_queue)
    <2>1. /\ h \in Tasks \cup {Actors} /\ h = work_queue[1]
          /\ work_queue' \in Seq(Tasks \cup {Actors})
          /\ n \in Nat \ {0} /\ DOMAIN work_queue = 1..n /\ DOMAIN work_queue' = 1..(n - 1)
          /\ \A i \in 1..(n - 1) : work_queue'[i] = work_queue[i + 1]
      BY <1>4, HeadTailProperties, LenProperties, EmptySeq DEF TypeOK
    <2> HIDE DEF h, n
    <2>2. /\ task' \in [Workers -> Tasks \cup {Actors, NoTask}]
          /\ task'[w] = h /\ \A v \in Workers : v # w => task'[v] = task[v]
          /\ worker' \in [Workers -> {"loop", "try", "running", "exited"}]
          /\ worker'[w] = "running" /\ \A v \in Workers : v # w => worker'[v] = worker[v]
      BY <1>4, <2>1 DEF TypeOK, h
    <2>3. TypeOK'
      BY <1>1, <2>1, <2>2 DEF TypeOK
    <2>4. WorkerInv'
      BY <2>2 DEF WorkerInv
    <2>5. \A i \in DOMAIN work_queue' : i + 1 \in DOMAIN work_queue
                                        /\ work_queue'[i] = work_queue[i + 1]
      BY <2>1
    <2>6. 1 \in DOMAIN work_queue
      BY <2>1
    <2>7. NewInv'
      BY <1>1, <2>1, <2>2, <2>5, <2>6 DEF NewInv
    <2>8. OnceInv'
      <3> SUFFICES ASSUME NEW x \in Tasks, Once(x) PROVE Once(x)'
        BY <1>1 DEF OnceInv
      <3>1. Timed(x)' = Timed(x) /\ ran'[x] = ran[x] /\ x # NoTask
        BY <1>1, Constants DEF Timed
      <3>2. CASE x = h
        <4>1. Queued(x) = {1} /\ Timed(x) = {} /\ Running(x) = {} /\ ran[x] = 0
          <5>1. 1 \in Queued(x)
            BY <2>1, <2>6, <3>2 DEF Queued
          <5> QED
            BY <5>1 DEF Once
        <4>2. Queued(x)' = {}
          <5> SUFFICES ASSUME NEW i \in DOMAIN work_queue', work_queue'[i] = x PROVE FALSE
            BY DEF Queued
          <5>1. i + 1 \in Queued(x) /\ i \in 1..(n - 1)
            BY <2>1, <2>5 DEF Queued
          <5>2. i + 1 = 1 /\ i \in Nat /\ i > 0
            BY <2>1, <4>1, <5>1
          <5> QED
            BY <5>2
        <4>3. Running(x)' = {w}
          BY <2>2, <3>2, <4>1 DEF Running
        <4> QED
          BY <3>1, <4>1, <4>2, <4>3 DEF Once
      <3>3. CASE x # h
        <4>1. Running(x)' = Running(x)
          BY <1>1, <2>2, <3>1, <3>3 DEF Running
        <4>2. Queued(x) = {} => Queued(x)' = {}
          BY <2>5 DEF Queued
        <4>3. ASSUME NEW i, Queued(x) = {i} PROVE Queued(x)' = {i - 1}
          <5>1. i \in 2..n /\ work_queue[i] = x
            BY <2>1, <3>3, <4>3 DEF Queued
          <5>2. i - 1 \in 1..(n - 1) /\ (i - 1) + 1 = i
            BY <2>1, <5>1
          <5>3. i - 1 \in Queued(x)'
            BY <2>1, <5>1, <5>2 DEF Queued
          <5>4. ASSUME NEW j \in Queued(x)' PROVE j = i - 1
            <6>1. j \in 1..(n - 1) /\ j + 1 \in Queued(x)
              BY <2>1, <2>5 DEF Queued
            <6>2. j + 1 = i
              BY <4>3, <6>1
            <6> QED
              BY <2>1, <5>1, <6>1, <6>2
          <5> QED
            BY <5>3, <5>4
        <4> QED
          BY <3>1, <4>1, <4>2, <4>3 DEF Once
      <3> QED
        BY <3>2, <3>3
    <2> QED
      BY <1>2, <2>3, <2>4, <2>7, <2>8
  <1> QED
    BY <1>3, <1>4 DEF WorkerTryPop

\* A timed task, or the actor loop, has returned.
LEMMA ReturnStep ==
    ASSUME IInv, NEW w \in Workers, ActorsReturn(w) \/ TaskReturn(w)
    PROVE  IInv'
  <1> USE DEF IInv, timerVars, history
  <1>1. /\ worker' = [worker EXCEPT ![w] = "loop"] /\ task' = [task EXCEPT ![w] = NoTask]
        /\ UNCHANGED <<work_queue, done, stopper, now, timer_queue, timer_mutex, timer, wake_at,
                       next_task, read_at, caller, shut, owner, interval>>
    BY DEF ActorsReturn, TaskReturn, Finish
  <1>2. /\ task' \in [Workers -> Tasks \cup {Actors, NoTask}]
        /\ task'[w] = NoTask /\ \A v \in Workers : v # w => task'[v] = task[v]
        /\ worker' \in [Workers -> {"loop", "try", "running", "exited"}]
        /\ \A v \in Workers : v # w => worker'[v] = worker[v]
    BY <1>1 DEF TypeOK
  <1>3. /\ ran' \in [Tasks -> Nat]
        /\ \A x \in Tasks : x # task[w] => ran'[x] = ran[x]
        /\ task[w] \in Tasks => ran'[task[w]] = ran[task[w]] + 1
    <2>1. CASE ActorsReturn(w)
      BY <2>1, Constants DEF ActorsReturn, TypeOK
    <2>2. CASE TaskReturn(w)
      BY <2>2 DEF TaskReturn, TypeOK
    <2> QED
      BY <2>1, <2>2
  <1>4. TypeOK'
    BY <1>1, <1>2, <1>3 DEF TypeOK
  <1>5. TimerInv' /\ NeverOversleeps'
    BY <1>1 DEF TimerInv, NeverOversleeps
  <1>6. WorkerInv'
    BY <1>2 DEF WorkerInv
  <1>7. NewInv'
    BY <1>1, <1>2, <1>3, Constants DEF NewInv
  <1>8. OnceInv'
    <2> SUFFICES ASSUME NEW x \in Tasks, Once(x) PROVE Once(x)'
      BY <1>1 DEF OnceInv
    <2>1. Timed(x)' = Timed(x) /\ Queued(x)' = Queued(x) /\ x # NoTask
      BY <1>1, Constants DEF Timed, Queued
    <2>2. CASE x = task[w]
      <3>1. Running(x) = {w} /\ Timed(x) = {} /\ Queued(x) = {} /\ ran[x] = 0
        <4>1. w \in Running(x)
          BY <2>2 DEF Running
        <4> QED
          BY <4>1 DEF Once
      <3>2. Running(x)' = {} /\ ran'[x] = 1
        BY <1>2, <1>3, <2>1, <2>2, <3>1 DEF Running
      <3> QED
        BY <2>1, <3>1, <3>2 DEF Once
    <2>3. CASE x # task[w]
      <3>1. Running(x)' = Running(x) /\ ran'[x] = ran[x]
        BY <1>2, <1>3, <2>1, <2>3 DEF Running
      <3> QED
        BY <2>1, <3>1 DEF Once
    <2> QED
      BY <2>2, <2>3
  <1> QED
    BY <1>4, <1>5, <1>6, <1>7, <1>8

\* Every step of the scheduler, its pool and its callers preserves the invariant.
LEMMA NextIInv == IInv /\ [Next]_vars => IInv'
  <1> SUFFICES ASSUME IInv, [Next]_vars PROVE IInv'
    OBVIOUS
  <1>1. CASE \E x \in Tasks : ScheduleAt(x) \/ ScheduleEvery(x)
    BY <1>1, ScheduleStep
  <1>2. CASE (\E x \in Tasks : ScheduleNotify(x)) \/ TimerSpurious \/ Tick \/ ShutdownCall
    BY <1>2, QuietStep
  <1>3. CASE Timer
    BY <1>3, QuietStep, TimerPopStep, TimerSubmitStep, TimerAgainStep DEF Timer
  <1>4. CASE \E w \in Workers : Work(w)
    BY <1>4, ReturnStep, WorkerTryPopStep, PoolQuietStep DEF Work
  <1>5. CASE Owner
    BY <1>5, QuietStep, PoolQuietStep DEF Owner, Destroy
  <1>6. CASE UNCHANGED vars
    <2> USE <1>6 DEF vars, poolVars, timerVars, history
    <2>1. TypeOK'
      BY DEF IInv, TypeOK
    <2>2. TimerInv' /\ WorkerInv' /\ NeverOversleeps'
      BY DEF IInv, TimerInv, WorkerInv, NeverOversleeps
    <2>3. NewInv' /\ OnceInv'
      BY SamePlaces DEF IInv
    <2> QED
      BY <2>1, <2>2, <2>3 DEF IInv
  <1> QED
    BY <1>1, <1>2, <1>3, <1>4, <1>5, <1>6 DEF Next

\* Every reachable state of the scheduler satisfies the inductive invariant.
THEOREM Inductive == Spec => []IInv
  BY InitIInv, NextIInv, PTL DEF Spec

-----------------------------------------------------------------------------
(* What the scheduler promises. *)

\* The timer thread never sleeps past a task in its queue without a notification to come.
THEOREM TimerWakes == Spec => []NeverOversleeps
  BY Inductive, PTL DEF IInv

\* A one-off task is in one place on its way through the two queues, or has run once.
THEOREM RunsOnce == Spec => []OneOffOnce
  <1>1. ASSUME IInv PROVE OneOffOnce
    <2> SUFFICES ASSUME NEW x \in Tasks, caller[x] # "new", interval[x] = 0, ~done
                 PROVE  Pending(x) + ran[x] = 1
      BY DEF OneOffOnce
    <2>1. Once(x)
      BY <1>1 DEF IInv, OnceInv
    <2>2. Pending(x) = Cardinality(Timed(x)) + Cardinality(Queued(x)) + Cardinality(Running(x))
      BY DEF Pending, Timed, Queued, Running
    <2>3. Cardinality({}) = 0 /\ \A y : Cardinality({y}) = 1
      BY FS_EmptySet, FS_Singleton
    <2> DEFINE T == Cardinality(Timed(x))
               Q == Cardinality(Queued(x))
               R == Cardinality(Running(x))
    <2>4. \/ T = 1 /\ Q = 0 /\ R = 0 /\ ran[x] = 0
          \/ T = 0 /\ Q = 1 /\ R = 0 /\ ran[x] = 0
          \/ T = 0 /\ Q = 0 /\ R = 1 /\ ran[x] = 0
          \/ T = 0 /\ Q = 0 /\ R = 0 /\ ran[x] = 1
      <3>1. CASE (\E t \in Timed(x) : Timed(x) = {t}) /\ Queued(x) = {}
                 /\ Running(x) = {} /\ ran[x] = 0
        BY <2>3, <3>1
      <3>2. CASE Timed(x) = {} /\ (\E i \in Queued(x) : Queued(x) = {i})
                 /\ Running(x) = {} /\ ran[x] = 0
        BY <2>3, <3>2
      <3>3. CASE Timed(x) = {} /\ Queued(x) = {} /\ (\E w \in Running(x) : Running(x) = {w})
                 /\ ran[x] = 0
        BY <2>3, <3>3
      <3>4. CASE Timed(x) = {} /\ Queued(x) = {} /\ Running(x) = {} /\ ran[x] = 1
        BY <2>3, <3>4
      <3> QED
        BY <2>1, <3>1, <3>2, <3>3, <3>4 DEF Once
    <2>5. Pending(x) = T + Q + R
      BY <2>2
    <2> HIDE DEF T, Q, R
    <2> QED
      BY <2>4, <2>5
  <1> QED
    BY <1>1, Inductive, PTL
=============================================================================

---------------------------- MODULE AsyncExecutor ----------------------------
(***************************************************************************)
(* SingleThreadPriorityAsyncExecutor and AsyncTask: tasks run at a time    *)
(* given with them, on one thread, which sleeps until the earliest one is  *)
(* due.  A section under mutex_ is one step, and so is the waiting inside  *)
(* it: absl::Mutex evaluates the condition again whenever the mutex is     *)
(* released.  The clock counts up to MaxTime and stops.  Variables that    *)
(* are dead, like a duration that has been waited for, are reset.          *)
(***************************************************************************)
EXTENDS Naturals, FiniteSets, FiniteSetsExt

CONSTANTS
  Task,        \* tasks of the priority executor
  QueueCap,    \* queue_cap_
  MaxTime,     \* bound on the clock
  NoTask

ASSUME ExecutorAssumption == /\ QueueCap \in Nat /\ MaxTime \in Nat
                             /\ NoTask \notin Task

Time == 0..MaxTime
Never == MaxTime + 1         \* the largest timestamp, an infinite duration

VARIABLES
  now,
  queue,             \* tasks in the priority queue
  when,              \* [Task -> GetExecutionTimestamp()]
  is_cancelled,      \* tasks that are cancelled
  next_scheduled_task_timestamp, update_wait_time, is_running,
  wpc,               \* state of the thread
  current_timestamp, \* what it read at the top of its loop
  wait_timeout_duration, deadline,
  looked,            \* when it last looked at the queue
  top,               \* task it has taken
  ran,               \* tasks whose operation has run
  withdrawn          \* tasks cancelled before the thread had tested that

sleep_vars == <<current_timestamp, wait_timeout_duration, deadline, looked>>
signal_vars == <<next_scheduled_task_timestamp, update_wait_time, is_running>>
task_vars == <<queue, when, is_cancelled, withdrawn>>
timer_vars == <<signal_vars, task_vars, wpc, sleep_vars, top, ran>>
executor_vars == <<now, timer_vars>>

ExecutorInit ==
  /\ now = 0
  /\ queue = {} /\ when = [t \in Task |-> 0] /\ is_cancelled = {}
  /\ next_scheduled_task_timestamp = Never /\ update_wait_time = FALSE
  /\ is_running = TRUE
  /\ wpc = "start" /\ current_timestamp = 0 /\ wait_timeout_duration = Never
  /\ deadline = 0 /\ looked = 0 /\ top = NoTask
  /\ ran = {} /\ withdrawn = {}

Tick ==
  /\ now < MaxTime
  /\ now' = now + 1
  /\ UNCHANGED timer_vars

-----------------------------------------------------------------------------
(* SingleThreadPriorityAsyncExecutor *)

QueueFull == Cardinality(queue) >= QueueCap

\* ScheduleFor when the queue has room.
ScheduleFor_Quiet(t, timestamp) ==
  /\ ~QueueFull
  /\ queue' = queue \cup {t}
  /\ when' = [when EXCEPT ![t] = timestamp]
  /\ next_scheduled_task_timestamp' =
       Min({timestamp, next_scheduled_task_timestamp})
  /\ UNCHANGED <<now, update_wait_time, is_running, is_cancelled, withdrawn,
                 wpc, sleep_vars, top, ran>>
ScheduleFor(t, timestamp) ==
  /\ ~QueueFull
  /\ queue' = queue \cup {t}
  /\ when' = [when EXCEPT ![t] = timestamp]
  /\ IF timestamp < next_scheduled_task_timestamp
     THEN /\ next_scheduled_task_timestamp' = timestamp
          /\ update_wait_time' = TRUE
     ELSE UNCHANGED <<next_scheduled_task_timestamp, update_wait_time>>
  /\ UNCHANGED <<now, is_running, is_cancelled, withdrawn, wpc, sleep_vars,
                 top, ran>>

\* AsyncTask::Cancel, good at any time after ScheduleFor.
CancelTask(t) ==
  /\ t \notin is_cancelled
  /\ is_cancelled' = is_cancelled \cup {t}
  /\ withdrawn' = withdrawn \cup
       (IF t \in queue \/ (top = t /\ wpc = "test") THEN {t} ELSE {})
  /\ UNCHANGED <<now, queue, when, signal_vars, wpc, sleep_vars, top, ran>>

\* The thread starts, or comes back to the top of its loop.
ReadClock ==
  /\ wpc \in {"start", "loop"}
  /\ current_timestamp' = now
  /\ wpc' = "lock"
  /\ UNCHANGED <<now, signal_vars, task_vars, wait_timeout_duration, deadline,
                 looked, top, ran>>

Sleep_NoTimeout ==
  /\ wpc = "lock"
  /\ deadline' = Never
  /\ wpc' = "sleep"
  /\ UNCHANGED <<now, signal_vars, task_vars, current_timestamp,
                 wait_timeout_duration, looked, top, ran>>
\* AwaitWithTimeout begins.  The duration was computed a while ago.
Sleep ==
  /\ wpc = "lock"
  /\ deadline' = IF wait_timeout_duration = Never THEN Never
                 ELSE Min({now + wait_timeout_duration, MaxTime})
  /\ wpc' = "sleep"
  /\ UNCHANGED <<now, signal_vars, task_vars, current_timestamp,
                 wait_timeout_duration, looked, top, ran>>

Signalled_NotByDestructor ==
  update_wait_time \/ current_timestamp > next_scheduled_task_timestamp
Signalled == \/ ~is_running \/ update_wait_time
             \/ current_timestamp > next_scheduled_task_timestamp

Live == queue \ is_cancelled
Due == Min({when[t] : t \in Live})
\* Cancelled tasks on top of the queue are popped; which of those that are due
\* at the same time as a live one are on top is up to the heap.
Discards ==
  IF Live = {} THEN {queue}
  ELSE LET sure == {t \in queue : when[t] < Due}
           some == {t \in queue \cap is_cancelled : when[t] = Due}
       IN  {sure \cup s : s \in SUBSET some}

Forget(kept) ==
  /\ when' = [t \in Task |-> IF t \in kept THEN when[t] ELSE 0]
  /\ current_timestamp' = 0 /\ deadline' = 0

Woken == wpc = "sleep" /\ (Signalled \/ now >= deadline)

FindNothing ==
  /\ Woken /\ Live = {} /\ is_running
  /\ queue' = {} /\ update_wait_time' = FALSE
  /\ next_scheduled_task_timestamp' = Never
  /\ wait_timeout_duration' = Never /\ looked' = 0 /\ Forget({})
  /\ wpc' = "loop"
  /\ UNCHANGED <<now, is_cancelled, withdrawn, is_running, top, ran>>

FindExit ==
  /\ Woken /\ Live = {} /\ ~is_running
  /\ queue' = {} /\ update_wait_time' = FALSE
  /\ wpc' = "exit"
  /\ UNCHANGED <<now, when, is_cancelled, withdrawn, is_running,
                 next_scheduled_task_timestamp, sleep_vars, top, ran>>

FindLater ==
  /\ Woken /\ Live # {} /\ now < Due
  /\ \E d \in Discards : queue' = queue \ d /\ Forget(queue \ d)
  /\ update_wait_time' = FALSE
  /\ next_scheduled_task_timestamp' = Due
  /\ wait_timeout_duration' = Due - now /\ looked' = now
  /\ wpc' = "loop"
  /\ UNCHANGED <<now, is_cancelled, withdrawn, is_running, top, ran>>

FindDue ==
  /\ Woken /\ Live # {} /\ now >= Due
  /\ \E d \in Discards, t \in Live :
       /\ when[t] = Due
       /\ queue' = queue \ (d \cup {t}) /\ Forget(queue \ (d \cup {t}))
       /\ top' = t
  /\ update_wait_time' = FALSE
  /\ next_scheduled_task_timestamp' = Due
  /\ wait_timeout_duration' = 0 /\ looked' = 0
  /\ wpc' = "test"
  /\ UNCHANGED <<now, is_cancelled, withdrawn, is_running, ran>>

TestCancelled_Skipped ==
  /\ wpc = "test"
  /\ wpc' = "run"
  /\ UNCHANGED <<now, signal_vars, task_vars, sleep_vars, top, ran>>
\* AsyncTask::Execute takes cancellation_mutex_ for the test only.
TestCancelled ==
  /\ wpc = "test"
  /\ IF top \in is_cancelled THEN wpc' = "loop" /\ top' = NoTask
                           ELSE wpc' = "run" /\ UNCHANGED top
  /\ UNCHANGED <<now, signal_vars, task_vars, sleep_vars, ran>>

RunOperation ==
  /\ wpc = "run"
  /\ ran' = ran \cup {top} /\ top' = NoTask
  /\ wpc' = "loop"
  /\ UNCHANGED <<now, signal_vars, task_vars, sleep_vars>>

\* The destructor, up to its Await ...
BeginDestroy ==
  /\ is_running
  /\ is_running' = FALSE
  /\ UNCHANGED <<now, next_scheduled_task_timestamp, update_wait_time,
                 task_vars, wpc, sleep_vars, top, ran>>

\* ... and worker_thread_stopped_, which ends it.
ThreadStops ==
  /\ wpc = "exit"
  /\ wpc' = "stopped"
  /\ UNCHANGED <<now, signal_vars, task_vars, sleep_vars, top, ran>>

Worker == \/ ReadClock \/ Sleep \/ FindNothing \/ FindExit \/ FindLater
          \/ FindDue \/ TestCancelled \/ ThreadStops

-----------------------------------------------------------------------------

\* The variables have the types the code declares, and the queue stays within
\* its limit.
ExecutorTypeOK ==
  /\ now \in Time
  /\ queue \subseteq Task /\ Cardinality(queue) <= QueueCap
  /\ when \in [Task -> Time] /\ is_cancelled \subseteq Task
  /\ next_scheduled_task_timestamp \in Time \cup {Never}
  /\ update_wait_time \in BOOLEAN /\ is_running \in BOOLEAN
  /\ wpc \in {"start", "loop", "lock", "sleep", "test", "run", "exit",
              "stopped"}
  /\ current_timestamp \in Time /\ looked \in Time
  /\ wait_timeout_duration \in Time \cup {Never}
  /\ deadline \in Time \cup {Never}
  /\ top \in Task \cup {NoTask} /\ ran \subseteq Task /\ withdrawn \subseteq Task

\* The thread of the priority executor never sleeps, unless it has been
\* signalled, for longer than the time that was left until the earliest task
\* when it last looked at the queue: ScheduleFor signals every task that comes
\* before it, whatever the thread is doing then.
NoLostWakeup ==
  wpc \in {"lock", "sleep"} /\ ~Signalled =>
    \A t \in Live : \/ wait_timeout_duration = 0
                    \/ looked + wait_timeout_duration <= when[t]

\* A task that is cancelled before its test never runs: not even when the
\* thread has already taken it off the queue.
CancelledNeverRuns == withdrawn \cap ran = {}

\* Every task that is scheduled runs, unless it is cancelled.
TasksRun == \A t \in Task : t \in queue ~> t \in ran \cup is_cancelled

\* The destructor returns.
DestructorReturns == ~is_running ~> wpc = "stopped"
=============================================================================

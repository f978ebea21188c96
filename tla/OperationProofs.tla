--------------------------- MODULE OperationProofs ---------------------------
(***************************************************************************)
(* Proofs about OperationDispatcher and the executor below it, for any     *)
(* operations, delays, retry counts, queue sizes and clocks: retries run   *)
(* after their back-off, are due before the operation expires and stay     *)
(* within their number; an operation is in one place from its dispatch to  *)
(* its callback; a task that is cancelled before the executor tests it     *)
(* does not run; and the executor's thread never sleeps past the earliest  *)
(* task.                                                                   *)
(***************************************************************************)
EXTENDS OperationDispatcher, FiniteSetTheorems, WellFoundedInduction, TLAPS

HasTop == wpc \in {"test", "run"}
\* The executor has yet to run t.
Held(t) == t \in queue \/ (HasTop /\ t = top)

Types ==
  /\ now \in Nat /\ queue \subseteq Task /\ when \in [Task -> Nat]
  /\ op \in [Op -> {"idle", "target", "posted", "callback", "scheduled",
                    "finished"}]
  /\ retry_count \in [Op -> Nat] /\ expiration_time \in [Op -> Nat]
  /\ attempts \in [Op -> Nat]
  /\ HasTop => top \in Task /\ top \notin queue

\* The executor holds at most one retry of an operation, its latest, and only
\* while the operation is nowhere else.
RetryInv ==
  \A o \in Op, n \in 1..MaxRetryCount :
    Held(Retry(o, n)) => op[o] = "scheduled" /\ n = retry_count[o]

\* Every call of the target but the first is paid for by a retry.
CountInv ==
  \A o \in Op :
    /\ op[o] = "idle" => attempts[o] = 0
    /\ op[o] \in {"target", "posted", "callback"} =>
         attempts[o] <= retry_count[o] + 1
    /\ op[o] = "scheduled" =>
         attempts[o] <= retry_count[o] /\ retry_count[o] < MaxRetryCount

\* A withdrawn task is behind its test neither on the thread nor in ran.
CancelInv ==
  /\ is_cancelled \subseteq Plain /\ withdrawn \subseteq is_cancelled
  /\ \A t \in Plain : Held(t) => t \notin ran
  /\ \A t \in withdrawn : t \notin ran /\ ~(wpc = "run" /\ t = top)

IInv == Types /\ RetryInv /\ CountInv /\ CancelInv

\* The latest retry of an operation that waits for it is not lost, and an
\* operation that is called back is over.
PlaceInv ==
  /\ finished \in [Op -> Nat]
  /\ \A o \in Op :
       /\ op[o] = "scheduled" => /\ retry_count[o] \in 1..MaxRetryCount
                                 /\ Held(Retry(o, retry_count[o]))
       /\ finished[o] = IF op[o] = "finished" THEN 1 ELSE 0

\* The time a retry is due lies before the expiration; in the queue the retry
\* has that time, and on the thread it has passed.
TimeInv ==
  /\ asked \in [Op -> Nat]
  /\ \A o \in Op, n \in 1..MaxRetryCount :
       LET due == asked[o] + GetBackOffDuration(n)
       IN  /\ Held(Retry(o, n)) => due < expiration_time[o]
           /\ Retry(o, n) \in queue => when[Retry(o, n)] = due
           /\ HasTop /\ top = Retry(o, n) => due <= now

\* Unless update_wait_time_ is set, no task is due before the time the thread
\* has noted as the next, and it does not mean to sleep longer than until then.
WakeInv ==
  /\ next_scheduled_task_timestamp \in Nat
  /\ wait_timeout_duration \in Nat /\ looked \in Nat
  /\ wpc \notin {"exit", "stopped"} /\ ~update_wait_time =>
       /\ \A t \in Live : next_scheduled_task_timestamp <= when[t]
       /\ \/ wait_timeout_duration = 0
          \/ looked + wait_timeout_duration <= next_scheduled_task_timestamp

-----------------------------------------------------------------------------
(* Lemmas *)

\* Retries are tasks, told apart by their operation and number, and different
\* from plain tasks.
LEMMA RetryTasks ==
  /\ \A o \in Op, n \in 1..MaxRetryCount : /\ Retry(o, n) \in Task
                                          /\ Retry(o, n) \in Retries
                                          /\ Retry(o, n) \notin Plain
  /\ \A o, p \in Op, n, m \in 1..MaxRetryCount :
       Retry(o, n) = Retry(p, m) <=> o = p /\ n = m
  /\ \A t \in Retries : t[1] \in Op /\ t[2] \in 1..MaxRetryCount
                        /\ t = Retry(t[1], t[2])
  /\ Plain \subseteq Task /\ MaxRetryCount \in Nat
BY TaskAssumption, RetryAssumption DEF Retry, Retries

\* Initially the executor holds nothing.
LEMMA InitIInv == Init => IInv
BY RetryTasks, ExecutorAssumption
DEF Init, ExecutorInit, IInv, Types, RetryInv, CountInv, CancelInv, Held, HasTop

-----------------------------------------------------------------------------
(* Steps *)

\* The first call of the target: the operation was idle, so no retry has its time.
LEMMA DispatchStep ==
  ASSUME IInv, NEW o \in Op, NEW e \in Time, Dispatch(o, e)
  PROVE  IInv'
<1> USE RetryTasks DEF IInv, Dispatch, CallTarget,
        op_vars, executor_vars, timer_vars, task_vars, signal_vars, sleep_vars
<1>a. e \in Nat  BY ExecutorAssumption DEF Time
<1>1. Types'  BY <1>a DEF Types, HasTop
<1>2. RetryInv'  BY DEF Types, RetryInv, Held, HasTop
<1>3. CountInv'  BY DEF Types, CountInv
<1>4. CancelInv'  BY Zenon DEF Types, CancelInv, Held, HasTop
<1> QED  BY <1>1, <1>2, <1>3, <1>4, Zenon

\* The target refuses the operation or finishes it.
LEMMA AnswerStep ==
  ASSUME IInv, NEW o \in Op, Answer(o)
  PROVE  IInv'
<1> USE RetryTasks DEF IInv, Answer, TargetRefuses, TargetFinishes,
        op_vars, executor_vars, timer_vars, task_vars, signal_vars, sleep_vars
<1>1. Types'  BY SMTT(20) DEF Types, HasTop
<1>2. RetryInv'  BY DEF Types, RetryInv, Held, HasTop
<1>3. CountInv'  BY DEF Types, CountInv
<1>4. CancelInv'  BY Zenon DEF Types, CancelInv, Held, HasTop
<1> QED  BY <1>1, <1>2, <1>3, <1>4, Zenon

\* Finish runs on another executor.
LEMMA RunFinishStep ==
  ASSUME IInv, NEW o \in Op, RunFinish(o)
  PROVE  IInv'
<1> USE RetryTasks DEF IInv, RunFinish,
        op_vars, executor_vars, timer_vars, task_vars, signal_vars, sleep_vars
<1>1. Types'  BY Zenon DEF Types, HasTop
<1>2. RetryInv'  BY DEF Types, RetryInv, Held, HasTop
<1>3. CountInv'  BY DEF Types, CountInv
<1>4. CancelInv'  BY Zenon DEF Types, CancelInv, Held, HasTop
<1> QED  BY <1>1, <1>2, <1>3, <1>4, Zenon

\* The original callback runs.
LEMMA CallBackStep ==
  ASSUME IInv, NEW o \in Op, CallBack(o)
  PROVE  IInv'
<1> USE RetryTasks DEF IInv, CallBack,
        op_vars, executor_vars, timer_vars, task_vars, signal_vars, sleep_vars
<1>1. Types'  BY Zenon DEF Types, HasTop
<1>2. RetryInv'  BY DEF Types, RetryInv, Held, HasTop
<1>3. CountInv'  BY DEF Types, CountInv
<1>4. CancelInv'  BY Zenon DEF Types, CancelInv, Held, HasTop
<1> QED  BY <1>1, <1>2, <1>3, <1>4, Zenon

\* No retry is left, or it would be too late.
LEMMA GiveUpStep ==
  ASSUME IInv, NEW o \in Op, GiveUp(o)
  PROVE  IInv'
<1> USE RetryTasks DEF IInv, GiveUp, Retrying,
        op_vars, executor_vars, timer_vars, task_vars, signal_vars, sleep_vars
<1>1. Types'  BY DEF Types, HasTop
<1>2. RetryInv'  BY DEF Types, RetryInv, Held, HasTop
<1>3. CountInv'  BY DEF Types, CountInv
<1>4. CancelInv'  BY Zenon DEF Types, CancelInv, Held, HasTop
<1> QED  BY <1>1, <1>2, <1>3, <1>4, Zenon

\* A retry is scheduled: the executor holds no other one of the operation,
\* and its time is before the expiration.
LEMMA ScheduleRetryStep ==
  ASSUME IInv, NEW o \in Op, ScheduleRetry(o)
  PROVE  IInv'
<1> USE RetryTasks DEF IInv, Types,
        op_vars, executor_vars, timer_vars, task_vars, signal_vars, sleep_vars
<1> DEFINE n == retry_count[o] + 1
           u == now + GetBackOffDuration(n)
<1>a. /\ op[o] = "callback" /\ ~Exhausted(n) /\ ~TooLate(o, n)
      /\ queue' = queue \cup {Retry(o, n)} /\ when' = [when EXCEPT ![Retry(o, n)] = u]
      /\ retry_count' = [retry_count EXCEPT ![o] = n]
      /\ op' = [op EXCEPT ![o] = "scheduled"]
      /\ UNCHANGED <<now, expiration_time, attempts, wpc, top, is_cancelled,
                     withdrawn, ran>>
  BY Zenon DEF ScheduleRetry, ScheduleFor, Retrying
<1>b. n \in 1..MaxRetryCount /\ n < MaxRetryCount /\ n \in Nat
  BY <1>a DEF Types, Exhausted
<1>c. GetBackOffDuration(n) \in Nat  BY <1>b, BackOffAssumption, Zenon
<1>d. u \in Nat /\ u < expiration_time[o]
  BY <1>a, <1>c DEF TooLate, Types
<1>e. Retry(o, n) \in Task /\ Retry(o, n) \notin Plain  BY <1>b, Zenon
<1>f. \A m \in 1..MaxRetryCount : ~Held(Retry(o, m))  BY <1>a, Zenon DEF RetryInv
<1> HIDE DEF n, u
<1>1. Types'  BY <1>a, <1>b, <1>d, <1>e, <1>f DEF Types, HasTop, Held
<1>2. RetryInv'  BY <1>a, <1>b, <1>d, <1>e, <1>f DEF Types, RetryInv, Held, HasTop
<1>3. CountInv'  BY <1>a, <1>b DEF Types, CountInv, n
<1>4. CancelInv'  BY <1>a, <1>e, Zenon DEF Types, CancelInv, Held, HasTop
<1> QED  BY <1>1, <1>2, <1>3, <1>4, Zenon

\* The queue is full.
LEMMA ScheduleRetryFailsStep ==
  ASSUME IInv, NEW o \in Op, ScheduleRetryFails(o)
  PROVE  IInv'
<1> USE RetryTasks DEF IInv, ScheduleRetryFails, Retrying,
        op_vars, executor_vars, timer_vars, task_vars, signal_vars, sleep_vars
<1>1. Types'  BY DEF Types, HasTop
<1>2. RetryInv'  BY DEF Types, RetryInv, Held, HasTop
<1>3. CountInv'  BY DEF Types, CountInv
<1>4. CancelInv'  BY Zenon DEF Types, CancelInv, Held, HasTop
<1> QED  BY <1>1, <1>2, <1>3, <1>4, Zenon

\* The executor runs a retry: it was the only one of its operation.
LEMMA RunRetryStep ==
  ASSUME IInv, RunRetry
  PROVE  IInv'
<1> USE RetryTasks DEF IInv, RunRetry,
        op_vars, executor_vars, timer_vars, task_vars, signal_vars, sleep_vars
<1> DEFINE o == top[1]
<1>a. /\ top \in Retries /\ o \in Op /\ top[2] \in 1..MaxRetryCount
      /\ top = Retry(o, top[2]) /\ wpc = "run" /\ wpc' = "loop"
  BY Zenon DEF RunOperation
<1>b. op[o] = "scheduled" /\ top[2] = retry_count[o] /\ top \notin queue
  BY <1>a, Zenon DEF Types, RetryInv, Held, HasTop
<1>c. /\ op' = [op EXCEPT ![o] = "target"] /\ attempts' = [attempts EXCEPT ![o] = @ + 1]
      /\ ran' = ran \cup {top} /\ top \notin Plain
      /\ UNCHANGED <<now, queue, when, retry_count, expiration_time, is_cancelled,
                     withdrawn>>
  BY <1>a DEF CallTarget, RunOperation
<1>d. \A m \in 1..MaxRetryCount : Retry(o, m) \notin queue
  BY <1>a, <1>b DEF RetryInv, Held
<1> HIDE DEF o
<1>1. Types'  BY <1>a, <1>b, <1>c DEF Types, HasTop
<1>2. RetryInv'  BY <1>a, <1>b, <1>c, <1>d DEF Types, RetryInv, Held, HasTop
<1>3. CountInv'  BY <1>a, <1>b, <1>c DEF Types, CountInv
<1>4. CancelInv'  BY <1>a, <1>c DEF Types, CancelInv, Held, HasTop
<1> QED  BY <1>1, <1>2, <1>3, <1>4, Zenon

\* A plain task is scheduled, which has neither run nor been cancelled.
LEMMA SchedulePlainStep ==
  ASSUME IInv, NEW t \in Plain, NEW u \in Time, SchedulePlain(t, u)
  PROVE  IInv'
<1> USE RetryTasks DEF IInv, SchedulePlain, ScheduleFor,
        op_vars, executor_vars, timer_vars, task_vars, signal_vars, sleep_vars
<1>a. u \in Nat  BY ExecutorAssumption DEF Time
<1>1. Types'  BY <1>a DEF Types, HasTop
<1>2. RetryInv'  BY DEF Types, RetryInv, Held, HasTop
<1>3. CountInv'  BY Zenon DEF Types, CountInv
<1>4. CancelInv'  BY DEF Types, CancelInv, Held, HasTop
<1> QED  BY <1>1, <1>2, <1>3, <1>4, Zenon

\* A plain task is cancelled, in the queue or on the thread.
LEMMA CancelPlainStep ==
  ASSUME IInv, NEW t \in Plain, CancelPlain(t)
  PROVE  IInv'
<1> USE RetryTasks DEF IInv, CancelPlain, CancelTask,
        op_vars, executor_vars, timer_vars, task_vars, signal_vars, sleep_vars
<1>1. Types'  BY Zenon DEF Types, HasTop
<1>2. RetryInv'  BY Zenon DEF Types, RetryInv, Held, HasTop
<1>3. CountInv'  BY Zenon DEF Types, CountInv
<1>4. CancelInv'  BY DEF Types, CancelInv, Held, HasTop
<1> QED  BY <1>1, <1>2, <1>3, <1>4, Zenon

\* The executor runs a plain task.
LEMMA RunPlainStep ==
  ASSUME IInv, RunPlain
  PROVE  IInv'
<1> USE RetryTasks DEF IInv, RunPlain, RunOperation,
        op_vars, executor_vars, timer_vars, task_vars, signal_vars, sleep_vars
<1>1. Types'  BY Zenon DEF Types, HasTop
<1>2. RetryInv'  BY Zenon DEF Types, RetryInv, Held, HasTop
<1>3. CountInv'  BY Zenon DEF Types, CountInv
<1>4. CancelInv'  BY DEF Types, CancelInv, Held, HasTop
<1> QED  BY <1>1, <1>2, <1>3, <1>4, Zenon

\* The thread reads the clock, begins to sleep or ends.
LEMMA IdleStep ==
  ASSUME IInv, ReadClock \/ Sleep \/ ThreadStops, UNCHANGED op_vars
  PROVE  IInv'
<1> USE RetryTasks DEF IInv, ReadClock, Sleep, ThreadStops,
        op_vars, executor_vars, timer_vars, task_vars, signal_vars, sleep_vars
<1>1. Types'  BY DEF Types, HasTop
<1>2. RetryInv'  BY Zenon DEF Types, RetryInv, Held, HasTop
<1>3. CountInv'  BY Zenon DEF Types, CountInv
<1>4. CancelInv'  BY Zenon DEF Types, CancelInv, Held, HasTop
<1> QED  BY <1>1, <1>2, <1>3, <1>4, Zenon

\* The thread finds nothing to run: it drops cancelled tasks, and the others keep
\* their times.
LEMMA FindNoneStep ==
  ASSUME IInv, FindNothing \/ FindExit \/ FindLater, UNCHANGED op_vars
  PROVE  IInv'
<1> USE RetryTasks DEF IInv, Types,
        op_vars, executor_vars, timer_vars, task_vars, signal_vars, sleep_vars
<1>a. /\ queue' \subseteq queue /\ \A t \in queue' : when'[t] = when[t]
      /\ when' \in [Task -> Nat]
      /\ UNCHANGED <<now, is_cancelled, withdrawn, ran>> /\ ~HasTop /\ ~HasTop'
      /\ wpc' # "run"
  <2>1. CASE FindNothing  BY <2>1, Zenon DEF Types, Woken, Forget, FindNothing, HasTop
  <2>2. CASE FindExit  BY <2>2, Zenon DEF Types, Woken, FindExit, HasTop
  <2>3. CASE FindLater
    <3>1. PICK d : queue' = queue \ d /\ Forget(queue \ d)  BY <2>3, Zenon DEF FindLater
    <3> QED  BY <2>3, <3>1, Zenon DEF Types, Woken, Forget, FindLater, HasTop
  <2> QED  BY <2>1, <2>2, <2>3, Zenon
<1>1. Types'  BY <1>a, Zenon DEF Types, HasTop
<1>2. RetryInv'  BY <1>a DEF Types, RetryInv, Held, HasTop
<1>3. CountInv'  BY <1>a, Zenon DEF Types, CountInv
<1>4. CancelInv'  BY <1>a, Zenon DEF Types, CancelInv, Held, HasTop
<1> QED  BY <1>1, <1>2, <1>3, <1>4, Zenon

\* The thread takes a task that is due.
LEMMA FindDueStep ==
  ASSUME IInv, FindDue, UNCHANGED op_vars
  PROVE  IInv'
<1> USE RetryTasks DEF IInv, Types,
        op_vars, executor_vars, timer_vars, task_vars, signal_vars, sleep_vars
<1>a. /\ queue' \subseteq queue /\ \A t \in queue' : when'[t] = when[t]
      /\ when' \in [Task -> Nat] /\ top' \in queue /\ top' \notin queue'
      /\ UNCHANGED <<now, is_cancelled, withdrawn, ran>> /\ wpc' = "test"
  BY DEF Types, Forget, FindDue, Live
<1>1. Types'  BY <1>a, Zenon DEF Types, HasTop
<1>2. RetryInv'  BY <1>a DEF Types, RetryInv, Held, HasTop
<1>3. CountInv'  BY <1>a, Zenon DEF Types, CountInv
<1>4. CancelInv'  BY <1>a DEF Types, CancelInv, Held, HasTop
<1> QED  BY <1>1, <1>2, <1>3, <1>4, Zenon

\* The test of is_cancelled_ keeps cancelled tasks from running.
LEMMA TestCancelledStep ==
  ASSUME IInv, TestCancelled, UNCHANGED op_vars
  PROVE  IInv'
<1> USE RetryTasks DEF IInv, TestCancelled,
        op_vars, executor_vars, timer_vars, task_vars, signal_vars, sleep_vars
<1>1. Types'  BY Zenon DEF Types, HasTop
<1>2. RetryInv'  BY Zenon DEF Types, RetryInv, Held, HasTop
<1>3. CountInv'  BY Zenon DEF Types, CountInv
<1>4. CancelInv'  BY DEF Types, CancelInv, Held, HasTop
<1> QED  BY <1>1, <1>2, <1>3, <1>4, Zenon

\* The destructor is called.
LEMMA DestroyStep ==
  ASSUME IInv, Destroy
  PROVE  IInv'
<1> USE RetryTasks DEF IInv, Destroy, BeginDestroy,
        op_vars, executor_vars, timer_vars, task_vars, signal_vars, sleep_vars
<1>1. Types'  BY Zenon DEF Types, HasTop
<1>2. RetryInv'  BY Zenon DEF Types, RetryInv, Held, HasTop
<1>3. CountInv'  BY Zenon DEF Types, CountInv
<1>4. CancelInv'  BY Zenon DEF Types, CancelInv, Held, HasTop
<1> QED  BY <1>1, <1>2, <1>3, <1>4, Zenon

\* Time passes.
LEMMA TickStep ==
  ASSUME IInv, Tick, UNCHANGED op_vars
  PROVE  IInv'
<1> USE RetryTasks DEF IInv, Tick,
        op_vars, executor_vars, timer_vars, task_vars, signal_vars, sleep_vars
<1>1. Types'  BY DEF Types, HasTop
<1>2. RetryInv'  BY Zenon DEF Types, RetryInv, Held, HasTop
<1>3. CountInv'  BY Zenon DEF Types, CountInv
<1>4. CancelInv'  BY Zenon DEF Types, CancelInv, Held, HasTop
<1> QED  BY <1>1, <1>2, <1>3, <1>4, Zenon

-----------------------------------------------------------------------------
(* Theorems *)

\* Every step keeps the invariant.
LEMMA NextIInv ==
  ASSUME IInv, [Next]_vars PROVE IInv'
<1>1. ASSUME NEW o \in Op, NEW e \in Time, Dispatch(o, e) PROVE IInv'
  BY <1>1, DispatchStep, Zenon
<1>2. ASSUME NEW o \in Op, Answer(o) \/ Continue(o) PROVE IInv'
  BY <1>2, AnswerStep, RunFinishStep, CallBackStep, GiveUpStep, ScheduleRetryStep,
     ScheduleRetryFailsStep, Zenon DEF Continue
<1>3. ASSUME NEW t \in Plain, NEW u \in Time, SchedulePlain(t, u) PROVE IInv'
  BY <1>3, SchedulePlainStep, Zenon
<1>4. ASSUME NEW t \in Plain, CancelPlain(t) PROVE IInv'
  BY <1>4, CancelPlainStep, Zenon
<1>5. CASE TimerThread
  BY <1>5, IdleStep, FindNoneStep, FindDueStep, TestCancelledStep, RunRetryStep,
     RunPlainStep, Zenon DEF TimerThread, Worker
<1>6. CASE Destroy \/ (Tick /\ UNCHANGED op_vars)  BY <1>6, DestroyStep, TickStep, Zenon
<1>7. CASE UNCHANGED vars
  BY <1>7, Zenon DEF vars, op_vars, executor_vars, timer_vars, task_vars, signal_vars,
              sleep_vars, IInv, Types, RetryInv, CountInv, CancelInv, Held, HasTop
<1> QED  BY <1>1, <1>2, <1>3, <1>4, <1>5, <1>6, <1>7, Zenon DEF Next

\* The inductive invariant always holds.
LEMMA Invariance == Spec => []IInv
BY InitIInv, NextIInv, PTL DEF Spec

\* AsyncTask::Execute never runs a task that was cancelled before its test,
\* however Cancel races the thread of the executor.
THEOREM CancelledTasksNeverRun == Spec => []CancelledNeverRuns
<1>1. IInv => CancelledNeverRuns  BY Zenon DEF IInv, CancelInv, CancelledNeverRuns
<1> QED  BY <1>1, Invariance, PTL

-----------------------------------------------------------------------------
(* Searches of the queue *)

\* Every set of natural numbers that is not empty has a least element.
LEMMA Least ==
  ASSUME NEW S \in SUBSET Nat, S # {}
  PROVE  Min(S) \in S /\ \A x \in S : Min(S) <= x
<1>1. PICK m \in S : \A x \in S : <<x, m>> \notin OpToRel(<, Nat)
  BY WFMin, NatLessThanWellFounded, Zenon
<1>2. \A x \in S : <<x, m>> \in OpToRel(<, Nat) <=> x < m
  BY Zenon DEF OpToRel
<1>3. \A x \in S : ~(x < m)  BY <1>1, <1>2, Zenon
<1>4. \A x \in S : m <= x  BY <1>3
<1> QED  BY <1>4, Zenon DEF Min

\* No task that is not cancelled comes before the earliest one.
LEMMA Earliest ==
  ASSUME IInv, Live # {}
  PROVE  Due \in Nat /\ \A t \in Live : Due <= when[t]
<1> DEFINE S == {when[t] : t \in Live}
<1>1. S \in SUBSET Nat /\ S # {}  BY DEF IInv, Types, Live
<1>2. \A t \in Live : when[t] \in S  BY Zenon
<1> HIDE DEF S
<1>3. Min(S) \in Nat /\ \A x \in S : Min(S) <= x  BY <1>1, Least, Zenon
<1>4. Due = Min(S)  BY Zenon DEF Due, S
<1> QED  BY <1>2, <1>3, <1>4, Zenon

\* The thread drops cancelled tasks only, so it never drops a retry.
LEMMA DiscardsCancelled ==
  ASSUME IInv, NEW d \in Discards
  PROVE  d \subseteq queue \cap is_cancelled
<1>1. CASE Live = {}  BY <1>1, Zenon DEF Discards, Live
<1>2. CASE Live # {}
  <2>1. \A t \in queue : when[t] < Due => t \in is_cancelled
    BY <1>2, Earliest DEF Live, IInv, Types
  <2>2. PICK x : /\ x \subseteq {t \in queue \cap is_cancelled : when[t] = Due}
                 /\ d = {t \in queue : when[t] < Due} \cup x
    BY <1>2, Zenon DEF Discards
  <2> QED  BY <2>1, <2>2, Zenon
<1> QED  BY <1>1, <1>2, Zenon

\* What the searches of the queue leave in it, and what they take.
LEMMA Found ==
  ASSUME IInv, FindNothing \/ FindExit \/ FindLater \/ FindDue
  PROVE  /\ queue' \subseteq queue /\ \A t \in queue' : when'[t] = when[t]
         /\ \A t \in queue \ is_cancelled : Held(t)' /\ (FindDue \/ t \in queue')
         /\ UNCHANGED is_cancelled
<1> USE DEF IInv, Types
<1>1. CASE FindNothing  BY <1>1, Zenon DEF FindNothing, Live, Forget
<1>2. CASE FindExit  BY <1>2, Zenon DEF FindExit, Live
<1>3. CASE FindLater
  <2>1. PICK d \in Discards : queue' = queue \ d /\ Forget(queue \ d)
    BY <1>3, Zenon DEF FindLater
  <2>2. d \subseteq queue \cap is_cancelled  BY DiscardsCancelled, Zenon
  <2> QED  BY <1>3, <2>1, <2>2, Zenon DEF FindLater, Forget, Held
<1>4. CASE FindDue
  <2>1. PICK d \in Discards, t \in Live :
          /\ queue' = queue \ (d \cup {t}) /\ Forget(queue \ (d \cup {t}))
          /\ top' = t
    BY <1>4, Zenon DEF FindDue
  <2>2. d \subseteq queue \cap is_cancelled  BY DiscardsCancelled, Zenon
  <2>3. wpc' = "test" /\ UNCHANGED is_cancelled  BY <1>4, Zenon DEF FindDue
  <2> QED  BY <1>4, <2>1, <2>2, <2>3, Zenon DEF Forget, Held, HasTop
<1> QED  BY <1>1, <1>2, <1>3, <1>4, Zenon

-----------------------------------------------------------------------------
(* The time of a retry *)

\* Steps that hold no new retry and keep the times of those in the queue; the
\* thread takes one only when it is due.
LEMMA TimeFrame ==
  ASSUME IInv, TimeInv, UNCHANGED <<asked, expiration_time>>, now' \in Nat, now <= now',
         \A t \in Retries :
           /\ Held(t)' => Held(t)
           /\ t \in queue' => t \in queue /\ when'[t] = when[t]
           /\ HasTop' /\ top' = t => (HasTop /\ top = t)
                                     \/ (t \in queue /\ when[t] <= now)
  PROVE  TimeInv'
<1> SUFFICES ASSUME NEW o \in Op, NEW n \in 1..MaxRetryCount
             PROVE  /\ Held(Retry(o, n))' =>
                         asked[o] + GetBackOffDuration(n) < expiration_time[o]
                    /\ Retry(o, n) \in queue' =>
                         when'[Retry(o, n)] = asked[o] + GetBackOffDuration(n)
                    /\ HasTop' /\ top' = Retry(o, n) =>
                         asked[o] + GetBackOffDuration(n) <= now'
  BY Zenon DEF TimeInv, GetBackOffDuration
<1>1. Retry(o, n) \in Retries  BY RetryTasks, Zenon
<1>2. asked[o] + GetBackOffDuration(n) \in Nat /\ now \in Nat
  BY BackOffAssumption DEF TimeInv, IInv, Types
<1>3. HasTop' /\ top' = Retry(o, n) => asked[o] + GetBackOffDuration(n) <= now
  BY <1>1, Zenon DEF TimeInv
<1>4. HasTop' /\ top' = Retry(o, n) => asked[o] + GetBackOffDuration(n) <= now'
  BY <1>2, <1>3
<1> QED  BY <1>1, <1>4, Zenon DEF TimeInv

\* Steps that leave the queue alone and put nothing on the thread.
LEMMA TimeKept ==
  ASSUME IInv, TimeInv, UNCHANGED <<asked, expiration_time, queue, when>>,
         now' \in Nat, now <= now', HasTop' => HasTop /\ top' = top
  PROVE  TimeInv'
<1>1. \A t \in Retries : Held(t)' => Held(t)  BY Zenon DEF Held
<1> QED  BY <1>1, TimeFrame, Zenon

\* The thread takes a task whose time has come.
LEMMA TakenIsDue ==
  ASSUME IInv, FindDue
  PROVE  /\ queue' \subseteq queue /\ \A t \in queue' : when'[t] = when[t]
         /\ top' \in queue /\ when[top'] <= now /\ wpc = "sleep" /\ now' = now
<1>1. PICK d \in Discards, t \in Live :
        /\ when[t] = Due /\ queue' = queue \ (d \cup {t})
        /\ Forget(queue \ (d \cup {t})) /\ top' = t
  BY Zenon DEF FindDue
<1>2. now >= Due /\ now' = now /\ wpc = "sleep"  BY Zenon DEF FindDue, Woken
<1>3. when[t] <= now  BY <1>1, <1>2
<1> QED  BY <1>1, <1>2, <1>3, Zenon DEF Live, Forget, IInv, Types

\* Every step keeps the times of the retries.
LEMMA NextTimeInv ==
  ASSUME IInv, TimeInv, [Next]_vars PROVE TimeInv'
<1> USE DEF op_vars, executor_vars, timer_vars, task_vars, signal_vars, sleep_vars
<1>0. now \in Nat /\ now <= now  BY DEF IInv, Types
<1>1. ASSUME NEW o \in Op, NEW e \in Time, Dispatch(o, e) PROVE TimeInv'
  <2>1. /\ expiration_time' = [expiration_time EXCEPT ![o] = e] /\ op[o] = "idle"
        /\ UNCHANGED <<asked, now, queue, when, top, wpc>>
    BY <1>1, Zenon DEF Dispatch
  <2>2. \A n \in 1..MaxRetryCount : ~Held(Retry(o, n))
    BY <2>1, Zenon DEF IInv, RetryInv
  <2>3. \A p \in Op : p # o => expiration_time'[p] = expiration_time[p]
    BY <2>1, Zenon DEF IInv, Types
  <2> QED  BY <2>1, <2>2, <2>3, Zenon DEF TimeInv, Held, HasTop, GetBackOffDuration
<1>2. ASSUME NEW o \in Op, Answer(o) \/ RunFinish(o) \/ CallBack(o) PROVE TimeInv'
  BY <1>0, <1>2, TimeKept, Zenon
     DEF Answer, TargetRefuses, TargetFinishes, RunFinish, CallBack, HasTop
<1>3. ASSUME NEW o \in Op, GiveUp(o) \/ ScheduleRetryFails(o) PROVE TimeInv'
  BY <1>0, <1>3, TimeKept, Zenon DEF GiveUp, ScheduleRetryFails, HasTop
<1>4. ASSUME NEW o \in Op, ScheduleRetry(o) PROVE TimeInv'
  <2> DEFINE n == retry_count[o] + 1
             u == now + GetBackOffDuration(n)
  <2>1. /\ op[o] = "callback" /\ ~Exhausted(n) /\ ~TooLate(o, n)
        /\ queue' = queue \cup {Retry(o, n)}
        /\ when' = [when EXCEPT ![Retry(o, n)] = u]
        /\ asked' = [asked EXCEPT ![o] = now]
        /\ UNCHANGED <<now, expiration_time, wpc, top>>
    BY <1>4, Zenon DEF ScheduleRetry, ScheduleFor, Retrying
  <2>2. n \in 1..MaxRetryCount  BY <2>1, RetryTasks DEF IInv, Types, Exhausted
  <2>3. GetBackOffDuration(n) \in Nat  BY <2>2, BackOffAssumption, Zenon
  <2>4. u \in Nat /\ u < expiration_time[o]
    BY <2>1, <2>3 DEF TooLate, IInv, Types
  <2>5. \A m \in 1..MaxRetryCount : ~Held(Retry(o, m))
    BY <2>1, Zenon DEF IInv, RetryInv
  <2>6. asked' \in [Op -> Nat] /\ asked'[o] = now
        /\ \A p \in Op : p # o => asked'[p] = asked[p]
    BY <2>1, <1>0, Zenon DEF TimeInv
  <2>7. asked'[o] + GetBackOffDuration(n) = u  BY <2>6, Zenon
  <2> HIDE DEF n, u
  <2>8. /\ when'[Retry(o, n)] = u /\ Retry(o, n) \in Task
        /\ \A t \in Task : t # Retry(o, n) => when'[t] = when[t]
    <3>1. Retry(o, n) \in Task  BY <2>2, RetryTasks, Zenon
    <3> QED  BY <2>1, <3>1, Zenon DEF IInv, Types
  <2>9. ASSUME NEW p \in Op, NEW m \in 1..MaxRetryCount
        PROVE  /\ Held(Retry(p, m))' =>
                    asked'[p] + GetBackOffDuration(m) < expiration_time'[p]
               /\ Retry(p, m) \in queue' =>
                    when'[Retry(p, m)] = asked'[p] + GetBackOffDuration(m)
               /\ HasTop' /\ top' = Retry(p, m) =>
                    asked'[p] + GetBackOffDuration(m) <= now'
    <3>1. CASE p = o /\ m = n
      BY <2>1, <2>4, <2>5, <2>7, <2>8, <3>1, Zenon DEF Held, HasTop
    <3>2. CASE p = o /\ m # n
      <4>1. Retry(p, m) # Retry(o, n)  BY <2>2, <3>2, RetryTasks
      <4> QED  BY <2>1, <2>5, <3>2, <4>1, Zenon DEF Held, HasTop
    <3>3. CASE p # o
      <4>1. Retry(p, m) # Retry(o, n) /\ Retry(p, m) \in Task
        BY <2>2, <3>3, RetryTasks
      <4> QED  BY <2>1, <2>6, <2>8, <3>3, <4>1, Zenon DEF TimeInv, Held, HasTop
    <3> QED  BY <3>1, <3>2, <3>3, Zenon
  <2> QED  BY <2>6, <2>9, Zenon DEF TimeInv, GetBackOffDuration
<1>5. CASE RunRetry
  <2> DEFINE o == top[1]
  <2>1. /\ o \in Op /\ top[2] \in 1..MaxRetryCount /\ top = Retry(o, top[2])
        /\ wpc = "run" /\ wpc' = "loop" /\ asked' = [asked EXCEPT ![o] = 0]
        /\ UNCHANGED <<now, queue, when, expiration_time>>
    BY <1>5, RetryTasks, Zenon DEF RunRetry, RunOperation
  <2>2. top[2] = retry_count[o] /\ top \notin queue
    BY <2>1, Zenon DEF IInv, Types, RetryInv, Held, HasTop
  <2>3. \A m \in 1..MaxRetryCount : Retry(o, m) \notin queue
    BY <2>1, <2>2 DEF IInv, RetryInv, Held
  <2>4. 0 \in Nat  OBVIOUS
  <2> HIDE DEF o
  <2>5. asked' \in [Op -> Nat] /\ \A p \in Op : p # o => asked'[p] = asked[p]
    BY <2>1, <2>4, Zenon DEF TimeInv
  <2> QED  BY <2>1, <2>3, <2>5, Zenon DEF TimeInv, Held, HasTop, GetBackOffDuration
<1>6. ASSUME NEW t \in Plain, NEW u \in Time, SchedulePlain(t, u) PROVE TimeInv'
  <2>1. \A r \in Retries : r # t /\ r \in Task  BY TaskAssumption
  <2>2. /\ queue' = queue \cup {t} /\ when' = [when EXCEPT ![t] = u]
        /\ UNCHANGED <<now, top, wpc, asked, expiration_time>>
    BY <1>6, Zenon DEF SchedulePlain, ScheduleFor
  <2>3. \A r \in Retries : when'[r] = when[r]  BY <2>1, <2>2, Zenon DEF IInv, Types
  <2>4. \A r \in Retries : /\ Held(r)' => Held(r)
                           /\ r \in queue' => r \in queue /\ when'[r] = when[r]
                           /\ HasTop' /\ top' = r => HasTop /\ top = r
    BY <2>1, <2>2, <2>3, Zenon DEF Held, HasTop
  <2> QED  BY <1>0, <2>2, <2>4, TimeFrame, Zenon
<1>7. ASSUME NEW t \in Plain, CancelPlain(t) PROVE TimeInv'
  BY <1>0, <1>7, TimeKept, Zenon DEF CancelPlain, CancelTask, HasTop
<1>8. ASSUME ReadClock \/ Sleep \/ TestCancelled \/ ThreadStops, UNCHANGED op_vars
      PROVE TimeInv'
  BY <1>0, <1>8, TimeKept, Zenon
     DEF ReadClock, Sleep, TestCancelled, ThreadStops, HasTop
<1>9. ASSUME FindNothing \/ FindExit \/ FindLater, UNCHANGED op_vars PROVE TimeInv'
  <2>1. /\ queue' \subseteq queue /\ \A t \in queue' : when'[t] = when[t]
        /\ ~HasTop' /\ now' = now
    BY <1>9, Found, Zenon DEF FindNothing, FindExit, FindLater, HasTop
  <2> QED  BY <1>0, <1>9, <2>1, TimeFrame, Zenon DEF Held
<1>10. ASSUME FindDue, UNCHANGED op_vars PROVE TimeInv'
  BY <1>0, <1>10, TakenIsDue, TimeFrame, Zenon DEF Held
<1>11. CASE RunPlain
  BY <1>0, <1>11, TimeKept, Zenon DEF RunPlain, RunOperation, HasTop
<1>12. CASE Destroy \/ UNCHANGED vars
  BY <1>0, <1>12, TimeKept, Zenon DEF Destroy, BeginDestroy, vars, HasTop
<1>13. ASSUME Tick, UNCHANGED op_vars PROVE TimeInv'
  <2>1. now' \in Nat /\ now <= now'  BY <1>0, <1>13 DEF Tick
  <2> QED  BY <1>13, <2>1, TimeKept, Zenon DEF Tick, HasTop
<1>14. CASE TimerThread
  BY <1>5, <1>8, <1>9, <1>10, <1>11, <1>14, Zenon DEF TimerThread, Worker
<1>15. ASSUME NEW o \in Op, Continue(o) PROVE TimeInv'
  BY <1>2, <1>3, <1>4, <1>15, Zenon DEF Continue
<1> QED
  BY <1>1, <1>2, <1>6, <1>7, <1>12, <1>13, <1>14, <1>15, Zenon DEF Next

\* Only the executor calls the target again.
LEMMA CalledAgain ==
  ASSUME IInv, [Next]_vars, NEW o \in Op, attempts[o] > 0, attempts'[o] # attempts[o]
  PROVE  RunRetry /\ top[1] = o
<1> USE DEF op_vars
<1>1. ASSUME NEW p \in Op, NEW e \in Time, Dispatch(p, e) PROVE FALSE
  <2>1. op[p] = "idle" /\ attempts' = [attempts EXCEPT ![p] = @ + 1]
    BY <1>1, Zenon DEF Dispatch, CallTarget
  <2>2. p # o  BY <2>1 DEF IInv, CountInv
  <2> QED  BY <2>1, <2>2, Zenon DEF IInv, Types
<1>2. ASSUME NEW p \in Op, Answer(p) \/ Continue(p) PROVE FALSE
  BY <1>2, Zenon DEF Answer, TargetRefuses, TargetFinishes, Continue, RunFinish,
     CallBack, GiveUp, ScheduleRetry, ScheduleRetryFails
<1>3. ASSUME UNCHANGED op_vars PROVE FALSE  BY <1>3, Zenon
<1>4. CASE RunRetry
  <2>1. attempts' = [attempts EXCEPT ![top[1]] = @ + 1]  BY <1>4, Zenon
    DEF RunRetry, CallTarget
  <2> QED  BY <1>4, <2>1, Zenon DEF IInv, Types
<1> QED
  BY <1>1, <1>2, <1>3, <1>4, Zenon
     DEF Next, vars, TimerThread, RunPlain, SchedulePlain, CancelPlain, Destroy

\* The target is called again only after the back-off, for a time before the
\* operation expires, and at most maximum_allowed_retry_count times in all, for
\* either strategy, any delay and any load of the executor.
THEOREM RetriesAlwaysInTime == Spec => RetriesInTime
<1>1. Init => TimeInv
  BY RetryTasks, ExecutorAssumption DEF Init, ExecutorInit, TimeInv, Held, HasTop
<1>2. Spec => []TimeInv  BY <1>1, Invariance, NextTimeInv, PTL DEF Spec
<1>3. ASSUME IInv, TimeInv, [Next]_vars
      PROVE  [\A o \in Op : attempts[o] > 0 /\ attempts'[o] # attempts[o] =>
                LET due == asked[o] + GetBackOffDuration(retry_count[o])
                IN  due <= now /\ due < expiration_time[o]
                    /\ attempts'[o] <= MaxRetryCount]_vars
  <2> SUFFICES ASSUME NEW o \in Op, attempts[o] > 0, attempts'[o] # attempts[o]
               PROVE  /\ asked[o] + GetBackOffDuration(retry_count[o]) <= now
                      /\ asked[o] + GetBackOffDuration(retry_count[o])
                           < expiration_time[o]
                      /\ attempts'[o] <= MaxRetryCount
    BY Zenon
  <2>1. RunRetry /\ top[1] = o  BY <1>3, CalledAgain, Zenon
  <2>2. /\ top[2] \in 1..MaxRetryCount /\ top = Retry(o, top[2]) /\ HasTop
    BY <2>1, RetryTasks, Zenon DEF RunRetry, RunOperation, HasTop
  <2>3. op[o] = "scheduled" /\ top[2] = retry_count[o]
    BY <1>3, <2>2, Zenon DEF IInv, RetryInv, Held
  <2>4. attempts'[o] = attempts[o] + 1
    BY <1>3, <2>1, Zenon DEF RunRetry, CallTarget, IInv, Types
  <2>5. attempts'[o] <= MaxRetryCount
    BY <1>3, <2>3, <2>4, RetryAssumption DEF IInv, Types, CountInv
  <2> QED  BY <1>3, <2>2, <2>3, <2>5, Zenon DEF TimeInv, Held
<1> QED  BY <1>2, <1>3, Invariance, PTL DEF Spec, RetriesInTime

-----------------------------------------------------------------------------
(* The place of an operation *)

\* Steps that leave the operations alone and lose no retry.
LEMMA PlaceFrame ==
  ASSUME IInv, PlaceInv, UNCHANGED <<op, retry_count, finished>>,
         \A t \in Retries : Held(t) => Held(t)'
  PROVE  PlaceInv'
<1>1. \A o \in Op, n \in 1..MaxRetryCount :
        Held(Retry(o, n)) => Held(Retry(o, n))'
  BY RetryTasks, Zenon
<1>2. ASSUME NEW o \in Op, op'[o] = "scheduled"
      PROVE  /\ retry_count'[o] \in 1..MaxRetryCount
             /\ Held(Retry(o, retry_count[o]))'
  <2>1. retry_count[o] \in 1..MaxRetryCount /\ Held(Retry(o, retry_count[o]))
    BY <1>2, Zenon DEF PlaceInv
  <2> QED  BY <1>1, <2>1, Zenon
<1> QED  BY <1>2, Zenon DEF PlaceInv

\* Every step keeps an operation in its place.
LEMMA NextPlaceInv ==
  ASSUME IInv, PlaceInv, [Next]_vars PROVE PlaceInv'
<1> USE RetryTasks DEF op_vars, executor_vars, timer_vars, task_vars, signal_vars,
        sleep_vars
<1>1. ASSUME NEW o \in Op, NEW e \in Time, Dispatch(o, e) PROVE PlaceInv'
  BY <1>1, SMTT(20) DEF Dispatch, CallTarget, IInv, Types, PlaceInv, Held, HasTop
<1>2. ASSUME NEW o \in Op, Answer(o) \/ RunFinish(o) PROVE PlaceInv'
  BY <1>2 DEF Answer, TargetRefuses, TargetFinishes, RunFinish, IInv, Types,
              PlaceInv, Held, HasTop
<1>3. ASSUME NEW o \in Op, CallBack(o) PROVE PlaceInv'
  BY <1>3, SMTT(20) DEF CallBack, IInv, Types, PlaceInv, Held, HasTop
<1>4. ASSUME NEW o \in Op, GiveUp(o) \/ ScheduleRetryFails(o) PROVE PlaceInv'
  BY <1>4 DEF GiveUp, ScheduleRetryFails, Retrying, IInv, Types, PlaceInv, Held,
              HasTop
<1>5. ASSUME NEW o \in Op, ScheduleRetry(o) PROVE PlaceInv'
  <2> DEFINE n == retry_count[o] + 1
  <2>1. /\ op[o] = "callback" /\ ~Exhausted(n) /\ queue' = queue \cup {Retry(o, n)}
        /\ retry_count' = [retry_count EXCEPT ![o] = n]
        /\ op' = [op EXCEPT ![o] = "scheduled"]
        /\ UNCHANGED <<finished, wpc, top>>
    BY <1>5, Zenon DEF ScheduleRetry, ScheduleFor, Retrying
  <2>2. n \in 1..MaxRetryCount  BY <2>1 DEF IInv, Types, Exhausted
  <2> HIDE DEF n
  <2> QED  BY <2>1, <2>2 DEF IInv, Types, PlaceInv, Held, HasTop
<1>6. CASE RunRetry
  <2> DEFINE o == top[1]
  <2>1. /\ top \in Retries /\ o \in Op /\ top[2] \in 1..MaxRetryCount
        /\ top = Retry(o, top[2]) /\ wpc = "run"
    BY <1>6, Zenon DEF RunRetry, RunOperation
  <2>2. op[o] = "scheduled"  BY <2>1, Zenon DEF IInv, RetryInv, Held, HasTop
  <2>3. /\ op' = [op EXCEPT ![o] = "target"]
        /\ UNCHANGED <<queue, retry_count, finished>>
    BY <1>6, Zenon DEF RunRetry, CallTarget, RunOperation
  <2> HIDE DEF o
  <2>4. \A p \in Op \ {o}, n \in 1..MaxRetryCount :
          Held(Retry(p, n)) => Held(Retry(p, n))'
    BY <2>1, <2>3 DEF Held, HasTop
  <2> QED  BY <2>1, <2>2, <2>3, <2>4 DEF IInv, Types, PlaceInv, Held
<1>7. ASSUME FindNothing \/ FindExit \/ FindLater \/ FindDue, UNCHANGED op_vars
      PROVE  PlaceInv'
  <2>1. /\ \A t \in queue \ is_cancelled : Held(t)'
        /\ wpc = "sleep"
    BY <1>7, Found, Zenon DEF FindNothing, FindExit, FindLater, FindDue, Woken
  <2>2. \A t \in Retries : Held(t) => Held(t)'
    BY <2>1 DEF Held, HasTop, IInv, CancelInv
  <2> QED  BY <1>7, <2>2, PlaceFrame, Zenon
<1>8. ASSUME ReadClock \/ Sleep \/ ThreadStops, UNCHANGED op_vars PROVE PlaceInv'
  BY <1>8, PlaceFrame, Zenon DEF ReadClock, Sleep, ThreadStops, Held, HasTop
<1>9. ASSUME TestCancelled, UNCHANGED op_vars PROVE PlaceInv'
  BY <1>9, PlaceFrame DEF TestCancelled, Held, HasTop, IInv, CancelInv
<1>10. CASE RunPlain
  BY <1>10, PlaceFrame DEF RunPlain, RunOperation, Held, HasTop
<1>11. CASE Destroy \/ (Tick /\ UNCHANGED op_vars) \/ UNCHANGED vars
  BY <1>11, PlaceFrame, Zenon DEF Destroy, BeginDestroy, Tick, vars, Held, HasTop
<1>12. ASSUME NEW t \in Plain, NEW u \in Time, SchedulePlain(t, u) PROVE PlaceInv'
  BY <1>12, PlaceFrame, Zenon DEF SchedulePlain, ScheduleFor, Held, HasTop
<1>13. CASE TimerThread
  BY <1>6, <1>7, <1>8, <1>9, <1>10, <1>13, Zenon DEF TimerThread, Worker
<1>14. ASSUME NEW o \in Op, Continue(o) PROVE PlaceInv'
  BY <1>2, <1>3, <1>4, <1>5, <1>14, Zenon DEF Continue
<1>15. ASSUME NEW t \in Plain, CancelPlain(t) PROVE PlaceInv'
  BY <1>15, PlaceFrame, Zenon DEF CancelPlain, CancelTask, Held, HasTop
<1> QED  BY <1>1, <1>2, <1>11, <1>12, <1>13, <1>14, <1>15, Zenon DEF Next

\* An operation is dispatched, tried and called back by one thread at a time: the
\* executor neither loses its retry nor holds two of them, whatever it is told to
\* cancel meanwhile, and the original callback is called once.
THEOREM AlwaysOnePlace == Spec => []OnePlace
<1>1. Init => PlaceInv  BY DEF Init, PlaceInv
<1>2. Spec => []PlaceInv  BY <1>1, Invariance, NextPlaceInv, PTL DEF Spec
<1>3. ASSUME IInv, PlaceInv PROVE OnePlace
  <2> SUFFICES ASSUME NEW o \in Op
               PROVE  Cardinality(Places(o)) =
                        IF op[o] \in {"idle", "finished"} THEN 0 ELSE 1
    BY <1>3, Zenon DEF OnePlace, PlaceInv
  <2> DEFINE R == {t \in Retries : t[1] = o /\ Held(t)}
  <2>1. Places(o) = R \cup {place \in {"target", "posted", "callback"} : op[o] = place}
    BY Zenon DEF Places, Held, HasTop
  <2>2. \A t \in R : op[o] = "scheduled" /\ t = Retry(o, retry_count[o])
    BY <1>3, RetryTasks DEF IInv, RetryInv
  <2>3. op[o] = "scheduled" => Retry(o, retry_count[o]) \in R
    BY <1>3, RetryTasks, Zenon DEF PlaceInv, Retry
  <2> HIDE DEF R
  <2>4. CASE op[o] \in {"idle", "finished"}
    <3>1. Places(o) = {}  BY <2>1, <2>2, <2>4, Zenon
    <3> QED  BY <2>4, <3>1, FS_EmptySet, Zenon
  <2>5. CASE op[o] = "scheduled"
    <3>1. Places(o) = {Retry(o, retry_count[o])}  BY <2>1, <2>2, <2>3, <2>5, Zenon
    <3> QED  BY <2>5, <3>1, FS_Singleton, Zenon
  <2>6. CASE op[o] \in {"target", "posted", "callback"}
    <3>1. Places(o) = {op[o]}  BY <2>1, <2>2, <2>6, Zenon
    <3> QED  BY <2>6, <3>1, FS_Singleton, Zenon
  <2> QED  BY <1>3, <2>4, <2>5, <2>6, Zenon DEF IInv, Types
<1> QED  BY <1>2, <1>3, Invariance, PTL

-----------------------------------------------------------------------------
(* The sleep of the thread *)

\* Steps that add no task and leave what the thread has noted alone.
LEMMA WakeFrame ==
  ASSUME WakeInv, UNCHANGED <<next_scheduled_task_timestamp, update_wait_time,
                              wait_timeout_duration, looked, when>>,
         Live' \subseteq Live, wpc' \notin {"exit", "stopped"} => wpc \notin {"exit", "stopped"}
  PROVE  WakeInv'
BY Zenon DEF WakeInv

\* ScheduleFor signals a task that comes before the others.
LEMMA WakeSchedule ==
  ASSUME IInv, WakeInv, NEW t \in Task, NEW u \in Nat, ScheduleFor(t, u)
  PROVE  WakeInv'
<1>1. /\ queue' = queue \cup {t} /\ when' = [when EXCEPT ![t] = u]
      /\ UNCHANGED <<is_cancelled, wpc, wait_timeout_duration, looked>>
  BY Zenon DEF ScheduleFor, sleep_vars
<1>2. CASE u < next_scheduled_task_timestamp
  <2>1. next_scheduled_task_timestamp' = u /\ update_wait_time' = TRUE
    BY <1>2, Zenon DEF ScheduleFor
  <2> QED  BY <1>1, <2>1, Zenon DEF WakeInv
<1>3. CASE ~(u < next_scheduled_task_timestamp)
  <2>1. UNCHANGED <<next_scheduled_task_timestamp, update_wait_time>>
    BY <1>3, Zenon DEF ScheduleFor
  <2>2. \A x \in Live' : (x \in Live /\ when'[x] = when[x]) \/ when'[x] = u
    BY <1>1, Zenon DEF Live, IInv, Types
  <2>3. next_scheduled_task_timestamp <= u  BY <1>3 DEF WakeInv
  <2> QED  BY <1>1, <2>1, <2>2, <2>3, Zenon DEF WakeInv
<1> QED  BY <1>2, <1>3, Zenon

\* A search of the queue notes the time of the earliest task that is left.
LEMMA WakeFind ==
  ASSUME IInv, WakeInv, FindNothing \/ FindExit \/ FindLater \/ FindDue
  PROVE  WakeInv'
<1>1. /\ queue' \subseteq queue /\ \A t \in queue' : when'[t] = when[t]
      /\ UNCHANGED is_cancelled
  BY Found, Zenon
<1>2. Live' \subseteq Live /\ \A t \in Live' : when'[t] = when[t]  BY <1>1, Zenon
    DEF Live
<1>3. CASE FindNothing
  <2>1. /\ next_scheduled_task_timestamp' = Never /\ wait_timeout_duration' = Never
        /\ looked' = 0 /\ Live' = {}
    BY <1>3, Zenon DEF FindNothing, Live
  <2> QED  BY <2>1, ExecutorAssumption DEF WakeInv, Never
<1>4. CASE FindExit  BY <1>4, Zenon DEF FindExit, WakeInv, sleep_vars
<1>5. CASE FindLater
  <2>1. /\ next_scheduled_task_timestamp' = Due /\ wait_timeout_duration' = Due - now
        /\ looked' = now /\ now < Due /\ Live # {}
    BY <1>5, Zenon DEF FindLater
  <2>2. Due \in Nat /\ \A t \in Live : Due <= when[t]  BY <2>1, Earliest, Zenon
  <2> HIDE DEF Due
  <2> QED  BY <1>2, <2>1, <2>2 DEF WakeInv, IInv, Types
<1>6. CASE FindDue
  <2>1. /\ next_scheduled_task_timestamp' = Due /\ wait_timeout_duration' = 0
        /\ looked' = 0 /\ Live # {}
    BY <1>6, Zenon DEF FindDue
  <2>2. Due \in Nat /\ \A t \in Live : Due <= when[t]  BY <2>1, Earliest, Zenon
  <2> QED  BY <1>2, <2>1, <2>2, Zenon DEF WakeInv
<1> QED  BY <1>3, <1>4, <1>5, <1>6, Zenon

\* Every step keeps what the thread has noted right, or is signalled.
LEMMA NextWakeInv ==
  ASSUME IInv, WakeInv, [Next]_vars PROVE WakeInv'
<1> USE DEF op_vars, executor_vars, timer_vars, task_vars, signal_vars, sleep_vars
<1>1. ASSUME NEW o \in Op, NEW e \in Time, Dispatch(o, e) PROVE WakeInv'
  BY <1>1, WakeFrame, Zenon DEF Dispatch, Live
<1>2. ASSUME NEW o \in Op, Answer(o) \/ RunFinish(o) \/ CallBack(o) PROVE WakeInv'
  BY <1>2, WakeFrame, Zenon
     DEF Answer, TargetRefuses, TargetFinishes, RunFinish, CallBack, Live
<1>3. ASSUME NEW o \in Op, GiveUp(o) \/ ScheduleRetryFails(o) PROVE WakeInv'
  BY <1>3, WakeFrame, Zenon DEF GiveUp, ScheduleRetryFails, Live
<1>4. ASSUME NEW o \in Op, ScheduleRetry(o) PROVE WakeInv'
  <2> DEFINE n == retry_count[o] + 1
  <2>1. ~Exhausted(n) /\ ScheduleFor(Retry(o, n), now + GetBackOffDuration(n))
    BY <1>4, Zenon DEF ScheduleRetry
  <2>2. n \in 1..MaxRetryCount  BY <2>1, RetryTasks DEF IInv, Types, Exhausted
  <2>3. Retry(o, n) \in Task /\ now + GetBackOffDuration(n) \in Nat
    BY <2>2, RetryTasks, BackOffAssumption DEF IInv, Types
  <2> HIDE DEF n
  <2> QED  BY <2>1, <2>3, WakeSchedule, Zenon
<1>5. ASSUME NEW t \in Plain, NEW u \in Time, SchedulePlain(t, u) PROVE WakeInv'
  <2>1. t \in Task /\ u \in Nat  BY RetryTasks, ExecutorAssumption DEF Time
  <2> QED  BY <1>5, <2>1, WakeSchedule, Zenon DEF SchedulePlain
<1>6. ASSUME NEW t \in Plain, CancelPlain(t) PROVE WakeInv'
  BY <1>6, WakeFrame, Zenon DEF CancelPlain, CancelTask, Live
<1>7. CASE RunRetry \/ RunPlain
  BY <1>7, WakeFrame, Zenon DEF RunRetry, RunPlain, RunOperation, Live
<1>8. CASE ReadClock \/ Sleep \/ TestCancelled \/ ThreadStops
  BY <1>8, WakeFrame, Zenon DEF ReadClock, Sleep, TestCancelled, ThreadStops, Live
<1>9. CASE Destroy \/ Tick \/ UNCHANGED vars
  BY <1>9, WakeFrame, Zenon DEF Destroy, BeginDestroy, Tick, vars, Live
<1>10. CASE TimerThread
  BY <1>7, <1>8, <1>10, WakeFind, Zenon DEF TimerThread, Worker
<1>11. ASSUME NEW o \in Op, Continue(o) PROVE WakeInv'
  BY <1>2, <1>3, <1>4, <1>11, Zenon DEF Continue
<1> QED  BY <1>1, <1>2, <1>5, <1>6, <1>9, <1>10, <1>11, Zenon DEF Next

\* No wakeup is lost: the thread of the executor never means to sleep past the
\* time of a task without being signalled, wherever between reading the clock and
\* AwaitWithTimeout the task is scheduled.
THEOREM NeverLostWakeup == Spec => []NoLostWakeup
<1>1. Init => WakeInv
  BY ExecutorAssumption DEF Init, ExecutorInit, WakeInv, Never, Live
<1>2. Spec => []WakeInv  BY <1>1, Invariance, NextWakeInv, PTL DEF Spec
<1>3. ASSUME IInv, WakeInv PROVE NoLostWakeup
  <2> SUFFICES ASSUME wpc \in {"lock", "sleep"}, ~Signalled, NEW t \in Live
               PROVE  \/ wait_timeout_duration = 0
                      \/ looked + wait_timeout_duration <= when[t]
    BY Zenon DEF NoLostWakeup
  <2>1. ~update_wait_time  BY Zenon DEF Signalled
  <2>2. when[t] \in Nat  BY <1>3, Zenon DEF IInv, Types, Live
  <2> QED  BY <1>3, <2>1, <2>2 DEF WakeInv
<1> QED  BY <1>2, <1>3, Invariance, PTL
=============================================================================

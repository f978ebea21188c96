------------------------- MODULE OperationDispatcher -------------------------
(***************************************************************************)
(* OperationDispatcher: an operation is handed to a target and, as long as *)
(* it ends with the status Retry, again after a growing delay, by a task   *)
(* of the priority executor.  A target that takes an operation finishes it *)
(* later with FinishContext, on a thread of another executor or, when that *)
(* one is full, on its own.  Besides, plain tasks are scheduled and        *)
(* cancelled.                                                              *)
(***************************************************************************)
EXTENDS AsyncExecutor

CONSTANTS
  Op,
  Plain,               \* tasks that are not retries
  Exponential,         \* RetryStrategyType
  DelayDuration,       \* delay_duration_ms, in units of the clock
  MaxRetryCount        \* maximum_allowed_retry_count

Retry(o, n) == <<o, n>>
Retries == Op \X (1..MaxRetryCount)

ASSUME RetryAssumption == /\ Exponential \in BOOLEAN /\ DelayDuration \in Nat
                          /\ MaxRetryCount \in Nat
ASSUME TaskAssumption == /\ Task = Plain \cup Retries
                         /\ Plain \cap Retries = {}

VARIABLES
  op,             \* [Op -> where the operation is]
  result,         \* [Op -> status its context was last finished with]
  retry_count, expiration_time,
  attempts,       \* [Op -> calls of the target]
  finished,       \* [Op -> calls of the original callback]
  asked           \* [Op -> when its retry was scheduled, 0 once that runs]

op_vars ==
  <<op, result, retry_count, expiration_time, attempts, finished, asked>>
vars == <<executor_vars, op_vars>>

Init ==
  /\ ExecutorInit
  /\ op = [o \in Op |-> "idle"] /\ result = [o \in Op |-> "Success"]
  /\ retry_count = [o \in Op |-> 0] /\ expiration_time = [o \in Op |-> 0]
  /\ attempts = [o \in Op |-> 0] /\ finished = [o \in Op |-> 0]
  /\ asked = [o \in Op |-> 0]

-----------------------------------------------------------------------------

CallTarget(o) ==
  /\ op' = [op EXCEPT ![o] = "target"]
  /\ attempts' = [attempts EXCEPT ![o] = @ + 1]

\* The very first call is not queued.
Dispatch(o, e) ==
  /\ op[o] = "idle" /\ is_running
  /\ CallTarget(o)
  /\ expiration_time' = [expiration_time EXCEPT ![o] = e]
  /\ UNCHANGED <<executor_vars, result, retry_count, finished, asked>>

\* dispatch_to_target_function returns an error: Finish on this thread.
TargetRefuses(o, s) ==
  /\ op[o] = "target"
  /\ op' = [op EXCEPT ![o] = "callback"]
  /\ result' = [result EXCEPT ![o] = s]
  /\ UNCHANGED <<executor_vars, retry_count, expiration_time, attempts,
                 finished, asked>>

\* FinishContext schedules Finish, or calls it.
TargetFinishes(o, s) ==
  /\ op[o] = "target"
  /\ result' = [result EXCEPT ![o] = s]
  /\ \E place \in {"posted", "callback"} : op' = [op EXCEPT ![o] = place]
  /\ UNCHANGED <<executor_vars, retry_count, expiration_time, attempts,
                 finished, asked>>

RunFinish(o) ==
  /\ op[o] = "posted"
  /\ op' = [op EXCEPT ![o] = "callback"]
  /\ UNCHANGED <<executor_vars, result, retry_count, expiration_time, attempts,
                 finished, asked>>

\* The callback that Dispatch installed calls the original one ...
CallBack(o) ==
  /\ op[o] = "callback" /\ result[o] # "Retry"
  /\ op' = [op EXCEPT ![o] = "finished"]
  /\ finished' = [finished EXCEPT ![o] = @ + 1]
  /\ UNCHANGED <<executor_vars, result, retry_count, expiration_time, attempts,
                 asked>>

\* ... or DispatchWithRetry with retry_count increased.
GetBackOffDuration(n) ==
  IF n = 0 THEN 0
  ELSE IF Exponential THEN 2 ^ (n - 1) * DelayDuration ELSE n * DelayDuration

\* Powers of two are natural numbers, which the proofs cannot derive.
ASSUME BackOffAssumption ==
  \A n \in 1..MaxRetryCount : GetBackOffDuration(n) \in Nat

Exhausted(n) == n >= MaxRetryCount
TooLate_AtExpiry(o, n) ==
  \/ expiration_time[o] <= now
  \/ expiration_time[o] - now < GetBackOffDuration(n)
TooLate(o, n) ==
  \/ expiration_time[o] <= now
  \/ expiration_time[o] - now <= GetBackOffDuration(n)

Retrying(o) == op[o] = "callback" /\ result[o] = "Retry"

GiveUp_AsRetry(o) ==
  LET n == retry_count[o] + 1
  IN  /\ Retrying(o)
      /\ Exhausted(n) \/ TooLate(o, n)
      /\ UNCHANGED <<executor_vars, op_vars>>
GiveUp(o) ==
  LET n == retry_count[o] + 1
  IN  /\ Retrying(o)
      /\ Exhausted(n) \/ TooLate(o, n)
      /\ retry_count' = [retry_count EXCEPT ![o] = n]
      /\ result' = [result EXCEPT ![o] = "Failure"]
      /\ UNCHANGED <<executor_vars, op, expiration_time, attempts, finished,
                     asked>>

ScheduleRetry_FinishesAnyway(o) ==
  LET n == retry_count[o] + 1
  IN  /\ Retrying(o)
      /\ ~Exhausted(n) /\ ~TooLate(o, n)
      /\ ScheduleFor(Retry(o, n), now + GetBackOffDuration(n))
      /\ retry_count' = [retry_count EXCEPT ![o] = n]
      /\ result' = [result EXCEPT ![o] = "Success"]
      /\ asked' = [asked EXCEPT ![o] = now]
      /\ UNCHANGED <<op, expiration_time, attempts, finished>>
ScheduleRetry(o) ==
  LET n == retry_count[o] + 1
  IN  /\ Retrying(o)
      /\ ~Exhausted(n) /\ ~TooLate(o, n)
      /\ ScheduleFor(Retry(o, n), now + GetBackOffDuration(n))
      /\ retry_count' = [retry_count EXCEPT ![o] = n]
      /\ op' = [op EXCEPT ![o] = "scheduled"]
      /\ asked' = [asked EXCEPT ![o] = now]
      /\ UNCHANGED <<result, expiration_time, attempts, finished>>

\* The queue is full: Finish with the status Retry calls back at once, so the
\* next try is made without any delay.
ScheduleRetryFails(o) ==
  LET n == retry_count[o] + 1
  IN  /\ Retrying(o)
      /\ ~Exhausted(n) /\ ~TooLate(o, n) /\ QueueFull
      /\ retry_count' = [retry_count EXCEPT ![o] = n]
      /\ UNCHANGED <<executor_vars, op, result, expiration_time, attempts,
                     finished, asked>>

RunRetry ==
  /\ RunOperation /\ top \in Retries
  /\ CallTarget(top[1])
  /\ asked' = [asked EXCEPT ![top[1]] = 0]
  /\ UNCHANGED <<result, retry_count, expiration_time, finished>>

-----------------------------------------------------------------------------
(* Other users of the executor *)

SchedulePlain(t, timestamp) ==
  /\ is_running /\ t \notin queue \cup ran \cup is_cancelled \cup {top}
  /\ ScheduleFor(t, timestamp)
  /\ UNCHANGED op_vars

\* Nobody reads the flag of a task that has run.
CancelPlain(t) ==
  /\ t \in queue \cup {top}
  /\ CancelTask(t)
  /\ UNCHANGED op_vars

RunPlain == RunOperation /\ top \in Plain /\ UNCHANGED op_vars

\* The executor is destroyed when the operations that use it are over.
Destroy ==
  /\ \A o \in Op : op[o] \in {"idle", "finished"}
  /\ BeginDestroy
  /\ UNCHANGED op_vars

-----------------------------------------------------------------------------

Answer(o) ==
  \/ \E s \in {"Failure", "Retry"} : TargetRefuses(o, s)
  \/ \E s \in {"Success", "Failure", "Retry"} : TargetFinishes(o, s)

Continue(o) ==
  \/ RunFinish(o) \/ CallBack(o)
  \/ GiveUp(o) \/ ScheduleRetry(o) \/ ScheduleRetryFails(o)

TimerThread == (Worker /\ UNCHANGED op_vars) \/ RunRetry \/ RunPlain

Next ==
  \/ \E o \in Op, e \in Time : Dispatch(o, e)
  \/ \E o \in Op : Answer(o) \/ Continue(o)
  \/ \E t \in Plain, timestamp \in Time : SchedulePlain(t, timestamp)
  \/ \E t \in Plain : CancelPlain(t)
  \/ TimerThread \/ Destroy
  \/ Tick /\ UNCHANGED op_vars

Spec == Init /\ [][Next]_vars

\* Time passes, threads go on, and a target finishes what it has taken.
FairSpec ==
  /\ Spec
  /\ WF_vars(Tick /\ UNCHANGED op_vars)
  /\ WF_vars(TimerThread)
  /\ \A o \in Op : WF_vars(Answer(o)) /\ WF_vars(Continue(o))

-----------------------------------------------------------------------------
(* Properties *)

\* The variables have the types the code declares.
TypeOK ==
  /\ ExecutorTypeOK
  /\ op \in [Op -> {"idle", "target", "posted", "callback", "scheduled",
                    "finished"}]
  /\ result \in [Op -> {"Success", "Failure", "Retry"}]
  /\ retry_count \in [Op -> 0..Max({1, MaxRetryCount})]
  /\ expiration_time \in [Op -> Time]
  /\ attempts \in [Op -> Nat] /\ finished \in [Op -> Nat]
  /\ asked \in [Op -> Time]

Places(o) ==
  {t \in Retries : t[1] = o /\ (t \in queue \/ (t = top /\ wpc \in {"test", "run"}))}
  \cup {place \in {"target", "posted", "callback"} : op[o] = place}

\* From its dispatch to its callback an operation is in exactly one place: with
\* the target, in a queue of an executor, or with one of their threads.  So no
\* two attempts of it overlap, and it is called back once.
OnePlace ==
  \A o \in Op : /\ Cardinality(Places(o)) =
                     IF op[o] \in {"idle", "finished"} THEN 0 ELSE 1
                /\ finished[o] = IF op[o] = "finished" THEN 1 ELSE 0

\* The target is called again only when the back-off has passed since the retry
\* was scheduled, for a time before the operation expires; and with that call
\* it has been called at most maximum_allowed_retry_count times, the first call
\* included, so that there are at most maximum_allowed_retry_count - 1 retries.
RetriesInTime ==
  [][\A o \in Op : attempts[o] > 0 /\ attempts'[o] # attempts[o] =>
       LET due == asked[o] + GetBackOffDuration(retry_count[o])
       IN  due <= now /\ due < expiration_time[o] /\ attempts'[o] <= MaxRetryCount
    ]_vars

\* Every operation is called back: retries come to an end, also when the queue
\* of the executor is full.
OperationsFinish == \A o \in Op : op[o] = "target" ~> op[o] = "finished"
=============================================================================

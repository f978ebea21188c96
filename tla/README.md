# TLA+ models of the data plane shared libraries

This directory models the concurrent parts of the repository in TLA+. TLC checks
the models on small instances. TLAPS proves the main safety properties for every
value of the constants. Paths below are relative to the repository's `src/`.

| Module | Models | Runs | Proofs |
|---|---|---|---|
| `RequestContract` | promise of an asynchronous execution API | refined by the two dispatchers | |
| `ByobDispatcher` | `roma/byob/dispatcher` | `byob_pool`, `byob_tokens`, `byob_liveness`, `byob_abandoned` | `ByobPointerProofs`, `ByobRequestProofs` |
| `WorkerRunner` | `roma/byob/container/run_workers.cc` | `runner` | `RunnerProofs` |
| `V8Dispatcher` | `roma/sandbox/dispatcher`, `roma/roma_service`, worker wrapper | `v8_safety`, `v8_liveness` | `V8Proofs` |
| `NativeFunctionHandler` | `roma/sandbox/native_function_binding`, `roma/metadata_storage` | `native`, `native_stale` | `NativeProofs` |
| `PrivateKeyClient` | `cpio/client_providers/private_key_client_provider` | `keys_list` | `KeysProofs` |
| `HttpConnectionPool` | `core/http2_client` | `http` | `HttpProofs` |
| `AsyncExecutor`, `OperationDispatcher` | `core/async_executor`, `core/common/operation_dispatcher` | `executor` | `OperationProofs` |
| `MC...` | constants and symmetry sets for TLC | | |

`PROJECT.json` maps every definition to the lines it translates. It also lists
all components, runs, mutants, findings, hazards and theorems. A definition
`X_Something` in front of `X` is a mutant: `X` with a plausible bug, kept to
show that a property can fail.

## The system

The repository is a set of libraries for servers that run untrusted code and
handle encrypted requests.

* **Roma BYOB** runs native binaries in worker processes. A host-side
  *dispatcher* talks to a *worker runner* in a container. State: a table from
  code tokens to queues of idle workers, a count of acceptor threads, and
  stack-allocated request records shared by pointer. Operations: LoadBinary,
  LoadBinaryForLogging, Delete, Cancel, ProcessRequest, destruction. Hard part:
  the records live on acceptor stacks and are used after the lock is released,
  while deletion and destruction wake the same threads.
* **Roma V8** runs JavaScript and WebAssembly in sandboxed workers. State: one
  queue of code to load per worker, one queue of invocations, the code to
  reload, request metadata, cancelled tokens. Operations: LoadCodeObj, Execute,
  Cancel, Stop. Hard part: sandboxes crash and restart empty, a load is reported
  by its first worker, and Cancel races the consumers.
* **CPIO** wraps cloud services behind asynchronous contexts. The private key
  client fans out fetches and decryptions and joins them through atomics. The
  other providers are mostly chains of single cloud calls. Metric batching and
  streamed blob uploads have state of their own.
* **Key fetchers** refresh and expire cached keys on top of CPIO.
* **Core** has the async executors, the operation dispatcher with retries, the
  HTTP/2 client with its connection pool, and streaming contexts.
* **The AWS proxy** bridges sockets with a SOCKS5 state machine.
* Logging, telemetry, metrics, compression and utilities carry little state.

`components` in `PROJECT.json` names every part with its status and the reason
where it is not modelled.

## RequestContract

A call goes from idle to pending, is refused or accepted, and an accepted call
is answered by exactly one callback. `Spec` adds that pending calls are decided
and accepted ones answered. Both dispatchers are mapped to it by a status
function of their own state and by the counter of callbacks.

## ByobDispatcher

**State.** `known` and `request_metadatas` are the table
`code_token_to_request_metadatas_`. `in_flight` is
`acceptor_threads_in_flight_`. A pointer to a `RequestMetadata` is the acceptor
on whose stack it lies; `ready` and `handler` are its members. Each LoadBinary,
Delete and ProcessRequest call has a program counter. The runner and its workers
are external: pools appear, workers connect, send their token and ready byte,
answer or die.

**Actions.** One action per critical section of `mu_`, per blocking system call,
and per write through a `RequestMetadata` pointer outside the lock
(`SendRequest`, `NotifyReady`). `WorkerTimeout` is the expiry of the wait for
the first worker. `OrphanPools` says whether a pool can outlive a failed RPC.

**Runs.**

* `byob_pool`: one token, two workers, two requests, one accept error. Two
  acceptors and two requests are the least that can share or lose a record.
* `byob_tokens`: two tokens with one worker each. Connections can reach
  acceptors of the other token, also while a token is deleted.
* `byob_liveness`: the contract with liveness, LoadBinary returns unless the
  runner does not answer it, the destructor terminates.
* `byob_abandoned` (violation): see Findings. It needs a pool that outlives a
  failed RPC, which `WorkerRunner` shows to happen.

**Fairness.** Weak fairness of each call under way, each acceptor, the
destructor, and each live worker's next write. The threads are OS threads that
never wait for one another except as modelled. That a live worker writes its
answer is an assumption on user code: a UDF that hangs does block the destructor.
No fairness forces calls, connections, deaths or accept errors. No RPC need
return either: the calls of the runner have no deadline, and its Delete can wait
for ever (see `WorkerRunner`). `LoadReturns` is therefore about the dispatcher's
own part: the wait for the first worker and the Delete after a timeout.

**Proofs.** The theorems hold for any sets and any `NumWorkers`. They use only
the module's assumptions: acceptors are finite, `NULL` is no element, every load
asks for at least one worker. None of the properties is inductive alone, so the
invariant is built in layers, each proved relative to the ones before. The first
four are in `ByobPointerProofs`, the others in `ByobRequestProofs`.

1. `TypeLayer`: types, an acceptor has a descriptor exactly between accept and
   close, and `in_flight` counts the running threads.
2. `PointerLayer`: a record is used only while its acceptor sleeps, tokens
   outside the table have empty queues, and pointers are valid and unique. The
   argument needs both at once: a pop keeps validity because no other pointer
   leads to the same acceptor.
3. `FdOwnership`: one closer per open descriptor.
4. `CallLayer`: a token under load stays in the table, the destructor is alone,
   and when it returns nothing is left.
5. `CallbackLayer`: an installed handler belongs to one acceptor and one request.
6. `TokenLayer`: what a pointer leads to is a connection of the right token.
7. `AbandonLayer`: a sleeping acceptor is reachable, when no pool is orphaned.

From these follow `TypeCorrect`, `InFlightCounted`, `PointersAlwaysValid`,
`PointersAlwaysUnique`, `FdsAlwaysOwned`, `CallbacksAlwaysOwned`,
`ResponsesFromOwnBinary`, `AwaitedTokensKnown`, `ShutdownAlwaysClean`,
`NeverAbandoned` and `ContractKept` (the step simulation of `RequestContract`).
All liveness is only model-checked.

## WorkerRunner

The other side of the BYOB protocol: the process in the container. A token has a
pool of *reloaders*; each makes a process group, sets up its pivot root, and
starts one worker after the other.

**State.** `known`, `metadatas` and the directories are the members of
`WorkerRunner`. `reloader` and `worker` are the processes. `kpc`, `victim` and
`todo` are the loop of Delete and of the destructor, which hold `mu_`. `early`
is history: the reloaders that killpg did not find. So is `leftover`: the
directories whose clone or whose removal failed.

**Actions.** Each clone, setpgid, killpg, waitpid and removal is a step, since
the processes run while the runner is between two system calls. The sandbox a
worker enters is part of the one step that starts its binary.

**Run.** `runner` has a pool of two and a pool of one: two reloaders are the
least for a clone that fails after another has worked, two tokens the least for
a Delete that must leave another pool alone. `MaxDeaths` is 1: a worker
ends once in each behaviour, at any point, and is replaced. Creating a directory,
clone and removals may fail each time. The run may stop: nothing is owed once the
destructor has returned.

**Fairness.** Loads, reloaders and the loop of Delete go on. Binaries need not
end, and clone and fork need not fail.

**Proof.** `NoProcessEscapes` and `NothingLeftBehind`, for any tokens and pool
sizes. Neither is inductive. The invariant adds that every cloned process is
accounted for (in the table, about to be, dead, or early), where Delete is in
its loop, and that what the loop has passed is gone, but for what `early` and
`leftover` name.

## V8Dispatcher

**State.** The queues and `params` have the code's names. `status` follows each
LoadCodeObj or Execute call; `counter` is the shared counter of a load. `cpc`,
`item`, `result` and `todo` are the locals of a consumer. `code` and `alive`
describe the sandbox. `metadata` is the set of stored entries and `cancelled` is
`canceled_requests_`. `entitled` is history for `LoadedBeforeRun`.

**Actions.** A section under `mu_` is one action. A run in the sandbox is one
step that returns, fails or crashes. A crash restarts the sandbox without code;
if the restart succeeds the consumer copies `params` and reloads in order until
one fails. Cancel is one step: what its first half, PreventCallbacks, inserts is
read by native functions only, and those are in `NativeFunctionHandler`. Stop is
called when no other call is under way.

**Abstractions.** Each version is loaded once. Native calls are left out. A
sandbox left by a failed restart fails its requests or is restarted; the code
then follows a dangling pointer, and a crash of the whole process is left out.
Callbacks do not call the service. `skip_callback_for_cancelled` is on, as by
default.

**Runs.** `MaxCrashes` is 1.

* `v8_safety`: two workers, two versions that compile and two requests.
  `MaxPending` is 2, so both requests can be queued while a worker reloads; a
  full queue is left to the other run.
  `ReloadMayCrash` is off: a second crash during a reload does leave a worker
  without code.
* `v8_liveness`: a version that does not compile, calls that are refused, and
  crashes during reloads. `MaxPending` is 1, so a full queue is reached with two
  calls. `CalledBackOnce` is the safety of `RequestContract`.
  Its liveness does not hold as it stands, because Stop may drop requests, so
  `AllReported` and `StopTerminates` say what does.

**Fairness.** Calls, consumers and the destructor go on. A run ends, because the
watchdog terminates JavaScript that takes too long.

**Proof.** `OneOwnerAlways`, `ContractKept` and `LoadedBeforeRunAlways`, for any
number of workers, versions, requests and crashes. `HoldInv` says when a
consumer holds an item, and `OwnInv` where an accepted request is: in the queue
once, or with one consumer. Uniqueness and presence support one another: Cancel
may answer what it finds in the queue because no consumer has it. `LoadInv` says
the same of loads, which many workers share: `counter` tells the first that
finishes. From these every step is a step of `RequestContract`.
`LoadedBeforeRunAlways` needs `CodeAssumption`: all code compiles, and no sandbox
crashes while it is reloaded. Without it the code really does leave a worker
without a version (see Observations). The invariant `CodeInv` says that accepted
code is in the sandbox of a live worker or on its way there: queued, being
loaded, or to be copied or reloaded after a crash. A worker takes its loads
before any request, so nothing is on its way when a request starts.

## NativeFunctionHandler

What happens while a worker of `V8Dispatcher` runs an invocation: the sandbox,
the handler thread of its worker, the socket pair between them, the map of
metadata and the end of a request. The cancellation option and metadata storage
are on.

**State.** `to_host` and `to_sandbox` are the socket pair. `key_value_map`,
`mutex_map` and `row` are `ThreadSafeMap`, with `map_mutex` for its
`mutex_map_mutex_`. `hpc` and `hcall` are a handler thread. `undefined` holds
handlers that used a mutex after it was erased: what they do next is undefined
behaviour, so they are not followed any further. `crashed` is history: workers
on which a sandbox has died.

**Runs.** Two workers, two requests, two calls each, one crash.

* `native`: all of it. `MetadataFreed` covers every way a request ends, refused,
  cancelled or run, except in the queue at Stop. The runs may stop when the
  service has stopped.
* `native_stale` (violation): see Findings. One worker is enough.

**Fairness.** Handlers, Delete, Stop and the reader of a reply go on. Sandboxes
need not make calls, return or die.

**Proof.** `MetadataAlwaysPinned` and `RepliesAlwaysInStep`, for any number of
workers, requests, calls and crashes. On a worker without a crash the invariant
says where the one outstanding call is: on its way, in hand, or answered. From
that a handler with a call in hand works for a request that still runs, so its
metadata is in the map and Delete has not begun. A second layer says that a row
is locked exactly by the handler that reads it.

## PrivateKeyClient

One ListPrivateKeys call. Every access to an atomic and every section under a
mutex is a step. Inserting a key id is joined to the next call of its callback.
Keys are abstracted to the kinds the code tells apart. The fetcher (`Answers`)
and the KMS clients (`KmsOutcomes`) answer late, early, or early with an error.

The callback that concludes collects the keys. If callbacks do not race none is
left then, and `Collect` is one step. If they race, `CollectRacing` looks at one
endpoint's table per step, while others store. The set of key ids is read without
its mutex: the loop sees it before or after an insert, or its iterator is stale
and the process dies (`IteratorInvalidated`). With a logger installed the process
also dies when a mismatch is logged by a callback that has no key.

**Run.** `keys_list` starts in one of six scenarios: by age with and without a
logger, by two key ids, by one key id with keys of every kind, and two in which
callbacks race. Two endpoints and two keys are enough for a key that one endpoint
lacks. When callbacks race only `SuccessSound` and the answer itself are claimed;
see Observations.

**Fairness.** Some enabled step is taken: the fetcher and the KMS client call
every callback they were given.

**Proof.** For any number of endpoints and any finite set of key ids. For
`ResponsesSound`, which holds even if callbacks race, the invariant follows a key
from the answer it came with, through the hands of the callback, to the stored
result and the splits that a racing loop has picked up. Answers are never taken
back, so a key that could once be put together always can.

`FinishesOnce`, `ResponsesComplete` and `FailuresJustified` hold unless callbacks
race, and rest on one inductive invariant, `CallInv`:

* `CountInv`: `finished` and the splits still outstanding never exceed `total`.
  A split that is given up makes the sum smaller for good (`Deficit`), and then
  the counters never meet. Otherwise what was counted was also stored.
* `SeqInv`: what a callback has read of the counters is still true when it acts
  on it. This is the part that races break.
* `RecordInv`: each stored result is that of the answer it came from.
* `OnceInv`: after the keys are collected no callback is left, and after a
  failure the counters cannot meet.

So the callback that collects runs when every fetch has returned and every split
is stored. A response then holds what the answers add up to, and a failure at
that point has a cause.

## HttpConnectionPool

The pool for one host. A call is one attempt of `PerformRequest`. Attempts go on
while the pool is stopped, because retries are scheduled on the executor.

**State.** `connections` is the entry that the map has for the host; an entry that
was erased lives on with the threads that found it. `pc` is where the caller's
thread is in GetConnection, Recycle and Execute. Each connection has `is_ready_`,
`is_dropped_`, its pending calls, a session, and an `io_service` with a queue of
posted handlers and one thread. Three variables record what the properties except:

* `raced`: calls that Execute inserted when the connection it had found ready was
  no longer so;
* `reopened`: connections that were recycled after Stop had told them to stop;
* `crashed`: the process died. Stop, Reset, Init and Run of a connection share no
  lock, so threads that meet there may crash it. So does a send without a session,
  after an Init that failed while recycling, and the destruction of a thread that
  nobody joined.

**Actions.** Creating the connections of an entry, one by one, and taking the
entry back when one cannot be created. Recycling: lock, stop, join, restart.
Execute: test, insert, post. One action per handler of an `io_service`. Stop:
find the entry, stop and join each of its connections, erase the entry.

**Run.** `http`: two calls, pools of one and of two connections, one error of a
session. At most two connections are created in all, so a pool of one may be
erased by Stop and created again. Two threads can find the same connection
dropped, or one executes or recycles while the other's call is pending. One
branch needs three connections and is not reached: unwinding past the first. The
run may stop when the pool has.

**Fairness.** Threads and handlers go on, a session connects or fails, and a
session that is up closes a stream or gets an error. The read timeout of the
session justifies the last. A session that is down owes nothing. Nobody has to
call or stop.

**What holds of Stop.** It leaves no thread and no waiting context on the
connections it found, except on `reopened` ones and for `raced` calls. It ends
unless it joins a thread that a recycler made behind it. Both exceptions happen
in the model; see Observations.

**Proof.** `ContextsFinishedOnce`, `ConnectionsRecycledOnce` and
`StopAlwaysAnswersAll`, for any number of calls, pool sizes, entries and errors.
The key of a pending call is what entitles a thread to finish it, and it is erased
first. The lock orders the recyclers, and `drops` counts what they may use up.
`StopInv` is about the connections Stop has passed: unless reopened, they have no
thread and hold only raced calls. A call that is inserted there later is raced,
since no thread runs the connection.

## AsyncExecutor and OperationDispatcher

`AsyncExecutor` is the priority executor: one thread that sleeps until its first
task is due. `OperationDispatcher` puts retries on top of it and is the module
that is run; its retries and some plain tasks share the executor.

**State.** `queue`, `when` and `is_cancelled` are the tasks. `wpc`, `top` and
the timestamp it read are the thread. `op`, `retry_count` and `expiration_time`
follow each context. Time is a counter up to `MaxTime`, after which it stands
still.

**Run.** `executor`: one operation and two plain tasks, room for two, an
exponential delay of 1 and 2, time up to 2, two calls in total. A full queue, an
expiry at the moment of a retry, and a task scheduled before the one slept for
are all reached. The run may stop when every task is done.

**Fairness.** Time passes, the thread goes on, and the target of an operation
answers.

`RetriesInTime` is an action property: when the target is called again, the
back-off has passed since the time the dispatcher had read (`asked`, history),
and the retry was due before the operation expired.

**Proof.** `RetriesAlwaysInTime`, `CancelledTasksNeverRun`, `AlwaysOnePlace` and
`NeverLostWakeup`, for any operations, strategies and queue sizes.
`BackOffAssumption` says that the delays
are natural numbers: powers are defined by recursion, which the provers cannot
unfold. The invariant ties each retry in the queue to its operation and count.
`PlaceInv` adds that the retry an operation waits for is not lost. `WakeInv` is
about the thread: unless it was told to look again, no live task is due before
the timestamp it noted, and it does not mean to sleep longer than until then.

## What is proved and what is only checked

Every proof uses only the named assumptions of its model: finite sets where a
count needs them, `NULL` outside the sets, bounds that are natural numbers.

`TypeOK` in each module says what its variables may hold. It is proved for
`ByobDispatcher` and `WorkerRunner` (`TypeCorrect`), where the proofs build on
it. The other proof modules state the part they need as `Types`. It holds on the
instances of the other runs too, but is not among their properties.

Only model-checked: all liveness, which is outside the prover's reach, with the
liveness half of the refinements. Every safety property of a passing run is also
proved, `LoadedBeforeRun` under `CodeAssumption`, which its run satisfies. Only
proved: `InFlightCount`, `PointersUnique` and `AwaitedTokenKnown` of
`ByobDispatcher`.

A leaf of a proof names the prover where that matters: `Zenon` where logic and
sets suffice, the SMT solver by default.

## Findings

Each is the counterexample of a run; `PROJECT.json` quotes the lines.

* `byob_abandoned`: a failed load RPC erases a queue that holds a sleeping
  acceptor, and the destructor waits for it for ever.
* `native_stale`: a sandbox that replaces a dead one reads the reply to the dead
  one's native call, and every later reply on that worker is one call late.

## Observations

These came up while modelling. A property exempts them or a model leaves them
out, as said; none has a run of its own.

Worker runner:

* killpg can run before the reloader has made its group. It then fails. The
  reloader lives on, or waitpid waits for it for ever with `mu_` held. The
  properties exempt these reloaders (`early`).
* A clone that fails midway leaves the reloaders before it running. The host
  never learns of their token, so only the destructor finds them. The directory
  that was made for the failed clone is in no table and is never removed
  (`leftover`).
* Cancel finds no process between fork and exec.

V8 service and native functions:

* After a crash the reload stops at the first code object that fails, so later
  versions are missing on that worker.
* Requests that are still queued when the service stops are dropped: they are not
  called back and keep their metadata.
* Cancel runs the callback of a queued request with `mu_` held.
* A restart that fails leaves a dangling pointer to the sandbox.
* Only the first native call after a cancellation is refused. The token of a
  request cancelled in the queue is kept for ever.
* Delete keeps the mutex of the map while it waits for a row, so one slow native
  function holds up all others.

Private keys:

* A racing callback can collect before all splits are counted, and two of them
  can both finish the context. A KMS error that comes early finishes it twice.
* The loop that collects reads `key_id_set` without `set_mutex`.
* With a logger installed, a null key is dereferenced to log a mismatch.
* Listing by age succeeds without keys if every fetch fails.
* Outside the model: the key fetcher expires keys even if the refresh failed.

HTTP client:

* A call that Execute inserts after its connection got an error or was told to
  stop may wait for ever: the others have been cancelled, and the session that is
  down, or the `io_service` that was replaced, may keep it (`raced`).
* A thread can recycle a connection that Stop has told to stop. Nobody stops the
  thread it starts: Stop waits for it, or it outlives the pool (`reopened`).
* Stop and a recycler join the same thread without a lock that they share. One
  throws, or the process dies (`StopFails`, `Clash`).
* Stop can find an entry whose connections are still being created.
* An Init that fails while recycling is ignored; the next send then uses a null
  session.
* One bad URI fails the submission and drops the connection for all its calls.
* A retry after Stop creates the pool's entry again.
* Left out: an exception out of `io_service::run` leaves calls pending;
  `http2_client.cc:55` captures `timeout` by reference.

Executors:

* A full queue uses up the retries of an operation at once, without a delay.
* `retry_strategy.h:50` and `:69` speak of the maximum number of retries; the code
  counts calls, so there is one retry less.
* Cancel of a task returns true after the task has run.
* The destructor waits for tasks that are due in the future.

## Not modelled

The models cover the components in which several threads, processes or callbacks
share state. They map about 2,800 lines, a small part of the repository. Most of
its lines are sample programs (two tables of numbers alone are 220,000 lines),
tests, benchmarks, adapters to cloud SDKs, conversions between messages, and
declarations. A model of those would restate them.

`components` in `PROJECT.json` gives the reason for each part. In short:

* cloud providers (blob storage, queue, instance, parameter, credentials,
  tokens): chains of single calls to external services;
* curl, gRPC and the completion-queue server, oneTBB containers, V8,
  OpenTelemetry: external, with thin code around them;
* wasm and type conversion, framing, compression, cryptography, SOCKS5 parsing:
  functions over bytes, where a small instance shows little;
* streaming contexts, metric client, key fetchers, public key client: one mutex
  or atomic each, which a unit test reaches;
* loggers, tools, samples, and the variants without a sandbox used in tests.

`ByobDispatcher` and `WorkerRunner` are not composed. Each has the other as a
nondeterministic environment that allows at least what the other does; the
product is beyond TLC.

---------------------------- MODULE V8Dispatcher ----------------------------
(***************************************************************************)
(* Roma's V8 service: RomaService with its metadata storage, the dispatcher *)
(* that queues code to load and invocations to run, one consumer thread    *)
(* and one sandboxed worker per queue.  A section under mu_ is one step;   *)
(* the execution of a request in the sandbox is one step with the outcomes *)
(* WorkerWrapper::RunCode distinguishes.  The native function handler has  *)
(* a module of its own.                                                    *)
(***************************************************************************)
EXTENDS Naturals, Sequences, FiniteSets

CONSTANTS
  Worker, Version, Request,
  BadVersion,      \* code that the JS engine cannot compile
  Invalid,         \* calls whose argument the validators refuse
  MaxPending,      \* max_pending_requests_
  MaxCrashes,      \* bound on crashes of a sandbox while it is running code
  ReloadMayCrash,  \* some of them may happen while code is reloaded
  RestartMayFail,  \* WorkerWrapper::Init or Run may fail after a crash
  NULL

Item == Version \cup Request

ASSUME SetAssumption == /\ BadVersion \subseteq Version /\ Invalid \subseteq Item
                        /\ Version \cap Request = {}
ASSUME BoundAssumption == /\ MaxPending \in Nat /\ MaxCrashes \in Nat
                          /\ ReloadMayCrash \in BOOLEAN
                          /\ RestartMayFail \in BOOLEAN
ASSUME NullAssumption == NULL \notin Item \cup {"ok", "error"}

VARIABLES
  status,        \* [Item -> state of the LoadCodeObj or Execute call]
  calls,         \* [Item -> how often the user's callback has run]
  load_result,   \* [Version -> what that callback was told]
  counter,       \* [Version -> callbacks of the load that have run]
  version,       \* [Request -> version it invokes]
  entitled,      \* requests submitted after their version's load was reported
  per_worker_requests, requests, params,
  cpc,           \* [Worker -> state of its consumer]
  item,          \* [Worker -> request the consumer holds]
  result,        \* [Worker -> outcome of RunCode]
  todo,          \* [Worker -> code still to be reloaded]
  code,          \* [Worker -> versions the sandbox has compiled]
  alive,         \* workers whose last (re)start of the sandbox succeeded
  metadata,      \* requests with an entry in metadata_storage_
  cancelled,     \* requests the user has cancelled
  kill_consumers, dtor,
  crashes

queue_vars == <<per_worker_requests, requests, params>>
load_vars == <<load_result, counter>>
invoke_vars == <<version, entitled, metadata>>
consumer_vars == <<cpc, item, result, todo>>
sandbox_vars == <<code, alive, crashes>>
dtor_vars == <<kill_consumers, dtor>>
vars == <<status, calls, queue_vars, load_vars, invoke_vars, cancelled,
          consumer_vars, sandbox_vars, dtor_vars>>

Init ==
  /\ status = [x \in Item |-> "idle"] /\ calls = [x \in Item |-> 0]
  /\ load_result = [v \in Version |-> NULL] /\ counter = [v \in Version |-> 0]
  /\ version = [r \in Request |-> NULL] /\ entitled = {}
  /\ per_worker_requests = [w \in Worker |-> <<>>]
  /\ requests = <<>> /\ params = <<>>
  /\ cpc = [w \in Worker |-> "wait"] /\ item = [w \in Worker |-> NULL]
  /\ result = [w \in Worker |-> NULL] /\ todo = [w \in Worker |-> <<>>]
  /\ code = [w \in Worker |-> {}] /\ alive = Worker
  /\ metadata = {} /\ cancelled = {}
  /\ kill_consumers = FALSE /\ dtor = "no" /\ crashes = 0

-----------------------------------------------------------------------------
(* RomaService and the entry points of the dispatcher *)

LoadCodeObj(v) ==
  /\ dtor = "no" /\ status[v] = "idle"
  /\ status' = [status EXCEPT ![v] = "pending"]
  /\ UNCHANGED <<calls, queue_vars, load_vars, invoke_vars, cancelled,
                 consumer_vars, sandbox_vars, dtor_vars>>

\* No version string, or AssertRequestIsValid finds the code object invalid.
LoadRefused(v) ==
  /\ status[v] = "pending" /\ v \in Invalid
  /\ status' = [status EXCEPT ![v] = "refused"]
  /\ UNCHANGED <<calls, queue_vars, load_vars, invoke_vars, cancelled,
                 consumer_vars, sandbox_vars, dtor_vars>>

\* The code is queued for every worker, and kept for workers that crash.
Load(v) ==
  /\ status[v] = "pending" /\ v \notin Invalid
  /\ status' = [status EXCEPT ![v] = "accepted"]
  /\ per_worker_requests' =
       [w \in Worker |-> Append(per_worker_requests[w], v)]
  /\ params' = Append(params, v)
  /\ UNCHANGED <<calls, requests, load_vars, invoke_vars, cancelled,
                 consumer_vars, sandbox_vars, dtor_vars>>

\* ExecuteInternal stores the metadata before it calls Invoke.
Execute(r, v) ==
  /\ dtor = "no" /\ status[r] = "idle"
  /\ status' = [status EXCEPT ![r] = "pending"]
  /\ version' = [version EXCEPT ![r] = v]
  /\ entitled' = entitled \cup (IF load_result[v] = "ok" THEN {r} ELSE {})
  /\ metadata' = metadata \cup {r}
  /\ UNCHANGED <<calls, queue_vars, load_vars, cancelled, consumer_vars,
                 sandbox_vars, dtor_vars>>

Invoke(r) ==
  /\ status[r] = "pending" /\ r \notin Invalid
  /\ Len(requests) # MaxPending
  /\ status' = [status EXCEPT ![r] = "accepted"]
  /\ requests' = Append(requests, r)
  /\ UNCHANGED <<calls, per_worker_requests, params, load_vars, invoke_vars,
                 cancelled, consumer_vars, sandbox_vars, dtor_vars>>

\* The scoped token, never released, deletes the metadata.
InvokeRefused(r) ==
  /\ status[r] = "pending"
  /\ r \in Invalid \/ Len(requests) = MaxPending
  /\ status' = [status EXCEPT ![r] = "refused"]
  /\ metadata' = metadata \ {r}
  /\ UNCHANGED <<calls, queue_vars, load_vars, version, entitled, cancelled,
                 consumer_vars, sandbox_vars, dtor_vars>>

\* The invocation is queued, and where.
Waiting(r) == \E i \in DOMAIN requests : requests[i] = r
Position(r) == CHOOSE i \in DOMAIN requests : requests[i] = r

\* Cancel needs the token Execute returned; the request may be over by now.
\* A request that is still queued is taken out and called back under mu_.  Its
\* uuid is in the queue once, and the loop keeps the order of the others.
Uncancelled_Popped(r) == <<>>
Uncancelled(r) ==
  IF Waiting(r)
  THEN SubSeq(requests, 1, Position(r) - 1)
         \o SubSeq(requests, Position(r) + 1, Len(requests))
  ELSE requests

Cancel(r) ==
  /\ dtor = "no" /\ r \notin cancelled
  /\ status[r] \in {"accepted", "answered"}
  /\ cancelled' = cancelled \cup {r}
  /\ requests' = Uncancelled(r)
  /\ IF Waiting(r)
     THEN /\ status' = [status EXCEPT ![r] = "answered"]
          /\ calls' = [calls EXCEPT ![r] = @ + 1]
          /\ metadata' = metadata \ {r}
     ELSE UNCHANGED <<status, calls, metadata>>
  /\ UNCHANGED <<per_worker_requests, params, load_vars, version, entitled,
                 consumer_vars, sandbox_vars, dtor_vars>>

-----------------------------------------------------------------------------
(* ConsumerImpl *)

Take_InvocationFirst(w) ==
  /\ cpc[w] = "wait" /\ ~kill_consumers
  /\ \/ /\ requests = <<>> /\ per_worker_requests[w] # <<>>
        /\ item' = [item EXCEPT ![w] = Head(per_worker_requests[w])]
        /\ per_worker_requests' = [per_worker_requests EXCEPT ![w] = Tail(@)]
        /\ UNCHANGED requests
     \/ /\ requests # <<>>
        /\ item' = [item EXCEPT ![w] = Head(requests)]
        /\ requests' = Tail(requests)
        /\ UNCHANGED per_worker_requests
  /\ cpc' = [cpc EXCEPT ![w] = "run"]
  /\ UNCHANGED <<status, calls, params, load_vars, invoke_vars, cancelled,
                 result, todo, sandbox_vars, dtor_vars>>

\* Loading goes before executing.
Take(w) ==
  /\ cpc[w] = "wait" /\ ~kill_consumers
  /\ \/ /\ per_worker_requests[w] # <<>>
        /\ item' = [item EXCEPT ![w] = Head(per_worker_requests[w])]
        /\ per_worker_requests' = [per_worker_requests EXCEPT ![w] = Tail(@)]
        /\ UNCHANGED requests
     \/ /\ per_worker_requests[w] = <<>> /\ requests # <<>>
        /\ item' = [item EXCEPT ![w] = Head(requests)]
        /\ requests' = Tail(requests)
        /\ UNCHANGED per_worker_requests
  /\ cpc' = [cpc EXCEPT ![w] = "run"]
  /\ UNCHANGED <<status, calls, params, load_vars, invoke_vars, cancelled,
                 result, todo, sandbox_vars, dtor_vars>>

ConsumerExits_Continue(w) ==
  cpc[w] = "wait" /\ kill_consumers /\ UNCHANGED vars
ConsumerExits(w) ==
  /\ cpc[w] = "wait" /\ kill_consumers
  /\ cpc' = [cpc EXCEPT ![w] = "exit"]
  /\ UNCHANGED <<status, calls, queue_vars, load_vars, invoke_vars, cancelled,
                 item, result, todo, sandbox_vars, dtor_vars>>

\* RunCode returned r without a crash.
Returns(w, r) ==
  /\ cpc[w] = "run"
  /\ cpc' = [cpc EXCEPT ![w] = "answer"]
  /\ result' = [result EXCEPT ![w] = r]
  /\ UNCHANGED <<status, calls, queue_vars, load_vars, invoke_vars, cancelled,
                 item, todo, alive, crashes, dtor_vars>>

CodeLoaded(w) ==
  /\ Returns(w, "ok") /\ w \in alive /\ item[w] \in Version \ BadVersion
  /\ code' = [code EXCEPT ![w] = @ \cup {item[w]}]

CodeRun(w) ==
  /\ Returns(w, "ok") /\ w \in alive
  /\ item[w] \in Request /\ version[item[w]] \in code[w]
  /\ UNCHANGED code

\* The code does not compile, is not loaded, or throws; or the sandbox is one
\* that a failed restart left behind.
RunFails(w) ==
  /\ Returns(w, "error")
  /\ item[w] \in BadVersion \cup Request \/ w \notin alive
  /\ UNCHANGED code

\* The sandbox dies, or was dead, and is started again without any code.
Restart(w) ==
  /\ w \in alive => crashes < MaxCrashes
  /\ crashes' = IF w \in alive THEN crashes + 1 ELSE crashes
  /\ code' = [code EXCEPT ![w] = {}]
  /\ alive' \in {alive \cup {w}} \cup
                (IF RestartMayFail THEN {alive \ {w}} ELSE {})

\* Only a restart that succeeded returns kRetry and has the code reloaded.
RunCrashes(w) ==
  /\ cpc[w] = "run" /\ Restart(w)
  /\ cpc' = [cpc EXCEPT ![w] = IF w \in alive' THEN "copy" ELSE "answer"]
  /\ result' = [result EXCEPT ![w] = "error"]
  /\ UNCHANGED <<status, calls, queue_vars, load_vars, invoke_vars, cancelled,
                 item, todo, dtor_vars>>

CopyParams(w) ==
  /\ cpc[w] = "copy"
  /\ todo' = [todo EXCEPT ![w] = params]
  /\ cpc' = [cpc EXCEPT ![w] = "reload"]
  /\ UNCHANGED <<status, calls, queue_vars, load_vars, invoke_vars, cancelled,
                 item, result, sandbox_vars, dtor_vars>>

Reload(w) ==
  /\ cpc[w] = "reload" /\ todo[w] # <<>> /\ Head(todo[w]) \notin BadVersion
  /\ code' = [code EXCEPT ![w] = @ \cup {Head(todo[w])}]
  /\ todo' = [todo EXCEPT ![w] = Tail(@)]
  /\ UNCHANGED <<status, calls, queue_vars, load_vars, invoke_vars, cancelled,
                 cpc, item, result, alive, crashes, dtor_vars>>

\* All code is loaded, or the first that fails ends the loop.
ReloadEnds(w) ==
  /\ cpc[w] = "reload"
  /\ \/ /\ todo[w] # <<>> => Head(todo[w]) \in BadVersion
        /\ UNCHANGED sandbox_vars
     \/ todo[w] # <<>> /\ ReloadMayCrash /\ Restart(w)
  /\ todo' = [todo EXCEPT ![w] = <<>>]
  /\ cpc' = [cpc EXCEPT ![w] = "answer"]
  /\ UNCHANGED <<status, calls, queue_vars, load_vars, invoke_vars, cancelled,
                 item, result, dtor_vars>>

First_Always(v) == TRUE
\* A load calls the user back for the first worker that is done with it.
First(v) == counter[v] = 0

AnswerLoad(w) ==
  LET v == item[w]
  IN  /\ cpc[w] = "answer" /\ v \in Version
      /\ counter' = [counter EXCEPT ![v] = @ + 1]
      /\ IF First(v)
         THEN /\ status' = [status EXCEPT ![v] = "answered"]
              /\ calls' = [calls EXCEPT ![v] = @ + 1]
              /\ load_result' = [load_result EXCEPT ![v] = result[w]]
         ELSE UNCHANGED <<status, calls, load_result>>
      /\ item' = [item EXCEPT ![w] = NULL]
      /\ cpc' = [cpc EXCEPT ![w] = "wait"]
      /\ UNCHANGED <<queue_vars, invoke_vars, cancelled, result, todo,
                     sandbox_vars, dtor_vars>>

AnswerInvoke(w) ==
  LET r == item[w]
  IN  /\ cpc[w] = "answer" /\ r \in Request
      /\ status' = [status EXCEPT ![r] = "answered"]
      /\ calls' = [calls EXCEPT ![r] = @ + 1]
      /\ cpc' = [cpc EXCEPT ![w] = "cleanup"]
      /\ UNCHANGED <<queue_vars, load_vars, invoke_vars, cancelled, item,
                     result, todo, sandbox_vars, dtor_vars>>

\* The wrapper of the user's callback deletes the metadata after it.
DeleteMetadata(w) ==
  /\ cpc[w] = "cleanup"
  /\ metadata' = metadata \ {item[w]}
  /\ item' = [item EXCEPT ![w] = NULL]
  /\ cpc' = [cpc EXCEPT ![w] = "wait"]
  /\ UNCHANGED <<status, calls, queue_vars, load_vars, version, entitled,
                 cancelled, result, todo, sandbox_vars, dtor_vars>>

-----------------------------------------------------------------------------
(* ~Dispatcher, called by Stop when no other call is under way *)

Stop ==
  /\ dtor = "no"
  /\ \A x \in Item : status[x] # "pending"
  /\ dtor' = "await"
  /\ UNCHANGED <<status, calls, queue_vars, load_vars, invoke_vars, cancelled,
                 consumer_vars, sandbox_vars, kill_consumers>>

Drained_Always == TRUE
Drained == \A w \in Worker : per_worker_requests[w] = <<>>

\* Invocations that are still queued are dropped without a callback.
KillConsumers ==
  /\ dtor = "await" /\ Drained
  /\ requests' = <<>> /\ kill_consumers' = TRUE /\ dtor' = "join"
  /\ status' = [x \in Item |-> IF Waiting(x) THEN "dropped" ELSE status[x]]
  /\ UNCHANGED <<calls, per_worker_requests, params, load_vars, invoke_vars,
                 cancelled, consumer_vars, sandbox_vars>>

Join ==
  /\ dtor = "join" /\ \A w \in Worker : cpc[w] = "exit"
  /\ dtor' = "done"
  /\ UNCHANGED <<status, calls, queue_vars, load_vars, invoke_vars, cancelled,
                 consumer_vars, sandbox_vars, kill_consumers>>

-----------------------------------------------------------------------------

Call(x) ==
  \/ x \in Version /\ (LoadRefused(x) \/ Load(x))
  \/ x \in Request /\ (Invoke(x) \/ InvokeRefused(x))

Consume(w) ==
  \/ Take(w) \/ ConsumerExits(w) \/ CodeLoaded(w) \/ CodeRun(w) \/ RunFails(w)
  \/ RunCrashes(w) \/ CopyParams(w) \/ Reload(w) \/ ReloadEnds(w)
  \/ AnswerLoad(w) \/ AnswerInvoke(w) \/ DeleteMetadata(w)

Next ==
  \/ \E v \in Version : LoadCodeObj(v)
  \/ \E r \in Request, v \in Version : Execute(r, v)
  \/ \E r \in Request : Cancel(r)
  \/ \E x \in Item : Call(x)
  \/ \E w \in Worker : Consume(w)
  \/ Stop \/ KillConsumers \/ Join
  \/ dtor = "done" /\ UNCHANGED vars

Spec == Init /\ [][Next]_vars

\* Calls return, consumers and the destructor go on, and code that runs in a
\* sandbox ends: the JS engine's watchdog stops it when its time is up.
FairSpec ==
  /\ Spec
  /\ \A x \in Item : WF_vars(Call(x))
  /\ \A w \in Worker : WF_vars(Consume(w))
  /\ WF_vars(KillConsumers) /\ WF_vars(Join)

-----------------------------------------------------------------------------
(* Properties *)

ItemStatus == {"idle", "pending", "refused", "accepted", "answered", "dropped"}

\* The variables have the types the code declares, and the queue of invocations
\* stays within its limit.
TypeOK ==
  /\ status \in [Item -> ItemStatus] /\ calls \in [Item -> Nat]
  /\ load_result \in [Version -> {NULL, "ok", "error"}]
  /\ counter \in [Version -> 0..Cardinality(Worker)]
  /\ version \in [Request -> Version \cup {NULL}] /\ entitled \subseteq Request
  /\ per_worker_requests \in [Worker -> Seq(Version)]
  /\ requests \in Seq(Request) /\ Len(requests) <= MaxPending
  /\ params \in Seq(Version)
  /\ cpc \in [Worker -> {"wait", "run", "copy", "reload", "answer", "cleanup",
                         "exit"}]
  /\ item \in [Worker -> Item \cup {NULL}]
  /\ result \in [Worker -> {NULL, "ok", "error"}]
  /\ todo \in [Worker -> Seq(Version)]
  /\ code \in [Worker -> SUBSET Version] /\ alive \subseteq Worker
  /\ metadata \subseteq Request /\ cancelled \subseteq Request
  /\ kill_consumers \in BOOLEAN /\ dtor \in {"no", "await", "join", "done"}
  /\ crashes \in 0..MaxCrashes

Contract == INSTANCE RequestContract
  WITH Request <- Item,
       status <- [x \in Item |-> IF status[x] = "dropped" THEN "accepted"
                                                          ELSE status[x]]

\* A call that is refused is never called back, one that is accepted at most
\* once: by the first worker that is done with a load, by the consumer of an
\* invocation or by Cancel.
CalledBackOnce == Contract!SafetySpec

Places(r) == {<<"queue", i>> : i \in {j \in DOMAIN requests : requests[j] = r}}
             \cup {<<"worker", w>> : w \in {u \in Worker : item[u] = r}}

\* An accepted invocation is in exactly one place, queued or with a consumer,
\* until it is called back: Cancel and the consumers never lose or copy it.
OneOwner ==
  \A r \in Request : status[r] = "accepted" => Cardinality(Places(r)) = 1

\* Once the load of a version is reported as successful, no worker runs an
\* invocation of it without having compiled it, although the report comes from
\* the first worker alone and workers crash.
LoadedBeforeRun ==
  \A w \in Worker :
    cpc[w] = "run" /\ item[w] \in entitled /\ w \in alive =>
      version[item[w]] \in code[w]

\* Every load that was accepted is reported, even if the service is stopped
\* meanwhile, and every invocation unless the service is stopped.
AllReported ==
  /\ \A v \in Version : status[v] = "accepted" ~> status[v] = "answered"
  /\ \A r \in Request :
       status[r] = "accepted" ~> status[r] \in {"answered", "dropped"}

\* Stop comes to an end.
StopTerminates == dtor = "await" ~> dtor = "done"
=============================================================================

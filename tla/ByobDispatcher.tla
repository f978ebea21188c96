--------------------------- MODULE ByobDispatcher ---------------------------
(***************************************************************************)
(* The host side of Roma BYOB: src/roma/byob/dispatcher/dispatcher.{h,cc}. *)
(*                                                                         *)
(* LoadBinary asks the worker runner for a pool of worker processes and    *)
(* starts as many detached acceptor threads.  An acceptor accepts one      *)
(* connection of a worker, builds a RequestMetadata ON ITS OWN STACK,      *)
(* pushes a pointer to it on the queue of the connection's code token and  *)
(* sleeps on the Notification it holds.  ProcessRequest pops a pointer,    *)
(* writes the request and the handler through it and notifies.             *)
(*                                                                         *)
(* A pointer to a RequestMetadata is modelled by the acceptor whose stack  *)
(* it points to.  A critical section of mu_ is one action.  The runner and *)
(* its workers are external: they are what this side can observe of them.  *)
(***************************************************************************)
EXTENDS Integers, Sequences, FiniteSets

CONSTANTS
  Token,            \* code tokens; a UUID is drawn per load, so each is loaded once
  Acceptor,         \* acceptor threads that the run may start
  Conn,             \* file descriptors of accepted or pending connections
  Request,          \* calls of ProcessRequest
  NumWorkers,       \* num_workers of the load of each token
  MaxAcceptErrors,  \* how often accept() may fail while the socket listens
  OrphanPools,      \* can a worker pool outlive a failed load or delete RPC?
  NULL

ASSUME NumWorkersAssumption == NumWorkers \in [Token -> Nat \ {0}]
ASSUME BoundAssumption == MaxAcceptErrors \in Nat /\ OrphanPools \in BOOLEAN
ASSUME FiniteAssumption == IsFiniteSet(Acceptor)
ASSUME NullAssumption == NULL \notin Token \cup Acceptor \cup Conn \cup Request
ASSUME OutcomeAssumption == "unavailable" \notin Token

VARIABLES
  \* members of Dispatcher
  known,              \* the keys of code_token_to_request_metadatas_
  request_metadatas,  \* the queue of pointers of each key
  in_flight,          \* acceptor_threads_in_flight_
  listening,          \* listen_fd_ has not been shut down
  dtor,               \* where ~Dispatcher is
  accept_errors,      \* accept() failures so far
  \* locals of AcceptorImpl, per thread
  apc, parent, parent_deleted, fd, ready, handler,
  \* LoadBinary and Delete, per token, and the binaries in binary_dir_
  load, del, binary,
  \* ProcessRequest, per call, and how often its callback has run
  ppc, ptoken, pmeta, calls, outcome,
  \* external: the runner's pools, and each connection with its worker
  pool, sock, ctoken, progress, alive

table_vars == <<known, request_metadatas>>
acceptor_vars == <<apc, parent, parent_deleted, fd, ready, handler>>
load_vars == <<load, del, binary>>
request_vars == <<ppc, ptoken, pmeta, calls, outcome>>
worker_vars == <<sock, ctoken, progress, alive>>
dtor_vars == <<listening, dtor, accept_errors>>
vars == <<table_vars, in_flight, acceptor_vars, load_vars, request_vars,
          worker_vars, dtor_vars, pool>>

LoadPc == {"new", "rpc", "rpc_ok", "rpc_err", "await", "deleting",
           "done", "failed", "deleted"}
AcceptorPc == {"none", "accept", "read_tokens", "read_ready", "lock", "wait",
               "exit", "dead"}
RequestPc == {"idle", "wait", "send", "notify", "sent", "invalid", "deadline"}
Progress == {"connected", "identified", "ready", "busy", "responded"}

Queued(t) == {request_metadatas[t][i] : i \in 1..Len(request_metadatas[t])}
HoldsFd(a) == apc[a] \in {"read_tokens", "read_ready", "lock", "wait"}
Running(a) == apc[a] \notin {"none", "dead"}

Init ==
  /\ known = {}
  /\ request_metadatas = [t \in Token |-> <<>>]
  /\ in_flight = 0
  /\ listening = TRUE
  /\ dtor = "no"
  /\ accept_errors = 0
  /\ apc = [a \in Acceptor |-> "none"]
  /\ parent = [a \in Acceptor |-> NULL]
  /\ parent_deleted = [a \in Acceptor |-> FALSE]
  /\ fd = [a \in Acceptor |-> NULL]
  /\ ready = [a \in Acceptor |-> FALSE]
  /\ handler = [a \in Acceptor |-> NULL]
  /\ load = [t \in Token |-> "new"]
  /\ del = [t \in Token |-> "idle"]
  /\ binary = {}
  /\ ppc = [r \in Request |-> "idle"]
  /\ ptoken = [r \in Request |-> NULL]
  /\ pmeta = [r \in Request |-> NULL]
  /\ calls = [r \in Request |-> 0]
  /\ outcome = [r \in Request |-> NULL]
  /\ pool = {}
  /\ sock = [c \in Conn |-> "free"]
  /\ ctoken = [c \in Conn |-> NULL]
  /\ progress = [c \in Conn |-> "connected"]
  /\ alive = [c \in Conn |-> FALSE]

-----------------------------------------------------------------------------
(* LoadBinary and LoadBinaryForLogging *)

\* Invalid num_workers, unreadable or irregular file, failed copy or link.
LoadRejected(t) ==
  /\ dtor = "no" /\ load[t] = "new"
  /\ load' = [load EXCEPT ![t] = "failed"]
  /\ UNCHANGED <<table_vars, in_flight, acceptor_vars, del, binary,
                 request_vars, worker_vars, dtor_vars, pool>>

\* The binary is in place and the table has an empty queue for the new token.
InsertToken(t) ==
  /\ dtor = "no" /\ load[t] = "new"
  /\ binary' = binary \cup {t}
  /\ known' = known \cup {t}
  /\ request_metadatas' = [request_metadatas EXCEPT ![t] = <<>>]
  /\ load' = [load EXCEPT ![t] = "rpc"]
  /\ UNCHANGED <<in_flight, acceptor_vars, del, request_vars, worker_vars,
                 dtor_vars, pool>>

LoadBinary(t) == InsertToken(t)

\* The hard link needs the binary of the source token.
LoadBinaryForLogging(t, source) ==
  /\ load[source] \in {"done", "deleted"} /\ source \in binary
  /\ InsertToken(t)

\* The runner creates the pool; its workers may connect before the reply.
RunnerLoad(t) ==
  /\ load[t] = "rpc"
  /\ load' = [load EXCEPT ![t] = "rpc_ok"]
  /\ pool' = pool \cup {t}
  /\ UNCHANGED <<table_vars, in_flight, acceptor_vars, del, binary,
                 request_vars, worker_vars, dtor_vars>>

\* The call fails: before the runner did anything, or after a part of it.
RunnerLoadFails(t) ==
  /\ load[t] = "rpc"
  /\ load' = [load EXCEPT ![t] = "rpc_err"]
  /\ pool' = pool \/ (OrphanPools /\ pool' = pool \cup {t})
  /\ UNCHANGED <<table_vars, in_flight, acceptor_vars, del, binary,
                 request_vars, worker_vars, dtor_vars>>

LoadRpcFailed(t) ==
  /\ load[t] = "rpc_err"
  /\ known' = known \ {t}
  /\ request_metadatas' = [request_metadatas EXCEPT ![t] = <<>>]
  /\ load' = [load EXCEPT ![t] = "failed"]
  /\ UNCHANGED <<in_flight, acceptor_vars, del, binary, request_vars,
                 worker_vars, dtor_vars, pool>>

Spawned(t) == in_flight + NumWorkers[t]

\* acceptor_threads_in_flight_ is raised, then the threads are detached.
SpawnAcceptors(t) ==
  /\ load[t] = "rpc_ok"
  /\ \E S \in SUBSET {a \in Acceptor : apc[a] = "none"} :
       /\ Cardinality(S) = NumWorkers[t]
       /\ apc' = [a \in Acceptor |-> IF a \in S THEN "accept" ELSE apc[a]]
       /\ parent' = [a \in Acceptor |-> IF a \in S THEN t ELSE parent[a]]
  /\ in_flight' = Spawned(t)
  /\ load' = [load EXCEPT ![t] = "await"]
  /\ UNCHANGED <<table_vars, parent_deleted, fd, ready, handler, del, binary,
                 request_vars, worker_vars, dtor_vars, pool>>

\* AwaitWithTimeout on a non-empty queue: a worker is ready...
WorkerReady(t) ==
  /\ load[t] = "await" /\ request_metadatas[t] # <<>>
  /\ load' = [load EXCEPT ![t] = "done"]
  /\ UNCHANGED <<table_vars, in_flight, acceptor_vars, del, binary,
                 request_vars, worker_vars, dtor_vars, pool>>

\* ... or time is up, and LoadBinary calls Delete.
WorkerTimeout_Never(t) == FALSE
WorkerTimeout(t) ==
  /\ load[t] = "await" /\ request_metadatas[t] = <<>>
  /\ load' = [load EXCEPT ![t] = "deleting"]
  /\ del' = [del EXCEPT ![t] = "rpc"]
  /\ UNCHANGED <<table_vars, in_flight, acceptor_vars, binary, request_vars,
                 worker_vars, dtor_vars, pool>>

-----------------------------------------------------------------------------
(* Delete and Cancel *)

Delete(t) ==
  /\ dtor = "no" /\ load[t] \in {"done", "deleted"} /\ del[t] = "idle"
  /\ del' = [del EXCEPT ![t] = "rpc"]
  /\ UNCHANGED <<table_vars, in_flight, acceptor_vars, load, binary,
                 request_vars, worker_vars, dtor_vars, pool>>

\* The runner kills the pool and removes the binary.  The host ignores the
\* status of the call, which may have achieved nothing.
RunnerDelete(t) ==
  /\ del[t] = "rpc"
  /\ del' = [del EXCEPT ![t] = "lock"]
  /\ \/ /\ pool' = pool \ {t}
        /\ binary' = IF t \in pool THEN binary \ {t} ELSE binary
        /\ alive' = [c \in Conn |-> alive[c] /\ ctoken[c] # t]
     \/ OrphanPools /\ UNCHANGED <<pool, binary, alive>>
  /\ UNCHANGED <<table_vars, in_flight, acceptor_vars, load, request_vars,
                 sock, ctoken, progress, dtor_vars>>

\* Whom Delete notifies: everyone in the queue of the token it finds.
DeleteNotifies_Nobody(t) == {}
DeleteNotifies(t) == IF t \in known THEN Queued(t) ELSE {}

\* Under mu_: notify and pop every queued RequestMetadata, erase the token.
EraseToken(t) ==
  /\ del[t] = "lock"
  /\ ready' = [a \in Acceptor |-> ready[a] \/ a \in DeleteNotifies(t)]
  /\ known' = known \ {t}
  /\ request_metadatas' = [request_metadatas EXCEPT ![t] = <<>>]
  /\ del' = [del EXCEPT ![t] = "idle"]
  /\ load' = [load EXCEPT ![t] = IF @ = "deleting" THEN "failed" ELSE "deleted"]
  /\ UNCHANGED <<in_flight, apc, parent, parent_deleted, fd, handler, binary,
                 request_vars, worker_vars, dtor_vars, pool>>

\* The runner kills the process whose execution token ProcessRequest returned.
Cancel(r) ==
  /\ dtor = "no" /\ ppc[r] = "sent"
  /\ \E a \in Acceptor : /\ apc[a] = "wait" /\ handler[a] = r
                         /\ alive[fd[a]]
                         /\ alive' = [alive EXCEPT ![fd[a]] = FALSE]
  /\ UNCHANGED <<table_vars, in_flight, acceptor_vars, load_vars, request_vars,
                 sock, ctoken, progress, dtor_vars, pool>>

-----------------------------------------------------------------------------
(* ProcessRequest *)

\* Callers know the tokens that LoadBinary returned; a token whose load failed
\* stands for any other string.
ProcessRequest(r, t) ==
  /\ dtor = "no" /\ ppc[r] = "idle"
  /\ load[t] \in {"done", "failed", "deleted"}
  /\ ppc' = [ppc EXCEPT ![r] = "wait"]
  /\ ptoken' = [ptoken EXCEPT ![r] = t]
  /\ UNCHANGED <<table_vars, in_flight, acceptor_vars, load_vars, pmeta, calls,
                 outcome, worker_vars, dtor_vars, pool>>

\* AwaitWithTimeout ends: no such token, no worker in time, or a worker.
RefuseRequest(r) ==
  /\ ppc[r] = "wait"
  /\ \/ /\ ptoken[r] \notin known
        /\ ppc' = [ppc EXCEPT ![r] = "invalid"]
     \/ /\ ptoken[r] \in known /\ request_metadatas[ptoken[r]] = <<>>
        /\ ppc' = [ppc EXCEPT ![r] = "deadline"]
  /\ UNCHANGED <<table_vars, in_flight, acceptor_vars, load_vars, ptoken, pmeta,
                 calls, outcome, worker_vars, dtor_vars, pool>>

\* front() is taken off the queue by pop().
Popped(queue) == Tail(queue)

PopMetadata(r) ==
  /\ ppc[r] = "wait"
  /\ ptoken[r] \in known /\ request_metadatas[ptoken[r]] # <<>>
  /\ pmeta' = [pmeta EXCEPT ![r] = Head(request_metadatas[ptoken[r]])]
  /\ request_metadatas' = [request_metadatas EXCEPT ![ptoken[r]] = Popped(@)]
  /\ ppc' = [ppc EXCEPT ![r] = "send"]
  /\ UNCHANGED <<known, in_flight, acceptor_vars, load_vars, ptoken, calls,
                 outcome, worker_vars, dtor_vars, pool>>

\* The handler made by ProcessRequest owns the callback of the call.
HandlerOf_Default(r) == NULL
HandlerOf(r) == r

SendRequest_NotifyFirst(r) ==
  /\ ppc[r] = "send"
  /\ ready' = [ready EXCEPT ![pmeta[r]] = TRUE]
  /\ handler' = [handler EXCEPT ![pmeta[r]] = HandlerOf(r)]
  /\ ppc' = [ppc EXCEPT ![r] = "notify"]
  /\ UNCHANGED <<table_vars, in_flight, apc, parent, parent_deleted, fd,
                 load_vars, ptoken, pmeta, calls, outcome, worker_vars,
                 dtor_vars, pool>>

\* Without mu_: write the request to the fd (SIGPIPE and errors are ignored)
\* and store the handler that owns the callback.
SendRequest(r) ==
  /\ ppc[r] = "send"
  /\ LET a == pmeta[r] IN
       /\ progress' = IF alive[fd[a]] THEN [progress EXCEPT ![fd[a]] = "busy"]
                                      ELSE progress
       /\ handler' = [handler EXCEPT ![a] = HandlerOf(r)]
  /\ ppc' = [ppc EXCEPT ![r] = "notify"]
  /\ UNCHANGED <<table_vars, in_flight, apc, parent, parent_deleted, fd, ready,
                 load_vars, ptoken, pmeta, calls, outcome, sock, ctoken, alive,
                 dtor_vars, pool>>

NotifyReady(r) ==
  /\ ppc[r] = "notify"
  /\ ready' = [ready EXCEPT ![pmeta[r]] = TRUE]
  /\ ppc' = [ppc EXCEPT ![r] = "sent"]
  /\ UNCHANGED <<table_vars, in_flight, apc, parent, parent_deleted, fd, handler,
                 load_vars, ptoken, pmeta, calls, outcome, worker_vars,
                 dtor_vars, pool>>

-----------------------------------------------------------------------------
(* AcceptorImpl *)

LoopPc(deleted) == IF deleted THEN "exit" ELSE "accept"

\* close(fd), the end of the scope of request_metadata (its Notification and
\* its handler are gone) and the next test of the loop condition.
CloseAndLoop(a, deleted) ==
  /\ sock' = [sock EXCEPT ![fd[a]] = "free"]
  /\ ctoken' = [ctoken EXCEPT ![fd[a]] = NULL]
  /\ progress' = [progress EXCEPT ![fd[a]] = "connected"]
  /\ alive' = [alive EXCEPT ![fd[a]] = FALSE]
  /\ fd' = [fd EXCEPT ![a] = NULL]
  /\ ready' = [ready EXCEPT ![a] = FALSE]
  /\ handler' = [handler EXCEPT ![a] = NULL]
  /\ apc' = [apc EXCEPT ![a] = LoopPc(deleted)]

\* Connections pending when the socket is shut down may still be accepted.
Accept(a, c) ==
  /\ apc[a] = "accept" /\ sock[c] = "backlog"
  /\ sock' = [sock EXCEPT ![c] = "open"]
  /\ fd' = [fd EXCEPT ![a] = c]
  /\ apc' = [apc EXCEPT ![a] = "read_tokens"]
  /\ UNCHANGED <<table_vars, in_flight, parent, parent_deleted, ready, handler,
                 load_vars, request_vars, ctoken, progress, alive, dtor_vars,
                 pool>>

\* accept() returns -1: the destructor shut the socket down, or an error.
AcceptFails(a) ==
  /\ apc[a] = "accept"
  /\ \/ ~listening /\ accept_errors' = accept_errors
     \/ /\ listening /\ accept_errors < MaxAcceptErrors
        /\ accept_errors' = accept_errors + 1
  /\ apc' = [apc EXCEPT ![a] = "exit"]
  /\ UNCHANGED <<table_vars, in_flight, parent, parent_deleted, fd, ready,
                 handler, load_vars, request_vars, worker_vars, listening, dtor,
                 pool>>

ReadTokens(a) ==
  /\ apc[a] = "read_tokens" /\ progress[fd[a]] # "connected"
  /\ apc' = [apc EXCEPT ![a] = "read_ready"]
  /\ UNCHANGED <<table_vars, in_flight, parent, parent_deleted, fd, ready,
                 handler, load_vars, request_vars, worker_vars, dtor_vars, pool>>

\* The byte by which the UDF says that it is ready.
ReadReadyByte(a) ==
  /\ apc[a] = "read_ready" /\ progress[fd[a]] \notin {"connected", "identified"}
  /\ apc' = [apc EXCEPT ![a] = "lock"]
  /\ UNCHANGED <<table_vars, in_flight, parent, parent_deleted, fd, ready,
                 handler, load_vars, request_vars, worker_vars, dtor_vars, pool>>

ReadFails(a) ==
  /\ \/ apc[a] = "read_tokens" /\ progress[fd[a]] = "connected"
     \/ apc[a] = "read_ready" /\ progress[fd[a]] = "identified"
  /\ ~alive[fd[a]]
  /\ CloseAndLoop(a, parent_deleted[a])
  /\ UNCHANGED <<table_vars, in_flight, parent, parent_deleted, load_vars,
                 request_vars, dtor_vars, pool>>

\* The queue of a connection is that of the code token its worker sent.
QueueFor_Parent(a) == parent[a]
QueueFor(a) == ctoken[fd[a]]

\* Under mu_: note whether the parent is gone and publish the metadata.
PushMetadata(a) ==
  /\ apc[a] = "lock" /\ QueueFor(a) \in known
  /\ parent_deleted' = [parent_deleted EXCEPT ![a] = parent[a] \notin known]
  /\ request_metadatas' =
       [request_metadatas EXCEPT ![QueueFor(a)] = Append(@, a)]
  /\ apc' = [apc EXCEPT ![a] = "wait"]
  /\ UNCHANGED <<known, in_flight, parent, fd, ready, handler, load_vars,
                 request_vars, worker_vars, dtor_vars, pool>>

DropConnection_NoClose(a) ==
  /\ apc[a] = "lock" /\ QueueFor(a) \notin known
  /\ parent_deleted' = [parent_deleted EXCEPT ![a] = parent[a] \notin known]
  /\ apc' = [apc EXCEPT ![a] = LoopPc(parent[a] \notin known)]
  /\ UNCHANGED <<table_vars, in_flight, parent, fd, ready, handler, load_vars,
                 request_vars, worker_vars, dtor_vars, pool>>

\* The token of the connection has been deleted.
DropConnection(a) ==
  /\ apc[a] = "lock" /\ QueueFor(a) \notin known
  /\ parent_deleted' = [parent_deleted EXCEPT ![a] = parent[a] \notin known]
  /\ CloseAndLoop(a, parent[a] \notin known)
  /\ UNCHANGED <<table_vars, in_flight, parent, load_vars, request_vars,
                 dtor_vars, pool>>

\* Woken by Delete or the destructor: the default handler only closes the fd.
RunDefaultHandler(a) ==
  /\ apc[a] = "wait" /\ ready[a] /\ handler[a] = NULL
  /\ CloseAndLoop(a, parent_deleted[a])
  /\ UNCHANGED <<table_vars, in_flight, parent, parent_deleted, load_vars,
                 request_vars, dtor_vars, pool>>

RunHandler_SilentFailure(a) ==
  /\ apc[a] = "wait" /\ ready[a] /\ handler[a] # NULL
  /\ progress[fd[a]] = "responded" \/ ~alive[fd[a]]
  /\ calls' = [calls EXCEPT ![handler[a]] =
                 IF progress[fd[a]] = "responded" THEN @ + 1 ELSE @]
  /\ CloseAndLoop(a, parent_deleted[a])
  /\ UNCHANGED <<table_vars, in_flight, parent, parent_deleted, load_vars,
                 ppc, ptoken, pmeta, outcome, dtor_vars, pool>>

\* Woken by ProcessRequest: parse the response or the end of file, call back.
RunHandler(a) ==
  /\ apc[a] = "wait" /\ ready[a] /\ handler[a] # NULL
  /\ progress[fd[a]] = "responded" \/ ~alive[fd[a]]
  /\ calls' = [calls EXCEPT ![handler[a]] = @ + 1]
  /\ outcome' = [outcome EXCEPT ![handler[a]] =
                   IF progress[fd[a]] = "responded" THEN ctoken[fd[a]]
                                                    ELSE "unavailable"]
  /\ CloseAndLoop(a, parent_deleted[a])
  /\ UNCHANGED <<table_vars, in_flight, parent, parent_deleted, load_vars,
                 ppc, ptoken, pmeta, dtor_vars, pool>>

Exit(a) ==
  /\ apc[a] = "exit"
  /\ in_flight' = in_flight - 1
  /\ apc' = [apc EXCEPT ![a] = "dead"]
  /\ UNCHANGED <<table_vars, parent, parent_deleted, fd, ready, handler,
                 load_vars, request_vars, worker_vars, dtor_vars, pool>>

-----------------------------------------------------------------------------
(* ~Dispatcher *)

\* A member function may not run while the object is destroyed.
NoCallInProgress ==
  /\ \A t \in Token : del[t] = "idle"
                      /\ load[t] \in {"new", "done", "failed", "deleted"}
  /\ \A r \in Request : ppc[r] \notin {"wait", "send", "notify"}

DtorShutdown ==
  /\ dtor = "no" /\ NoCallInProgress
  /\ dtor' = "shutdown"
  /\ listening' = FALSE
  /\ UNCHANGED <<table_vars, in_flight, acceptor_vars, load_vars, request_vars,
                 worker_vars, accept_errors, pool>>

\* Whom the destructor notifies: everyone in the table.
DtorNotifies_Nobody == {}
DtorNotifies == UNION {Queued(t) : t \in known}

DtorNotifyAll ==
  /\ dtor = "shutdown"
  /\ ready' = [a \in Acceptor |-> ready[a] \/ a \in DtorNotifies]
  /\ known' = {}
  /\ request_metadatas' = [t \in Token |-> <<>>]
  /\ dtor' = "await"
  /\ UNCHANGED <<in_flight, apc, parent, parent_deleted, fd, handler, load_vars,
                 request_vars, worker_vars, listening, accept_errors, pool>>

DtorMayReturn_AtOnce == TRUE
DtorMayReturn == in_flight = 0

DtorFinish ==
  /\ dtor = "await" /\ DtorMayReturn
  /\ dtor' = "done"
  /\ UNCHANGED <<table_vars, in_flight, acceptor_vars, load_vars, request_vars,
                 worker_vars, listening, accept_errors, pool>>

-----------------------------------------------------------------------------
(* External: the worker processes as the host sees them *)

\* A reloader keeps one worker at a time, so a pool has NumWorkers at most.
WorkerConnect(c, t) ==
  /\ listening /\ t \in pool /\ sock[c] = "free"
  /\ Cardinality({d \in Conn : ctoken[d] = t /\ alive[d]}) < NumWorkers[t]
  /\ sock' = [sock EXCEPT ![c] = "backlog"]
  /\ ctoken' = [ctoken EXCEPT ![c] = t]
  /\ progress' = [progress EXCEPT ![c] = "connected"]
  /\ alive' = [alive EXCEPT ![c] = TRUE]
  /\ UNCHANGED <<table_vars, in_flight, acceptor_vars, load_vars, request_vars,
                 dtor_vars, pool>>

WorkerStep(c) ==
  /\ sock[c] # "free" /\ alive[c]
  /\ \/ /\ progress[c] = "connected"
        /\ progress' = [progress EXCEPT ![c] = "identified"]
     \/ /\ progress[c] = "identified"
        /\ progress' = [progress EXCEPT ![c] = "ready"]
     \/ /\ progress[c] = "busy"
        /\ progress' = [progress EXCEPT ![c] = "responded"]
  /\ UNCHANGED <<table_vars, in_flight, acceptor_vars, load_vars, request_vars,
                 sock, ctoken, alive, dtor_vars, pool>>

WorkerDies(c) ==
  /\ sock[c] # "free" /\ alive[c]
  /\ alive' = [alive EXCEPT ![c] = FALSE]
  /\ UNCHANGED <<table_vars, in_flight, acceptor_vars, load_vars, request_vars,
                 sock, ctoken, progress, dtor_vars, pool>>

-----------------------------------------------------------------------------
LoadStep(t) ==
  \/ RunnerLoad(t) \/ RunnerLoadFails(t) \/ LoadRpcFailed(t)
  \/ SpawnAcceptors(t) \/ WorkerReady(t) \/ WorkerTimeout(t)
DeleteStep(t) == RunnerDelete(t) \/ EraseToken(t)
RequestStep(r) ==
  RefuseRequest(r) \/ PopMetadata(r) \/ SendRequest(r) \/ NotifyReady(r)
AcceptorStep(a) ==
  \/ \E c \in Conn : Accept(a, c)
  \/ AcceptFails(a) \/ ReadTokens(a) \/ ReadReadyByte(a) \/ ReadFails(a)
  \/ PushMetadata(a) \/ DropConnection(a)
  \/ RunDefaultHandler(a) \/ RunHandler(a) \/ Exit(a)
NoErrorStep(a) == AcceptorStep(a) /\ accept_errors' = accept_errors
DtorStep == DtorNotifyAll \/ DtorFinish

\* After ~Dispatcher nothing is left to do.
Terminated == dtor = "done" /\ UNCHANGED vars

Next ==
  \/ \E t \in Token :
       \/ LoadRejected(t) \/ LoadBinary(t)
       \/ \E source \in Token : LoadBinaryForLogging(t, source)
       \/ LoadStep(t) \/ Delete(t) \/ DeleteStep(t)
  \/ \E r \in Request :
       \/ \E t \in Token : ProcessRequest(r, t)
       \/ RequestStep(r) \/ Cancel(r)
  \/ \E a \in Acceptor : AcceptorStep(a)
  \/ DtorShutdown \/ DtorStep \/ Terminated
  \/ \E c \in Conn :
       \/ \E t \in Token : WorkerConnect(c, t)
       \/ WorkerStep(c) \/ WorkerDies(c)

Spec == Init /\ [][Next]_vars

\* What LoadBinary and Delete do themselves; the rest is up to the runner.
OwnLoadStep(t) == load[t] # "rpc" /\ LoadStep(t)
OwnDeleteStep(t) == del[t] # "rpc" /\ DeleteStep(t)

\* Threads that can run do run, and a worker that lives writes what it has to
\* write.  Nobody has to call, connect or die, no error of accept() is owed to
\* anybody, and no RPC need return: the calls of the runner have no deadline,
\* and its Delete may wait for ever with the mutex that its Load needs.
Fairness ==
  /\ \A t \in Token : WF_vars(OwnLoadStep(t)) /\ WF_vars(OwnDeleteStep(t))
  /\ \A r \in Request : WF_vars(RequestStep(r))
  /\ \A a \in Acceptor : WF_vars(NoErrorStep(a))
  /\ \A c \in Conn : WF_vars(WorkerStep(c))
  /\ WF_vars(DtorStep)

FairSpec == Spec /\ Fairness
-----------------------------------------------------------------------------
(* Properties *)

TypeOK ==
  /\ known \subseteq Token
  /\ request_metadatas \in [Token -> Seq(Acceptor)]
  /\ in_flight \in Nat
  /\ listening \in BOOLEAN
  /\ dtor \in {"no", "shutdown", "await", "done"}
  /\ accept_errors \in 0..MaxAcceptErrors
  /\ apc \in [Acceptor -> AcceptorPc]
  /\ parent \in [Acceptor -> Token \cup {NULL}]
  /\ parent_deleted \in [Acceptor -> BOOLEAN]
  /\ fd \in [Acceptor -> Conn \cup {NULL}]
  /\ ready \in [Acceptor -> BOOLEAN]
  /\ handler \in [Acceptor -> Request \cup {NULL}]
  /\ load \in [Token -> LoadPc]
  /\ del \in [Token -> {"idle", "rpc", "lock"}]
  /\ binary \subseteq Token
  /\ ppc \in [Request -> RequestPc]
  /\ ptoken \in [Request -> Token \cup {NULL}]
  /\ pmeta \in [Request -> Acceptor \cup {NULL}]
  /\ calls \in [Request -> Nat]
  /\ outcome \in [Request -> Token \cup {NULL, "unavailable"}]
  /\ pool \subseteq Token
  /\ sock \in [Conn -> {"free", "backlog", "open"}]
  /\ ctoken \in [Conn -> Token \cup {NULL}]
  /\ progress \in [Conn -> Progress]
  /\ alive \in [Conn -> BOOLEAN]

Holds(r, a) == ppc[r] \in {"send", "notify"} /\ pmeta[r] = a

\* Every pointer to a RequestMetadata, in a queue or in the hands of
\* ProcessRequest between its pop and its Notify, points into the stack of an
\* acceptor that is asleep in WaitForNotification and has not been notified;
\* in a queue its handler is still the default one.  So nothing is written
\* through a dangling pointer and no Notification is notified twice.
PointersValid ==
  /\ \A t \in Token : \A a \in Queued(t) :
       apc[a] = "wait" /\ ~ready[a] /\ handler[a] = NULL
  /\ \A r \in Request : \A a \in Acceptor :
       Holds(r, a) => apc[a] = "wait" /\ ~ready[a]

\* A RequestMetadata is reachable in one way only: from one position of one
\* queue or from one ProcessRequest call.  Two requests never share a worker.
PointersUnique ==
  /\ \A t, u \in Token : \A i \in 1..Len(request_metadatas[t]) :
       \A j \in 1..Len(request_metadatas[u]) :
         request_metadatas[t][i] = request_metadatas[u][j] => t = u /\ i = j
  /\ \A r \in Request : \A t \in Token : \A a \in Queued(t) : ~Holds(r, a)
  /\ \A r, s \in Request : \A a \in Acceptor :
       Holds(r, a) /\ Holds(s, a) => r = s

\* An open file descriptor has exactly one acceptor that will close it: none
\* leaks, and none is closed twice or used after it was closed.
FdOwnership ==
  /\ \A a, b \in Acceptor : HoldsFd(a) /\ HoldsFd(b) /\ fd[a] = fd[b] => a = b
  /\ \A c \in Conn :
       sock[c] = "open" <=> \E a \in Acceptor : HoldsFd(a) /\ fd[a] = c

\* A response that the callback of a request gets was written by a worker that
\* runs the binary of the token the request named, although acceptors accept
\* connections "without regard to UDF code_token".
ResponseFromOwnBinary ==
  \A r \in Request : outcome[r] \in Token => outcome[r] = ptoken[r]

\* The callback of a request runs at most once, and only for a request that
\* ProcessRequest accepted; an accepted request whose callback has not run is
\* in the hands of a notified acceptor, so it cannot be forgotten.
CallbackOwned ==
  \A r \in Request :
    /\ calls[r] <= 1
    /\ calls[r] = 1 => ppc[r] = "sent"
    /\ ppc[r] = "sent" /\ calls[r] = 0 =>
         \E a \in Acceptor : apc[a] = "wait" /\ ready[a] /\ handler[a] = r

\* While LoadBinary waits for its first worker the token is in the table: the
\* condition it waits for dereferences find(code_token) without a check.
AwaitedTokenKnown == \A t \in Token : load[t] = "await" => t \in known

\* acceptor_threads_in_flight_ counts the acceptor threads that have not left.
InFlightCount == in_flight = Cardinality({a \in Acceptor : Running(a)})

\* When ~Dispatcher returns no acceptor thread is left to touch the object, no
\* descriptor is open, and every accepted request has been called back.
CleanShutdown ==
  dtor = "done" =>
    /\ \A a \in Acceptor : ~Running(a)
    /\ \A c \in Conn : sock[c] # "open"
    /\ \A r \in Request : ppc[r] = "sent" => calls[r] = 1

\* An acceptor that sleeps can be woken: its RequestMetadata is in a queue of
\* the table, or a ProcessRequest call that will notify it holds it.
NoAbandonedAcceptor ==
  \A a \in Acceptor :
    apc[a] = "wait" /\ ~ready[a] =>
      (\E t \in known : a \in Queued(t)) \/ \E r \in Request : Holds(r, a)

\* "The default handler is called when this thread is unblocked by the
\* destructor rather than an execution request": once the destructor has gone
\* through the table no acceptor sleeps any more.
DestructorWakesAll ==
  dtor \in {"await", "done"} =>
    \A a \in Acceptor : apc[a] = "wait" => ready[a]

\* ~Dispatcher terminates when the workers it has to wait for do not hang.
DestructorTerminates == dtor = "shutdown" ~> dtor = "done"

\* LoadBinary returns, unless it waits for ever for a call of the runner: the
\* wait for the first worker, and the Delete after it, come to an end whatever
\* workers connect, die or are taken meanwhile.
LoadReturns ==
  \A t \in Token : []<>(\/ load[t] \in {"new", "done", "failed", "deleted"}
                        \/ load[t] = "rpc" \/ del[t] = "rpc")

StatusOf(pc, count) ==
  CASE count > 0 -> "answered"
    [] count = 0 /\ pc = "idle" -> "idle"
    [] count = 0 /\ pc \in {"wait", "send", "notify"} -> "pending"
    [] count = 0 /\ pc = "sent" -> "accepted"
    [] OTHER -> "refused"
request_status == [r \in Request |-> StatusOf(ppc[r], calls[r])]
Contract == INSTANCE RequestContract WITH status <- request_status

\* What ProcessRequest promises its caller, see RequestContract: a call is
\* refused or accepted, and the callback of an accepted one runs exactly once.
ContractSafety == Contract!SafetySpec

\* The same with its liveness: the callback of an accepted call does run.
ContractSpec == Contract!Spec
=============================================================================

-------------------------- MODULE HttpConnectionPool --------------------------
(***************************************************************************)
(* The HTTP/2 client: the pool of connections to one host, and each of the *)
(* connections with its io_service, the thread that runs it, the session   *)
(* and pending_network_calls_.  A call here is one attempt that the        *)
(* OperationDispatcher makes: it is refused, by an error that the lambda   *)
(* in PerformRequest returns, or its context is finished.  Attempts go on  *)
(* while the pool is stopped: a retry is scheduled on the executor, which  *)
(* is not stopped.  A handler that is posted to an io_service, an atomic   *)
(* access to a flag or a concurrent map, and HttpConnection::Stop up to    *)
(* the join, are one step each.                                            *)
(***************************************************************************)
EXTENDS Naturals, Sequences

CONSTANTS
  Call,
  Sizes,             \* the values of max_connections_per_host_
  MaxErrors,         \* bound on the sessions that get an error
  MaxConnections,    \* bound on the connections made, in all entries of the host
  NULL

ASSUME PoolAssumption == /\ MaxConnections \in Nat /\ Sizes \subseteq 1..MaxConnections
                         /\ MaxErrors \in Nat /\ NULL \notin Call

\* The connections of the first entry made for the host, of the second, ...
Entry == 1..MaxConnections
Index == 0..(MaxConnections - 1)
Conn == Entry \X Index

VARIABLES
  max_connections_per_host,
  connections,     \* the host's entry in connections_, 0 if there is none
  entries,         \* entries made so far
  http_connections,\* [Entry -> length of its vector]
  is_initialized,  \* entries whose flag is set
  order_counter,   \* [Entry -> counter modulo the number of connections]
  pc,              \* [Call -> state of the thread that makes it]
  http_conn_entry, \* [Call -> entry that thread works with, 0 before]
  connection,      \* [Call -> connection that thread works with]
  connection_lock, \* call whose thread recycles a connection
  is_ready, is_dropped,   \* connections whose flag is set
  io_service,      \* [Conn -> handlers posted to it]
  running,         \* connections whose thread runs their io_service
  session,         \* [Conn -> state of the session]
  streams,         \* [Conn -> calls submitted to the session]
  pending_network_calls,  \* [Conn -> set of calls]
  finished,        \* [Call -> how often its context was finished]
  raced,           \* calls that were inserted into pending_network_calls_ when
                   \*   the connection they found ready was not, or not running
  errors, drops, recycles,
  stop_pc,         \* HttpConnectionPool::Stop
  targets,         \* the connections it found in the entry
  stopping,        \* index of the one it is at
  reopened,        \* connections recycled after it has told them to stop
  crashed          \* two threads met in a connection, and the process died

kept_vars == <<max_connections_per_host, entries>>
entry_vars == <<kept_vars, connections, http_connections, is_initialized, order_counter>>
call_vars == <<pc, http_conn_entry, connection>>
flag_vars == <<is_ready, is_dropped>>
io_vars == <<io_service, running>>
session_vars == <<session, streams, errors>>
finish_vars == <<pending_network_calls, finished>>
count_vars == <<drops, recycles>>
stop_vars == <<stop_pc, targets, stopping>>
race_vars == <<raced, reopened, crashed>>
vars == <<entry_vars, call_vars, connection_lock, flag_vars, io_vars,
          session_vars, finish_vars, count_vars, stop_vars, race_vars>>

Init ==
  /\ max_connections_per_host \in Sizes
  /\ connections = 0 /\ entries = 0 /\ http_connections = [e \in Entry |-> 0]
  /\ is_initialized = {} /\ order_counter = [e \in Entry |-> 0]
  /\ pc = [r \in Call |-> "idle"] /\ http_conn_entry = [r \in Call |-> 0]
  /\ connection = [r \in Call |-> NULL]
  /\ connection_lock = NULL /\ is_ready = {} /\ is_dropped = {}
  /\ io_service = [c \in Conn |-> <<>>] /\ running = {}
  /\ session = [c \in Conn |-> "none"] /\ streams = [c \in Conn |-> {}]
  /\ pending_network_calls = [c \in Conn |-> {}]
  /\ finished = [r \in Call |-> 0] /\ raced = {}
  /\ errors = 0 /\ drops = [c \in Conn |-> 0] /\ recycles = [c \in Conn |-> 0]
  /\ stop_pc = "no" /\ targets = {} /\ stopping = 0
  /\ reopened = {} /\ crashed = FALSE

\* The thread of call r goes from one state to another.
Goto(r, from, to) == pc[r] = from /\ pc' = [pc EXCEPT ![r] = to]

-----------------------------------------------------------------------------
(* HttpConnection::Stop and CancelPendingCallbacks *)

Post(c, h) == io_service' = [io_service EXCEPT ![c] = @ \o h]

ShutdownOf(c) == IF session[c] = "none" THEN <<>> ELSE <<<<"shutdown", NULL>>>>

StopConnection_KeepsRunning(c) ==
  /\ Post(c, ShutdownOf(c))
  /\ is_ready' = is_ready \ {c}
StopConnection(c) ==
  /\ Post(c, Append(ShutdownOf(c), <<"stop", NULL>>))
  /\ is_ready' = is_ready \ {c}

FinishAll(calls) ==
  finished' = [r \in Call |-> IF r \in calls THEN finished[r] + 1
                                             ELSE finished[r]]

\* The key of a context is erased before the context is finished.
CancelPendingCallbacks(c) ==
  /\ FinishAll(pending_network_calls[c])
  /\ pending_network_calls' = [pending_network_calls EXCEPT ![c] = {}]

-----------------------------------------------------------------------------
(* HttpConnectionPool::GetConnection *)

\* The URI is invalid.
GetConnectionFails(r) ==
  /\ Goto(r, "idle", "refused")
  /\ UNCHANGED <<entry_vars, http_conn_entry, connection, connection_lock, flag_vars,
                 io_vars, session_vars, finish_vars, count_vars, stop_vars, race_vars>>

InsertEntry(r) ==
  /\ connections = 0
  /\ (entries + 1) * max_connections_per_host <= MaxConnections
  /\ Goto(r, "idle", "create")
  /\ entries' = entries + 1 /\ connections' = entries + 1
  /\ http_conn_entry' = [http_conn_entry EXCEPT ![r] = entries + 1]
  /\ UNCHANGED <<max_connections_per_host, http_connections, is_initialized,
                 order_counter, connection, connection_lock, flag_vars, io_vars,
                 session_vars, finish_vars, count_vars, stop_vars, race_vars>>

\* The next connection that r creates.
NextConnection(r) ==
  <<http_conn_entry[r], http_connections[http_conn_entry[r]]>>

\* The session of a new connection connects once its thread runs.
CreateConnection(r) ==
  LET c == NextConnection(r)
  IN  /\ pc[r] = "create" /\ c[2] < max_connections_per_host
      /\ http_connections' = [http_connections EXCEPT ![c[1]] = @ + 1]
      /\ running' = running \cup {c}
      /\ session' = [session EXCEPT ![c] = "connecting"]
      /\ UNCHANGED <<kept_vars, connections, is_initialized, order_counter, call_vars,
                     connection_lock, flag_vars, io_service, streams, errors,
                     finish_vars, count_vars, stop_vars, race_vars>>

Initialized(r) ==
  /\ Goto(r, "create", "pick")
  /\ NextConnection(r)[2] = max_connections_per_host
  /\ is_initialized' = is_initialized \cup {http_conn_entry[r]}
  /\ UNCHANGED <<kept_vars, connections, http_connections, order_counter,
                 http_conn_entry, connection, connection_lock, flag_vars, io_vars,
                 session_vars, finish_vars, count_vars, stop_vars, race_vars>>

\* A connection cannot be initialised: those before it are stopped, and then the
\* entry is taken back.
CreateFails(r) ==
  LET e == http_conn_entry[r]
  IN  /\ pc[r] = "create" /\ NextConnection(r)[2] < max_connections_per_host
      /\ IF http_connections[e] > 0
         THEN /\ Goto(r, "create", "unwind")
              /\ connection' = [connection EXCEPT ![r] = <<e, 0>>]
              /\ UNCHANGED connections
         ELSE /\ Goto(r, "create", "refused")
              /\ connections' = 0
              /\ UNCHANGED connection
      /\ UNCHANGED <<kept_vars, http_connections, is_initialized, order_counter,
                     http_conn_entry, connection_lock, flag_vars, io_vars, session_vars,
                     finish_vars, count_vars, stop_vars, race_vars>>

UnwindStops(r) ==
  /\ Goto(r, "unwind", "unwind_join")
  /\ StopConnection(connection[r])
  /\ UNCHANGED <<entry_vars, http_conn_entry, connection, connection_lock, is_dropped,
                 running, session_vars, finish_vars, count_vars, stop_vars, race_vars>>

UnwindJoins(r) ==
  LET next == <<connection[r][1], connection[r][2] + 1>>
  IN  /\ pc[r] = "unwind_join" /\ connection[r] \notin running
      /\ CancelPendingCallbacks(connection[r])
      /\ IF next[2] < http_connections[next[1]]
         THEN /\ Goto(r, "unwind_join", "unwind")
              /\ connection' = [connection EXCEPT ![r] = next]
              /\ UNCHANGED connections
         ELSE /\ Goto(r, "unwind_join", "refused")
              /\ connections' = 0
              /\ UNCHANGED connection
      /\ UNCHANGED <<kept_vars, http_connections, is_initialized, order_counter,
                     http_conn_entry, connection_lock, flag_vars, io_vars, session_vars,
                     count_vars, stop_vars, race_vars>>

FindEntry(r) ==
  /\ connections # 0
  /\ Goto(r, "idle", "found")
  /\ http_conn_entry' = [http_conn_entry EXCEPT ![r] = connections]
  /\ UNCHANGED <<entry_vars, connection, connection_lock, flag_vars, io_vars,
                 session_vars, finish_vars, count_vars, stop_vars, race_vars>>

\* Another thread may still be setting up the entry.
TestInitialized(r) ==
  /\ Goto(r, "found", IF http_conn_entry[r] \in is_initialized THEN "pick" ELSE "refused")
  /\ UNCHANGED <<entry_vars, http_conn_entry, connection, connection_lock, flag_vars,
                 io_vars, session_vars, finish_vars, count_vars, stop_vars, race_vars>>

PickConnection(r) ==
  LET e == http_conn_entry[r]
      c == <<e, order_counter[e]>>
  IN  /\ Goto(r, "pick", IF c \in is_dropped THEN "recycle" ELSE "execute")
      /\ order_counter' = [order_counter EXCEPT ![e] = (@ + 1) % max_connections_per_host]
      /\ connection' = [connection EXCEPT ![r] = c]
      /\ UNCHANGED <<kept_vars, connections, http_connections, is_initialized,
                     http_conn_entry, connection_lock, flag_vars, io_vars, session_vars,
                     finish_vars, count_vars, stop_vars, race_vars>>

\* After RecycleConnection: any connection that is ready, or none.
PickReady(r) ==
  LET ready == {c \in is_ready : c[1] = http_conn_entry[r]}
  IN  /\ \/ \E c \in ready :
              /\ connection[r] \in ready => c = connection[r]
              /\ connection' = [connection EXCEPT ![r] = c]
              /\ Goto(r, "check", "execute")
         \/ /\ ready = {}
            /\ Goto(r, "check", "refused")
            /\ UNCHANGED connection
      /\ UNCHANGED <<entry_vars, http_conn_entry, connection_lock, flag_vars, io_vars,
                     session_vars, finish_vars, count_vars, stop_vars, race_vars>>

-----------------------------------------------------------------------------
(* HttpConnectionPool::RecycleConnection *)

\* The connections that HttpConnectionPool::Stop has told to stop.
ToldToStop ==
  {c \in targets : c[2] < stopping \/ (c[2] = stopping /\ stop_pc # "stop")}

RecycleLocks_Unchecked(r) ==
  /\ pc[r] = "recycle" /\ connection_lock = NULL
  /\ connection_lock' = r
  /\ pc' = [pc EXCEPT ![r] = "stop"]
  /\ UNCHANGED <<entry_vars, http_conn_entry, connection, flag_vars, io_vars, session_vars,
                 finish_vars, count_vars, stop_vars, race_vars>>
\* Another thread may have recycled the connection already.
RecycleLocks(r) ==
  /\ pc[r] = "recycle" /\ connection_lock = NULL
  /\ IF connection[r] \in is_dropped
     THEN connection_lock' = r /\ pc' = [pc EXCEPT ![r] = "stop"]
     ELSE pc' = [pc EXCEPT ![r] = "check"] /\ UNCHANGED connection_lock
  /\ UNCHANGED <<entry_vars, http_conn_entry, connection, flag_vars, io_vars, session_vars,
                 finish_vars, count_vars, stop_vars, race_vars>>

RecycleStops(r) ==
  /\ Goto(r, "stop", "join")
  /\ StopConnection(connection[r])
  /\ UNCHANGED <<entry_vars, http_conn_entry, connection, connection_lock, is_dropped, running,
                 session_vars, finish_vars, count_vars, stop_vars, race_vars>>

RecycleCancels(r) ==
  /\ Goto(r, "join", "restart")
  /\ connection[r] \notin running
  /\ CancelPendingCallbacks(connection[r])
  /\ UNCHANGED <<entry_vars, http_conn_entry, connection, connection_lock, flag_vars, io_vars,
                 session_vars, count_vars, stop_vars, race_vars>>

\* Reset, Init and Run: the flags are as they were after Stop, but for
\* is_dropped_, and there is a new io_service, without what was posted to the
\* old one.  Nobody looks at what Init returns; when it fails there is no session.
RecycleRestarts(r) ==
  LET c == connection[r]
  IN  /\ Goto(r, "restart", "check")
      /\ is_ready' = is_ready \ {c} /\ is_dropped' = is_dropped \ {c}
      /\ io_service' = [io_service EXCEPT ![c] = <<>>]
      /\ \E made \in {"connecting", "none"} : session' = [session EXCEPT ![c] = made]
      /\ streams' = [streams EXCEPT ![c] = {}]
      /\ running' = running \cup {c}
      /\ reopened' = reopened \cup ({c} \cap ToldToStop)
      /\ connection_lock' = NULL
      /\ recycles' = [recycles EXCEPT ![c] = @ + 1]
      /\ UNCHANGED <<entry_vars, http_conn_entry, connection, errors, finish_vars,
                     drops, stop_vars, raced, crashed>>

-----------------------------------------------------------------------------
(* HttpConnection::Execute *)

TestReady(r) ==
  /\ pc[r] = "execute"
  /\ pc' = [pc EXCEPT ![r] = IF connection[r] \in is_ready THEN "insert"
                                                           ELSE "refused"]
  /\ UNCHANGED <<entry_vars, http_conn_entry, connection, connection_lock, flag_vars, io_vars,
                 session_vars, finish_vars, count_vars, stop_vars, race_vars>>

InsertPending(r) ==
  LET c == connection[r]
  IN  /\ Goto(r, "insert", "post")
      /\ pending_network_calls' =
           [pending_network_calls EXCEPT ![c] = @ \cup {r}]
      /\ raced' = IF c \in is_ready \cap running THEN raced ELSE raced \cup {r}
      /\ UNCHANGED <<entry_vars, http_conn_entry, connection, connection_lock, flag_vars,
                     io_vars, session_vars, finished, count_vars, stop_vars, reopened,
                     crashed>>

PostSend(r) ==
  /\ Goto(r, "post", "sent")
  /\ Post(connection[r], <<<<"send", r>>>>)
  /\ UNCHANGED <<entry_vars, http_conn_entry, connection, connection_lock, flag_vars, running,
                 session_vars, finish_vars, count_vars, stop_vars, race_vars>>

-----------------------------------------------------------------------------
(* The thread of a connection *)

FirstIs(c, kind) == /\ c \in running /\ io_service[c] # <<>>
                    /\ Head(io_service[c])[1] = kind
Pop(c) == io_service' = [io_service EXCEPT ![c] = Tail(@)]

FinishErased_Always(c, r) ==
  /\ pending_network_calls' = [pending_network_calls EXCEPT ![c] = @ \ {r}]
  /\ FinishAll({r})
\* Whoever erases the key of a call finishes its context.
FinishErased(c, r) ==
  /\ pending_network_calls' = [pending_network_calls EXCEPT ![c] = @ \ {r}]
  /\ FinishAll(pending_network_calls[c] \cap {r})

\* SendHttpRequest submits the request, whatever the state of the session: one
\* that is down may take it and never close it ...
Submit(c) ==
  /\ FirstIs(c, "send") /\ session[c] # "none"
  /\ Pop(c)
  /\ streams' = [streams EXCEPT ![c] = @ \cup {Head(io_service[c])[2]}]
  /\ UNCHANGED <<entry_vars, call_vars, connection_lock, flag_vars, running,
                 session, errors, finish_vars, count_vars, stop_vars, race_vars>>

\* ... or finds its method or its URI wrong ...
RejectRequest(c) ==
  /\ FirstIs(c, "send") /\ session[c] # "none"
  /\ Pop(c)
  /\ FinishErased(c, Head(io_service[c])[2])
  /\ UNCHANGED <<entry_vars, call_vars, connection_lock, flag_vars, running,
                 session_vars, count_vars, stop_vars, race_vars>>

\* ... or the session refuses it; then the connection has an error, unless
\* somebody else has finished the call.
SubmitFails(c) ==
  LET r == Head(io_service[c])[2]
  IN  /\ FirstIs(c, "send") /\ session[c] # "none"
      /\ io_service' =
           [io_service EXCEPT ![c] = IF r \in pending_network_calls[c]
                                     THEN Append(Tail(@), <<"error", NULL>>)
                                     ELSE Tail(@)]
      /\ FinishErased(c, r)
      /\ UNCHANGED <<entry_vars, call_vars, connection_lock, flag_vars,
                     running, session_vars, count_vars, stop_vars, race_vars>>

\* The connection was recycled in vain, and session_ is null.
SendWithoutSession(c) ==
  /\ FirstIs(c, "send") /\ session[c] = "none"
  /\ crashed' = TRUE
  /\ UNCHANGED <<entry_vars, call_vars, connection_lock, flag_vars, io_vars, session_vars,
                 finish_vars, count_vars, stop_vars, raced, reopened>>

\* OnRequestResponseClosed.
StreamCloses(c, r) ==
  /\ c \in running /\ r \in streams[c]
  /\ streams' = [streams EXCEPT ![c] = @ \ {r}]
  /\ FinishErased(c, r)
  /\ UNCHANGED <<entry_vars, call_vars, connection_lock, flag_vars, io_vars,
                 session, errors, count_vars, stop_vars, race_vars>>

SessionConnects(c) ==
  /\ c \in running /\ session[c] = "connecting"
  /\ session' = [session EXCEPT ![c] = "up"]
  /\ Post(c, <<<<"created", NULL>>>>)
  /\ UNCHANGED <<entry_vars, call_vars, connection_lock, flag_vars, running,
                 streams, errors, finish_vars, count_vars, stop_vars, race_vars>>

\* It cannot connect, is closed by the host, or its read timeout expires.
SessionGetsError(c) ==
  /\ c \in running /\ session[c] \in {"connecting", "up"}
  /\ errors < MaxErrors /\ errors' = errors + 1
  /\ session' = [session EXCEPT ![c] = "down"]
  /\ Post(c, <<<<"error", NULL>>>>)
  /\ UNCHANGED <<entry_vars, call_vars, connection_lock, flag_vars, running,
                 streams, finish_vars, count_vars, stop_vars, race_vars>>

OnConnectionCreated(c) ==
  /\ FirstIs(c, "created")
  /\ Pop(c)
  /\ is_ready' = is_ready \cup {c}
  /\ UNCHANGED <<entry_vars, call_vars, connection_lock, is_dropped, running,
                 session_vars, finish_vars, count_vars, stop_vars, race_vars>>

OnConnectionError_Silent(c) ==
  /\ FirstIs(c, "error")
  /\ Pop(c)
  /\ is_ready' = is_ready \ {c} /\ is_dropped' = is_dropped \cup {c}
  /\ drops' = IF c \in is_dropped THEN drops ELSE [drops EXCEPT ![c] = @ + 1]
  /\ UNCHANGED <<entry_vars, call_vars, connection_lock, running,
                 session_vars, finish_vars, recycles, stop_vars, race_vars>>
OnConnectionError(c) ==
  /\ FirstIs(c, "error")
  /\ Pop(c)
  /\ is_ready' = is_ready \ {c} /\ is_dropped' = is_dropped \cup {c}
  /\ drops' = IF c \in is_dropped THEN drops ELSE [drops EXCEPT ![c] = @ + 1]
  /\ CancelPendingCallbacks(c)
  /\ UNCHANGED <<entry_vars, call_vars, connection_lock, running,
                 session_vars, recycles, stop_vars, race_vars>>

Shutdown(c) ==
  /\ FirstIs(c, "shutdown")
  /\ Pop(c)
  /\ session' = [session EXCEPT ![c] = "down"]
  /\ UNCHANGED <<entry_vars, call_vars, connection_lock, flag_vars, running,
                 streams, errors, finish_vars, count_vars, stop_vars, race_vars>>

StopIoService(c) ==
  /\ FirstIs(c, "stop")
  /\ Pop(c)
  /\ running' = running \ {c}
  /\ UNCHANGED <<entry_vars, call_vars, connection_lock, flag_vars,
                 session_vars, finish_vars, count_vars, stop_vars, race_vars>>

-----------------------------------------------------------------------------
(* HttpConnectionPool::Stop, for the key of the host *)

BeginStop ==
  /\ stop_pc = "no"
  /\ stop_pc' = IF connections = 0 THEN "stopped" ELSE "find"
  /\ UNCHANGED <<entry_vars, call_vars, connection_lock, flag_vars, io_vars, session_vars,
                 finish_vars, count_vars, targets, stopping, race_vars>>

\* The entry may be taken back between Keys and Find.
FindStops ==
  /\ stop_pc = "find"
  /\ targets' = {c \in Conn : c[1] = connections /\ c[2] < http_connections[c[1]]}
  /\ stop_pc' = IF connections = 0 THEN "failed"
                ELSE IF targets' = {} THEN "erase" ELSE "stop"
  /\ UNCHANGED <<entry_vars, call_vars, connection_lock, flag_vars, io_vars, session_vars,
                 finish_vars, count_vars, stopping, race_vars>>

\* The connection Stop is at.
AtStop(c) == c \in targets /\ c[2] = stopping

StopNext ==
  /\ stop_pc = "stop"
  /\ stop_pc' = "join"
  /\ \E c \in Conn : AtStop(c) /\ StopConnection(c)
  /\ UNCHANGED <<entry_vars, call_vars, connection_lock, is_dropped, running, session_vars,
                 finish_vars, count_vars, targets, stopping, race_vars>>

StopGoesOn ==
  IF \E c \in targets : c[2] = stopping + 1
  THEN stop_pc' = "stop" /\ stopping' = stopping + 1
  ELSE stop_pc' = "erase" /\ UNCHANGED stopping

StopJoins_NotCancelled ==
  /\ stop_pc = "join"
  /\ \E c \in Conn \ running : AtStop(c)
  /\ StopGoesOn
  /\ UNCHANGED <<entry_vars, call_vars, connection_lock, flag_vars, io_vars, session_vars,
                 finish_vars, count_vars, targets, race_vars>>
StopJoins ==
  /\ stop_pc = "join"
  /\ \E c \in Conn \ running : AtStop(c) /\ CancelPendingCallbacks(c)
  /\ StopGoesOn
  /\ UNCHANGED <<entry_vars, call_vars, connection_lock, flag_vars, io_vars, session_vars,
                 count_vars, targets, race_vars>>

\* Whatever entry the host has by now.
StopErases ==
  /\ stop_pc = "erase"
  /\ stop_pc' = IF connections = 0 THEN "failed" ELSE "stopped"
  /\ connections' = 0
  /\ UNCHANGED <<kept_vars, http_connections, is_initialized, order_counter, call_vars,
                 connection_lock, flag_vars, io_vars, session_vars, finish_vars,
                 count_vars, targets, stopping, race_vars>>

-----------------------------------------------------------------------------
(* Threads that meet in a connection.  Stop, Reset, Init and Run replace and  *)
(* join worker_, io_service_ and session_ without a lock that they share.     *)

\* The thread of r is in Stop, Reset, Init or Run of c.
Rebuilds(r, c) == connection[r] = c /\ pc[r] \in {"join", "restart", "unwind_join"}

\* Both Stops join the thread of the connection, and one of them throws: if it is
\* the pool's, it returns there and then.
StopFails ==
  /\ stop_pc = "join"
  /\ \E c \in targets, r \in Call : AtStop(c) /\ Rebuilds(r, c)
  /\ stop_pc' = "failed"
  /\ UNCHANGED <<entry_vars, call_vars, connection_lock, flag_vars, io_vars, session_vars,
                 finish_vars, count_vars, targets, stopping, race_vars>>

\* A recycler meets the pool's Stop, or Execute posts to what it replaces.
Clash ==
  \/ /\ stop_pc \in {"stop", "join"}
     /\ \E c \in targets, r \in Call : AtStop(c) /\ Rebuilds(r, c)
  \/ \E r, s \in Call : /\ pc[r] = "post" /\ pc[s] = "restart"
                        /\ connection[r] = connection[s]

\* Stop finds an entry that is being set up, with a connection that has no
\* io_service yet.
StopsTooEarly ==
  stop_pc = "find" /\ \E r \in Call : pc[r] = "create" /\ http_conn_entry[r] = connections

\* The last user of an entry that was erased lets go of a connection whose
\* thread nobody has joined.
LetGo ==
  \E c \in running : /\ c[1] # connections
                     /\ \A r \in Call : http_conn_entry[r] = c[1] =>
                                          pc[r] \in {"refused", "sent"}
                     /\ c \in targets => stop_pc \in {"stopped", "failed"}

Dies ==
  /\ Clash \/ StopsTooEarly \/ LetGo
  /\ crashed' = TRUE
  /\ UNCHANGED <<entry_vars, call_vars, connection_lock, flag_vars, io_vars, session_vars,
                 finish_vars, count_vars, stop_vars, raced, reopened>>

-----------------------------------------------------------------------------

Step(r) ==
  \/ CreateConnection(r) \/ Initialized(r) \/ CreateFails(r)
  \/ UnwindStops(r) \/ UnwindJoins(r)
  \/ TestInitialized(r) \/ PickConnection(r) \/ PickReady(r)
  \/ RecycleLocks(r) \/ RecycleStops(r) \/ RecycleCancels(r)
  \/ RecycleRestarts(r)
  \/ TestReady(r) \/ InsertPending(r) \/ PostSend(r)

Handle(c) ==
  \/ Submit(c) \/ RejectRequest(c) \/ SubmitFails(c) \/ SendWithoutSession(c)
  \/ OnConnectionCreated(c) \/ OnConnectionError(c) \/ Shutdown(c)
  \/ StopIoService(c)

Stopping == FindStops \/ StopNext \/ StopJoins \/ StopErases

Next ==
  /\ ~crashed
  /\ \/ \E r \in Call : GetConnectionFails(r) \/ InsertEntry(r) \/ FindEntry(r)
     \/ \E r \in Call : Step(r)
     \/ \E c \in Conn : Handle(c) \/ SessionConnects(c) \/ SessionGetsError(c)
     \/ \E c \in Conn, r \in Call : StreamCloses(c, r)
     \/ BeginStop \/ Stopping \/ StopFails \/ Dies

Spec == Init /\ [][Next]_vars

\* Threads go on; a session that is up answers a request or, at the latest by
\* its read timeout, gets an error.
FairSpec ==
  /\ Spec
  /\ \A r \in Call : WF_vars(~crashed /\ Step(r))
  /\ \A c \in Conn :
       /\ WF_vars(~crashed /\ Handle(c)) /\ WF_vars(~crashed /\ SessionConnects(c))
       /\ WF_vars(/\ ~crashed /\ session[c] = "up"
                  /\ \/ \E r \in Call : StreamCloses(c, r)
                     \/ SessionGetsError(c))
  /\ WF_vars(~crashed /\ Stopping)

-----------------------------------------------------------------------------
(* Properties *)

Kinds == {"send", "created", "error", "shutdown", "stop"}

\* The variables have the types the code declares.
TypeOK ==
  /\ max_connections_per_host \in Sizes
  /\ connections \in Entry \cup {0} /\ entries \in Entry \cup {0}
  /\ http_connections \in [Entry -> 0..max_connections_per_host]
  /\ is_initialized \subseteq Entry
  /\ order_counter \in [Entry -> Index]
  /\ pc \in [Call -> {"idle", "create", "unwind", "unwind_join", "found", "pick",
                      "recycle", "stop", "join", "restart", "check", "execute",
                      "insert", "post", "sent", "refused"}]
  /\ http_conn_entry \in [Call -> Entry \cup {0}]
  /\ connection \in [Call -> Conn \cup {NULL}]
  /\ connection_lock \in Call \cup {NULL}
  /\ is_ready \subseteq Conn /\ is_dropped \subseteq Conn
  /\ io_service \in [Conn -> Seq(Kinds \X (Call \cup {NULL}))]
  /\ running \subseteq Conn
  /\ session \in [Conn -> {"none", "connecting", "up", "down"}]
  /\ streams \in [Conn -> SUBSET Call]
  /\ pending_network_calls \in [Conn -> SUBSET Call]
  /\ finished \in [Call -> Nat] /\ raced \subseteq Call
  /\ errors \in 0..MaxErrors
  /\ drops \in [Conn -> Nat] /\ recycles \in [Conn -> Nat]
  /\ stop_pc \in {"no", "find", "stop", "join", "erase", "stopped", "failed"}
  /\ targets \subseteq Conn /\ stopping \in Nat
  /\ reopened \subseteq Conn /\ crashed \in BOOLEAN

\* A context is finished at most once, and never when the attempt was refused,
\* however the answer, an error of the session, the recycling of the connection
\* and Stop race: erasing the key decides.
FinishedOnce ==
  \A r \in Call : /\ finished[r] <= 1
                  /\ finished[r] = 1 => pc[r] \in {"post", "sent"}

\* A connection is recycled once for each time it is dropped, however many
\* threads find it dropped: a fresh connection is not torn down again.
RecycledOncePerDrop ==
  \A c \in Conn : recycles[c] <= drops[c]

\* When Stop has returned, no connection that it found has a thread or a context
\* that waits, whoever was taking, recycling or executing on it meanwhile.  There
\* are two exceptions: a connection that was recycled after Stop had told it to
\* stop, and a context that Execute inserted after the connection, which it had
\* found ready, was no longer so.
StopAnswersAll ==
  stop_pc = "stopped" =>
    \A c \in targets \ reopened : /\ c \notin running
                                  /\ pending_network_calls[c] \subseteq raced

\* Every context that Execute took is finished, unless it was inserted into
\* pending_network_calls_ when the connection that Execute had found ready was no
\* longer so: OnConnectionError or Stop has then cancelled the others, and the
\* session that is down may keep the request.
TakenCallsFinish ==
  \A r \in Call : pc[r] = "sent" ~> finished[r] = 1 \/ r \in raced \/ crashed

\* Stop comes to an end, unless it joins the thread that a recycler has made
\* after Stop had told the connection to stop: nobody stops that one.
StopTerminates ==
  stop_pc = "find" ~> \/ stop_pc \in {"stopped", "failed"} \/ crashed
                      \/ \E c \in reopened : AtStop(c)
=============================================================================

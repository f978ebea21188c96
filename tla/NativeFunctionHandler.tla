------------------------ MODULE NativeFunctionHandler ------------------------
(***************************************************************************)
(* Native functions of Roma's V8 service: code in a sandbox calls C++      *)
(* functions of the host over one socket pair per worker.  The handler     *)
(* thread of that worker looks up the metadata of the request in the       *)
(* ThreadSafeMap, holding the lock of its row, runs the function and sends *)
(* the wrapper back.  RomaService stores the metadata when a request comes *)
(* in and deletes it after the user's callback; a sandbox that dies is     *)
(* started again on the same end of the same socket pair.  A section under *)
(* one mutex is one step.  Metadata storage and skip_callback_for_cancelled *)
(* are enabled.                                                            *)
(***************************************************************************)
EXTENDS Naturals, Sequences

CONSTANTS
  Worker, Request,
  MaxCalls,      \* bound on the native calls of one request
  MaxCrashes,    \* bound on the sandboxes that die while running code
  NULL

ASSUME BoundAssumption == MaxCalls \in Nat /\ MaxCrashes \in Nat
ASSUME NullAssumption == NULL \notin Worker \cup Request

VARIABLES
  status,             \* [Request -> where the Execute call has got to]
  exec,               \* [Worker -> request whose code its sandbox runs]
  made,               \* [Request -> native calls it has made]
  waiting,            \* workers whose sandbox waits for a reply
  to_host,            \* [Worker -> what is written to the remote end]
  to_sandbox,         \* [Worker -> what is written to the local end]
  answered,           \* [Worker -> the last call and the reply it was given]
  crashed,            \* workers whose sandbox has died
  crashes,
  key_value_map, mutex_map,
  row,                \* [Request -> handler that holds the mutex of its row]
  map_mutex,          \* request whose Delete holds mutex_map_mutex_
  canceled_requests,
  hpc, hcall,         \* [Worker -> state of its handler, call it handles]
  undefined,          \* workers whose handler used an erased mutex
  stop, stop_pc

call_vars == <<exec, made, waiting, answered>>
comms_vars == <<to_host, to_sandbox>>
crash_vars == <<crashed, crashes>>
map_vars == <<key_value_map, mutex_map, row, map_mutex>>
handler_vars == <<hpc, hcall, undefined>>
stop_vars == <<stop, stop_pc>>
vars == <<status, call_vars, comms_vars, crash_vars, map_vars,
          canceled_requests, handler_vars, stop_vars>>

Call == Request \X (1..MaxCalls)
NoCall == <<NULL, 0>>
Message == Call \cup {NoCall}     \* Stop writes an empty message
Caller(w) == hcall[w][1]

Init ==
  /\ status = [r \in Request |-> "idle"]
  /\ exec = [w \in Worker |-> NULL] /\ made = [r \in Request |-> 0]
  /\ waiting = {} /\ answered = [w \in Worker |-> <<NoCall, NoCall>>]
  /\ to_host = [w \in Worker |-> <<>>] /\ to_sandbox = [w \in Worker |-> <<>>]
  /\ crashed = {} /\ crashes = 0
  /\ key_value_map = {} /\ mutex_map = {}
  /\ row = [r \in Request |-> NULL] /\ map_mutex = NULL
  /\ canceled_requests = {}
  /\ hpc = [w \in Worker |-> "recv"] /\ hcall = [w \in Worker |-> NoCall]
  /\ undefined = {}
  /\ stop = FALSE /\ stop_pc = "no"

-----------------------------------------------------------------------------
(* RomaService: Execute, Cancel, and the life of a request *)

\* ThreadSafeMap::Add under both mutexes; every request has its own uuid.
StoreMetadata(r) ==
  /\ status[r] = "idle" /\ stop_pc = "no" /\ map_mutex = NULL
  /\ status' = [status EXCEPT ![r] = "queued"]
  /\ key_value_map' = key_value_map \cup {r}
  /\ mutex_map' = mutex_map \cup {r}
  /\ UNCHANGED <<call_vars, comms_vars, crash_vars, row, map_mutex,
                 canceled_requests, handler_vars, stop_vars>>

\* Dispatcher::Invoke refuses the request: the scoped token is not released.
InvokeRefused(r) ==
  /\ status[r] = "queued"
  /\ status' = [status EXCEPT ![r] = "over"]
  /\ UNCHANGED <<call_vars, comms_vars, crash_vars, map_vars,
                 canceled_requests, handler_vars, stop_vars>>

\* PreventCallbacks, and the callback of a request that was still queued.  A
\* token is good for as long as the user keeps it.
Cancel(r) ==
  /\ status[r] # "idle" /\ stop_pc = "no"
  /\ canceled_requests' = canceled_requests \cup {r}
  /\ status' = [status EXCEPT ![r] = IF @ = "queued" THEN "over" ELSE @]
  /\ UNCHANGED <<call_vars, comms_vars, crash_vars, map_vars, handler_vars,
                 stop_vars>>

RunCode(w, r) ==
  /\ exec[w] = NULL /\ status[r] = "queued" /\ stop_pc = "no"
  /\ exec' = [exec EXCEPT ![w] = r]
  /\ status' = [status EXCEPT ![r] = "running"]
  /\ UNCHANGED <<made, waiting, answered, comms_vars, crash_vars, map_vars,
                 canceled_requests, handler_vars, stop_vars>>

\* NativeFunctionInvoker::Invoke, up to its RecvProtoBuf ...
Invoke(w) ==
  LET r == exec[w]
  IN  /\ r # NULL /\ w \notin waiting /\ made[r] < MaxCalls
      /\ made' = [made EXCEPT ![r] = @ + 1]
      /\ to_host' = [to_host EXCEPT ![w] = Append(@, <<r, made[r] + 1>>)]
      /\ waiting' = waiting \cup {w}
      /\ UNCHANGED <<status, exec, answered, to_sandbox, crash_vars, map_vars,
                     canceled_requests, handler_vars, stop_vars>>

\* ... which takes whatever the socket holds for the answer.
InvokeReturns(w) ==
  /\ w \in waiting /\ to_sandbox[w] # <<>>
  /\ answered' = [answered EXCEPT ![w] =
                    <<<<exec[w], made[exec[w]]>>, Head(to_sandbox[w])>>]
  /\ to_sandbox' = [to_sandbox EXCEPT ![w] = Tail(@)]
  /\ waiting' = waiting \ {w}
  /\ UNCHANGED <<status, exec, made, to_host, crash_vars, map_vars,
                 canceled_requests, handler_vars, stop_vars>>

RunCodeReturns(w) ==
  /\ exec[w] # NULL /\ w \notin waiting
  /\ status' = [status EXCEPT ![exec[w]] = "over"]
  /\ exec' = [exec EXCEPT ![w] = NULL]
  /\ UNCHANGED <<made, waiting, answered, comms_vars, crash_vars, map_vars,
                 canceled_requests, handler_vars, stop_vars>>

\* RunCode restarts a sandbox that died and hands it the same descriptor; the
\* host keeps both ends open, so what they hold is not lost.
SandboxDies(w) ==
  /\ exec[w] # NULL /\ crashes < MaxCrashes
  /\ status' = [status EXCEPT ![exec[w]] = "over"]
  /\ exec' = [exec EXCEPT ![w] = NULL]
  /\ waiting' = waiting \ {w}
  /\ crashed' = crashed \cup {w} /\ crashes' = crashes + 1
  /\ UNCHANGED <<made, answered, comms_vars, map_vars, canceled_requests,
                 handler_vars, stop_vars>>

-----------------------------------------------------------------------------
(* ThreadSafeMap::Delete, in the wrapper of the user's callback *)

DeleteFinds(r) ==
  /\ status[r] = "over" /\ map_mutex = NULL
  /\ IF r \in mutex_map
     THEN map_mutex' = r /\ status' = [status EXCEPT ![r] = "deleting"]
     ELSE status' = [status EXCEPT ![r] = "done"] /\ UNCHANGED map_mutex
  /\ UNCHANGED <<call_vars, comms_vars, crash_vars, key_value_map, mutex_map,
                 row, canceled_requests, handler_vars, stop_vars>>

DeleteErasesValue_Unlocked(r) ==
  /\ status[r] = "deleting"
  /\ key_value_map' = key_value_map \ {r}
  /\ status' = [status EXCEPT ![r] = "erased"]
  /\ UNCHANGED <<call_vars, comms_vars, crash_vars, mutex_map, row, map_mutex,
                 canceled_requests, handler_vars, stop_vars>>
\* It holds the row's mutex for this step, and mutex_map_mutex_ all along.
DeleteErasesValue(r) ==
  /\ status[r] = "deleting" /\ row[r] = NULL
  /\ key_value_map' = key_value_map \ {r}
  /\ status' = [status EXCEPT ![r] = "erased"]
  /\ UNCHANGED <<call_vars, comms_vars, crash_vars, mutex_map, row, map_mutex,
                 canceled_requests, handler_vars, stop_vars>>

\* A handler that got hold of the mutex meanwhile is left with a dead one.
DeleteErasesMutex(r) ==
  /\ status[r] = "erased"
  /\ mutex_map' = mutex_map \ {r} /\ map_mutex' = NULL
  /\ undefined' = IF row[r] = NULL THEN undefined
                                   ELSE undefined \cup {row[r]}
  /\ row' = [row EXCEPT ![r] = NULL]
  /\ status' = [status EXCEPT ![r] = "done"]
  /\ UNCHANGED <<call_vars, comms_vars, crash_vars, key_value_map,
                 canceled_requests, hpc, hcall, stop_vars>>

-----------------------------------------------------------------------------
(* The function handler thread of a worker *)

\* What a thread does after it used a dead mutex is undefined: it is not
\* followed any further.
Thread(w, pc) == hpc[w] = pc /\ w \notin undefined

RecvCall_Deaf(w) ==
  /\ Thread(w, "recv") /\ to_host[w] # <<>>
  /\ to_host' = [to_host EXCEPT ![w] = Tail(@)]
  /\ hpc' = [hpc EXCEPT ![w] = IF Head(to_host[w]) = NoCall THEN "recv"
                                                            ELSE "cancel"]
  /\ hcall' = [hcall EXCEPT ![w] = Head(to_host[w])]
  /\ UNCHANGED <<status, call_vars, to_sandbox, crash_vars, map_vars,
                 canceled_requests, undefined, stop_vars>>
\* stop_ is tested after every message.
RecvCall(w) ==
  /\ Thread(w, "recv") /\ to_host[w] # <<>>
  /\ to_host' = [to_host EXCEPT ![w] = Tail(@)]
  /\ hpc' = [hpc EXCEPT ![w] = IF stop THEN "exit" ELSE "cancel"]
  /\ hcall' = [hcall EXCEPT ![w] = Head(to_host[w])]
  /\ UNCHANGED <<status, call_vars, to_sandbox, crash_vars, map_vars,
                 canceled_requests, undefined, stop_vars>>

\* The wrapper goes back with its result or an error added to it.
SendProtoBuf(w) ==
  to_sandbox' = [to_sandbox EXCEPT ![w] = Append(@, hcall[w])]

RefuseCanceled_NoContinue(w) ==
  /\ Thread(w, "cancel") /\ Caller(w) \in canceled_requests
  /\ SendProtoBuf(w)
  /\ canceled_requests' = canceled_requests \ {Caller(w)}
  /\ hpc' = [hpc EXCEPT ![w] = "send"]
  /\ UNCHANGED <<status, call_vars, to_host, crash_vars, map_vars, hcall,
                 undefined, stop_vars>>
RefuseCanceled_Mute(w) ==
  /\ Thread(w, "cancel") /\ Caller(w) \in canceled_requests
  /\ canceled_requests' = canceled_requests \ {Caller(w)}
  /\ hpc' = [hpc EXCEPT ![w] = "recv"]
  /\ UNCHANGED <<status, call_vars, comms_vars, crash_vars, map_vars, hcall,
                 undefined, stop_vars>>
\* The first call after Cancel is refused, and the token is forgotten.
RefuseCanceled(w) ==
  /\ Thread(w, "cancel") /\ Caller(w) \in canceled_requests
  /\ SendProtoBuf(w)
  /\ canceled_requests' = canceled_requests \ {Caller(w)}
  /\ hpc' = [hpc EXCEPT ![w] = "recv"]
  /\ UNCHANGED <<status, call_vars, to_host, crash_vars, map_vars, hcall,
                 undefined, stop_vars>>

\* A call without a function name gets an error for its answer.
NotCanceled(w) ==
  /\ Thread(w, "cancel") /\ Caller(w) \notin canceled_requests
  /\ \E pc \in {"mutex", "send"} : hpc' = [hpc EXCEPT ![w] = pc]
  /\ UNCHANGED <<status, call_vars, comms_vars, crash_vars, map_vars,
                 canceled_requests, hcall, undefined, stop_vars>>

\* ThreadSafeMap::GetMutex returns a pointer and unlocks the map.
GetMutex(w) ==
  /\ Thread(w, "mutex") /\ map_mutex = NULL
  /\ hpc' = [hpc EXCEPT ![w] = IF Caller(w) \in mutex_map THEN "lock"
                                                          ELSE "send"]
  /\ UNCHANGED <<status, call_vars, comms_vars, crash_vars, map_vars,
                 canceled_requests, hcall, undefined, stop_vars>>

\* The constructor of ScopedValueReader locks what the pointer points to.
LockRow(w) ==
  /\ Thread(w, "lock")
  /\ \/ /\ Caller(w) \in mutex_map /\ row[Caller(w)] = NULL
        /\ row' = [row EXCEPT ![Caller(w)] = w]
        /\ hpc' = [hpc EXCEPT ![w] = "value"]
        /\ UNCHANGED undefined
     \/ /\ Caller(w) \notin mutex_map
        /\ undefined' = undefined \cup {w}
        /\ UNCHANGED <<row, hpc>>
  /\ UNCHANGED <<status, call_vars, comms_vars, crash_vars, key_value_map,
                 mutex_map, map_mutex, canceled_requests, hcall, stop_vars>>

Unlock(w) == row' = [row EXCEPT ![Caller(w)] = NULL]

GetValue(w) ==
  /\ Thread(w, "value")
  /\ IF Caller(w) \in key_value_map
     THEN /\ hpc' = [hpc EXCEPT ![w] = "run"]
          /\ UNCHANGED row
     ELSE /\ hpc' = [hpc EXCEPT ![w] = "send"]
          /\ Unlock(w)
  /\ UNCHANGED <<status, call_vars, comms_vars, crash_vars, key_value_map,
                 mutex_map, map_mutex, canceled_requests, hcall, undefined,
                 stop_vars>>

CallFunction_Leaks(w) ==
  /\ Thread(w, "run")
  /\ Unlock(w) \/ UNCHANGED row
  /\ hpc' = [hpc EXCEPT ![w] = "send"]
  /\ UNCHANGED <<status, call_vars, comms_vars, crash_vars, key_value_map,
                 mutex_map, map_mutex, canceled_requests, hcall, undefined,
                 stop_vars>>
\* NativeFunctionTable::Call runs the function or does not find it; then the
\* reader goes out of scope.
CallFunction(w) ==
  /\ Thread(w, "run")
  /\ Unlock(w)
  /\ hpc' = [hpc EXCEPT ![w] = "send"]
  /\ UNCHANGED <<status, call_vars, comms_vars, crash_vars, key_value_map,
                 mutex_map, map_mutex, canceled_requests, hcall, undefined,
                 stop_vars>>

SendReply(w) ==
  /\ Thread(w, "send")
  /\ SendProtoBuf(w)
  /\ hpc' = [hpc EXCEPT ![w] = "recv"]
  /\ UNCHANGED <<status, call_vars, to_host, crash_vars, map_vars,
                 canceled_requests, hcall, undefined, stop_vars>>

-----------------------------------------------------------------------------
(* StopInternal: the dispatcher is gone first, with the requests it queued *)

ResetDispatcher ==
  /\ stop_pc = "no"
  /\ \A w \in Worker : exec[w] = NULL
  /\ \A r \in Request : status[r] \in {"idle", "queued", "done"}
  /\ status' = [r \in Request |-> IF status[r] = "queued" THEN "dropped"
                                                          ELSE status[r]]
  /\ stop_pc' = "flag"
  /\ UNCHANGED <<call_vars, comms_vars, crash_vars, map_vars,
                 canceled_requests, handler_vars, stop>>

SetStop ==
  /\ stop_pc = "flag"
  /\ stop' = TRUE /\ stop_pc' = "wake"
  /\ UNCHANGED <<status, call_vars, comms_vars, crash_vars, map_vars,
                 canceled_requests, handler_vars>>

WakeHandlers ==
  /\ stop_pc = "wake"
  /\ to_host' = [w \in Worker |-> Append(to_host[w], NoCall)]
  /\ stop_pc' = "join"
  /\ UNCHANGED <<status, call_vars, to_sandbox, crash_vars, map_vars,
                 canceled_requests, handler_vars, stop>>

Join ==
  /\ stop_pc = "join" /\ \A w \in Worker : hpc[w] = "exit"
  /\ stop_pc' = "stopped"
  /\ UNCHANGED <<status, call_vars, comms_vars, crash_vars, map_vars,
                 canceled_requests, handler_vars, stop>>

-----------------------------------------------------------------------------

Delete(r) == DeleteFinds(r) \/ DeleteErasesValue(r) \/ DeleteErasesMutex(r)

Handle(w) ==
  \/ RecvCall(w) \/ RefuseCanceled(w) \/ NotCanceled(w) \/ GetMutex(w)
  \/ LockRow(w) \/ GetValue(w) \/ CallFunction(w) \/ SendReply(w)

Stopping == ResetDispatcher \/ SetStop \/ WakeHandlers \/ Join

Next ==
  \/ \E r \in Request : StoreMetadata(r) \/ InvokeRefused(r) \/ Cancel(r)
  \/ \E w \in Worker, r \in Request : RunCode(w, r)
  \/ \E w \in Worker : \/ Invoke(w) \/ InvokeReturns(w) \/ RunCodeReturns(w)
                       \/ SandboxDies(w)
  \/ \E r \in Request : Delete(r)
  \/ \E w \in Worker : Handle(w)
  \/ Stopping

Spec == Init /\ [][Next]_vars

\* Threads of the host go on, a reply that has arrived is read, and native
\* functions return.  Nothing makes a user call Stop.
FairSpec ==
  /\ Spec
  /\ \A w \in Worker : WF_vars(Handle(w)) /\ WF_vars(InvokeReturns(w))
  /\ \A r \in Request : WF_vars(Delete(r))
  /\ WF_vars(SetStop) /\ WF_vars(WakeHandlers) /\ WF_vars(Join)

-----------------------------------------------------------------------------
(* Properties *)

\* The variables have the types the code declares.
TypeOK ==
  /\ status \in [Request -> {"idle", "queued", "running", "over", "deleting",
                             "erased", "done", "dropped"}]
  /\ exec \in [Worker -> Request \cup {NULL}]
  /\ made \in [Request -> 0..MaxCalls]
  /\ waiting \subseteq Worker
  /\ to_host \in [Worker -> Seq(Message)] /\ to_sandbox \in [Worker -> Seq(Call)]
  /\ answered \in [Worker -> Message \X Message]
  /\ crashed \subseteq Worker /\ crashes \in 0..MaxCrashes
  /\ key_value_map \subseteq Request /\ mutex_map \subseteq Request
  /\ row \in [Request -> Worker \cup {NULL}]
  /\ map_mutex \in Request \cup {NULL}
  /\ canceled_requests \subseteq Request
  /\ hpc \in [Worker -> {"recv", "cancel", "mutex", "lock", "value", "run",
                         "send", "exit"}]
  /\ hcall \in [Worker -> Message]
  /\ undefined \subseteq Worker
  /\ stop \in BOOLEAN /\ stop_pc \in {"no", "flag", "wake", "join", "stopped"}

\* A native function runs with metadata that stays in the map until it has
\* returned, even if the sandbox dies and the request is over by then; and
\* no handler touches a mutex that Delete has erased unless its sandbox died.
MetadataPinned ==
  \A w \in Worker :
    /\ hpc[w] = "run" /\ w \notin undefined =>
         /\ Caller(w) \in key_value_map \cap mutex_map
         /\ row[Caller(w)] = w
    /\ w \in undefined => w \in crashed

\* The reply a sandbox is given answers the call it made, as long as no earlier
\* sandbox on the same socket pair has died.
RepliesInStep ==
  \A w \in Worker : w \notin crashed => answered[w][1] = answered[w][2]

\* The reply a sandbox is given answers the call it made: the comment on
\* NativeFunctionInvoker::Invoke has the return value "set by the c++ function"
\* that was called.  Invoke does not compare the reply with the call.
RepliesMatch == \A w \in Worker : answered[w][1] = answered[w][2]

Stored(r) == r \in key_value_map \cup mutex_map

\* Metadata is deleted once its request is neither queued nor running, whether
\* the request was refused, cancelled or run: Delete, which keeps the whole map
\* locked, always gets the lock of the row.  A request that is still queued when
\* the dispatcher is destroyed keeps its metadata.
MetadataFreed ==
  \A r \in Request :
    Stored(r) /\ status[r] \notin {"queued", "running", "dropped"}
      ~> ~Stored(r) \/ undefined # {}

\* A sandbox never waits for ever for the reply to a native call.
CallsAnswered ==
  \A w \in Worker : w \in waiting ~> w \notin waiting \/ undefined # {}

\* Stop joins the handler threads, whatever messages of dead sandboxes are still
\* in the sockets.
StopTerminates ==
  stop_pc = "flag" ~> stop_pc = "stopped" \/ undefined # {}
=============================================================================

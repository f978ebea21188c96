---------------------------- MODULE NativeProofs ----------------------------
(***************************************************************************)
(* Proofs about NativeFunctionHandler for any number of workers, requests, *)
(* native calls and crashes: a native function runs with metadata that     *)
(* nobody can delete, and as long as no sandbox has died on a worker the   *)
(* replies there are in step with the calls.                               *)
(***************************************************************************)
EXTENDS NativeFunctionHandler, TLAPS

\* The states in which a handler has a call in hand.
Handling == {"cancel", "mutex", "lock", "value", "run", "send"}
\* The states in which it holds the lock of a row.
Reading == {"value", "run"}
\* The call that the sandbox of w made last.
Current(w) == <<exec[w], made[exec[w]]>>

Types ==
  /\ status \in [Request -> {"idle", "queued", "running", "over", "deleting",
                             "erased", "done", "dropped"}]
  /\ exec \in [Worker -> Request \cup {NULL}]
  /\ made \in [Request -> 0..MaxCalls] /\ waiting \subseteq Worker
  /\ to_host \in [Worker -> Seq(Message)] /\ to_sandbox \in [Worker -> Seq(Message)]
  /\ answered \in [Worker -> Message \X Message]
  /\ row \in [Request -> Worker \cup {NULL}]
  /\ hpc \in [Worker -> Handling \cup {"recv", "exit"}]
  /\ hcall \in [Worker -> Message]
  /\ stop_pc \in {"no", "flag", "wake", "join", "stopped"}

\* A request runs on one worker at most, and none when Stop has begun.
ExecInv ==
  /\ \A w \in Worker :
       /\ exec[w] # NULL => status[exec[w]] = "running" /\ stop_pc = "no"
       /\ w \in waiting => exec[w] # NULL /\ made[exec[w]] # 0
  /\ \A v, w \in Worker : exec[v] = exec[w] /\ exec[v] # NULL => v = w

\* Metadata and its mutex stay in the map until Delete.
MapInv ==
  \A r \in Request :
    /\ status[r] \in {"queued", "running", "over", "deleting"} =>
         r \in key_value_map /\ r \in mutex_map
    /\ status[r] = "erased" => r \in mutex_map

\* A handler calls for a request, and sees Stop's message only when told to stop.
HandlerInv ==
  /\ stop <=> stop_pc \notin {"no", "flag"}
  /\ \A w \in Worker : /\ hpc[w] \in Handling => Caller(w) \in Request
                       /\ ~stop => to_host[w] \in Seq(Call)
                       /\ hpc[w] = "exit" => stop

\* The lock of a row is held by the handler that reads it.
RowInv ==
  /\ \A r \in Request : row[r] # NULL =>
       /\ row[r] \notin undefined /\ hpc[row[r]] \in Reading
       /\ Caller(row[r]) = r
  /\ \A w \in Worker : hpc[w] \in Reading /\ w \notin undefined =>
       /\ row[Caller(w)] = w /\ Caller(w) \in mutex_map
       /\ hpc[w] = "run" => Caller(w) \in key_value_map

\* Where the call of the sandbox of w is: on its way, in hand, or answered.
OnItsWay(w) ==
  to_host[w] = <<Current(w)>> /\ to_sandbox[w] = <<>> /\ hpc[w] = "recv"
InHand(w) == /\ to_host[w] = <<>> /\ to_sandbox[w] = <<>>
             /\ hpc[w] \in Handling /\ hcall[w] = Current(w)
Answered(w) ==
  to_host[w] = <<>> /\ to_sandbox[w] = <<Current(w)>> /\ hpc[w] = "recv"
Quiet(w) == /\ to_sandbox[w] = <<>> /\ hpc[w] \in {"recv", "exit"}
            /\ stop_pc \in {"no", "flag", "wake"} => to_host[w] = <<>>

InStep(w) == /\ w \in waiting => OnItsWay(w) \/ InHand(w) \/ Answered(w)
             /\ w \notin waiting => Quiet(w)
             /\ answered[w][1] = answered[w][2]
             /\ w \notin undefined

StepInv == \A w \in Worker : w \notin crashed => InStep(w)

IInv == Types /\ ExecInv /\ MapInv /\ HandlerInv /\ RowInv /\ StepInv

-----------------------------------------------------------------------------
(* Lemmas *)

\* Sequences of at most one message.
LEMMA OneMessage ==
  ASSUME NEW x
  PROVE  /\ Append(<<>>, x) = <<x>> /\ Head(<<x>>) = x /\ Tail(<<x>>) = <<>>
         /\ <<x>> # <<>>
OBVIOUS

\* Taking a message from a socket and putting one into it.
LEMMA Sockets ==
  ASSUME NEW S, NEW s \in Seq(S)
  PROVE  /\ \A x \in S : Append(s, x) \in Seq(S)
         /\ s # <<>> => Head(s) \in S /\ Tail(s) \in Seq(S)
OBVIOUS

\* Calls are pairs, and no call is NoCall.
LEMMA Calls ==
  /\ \A c \in Call : c \in Message /\ c[1] \in Request
  /\ \A r \in Request, n \in 1..MaxCalls : <<r, n>> \in Call
  /\ NoCall \in Message /\ MaxCalls \in Nat
  /\ NULL \notin Worker /\ NULL \notin Request
BY BoundAssumption, NullAssumption, Zenon DEF Call, Message

\* Initially every worker is quiet and the map is empty.
LEMMA InitIInv == Init => IInv
<1> SUFFICES ASSUME Init PROVE IInv  BY Zenon
<1> USE Calls DEF Init
<1>1. Types  BY DEF Types, Handling
<1>2. ExecInv /\ MapInv  BY Zenon DEF ExecInv, MapInv
<1>3. HandlerInv  BY DEF HandlerInv, Handling
<1>4. RowInv /\ StepInv  BY Zenon DEF RowInv, StepInv, InStep, Quiet, Reading
<1> QED  BY <1>1, <1>2, <1>3, <1>4, Zenon DEF IInv

-----------------------------------------------------------------------------
(* Steps *)

\* Execute adds metadata and mutex at once.
LEMMA StoreMetadataStep ==
  ASSUME IInv, NEW r \in Request, StoreMetadata(r) PROVE IInv'
<1> USE Calls DEF IInv, StoreMetadata,
        call_vars, comms_vars, crash_vars, map_vars, handler_vars,
        stop_vars
<1>1. Types'  BY Zenon DEF Types, Handling
<1>2. ExecInv'  BY Zenon DEF Types, ExecInv
<1>3. MapInv'  BY Zenon DEF Types, MapInv
<1>4. HandlerInv'  BY Zenon DEF Types, HandlerInv, Handling, Caller
<1>5. RowInv'  BY Zenon DEF Types, RowInv, Reading, Handling, Caller
<1>6. StepInv'  BY DEF Types, StepInv, ExecInv,
            InStep, OnItsWay, InHand, Answered, Quiet, Current
<1> QED  BY <1>1, <1>2, <1>3, <1>4, <1>5, <1>6, Zenon

\* A request is refused: its metadata is still there.
LEMMA InvokeRefusedStep ==
  ASSUME IInv, NEW r \in Request, InvokeRefused(r) PROVE IInv'
<1> USE Calls DEF IInv, InvokeRefused,
        call_vars, comms_vars, crash_vars, map_vars, handler_vars,
        stop_vars
<1>1. Types'  BY Zenon DEF Types, Handling
<1>2. ExecInv'  BY Zenon DEF Types, ExecInv
<1>3. MapInv'  BY Zenon DEF Types, MapInv
<1>4. HandlerInv'  BY Zenon DEF Types, HandlerInv, Handling, Caller
<1>5. RowInv'  BY Zenon DEF Types, RowInv, Reading, Handling, Caller
<1>6. StepInv'  BY Zenon DEF Types, StepInv, ExecInv,
            InStep, OnItsWay, InHand, Answered, Quiet, Current
<1> QED  BY <1>1, <1>2, <1>3, <1>4, <1>5, <1>6, Zenon

\* A request that has not run yet is over.
LEMMA CancelStep ==
  ASSUME IInv, NEW r \in Request, Cancel(r) PROVE IInv'
<1> USE Calls DEF IInv, Cancel,
        call_vars, comms_vars, crash_vars, map_vars, handler_vars,
        stop_vars
<1>1. Types'  BY Zenon DEF Types, Handling
<1>2. ExecInv'  BY DEF Types, ExecInv
<1>3. MapInv'  BY Zenon DEF Types, MapInv
<1>4. HandlerInv'  BY Zenon DEF Types, HandlerInv, Handling, Caller
<1>5. RowInv'  BY Zenon DEF Types, RowInv, Reading, Handling, Caller
<1>6. StepInv'  BY Zenon DEF Types, StepInv, ExecInv,
            InStep, OnItsWay, InHand, Answered, Quiet, Current
<1> QED  BY <1>1, <1>2, <1>3, <1>4, <1>5, <1>6, Zenon

\* A quiet worker runs a request that no other one runs.
LEMMA RunCodeStep ==
  ASSUME IInv, NEW w \in Worker, NEW r \in Request, RunCode(w, r) PROVE IInv'
<1> USE Calls DEF IInv, RunCode,
        call_vars, comms_vars, crash_vars, map_vars, handler_vars,
        stop_vars
<1>1. Types'  BY Zenon DEF Types, Handling
<1>2. ExecInv'  BY DEF Types, ExecInv
<1>3. MapInv'  BY Zenon DEF Types, MapInv
<1>4. HandlerInv'  BY Zenon DEF Types, HandlerInv, Handling, Caller
<1>5. RowInv'  BY Zenon DEF Types, RowInv, Reading, Handling, Caller
<1>6. StepInv'  BY DEF Types, StepInv, ExecInv,
            InStep, OnItsWay, InHand, Answered, Quiet, Current
<1> QED  BY <1>1, <1>2, <1>3, <1>4, <1>5, <1>6, Zenon

\* A quiet worker makes a call.
LEMMA InvokeStep ==
  ASSUME IInv, NEW w \in Worker, Invoke(w) PROVE IInv'
<1> USE Calls DEF IInv, Invoke,
        call_vars, comms_vars, crash_vars, map_vars, handler_vars,
        stop_vars
<1>1. Types'  BY DEF Types, Handling
<1>2. ExecInv'  BY SMTT(20) DEF Types, ExecInv
<1>3. MapInv'  BY Zenon DEF Types, MapInv
<1>4. HandlerInv'  BY DEF Types, HandlerInv, Handling, Caller
<1>5. RowInv'  BY Zenon DEF Types, RowInv, Reading, Handling, Caller
<1>6. StepInv'
  <2> SUFFICES ASSUME NEW v \in Worker, v \notin crashed' PROVE InStep(v)'
    BY Zenon DEF StepInv
  <2>1. InStep(v)  BY Zenon DEF StepInv
  <2>2. CASE v # w  BY <2>1, <2>2
    DEF Types, ExecInv, InStep, OnItsWay, InHand, Answered, Quiet, Current
  <2>3. CASE v = w
    <3>1. Quiet(v) /\ stop_pc = "no" /\ hpc[v] = "recv"
      BY <2>1, <2>3, Zenon DEF InStep, ExecInv, HandlerInv, Quiet
    <3>2. Current(v)' = <<exec[w], made[exec[w]] + 1>>
      BY <2>3, Zenon DEF Types, Current
    <3>3. OnItsWay(v)'
      BY <2>3, <3>1, <3>2, OneMessage, Zenon DEF Types, OnItsWay, Quiet
    <3> QED  BY <2>1, <2>3, <3>3, Zenon DEF InStep
  <2> QED  BY <2>2, <2>3, Zenon
<1> QED  BY <1>1, <1>2, <1>3, <1>4, <1>5, <1>6, Zenon

\* The sandbox reads a reply.
LEMMA InvokeReturnsStep ==
  ASSUME IInv, NEW w \in Worker, InvokeReturns(w) PROVE IInv'
<1> USE Calls DEF IInv, InvokeReturns,
        call_vars, comms_vars, crash_vars, map_vars, handler_vars,
        stop_vars
<1>1. Types'
  <2>1. exec[w] \in Request /\ made[exec[w]] \in 1..MaxCalls
    BY DEF Types, ExecInv
  <2>2. /\ Head(to_sandbox[w]) \in Message /\ Tail(to_sandbox[w]) \in Seq(Message)
        /\ <<exec[w], made[exec[w]]>> \in Message
    BY <2>1, Sockets, Zenon DEF Types
  <2> QED  BY <2>2, Zenon DEF Types
<1>2. ExecInv'  BY Zenon DEF Types, ExecInv
<1>3. MapInv'  BY Zenon DEF Types, MapInv
<1>4. HandlerInv'  BY Zenon DEF Types, HandlerInv, Handling, Caller
<1>5. RowInv'  BY Zenon DEF Types, RowInv, Reading, Handling, Caller
<1>6. StepInv'
  <2> SUFFICES ASSUME NEW v \in Worker, v \notin crashed' PROVE InStep(v)'
    BY Zenon DEF StepInv
  <2>1. InStep(v)  BY Zenon DEF StepInv
  <2>2. CASE v # w  BY <2>1, <2>2, Zenon
    DEF Types, ExecInv, InStep, OnItsWay, InHand, Answered, Quiet, Current
  <2>3. CASE v = w
    <3>1. Answered(v)
      BY <2>1, <2>3, Zenon DEF InStep, OnItsWay, InHand
    <3>2. Head(to_sandbox[v]) = Current(v) /\ Tail(to_sandbox[v]) = <<>>
      BY <3>1, OneMessage, Zenon DEF Answered
    <3>3. Quiet(v)'
      BY <2>3, <3>1, <3>2, Zenon DEF Types, Answered, Quiet
    <3>4. answered'[v] = <<Current(v), Current(v)>>
      BY <2>3, <3>2, Zenon DEF Types, Current
    <3> QED  BY <2>1, <2>3, <3>3, <3>4 DEF InStep
  <2> QED  BY <2>2, <2>3, Zenon
<1> QED  BY <1>1, <1>2, <1>3, <1>4, <1>5, <1>6, Zenon

\* A sandbox that waits for nothing returns.
LEMMA RunCodeReturnsStep ==
  ASSUME IInv, NEW w \in Worker, RunCodeReturns(w) PROVE IInv'
<1> USE Calls DEF IInv, RunCodeReturns,
        call_vars, comms_vars, crash_vars, map_vars, handler_vars,
        stop_vars
<1>1. Types'  BY Zenon DEF Types, Handling
<1>2. ExecInv'  BY DEF Types, ExecInv
<1>3. MapInv'  BY Zenon DEF Types, MapInv, ExecInv
<1>4. HandlerInv'  BY Zenon DEF Types, HandlerInv, Handling, Caller
<1>5. RowInv'  BY Zenon DEF Types, RowInv, Reading, Handling, Caller
<1>6. StepInv'  BY DEF Types, StepInv, ExecInv,
            InStep, OnItsWay, InHand, Answered, Quiet, Current
<1> QED  BY <1>1, <1>2, <1>3, <1>4, <1>5, <1>6, Zenon

\* A sandbox dies; what happens on its worker from then on is not promised.
LEMMA SandboxDiesStep ==
  ASSUME IInv, NEW w \in Worker, SandboxDies(w) PROVE IInv'
<1> USE Calls DEF IInv, SandboxDies,
        call_vars, comms_vars, crash_vars, map_vars, handler_vars,
        stop_vars
<1>1. Types'  BY Zenon DEF Types, Handling
<1>2. ExecInv'  BY DEF Types, ExecInv
<1>3. MapInv'  BY Zenon DEF Types, MapInv, ExecInv
<1>4. HandlerInv'  BY Zenon DEF Types, HandlerInv, Handling, Caller
<1>5. RowInv'  BY Zenon DEF Types, RowInv, Reading, Handling, Caller
<1>6. StepInv'  BY DEF Types, StepInv, ExecInv,
            InStep, OnItsWay, InHand, Answered, Quiet, Current
<1> QED  BY <1>1, <1>2, <1>3, <1>4, <1>5, <1>6, Zenon

\* Delete finds the mutex.
LEMMA DeleteFindsStep ==
  ASSUME IInv, NEW r \in Request, DeleteFinds(r) PROVE IInv'
<1> USE Calls DEF IInv, DeleteFinds,
        call_vars, comms_vars, crash_vars, map_vars, handler_vars,
        stop_vars
<1>1. Types'  BY ZenonT(30) DEF Types, Handling
<1>2. ExecInv'  BY DEF Types, ExecInv
<1>3. MapInv'  BY Zenon DEF Types, MapInv
<1>4. HandlerInv'  BY Zenon DEF Types, HandlerInv, Handling, Caller
<1>5. RowInv'  BY Zenon DEF Types, RowInv, Reading, Handling, Caller
<1>6. StepInv'  BY Zenon DEF Types, StepInv, ExecInv,
            InStep, OnItsWay, InHand, Answered, Quiet, Current
<1> QED  BY <1>1, <1>2, <1>3, <1>4, <1>5, <1>6, Zenon

\* Delete erases metadata that no handler reads.
LEMMA DeleteErasesValueStep ==
  ASSUME IInv, NEW r \in Request, DeleteErasesValue(r) PROVE IInv'
<1> USE Calls DEF IInv, DeleteErasesValue,
        call_vars, comms_vars, crash_vars, map_vars, handler_vars,
        stop_vars
<1>1. Types'  BY Zenon DEF Types, Handling
<1>2. ExecInv'  BY Zenon DEF Types, ExecInv
<1>3. MapInv'  BY Zenon DEF Types, MapInv
<1>4. HandlerInv'  BY Zenon DEF Types, HandlerInv, Handling, Caller
<1>5. RowInv'  BY DEF Types, RowInv, Reading, Handling, Caller
<1>6. StepInv'  BY Zenon DEF Types, StepInv, ExecInv,
            InStep, OnItsWay, InHand, Answered, Quiet, Current
<1> QED  BY <1>1, <1>2, <1>3, <1>4, <1>5, <1>6, Zenon

\* Delete erases the mutex; a handler that has it belongs to a dead sandbox.
LEMMA DeleteErasesMutexStep ==
  ASSUME IInv, NEW r \in Request, DeleteErasesMutex(r) PROVE IInv'
<1> USE Calls DEF IInv, DeleteErasesMutex,
        call_vars, comms_vars, crash_vars, map_vars, handler_vars,
        stop_vars
<1>1. Types'  BY Zenon DEF Types, Handling
<1>2. ExecInv'  BY Zenon DEF Types, ExecInv
<1>3. MapInv'  BY Zenon DEF Types, MapInv
<1>4. HandlerInv'  BY Zenon DEF Types, HandlerInv, Handling, Caller
<1>5. RowInv'  BY DEF Types, RowInv, Reading, Handling, Caller
<1>6. StepInv'
  <2> SUFFICES ASSUME NEW v \in Worker, v \notin crashed' PROVE InStep(v)'
    BY Zenon DEF StepInv
  <2>1. InStep(v)  BY Zenon DEF StepInv
  <2>2. row[r] # v
    <3> SUFFICES ASSUME row[r] = v PROVE FALSE  BY Zenon
    <3>1. hpc[v] \in Reading /\ Caller(v) = r  BY Zenon DEF RowInv
    <3>2. v \in waiting /\ InHand(v)
      BY <2>1, <3>1, Zenon DEF InStep, OnItsWay, Answered, Quiet, Reading
    <3>3. Caller(v) = exec[v] /\ status[exec[v]] = "running"
      BY <3>2 DEF Types, ExecInv, InHand, Current, Caller
    <3> QED  BY <3>1, <3>3, Zenon
  <2> QED  BY <2>1, <2>2, Zenon DEF InStep, OnItsWay, InHand, Answered, Quiet, Current
<1> QED  BY <1>1, <1>2, <1>3, <1>4, <1>5, <1>6, Zenon

\* A handler takes a call, or the message of Stop.
LEMMA RecvCallStep ==
  ASSUME IInv, NEW w \in Worker, RecvCall(w) PROVE IInv'
<1> USE Calls DEF IInv, RecvCall, Thread,
        call_vars, comms_vars, crash_vars, map_vars, handler_vars,
        stop_vars
<1>1. Types'  BY DEF Types, Handling
<1>2. ExecInv'  BY Zenon DEF Types, ExecInv
<1>3. MapInv'  BY Zenon DEF Types, MapInv
<1>4. HandlerInv'  BY DEF Types, HandlerInv, Handling, Caller
<1>5. RowInv'
  <2>1. \A r \in Request : row[r] # w
    <3>1. hpc[w] \notin Reading /\ w # NULL  BY Zenon DEF Reading
    <3> QED  BY <3>1, Zenon DEF RowInv
  <2>2. \A r \in Request : row[r] # NULL =>
          hpc'[row[r]] = hpc[row[r]] /\ hcall'[row[r]] = hcall[row[r]]
    BY <2>1, Zenon DEF Types
  <2>3. \A v \in Worker : hpc'[v] \in Reading =>
          hpc'[v] = hpc[v] /\ hcall'[v] = hcall[v]
    BY Zenon DEF Types, Reading
  <2> QED  BY <2>2, <2>3 DEF RowInv, Caller
<1>6. StepInv'
  <2> SUFFICES ASSUME NEW v \in Worker, v \notin crashed' PROVE InStep(v)'
    BY Zenon DEF StepInv
  <2>1. InStep(v)  BY Zenon DEF StepInv
  <2>2. CASE v # w  BY <2>1, <2>2, Zenon
    DEF Types, ExecInv, InStep, OnItsWay, InHand, Answered, Quiet, Current
  <2>3. CASE v = w /\ v \in waiting
    <3>1. OnItsWay(v) /\ ~stop
      BY <2>1, <2>3, Zenon DEF InStep, InHand, Answered, ExecInv, HandlerInv
    <3>2. Head(to_host[v]) = Current(v) /\ Tail(to_host[v]) = <<>>
      BY <3>1, OneMessage, Zenon DEF OnItsWay
    <3>3. InHand(v)'
      BY <2>3, <3>1, <3>2, Zenon DEF Types, OnItsWay, InHand, Handling, Current
    <3> QED  BY <2>1, <2>3, <3>3, Zenon DEF InStep
  <2>4. CASE v = w /\ v \notin waiting
    <3>1. Quiet(v) /\ stop /\ stop_pc \notin {"no", "flag", "wake"}
      BY <2>1, <2>4, Zenon DEF InStep, Quiet, HandlerInv
    <3> QED  BY <2>1, <2>4, <3>1, Zenon DEF Types, InStep, Quiet
  <2> QED  BY <2>2, <2>3, <2>4, Zenon
<1> QED  BY <1>1, <1>2, <1>3, <1>4, <1>5, <1>6, Zenon

\* A call of a cancelled request is answered at once.
LEMMA RefuseCanceledStep ==
  ASSUME IInv, NEW w \in Worker, RefuseCanceled(w) PROVE IInv'
<1> USE Calls DEF IInv, RefuseCanceled, Thread, SendProtoBuf,
        call_vars, comms_vars, crash_vars, map_vars, handler_vars,
        stop_vars
<1>1. Types'  BY DEF Types, Handling
<1>2. ExecInv'  BY Zenon DEF Types, ExecInv
<1>3. MapInv'  BY Zenon DEF Types, MapInv
<1>4. HandlerInv'  BY Zenon DEF Types, HandlerInv, Handling, Caller
<1>5. RowInv'  BY DEF Types, RowInv, Reading, Handling, Caller
<1>6. StepInv'
  <2> SUFFICES ASSUME NEW v \in Worker, v \notin crashed' PROVE InStep(v)'
    BY Zenon DEF StepInv
  <2>1. InStep(v)  BY Zenon DEF StepInv
  <2>2. CASE v # w  BY <2>1, <2>2, Zenon
    DEF Types, ExecInv, InStep, OnItsWay, InHand, Answered, Quiet, Current
  <2>3. CASE v = w
    <3>1. v \in waiting /\ InHand(v)
      BY <2>1, <2>3, Zenon DEF InStep, OnItsWay, Answered, Quiet
    <3>2. Answered(v)'
      BY <2>3, <3>1, OneMessage, Zenon DEF Types, InHand, Answered, Current
    <3> QED  BY <2>1, <2>3, <3>1, <3>2, Zenon DEF InStep
  <2> QED  BY <2>2, <2>3, Zenon
<1> QED  BY <1>1, <1>2, <1>3, <1>4, <1>5, <1>6, Zenon

\* A call goes on.
LEMMA NotCanceledStep ==
  ASSUME IInv, NEW w \in Worker, NotCanceled(w) PROVE IInv'
<1> USE Calls DEF IInv, NotCanceled, Thread,
        call_vars, comms_vars, crash_vars, map_vars, handler_vars,
        stop_vars
<1>1. Types'  BY DEF Types, Handling
<1>2. ExecInv'  BY Zenon DEF Types, ExecInv
<1>3. MapInv'  BY Zenon DEF Types, MapInv
<1>4. HandlerInv'  BY Zenon DEF Types, HandlerInv, Handling, Caller
<1>5. RowInv'  BY DEF Types, RowInv, Reading, Handling, Caller
<1>6. StepInv'
  <2> SUFFICES ASSUME NEW v \in Worker, v \notin crashed' PROVE InStep(v)'
    BY Zenon DEF StepInv
  <2>1. InStep(v)  BY Zenon DEF StepInv
  <2>2. CASE v # w  BY <2>1, <2>2, Zenon
    DEF Types, ExecInv, InStep, OnItsWay, InHand, Answered, Quiet, Current
  <2>3. CASE v = w
    <3>1. v \in waiting /\ InHand(v)
      BY <2>1, <2>3, Zenon DEF InStep, OnItsWay, Answered, Quiet
    <3> QED  BY <2>1, <2>3, <3>1, Zenon DEF Types, InStep, InHand, Current, Handling
  <2> QED  BY <2>2, <2>3, Zenon
<1> QED  BY <1>1, <1>2, <1>3, <1>4, <1>5, <1>6, Zenon

\* A handler gets the mutex of a row.
LEMMA GetMutexStep ==
  ASSUME IInv, NEW w \in Worker, GetMutex(w) PROVE IInv'
<1> USE Calls DEF IInv, GetMutex, Thread,
        call_vars, comms_vars, crash_vars, map_vars, handler_vars,
        stop_vars
<1>1. Types'  BY Zenon DEF Types, Handling
<1>2. ExecInv'  BY Zenon DEF Types, ExecInv
<1>3. MapInv'  BY Zenon DEF Types, MapInv
<1>4. HandlerInv'  BY Zenon DEF Types, HandlerInv, Handling, Caller
<1>5. RowInv'  BY DEF Types, RowInv, Reading, Handling, Caller
<1>6. StepInv'
  <2> SUFFICES ASSUME NEW v \in Worker, v \notin crashed' PROVE InStep(v)'
    BY Zenon DEF StepInv
  <2>1. InStep(v)  BY Zenon DEF StepInv
  <2>2. CASE v # w  BY <2>1, <2>2, Zenon
    DEF Types, ExecInv, InStep, OnItsWay, InHand, Answered, Quiet, Current
  <2>3. CASE v = w
    <3>1. v \in waiting /\ InHand(v)
      BY <2>1, <2>3, Zenon DEF InStep, OnItsWay, Answered, Quiet
    <3> QED  BY <2>1, <2>3, <3>1, Zenon DEF Types, InStep, InHand, Current, Handling
  <2> QED  BY <2>2, <2>3, Zenon
<1> QED  BY <1>1, <1>2, <1>3, <1>4, <1>5, <1>6, Zenon

\* A handler locks a row; if it is gone the sandbox is dead.
LEMMA LockRowStep ==
  ASSUME IInv, NEW w \in Worker, LockRow(w) PROVE IInv'
<1> USE Calls DEF IInv, LockRow, Thread,
        call_vars, comms_vars, crash_vars, map_vars, handler_vars,
        stop_vars
<1>1. Types'
  <2>1. row' \in [Request -> Worker \cup {NULL}]  BY ZenonT(30) DEF Types
  <2>2. hpc' \in [Worker -> Handling \cup {"recv", "exit"}]
    BY ZenonT(30) DEF Types, Handling
  <2> QED  BY <2>1, <2>2, Zenon DEF Types
<1>2. ExecInv'  BY Zenon DEF Types, ExecInv
<1>3. MapInv'  BY Zenon DEF Types, MapInv
<1>4. HandlerInv'  BY DEF Types, HandlerInv, Handling, Caller
<1>5. RowInv'
  <2>1. Caller(w) \in Request  BY Zenon DEF HandlerInv, Handling
  <2>2. \A r \in Request : row[r] # w  BY DEF Types, RowInv, Reading
  <2>3. CASE Caller(w) \in mutex_map /\ row[Caller(w)] = NULL
    <3>1. /\ row'[Caller(w)] = w
          /\ \A r \in Request : r # Caller(w) => row'[r] = row[r]
      BY <2>1, <2>3 DEF Types
    <3>2. /\ hpc'[w] = "value" /\ hcall' = hcall /\ undefined' = undefined
          /\ \A v \in Worker : v # w => hpc'[v] = hpc[v]
      BY <2>3 DEF Types
    <3>3. mutex_map' = mutex_map /\ key_value_map' = key_value_map  BY Zenon
    <3>4. ASSUME NEW r \in Request, row'[r] # NULL
          PROVE  /\ row'[r] \notin undefined' /\ hpc'[row'[r]] \in Reading
                 /\ hcall'[row'[r]][1] = r
      <4>1. CASE r = Caller(w)  BY <3>1, <3>2, <4>1, Zenon DEF Reading, Caller
      <4>2. CASE r # Caller(w)
        <5>1. row[r] \in Worker /\ row[r] # w /\ row'[r] = row[r]
          BY <2>2, <3>1, <3>4, <4>2, Zenon DEF Types
        <5> QED  BY <3>2, <3>4, <5>1 DEF RowInv, Caller
      <4> QED  BY <4>1, <4>2, Zenon
    <3>5. ASSUME NEW v \in Worker, hpc'[v] \in Reading, v \notin undefined'
          PROVE  /\ row'[hcall'[v][1]] = v /\ hcall'[v][1] \in mutex_map'
                 /\ hpc'[v] = "run" => hcall'[v][1] \in key_value_map'
      <4>1. CASE v = w  BY <2>3, <3>1, <3>2, <3>3, <4>1, Zenon DEF Caller
      <4>2. CASE v # w
        <5>1. hpc'[v] = hpc[v] /\ row[Caller(v)] = v
          BY <3>2, <3>5, <4>2, Zenon DEF RowInv
        <5>2. Caller(v) \in Request  BY <3>5, <5>1, Zenon
            DEF HandlerInv, Handling, Reading
        <5>3. Caller(v) # Caller(w)  BY <2>3, <5>1, Zenon
        <5>4. row'[Caller(v)] = v  BY <3>1, <5>1, <5>2, <5>3, Zenon
        <5> QED  BY <3>2, <3>3, <3>5, <5>1, <5>4, Zenon DEF RowInv, Caller
      <4> QED  BY <4>1, <4>2, Zenon
    <3> QED  BY <3>4, <3>5, Zenon DEF RowInv, Caller
  <2>4. CASE Caller(w) \notin mutex_map
    BY <2>2, <2>4, Zenon DEF Types, RowInv, Reading, Caller
  <2> QED  BY <2>3, <2>4, Zenon
<1>6. StepInv'
  <2> SUFFICES ASSUME NEW v \in Worker, v \notin crashed' PROVE InStep(v)'
    BY Zenon DEF StepInv
  <2>1. InStep(v)  BY Zenon DEF StepInv
  <2>2. CASE v # w  BY <2>1, <2>2
    DEF Types, ExecInv, InStep, OnItsWay, InHand, Answered, Quiet, Current
  <2>3. CASE v = w
    <3>1. v \in waiting /\ InHand(v)
      BY <2>1, <2>3, Zenon DEF InStep, OnItsWay, Answered, Quiet
    <3>2. Caller(w) = exec[w] /\ Caller(w) \in mutex_map
      BY <2>3, <3>1 DEF Types, ExecInv, MapInv, InHand, Current, Caller
    <3> QED  BY <2>1, <2>3, <3>1, <3>2, Zenon
        DEF Types, InStep, InHand, Current, Handling
  <2> QED  BY <2>2, <2>3, Zenon
<1> QED  BY <1>1, <1>2, <1>3, <1>4, <1>5, <1>6, Zenon

\* A handler finds metadata, or unlocks the row.
LEMMA GetValueStep ==
  ASSUME IInv, NEW w \in Worker, GetValue(w) PROVE IInv'
<1> USE Calls DEF IInv, GetValue, Thread, Unlock,
        call_vars, comms_vars, crash_vars, map_vars, handler_vars,
        stop_vars
<1>1. Types'  BY ZenonT(30) DEF Types, Handling
<1>2. ExecInv'  BY Zenon DEF Types, ExecInv
<1>3. MapInv'  BY Zenon DEF Types, MapInv
<1>4. HandlerInv'  BY DEF Types, HandlerInv, Handling, Caller
<1>5. RowInv'
  <2>1. Caller(w) \in Request /\ row[Caller(w)] = w /\ hcall' = hcall
    BY Zenon DEF HandlerInv, Handling, RowInv, Reading
  <2>2. \A r \in Request : row[r] = w => r = Caller(w)
    BY DEF Types, RowInv
  <2>3. \A v \in Worker : v # w => hpc'[v] = hpc[v]  BY Zenon DEF Types
  <2>4. CASE Caller(w) \in key_value_map
    <3>1. row' = row /\ hpc'[w] = "run"  BY <2>4, Zenon DEF Types
    <3>2. \A v \in Worker : hpc'[v] \in Reading <=> hpc[v] \in Reading
      BY <2>3, <3>1, Zenon DEF Reading
    <3>3. \A r \in Request : row[r] # NULL => row[r] \in Worker  BY Zenon DEF Types
    <3>4. ASSUME NEW v \in Worker, hpc'[v] = "run"
          PROVE  hpc[v] = "run" \/ v = w
      BY <2>3, <3>4, Zenon
    <3> QED  BY <2>1, <2>4, <3>1, <3>2, <3>3, <3>4, Zenon DEF RowInv, Caller
  <2>5. CASE Caller(w) \notin key_value_map
    <3>1. /\ row'[Caller(w)] = NULL /\ hpc'[w] = "send"
          /\ \A r \in Request : r # Caller(w) => row'[r] = row[r]
      BY <2>1, <2>5, Zenon DEF Types
    <3>2. ASSUME NEW r \in Request, row'[r] # NULL
          PROVE  /\ row'[r] \notin undefined' /\ hpc'[row'[r]] \in Reading
                 /\ hcall'[row'[r]][1] = r
      <4>1. r # Caller(w) /\ row'[r] = row[r] /\ row[r] \in Worker /\ row[r] # w
        BY <2>2, <3>1, <3>2, Zenon DEF Types
      <4> QED  BY <2>1, <2>3, <3>2, <4>1 DEF RowInv, Caller
    <3>3. ASSUME NEW v \in Worker, hpc'[v] \in Reading, v \notin undefined'
          PROVE  /\ row'[hcall'[v][1]] = v /\ hcall'[v][1] \in mutex_map'
                 /\ hpc'[v] = "run" => hcall'[v][1] \in key_value_map'
      <4>1. v # w /\ hpc'[v] = hpc[v]  BY <2>3, <3>1, <3>3, Zenon DEF Reading
      <4>2. Caller(v) \in Request /\ row[Caller(v)] = v
        BY <3>3, <4>1, Zenon DEF HandlerInv, Handling, Reading, RowInv
      <4>3. row'[Caller(v)] = v  BY <2>1, <3>1, <4>1, <4>2, Zenon
      <4> QED  BY <2>1, <3>3, <4>1, <4>3, Zenon DEF RowInv, Caller
    <3> QED  BY <3>2, <3>3, Zenon DEF RowInv, Caller
  <2> QED  BY <2>4, <2>5, Zenon
<1>6. StepInv'
  <2> SUFFICES ASSUME NEW v \in Worker, v \notin crashed' PROVE InStep(v)'
    BY Zenon DEF StepInv
  <2>1. InStep(v)  BY Zenon DEF StepInv
  <2>2. CASE v # w  BY <2>1, <2>2
    DEF Types, ExecInv, InStep, OnItsWay, InHand, Answered, Quiet, Current
  <2>3. CASE v = w
    <3>1. v \in waiting /\ InHand(v)
      BY <2>1, <2>3, Zenon DEF InStep, OnItsWay, Answered, Quiet
    <3> QED  BY <2>1, <2>3, <3>1, Zenon DEF Types, InStep, InHand, Current, Handling
  <2> QED  BY <2>2, <2>3, Zenon
<1> QED  BY <1>1, <1>2, <1>3, <1>4, <1>5, <1>6, Zenon

\* The function returns and the row is unlocked.
LEMMA CallFunctionStep ==
  ASSUME IInv, NEW w \in Worker, CallFunction(w) PROVE IInv'
<1> USE Calls DEF IInv, CallFunction, Thread, Unlock,
        call_vars, comms_vars, crash_vars, map_vars, handler_vars,
        stop_vars
<1>1. Types'  BY Zenon DEF Types, Handling
<1>2. ExecInv'  BY Zenon DEF Types, ExecInv
<1>3. MapInv'  BY Zenon DEF Types, MapInv
<1>4. HandlerInv'  BY Zenon DEF Types, HandlerInv, Handling, Caller
<1>5. RowInv'  BY DEF Types, RowInv, Reading, Handling, Caller
<1>6. StepInv'
  <2> SUFFICES ASSUME NEW v \in Worker, v \notin crashed' PROVE InStep(v)'
    BY Zenon DEF StepInv
  <2>1. InStep(v)  BY Zenon DEF StepInv
  <2>2. CASE v # w  BY <2>1, <2>2, Zenon
    DEF Types, ExecInv, InStep, OnItsWay, InHand, Answered, Quiet, Current
  <2>3. CASE v = w
    <3>1. v \in waiting /\ InHand(v)
      BY <2>1, <2>3, Zenon DEF InStep, OnItsWay, Answered, Quiet
    <3> QED  BY <2>1, <2>3, <3>1, Zenon DEF Types, InStep, InHand, Current, Handling
  <2> QED  BY <2>2, <2>3, Zenon
<1> QED  BY <1>1, <1>2, <1>3, <1>4, <1>5, <1>6, Zenon

\* The reply to the call in hand is sent.
LEMMA SendReplyStep ==
  ASSUME IInv, NEW w \in Worker, SendReply(w) PROVE IInv'
<1> USE Calls DEF IInv, SendReply, Thread, SendProtoBuf,
        call_vars, comms_vars, crash_vars, map_vars, handler_vars,
        stop_vars
<1>1. Types'  BY DEF Types, Handling
<1>2. ExecInv'  BY Zenon DEF Types, ExecInv
<1>3. MapInv'  BY Zenon DEF Types, MapInv
<1>4. HandlerInv'  BY Zenon DEF Types, HandlerInv, Handling, Caller
<1>5. RowInv'  BY DEF Types, RowInv, Reading, Handling, Caller
<1>6. StepInv'
  <2> SUFFICES ASSUME NEW v \in Worker, v \notin crashed' PROVE InStep(v)'
    BY Zenon DEF StepInv
  <2>1. InStep(v)  BY Zenon DEF StepInv
  <2>2. CASE v # w  BY <2>1, <2>2, Zenon
    DEF Types, ExecInv, InStep, OnItsWay, InHand, Answered, Quiet, Current
  <2>3. CASE v = w
    <3>1. v \in waiting /\ InHand(v)
      BY <2>1, <2>3, Zenon DEF InStep, OnItsWay, Answered, Quiet
    <3>2. Answered(v)'
      BY <2>3, <3>1, OneMessage, Zenon DEF Types, InHand, Answered, Current
    <3> QED  BY <2>1, <2>3, <3>1, <3>2, Zenon DEF InStep
  <2> QED  BY <2>2, <2>3, Zenon
<1> QED  BY <1>1, <1>2, <1>3, <1>4, <1>5, <1>6, Zenon

\* Stop waits for the requests to be over.
LEMMA ResetDispatcherStep ==
  ASSUME IInv, ResetDispatcher PROVE IInv'
<1> USE Calls DEF IInv, ResetDispatcher,
        call_vars, comms_vars, crash_vars, map_vars, handler_vars,
        stop_vars
<1>1. Types'  BY Zenon DEF Types, Handling
<1>2. ExecInv'  BY Zenon DEF Types, ExecInv
<1>3. MapInv'  BY Zenon DEF Types, MapInv
<1>4. HandlerInv'  BY Zenon DEF Types, HandlerInv, Handling, Caller
<1>5. RowInv'  BY Zenon DEF Types, RowInv, Reading, Handling, Caller
<1>6. StepInv'  BY Zenon DEF Types, StepInv, ExecInv,
            InStep, OnItsWay, InHand, Answered, Quiet, Current
<1> QED  BY <1>1, <1>2, <1>3, <1>4, <1>5, <1>6, Zenon

\* Stop sets the flag.
LEMMA SetStopStep ==
  ASSUME IInv, SetStop PROVE IInv'
<1> USE Calls DEF IInv, SetStop,
        call_vars, comms_vars, crash_vars, map_vars, handler_vars,
        stop_vars
<1>1. Types'  BY Zenon DEF Types, Handling
<1>2. ExecInv'  BY Zenon DEF Types, ExecInv
<1>3. MapInv'  BY Zenon DEF Types, MapInv
<1>4. HandlerInv'  BY Zenon DEF Types, HandlerInv, Handling, Caller
<1>5. RowInv'  BY Zenon DEF Types, RowInv, Reading, Handling, Caller
<1>6. StepInv'  BY Zenon DEF Types, StepInv, ExecInv,
            InStep, OnItsWay, InHand, Answered, Quiet, Current
<1> QED  BY <1>1, <1>2, <1>3, <1>4, <1>5, <1>6, Zenon

\* Stop wakes the handlers, which have nothing in hand.
LEMMA WakeHandlersStep ==
  ASSUME IInv, WakeHandlers PROVE IInv'
<1> USE Calls DEF IInv, WakeHandlers,
        call_vars, comms_vars, crash_vars, map_vars, handler_vars,
        stop_vars
<1>1. Types'  BY DEF Types, Handling
<1>2. ExecInv'  BY Zenon DEF Types, ExecInv
<1>3. MapInv'  BY Zenon DEF Types, MapInv
<1>4. HandlerInv'  BY Zenon DEF Types, HandlerInv, Handling, Caller
<1>5. RowInv'  BY Zenon DEF Types, RowInv, Reading, Handling, Caller
<1>6. StepInv'  BY Zenon DEF Types, StepInv, ExecInv,
            InStep, OnItsWay, InHand, Answered, Quiet, Current
<1> QED  BY <1>1, <1>2, <1>3, <1>4, <1>5, <1>6, Zenon

\* Stop joins the handlers.
LEMMA JoinStep ==
  ASSUME IInv, Join PROVE IInv'
<1> USE Calls DEF IInv, Join,
        call_vars, comms_vars, crash_vars, map_vars, handler_vars,
        stop_vars
<1>1. Types'  BY Zenon DEF Types, Handling
<1>2. ExecInv'  BY Zenon DEF Types, ExecInv
<1>3. MapInv'  BY Zenon DEF Types, MapInv
<1>4. HandlerInv'  BY Zenon DEF Types, HandlerInv, Handling, Caller
<1>5. RowInv'  BY Zenon DEF Types, RowInv, Reading, Handling, Caller
<1>6. StepInv'  BY Zenon DEF Types, StepInv, ExecInv,
            InStep, OnItsWay, InHand, Answered, Quiet, Current
<1> QED  BY <1>1, <1>2, <1>3, <1>4, <1>5, <1>6, Zenon

-----------------------------------------------------------------------------
(* Theorems *)

\* Every step keeps the invariant.
LEMMA NextIInv ==
  ASSUME IInv, [Next]_vars PROVE IInv'
<1>1. ASSUME NEW r \in Request,
             StoreMetadata(r) \/ InvokeRefused(r) \/ Cancel(r) \/ Delete(r)
      PROVE IInv'
  BY <1>1, StoreMetadataStep, InvokeRefusedStep, CancelStep, DeleteFindsStep,
     DeleteErasesValueStep, DeleteErasesMutexStep, Zenon DEF Delete
<1>2. ASSUME NEW w \in Worker, NEW r \in Request, RunCode(w, r) PROVE IInv'
  BY <1>2, RunCodeStep, Zenon
<1>3. ASSUME NEW w \in Worker,
             Invoke(w) \/ InvokeReturns(w) \/ RunCodeReturns(w) \/ SandboxDies(w)
      PROVE IInv'
  BY <1>3, InvokeStep, InvokeReturnsStep, RunCodeReturnsStep, SandboxDiesStep, Zenon
<1>4. ASSUME NEW w \in Worker, Handle(w) PROVE IInv'
  BY <1>4, RecvCallStep, RefuseCanceledStep, NotCanceledStep, GetMutexStep,
     LockRowStep, GetValueStep, CallFunctionStep, SendReplyStep, Zenon DEF Handle
<1>5. CASE Stopping
  BY <1>5, ResetDispatcherStep, SetStopStep, WakeHandlersStep, JoinStep, Zenon
     DEF Stopping
<1>6. CASE UNCHANGED vars
  BY <1>6, SMTT(30), ZenonT(30)
          DEF vars, call_vars, comms_vars, crash_vars, map_vars, handler_vars,
              stop_vars, IInv, Types, ExecInv, MapInv, HandlerInv, RowInv, StepInv,
              InStep, OnItsWay, InHand, Answered, Quiet, Current, Caller
<1> QED  BY <1>1, <1>2, <1>3, <1>4, <1>5, <1>6, Zenon DEF Next

\* The inductive invariant always holds.
LEMMA Invariance == Spec => []IInv
BY InitIInv, NextIInv, PTL DEF Spec

\* A native function runs under the lock of a row that is in the map, with its
\* metadata; only on a worker whose sandbox died may a handler be left with a
\* mutex that Delete has erased.
THEOREM MetadataAlwaysPinned == Spec => []MetadataPinned
<1>1. ASSUME IInv PROVE MetadataPinned
  BY <1>1, Zenon DEF IInv, RowInv, StepInv, InStep, MetadataPinned, Reading
<1> QED  BY <1>1, Invariance, PTL

\* Without a crash, the reply that Invoke takes is the one to its own call.
THEOREM RepliesAlwaysInStep == Spec => []RepliesInStep
<1>1. IInv => RepliesInStep  BY Zenon DEF IInv, StepInv, InStep, RepliesInStep
<1> QED  BY <1>1, Invariance, PTL
=============================================================================

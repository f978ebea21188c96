------------------------- MODULE ByobPointerProofs -------------------------
(***************************************************************************)
(* The first layers of the inductive invariant of ByobDispatcher, for any  *)
(* sets of tokens, acceptors, connections and requests:                    *)
(*   TypeLayer     types, who has a descriptor, and the thread count;      *)
(*   PointerLayer  who may point to the RequestMetadata on the stack of an *)
(*                 acceptor, and that the acceptor is still there;         *)
(*   FdOwnership   who closes a descriptor;                                *)
(*   CallLayer     which calls can be under way, and the destructor.       *)
(***************************************************************************)
EXTENDS ByobDispatcher, FiniteSetTheorems, TLAPS

\* An acceptor has a descriptor exactly between accept() and close().
FdHeld == \A a \in Acceptor : HoldsFd(a) <=> fd[a] # NULL

TypeLayer == TypeOK /\ FdHeld /\ InFlightCount

\* The Notification and the handler of an acceptor exist while it sleeps.
AsleepWhenUsed ==
  \A a \in Acceptor : ready[a] \/ handler[a] # NULL => apc[a] = "wait"

\* A token that is not a key of the table has no queue.
UnknownEmpty == \A t \in Token : t \notin known => request_metadatas[t] = <<>>

\* ProcessRequest has a pointer from its pop to its Notify.
HolderHasPointer ==
  \A r \in Request : ppc[r] \in {"send", "notify"} => pmeta[r] \in Acceptor

PointerLayer ==
  /\ AsleepWhenUsed /\ UnknownEmpty /\ HolderHasPointer
  /\ PointersValid /\ PointersUnique

USE DEF table_vars, acceptor_vars, load_vars, request_vars, worker_vars,
        dtor_vars

-----------------------------------------------------------------------------
(* Types *)

\* The thread count stays right when nobody starts or leaves.
LEMMA CountKept ==
  ASSUME InFlightCount, in_flight' = in_flight,
         \A a \in Acceptor : Running(a)' <=> Running(a)
  PROVE  InFlightCount'
<1>1. {a \in Acceptor : Running(a)}' = {a \in Acceptor : Running(a)}
  BY Zenon
<1> QED BY <1>1, Zenon DEF InFlightCount

\* The sizes of two disjoint sets of acceptors add up.
LEMMA CardinalityDisjoint ==
  ASSUME NEW A, NEW B, IsFiniteSet(A), IsFiniteSet(B), A \cap B = {}
  PROVE  Cardinality(A \cup B) = Cardinality(A) + Cardinality(B)
<1>1. Cardinality(A \cap B) = 0
  BY FS_EmptySet, Zenon
<1>2. Cardinality(A \cup B)
        = Cardinality(A) + Cardinality(B) - Cardinality(A \cap B)
  BY FS_Union, Zenon
<1>3. Cardinality(A) \in Nat /\ Cardinality(B) \in Nat
  BY FS_CardinalityType, Zenon
<1> QED BY <1>1, <1>2, <1>3

\* SpawnAcceptors adds to the count the threads it starts.
LEMMA CountSpawned ==
  ASSUME TypeOK, InFlightCount, NEW t \in Token, SpawnAcceptors(t)
  PROVE  InFlightCount' /\ in_flight' \in Nat
<1> DEFINE R == {a \in Acceptor : Running(a)}
<1>1. PICK S \in SUBSET {a \in Acceptor : apc[a] = "none"} :
        /\ Cardinality(S) = NumWorkers[t]
        /\ apc' = [a \in Acceptor |-> IF a \in S THEN "accept" ELSE apc[a]]
  BY Zenon DEF SpawnAcceptors
<1>2. R' = R \cup S /\ R \cap S = {}
  BY <1>1, Zenon DEF TypeOK, Running
<1>3. IsFiniteSet(R) /\ IsFiniteSet(S)
  BY FiniteAssumption, FS_Subset, Zenon
<1>4. Cardinality(R \cup S) = Cardinality(R) + Cardinality(S)
  BY <1>2, <1>3, CardinalityDisjoint, Zenon
<1>5. in_flight' = in_flight + NumWorkers[t]
  BY Zenon DEF SpawnAcceptors, Spawned
<1>6. NumWorkers[t] \in Nat /\ in_flight \in Nat
  BY NumWorkersAssumption, Zenon DEF TypeOK
<1> HIDE DEF R
<1>7. Cardinality(R') = in_flight'
  BY <1>1, <1>2, <1>4, <1>5, Zenon DEF InFlightCount, R
<1> QED BY <1>5, <1>6, <1>7 DEF InFlightCount, R

\* An acceptor that leaves is one of those counted.
LEMMA CountExit ==
  ASSUME TypeOK, InFlightCount, NEW a \in Acceptor, Exit(a)
  PROVE  InFlightCount' /\ in_flight' \in Nat
<1> DEFINE R == {b \in Acceptor : Running(b)}
<1>1. a \in R /\ R' = R \ {a}
  BY Zenon DEF Exit, TypeOK, Running
<1>2. IsFiniteSet(R)
  BY FiniteAssumption, FS_Subset, Zenon
<1>3. Cardinality(R \ {a}) = Cardinality(R) - 1
  BY <1>1, <1>2, FS_RemoveElement, Zenon
<1>4. Cardinality(R \ {a}) \in Nat
  BY <1>2, FS_RemoveElement, FS_CardinalityType, Zenon
<1> QED BY <1>1, <1>3, <1>4, Zenon DEF InFlightCount, Exit

\* The constructed dispatcher satisfies the layer.
LEMMA TypeInit == Init => TypeLayer
<1> SUFFICES ASSUME Init PROVE TypeLayer
  BY Zenon
<1>1. TypeOK
  BY NullAssumption, BoundAssumption
  DEF Init, TypeOK, AcceptorPc, LoadPc, RequestPc, Progress
<1>2. FdHeld
  BY Zenon DEF Init, FdHeld, HoldsFd
<1>3. InFlightCount
  <2>1. {a \in Acceptor : Running(a)} = {}
    BY Zenon DEF Init, Running
  <2> QED BY <2>1, FS_EmptySet, ZenonT(30) DEF InFlightCount, Init
<1> QED BY <1>1, <1>2, <1>3, Zenon DEF TypeLayer

\* Every step keeps the types, the descriptors held and the thread count.
LEMMA TypeNext == TypeLayer /\ [Next]_vars => TypeLayer'
<1> SUFFICES ASSUME TypeLayer, [Next]_vars PROVE TypeLayer'
  BY Zenon
<1> USE NumWorkersAssumption, BoundAssumption, NullAssumption
        DEF TypeLayer, FdHeld, HoldsFd
<1> DEFINE SameThreads ==
      in_flight' = in_flight /\ \A a \in Acceptor : Running(a)' <=> Running(a)
<1>1. ASSUME NEW t \in Token, LoadRejected(t)
      PROVE  TypeOK' /\ FdHeld' /\ SameThreads
  BY <1>1, Zenon DEF LoadRejected, TypeOK, LoadPc, Running
<1>2. ASSUME NEW t \in Token, InsertToken(t)
      PROVE  TypeOK' /\ FdHeld' /\ SameThreads
  BY <1>2 DEF InsertToken, TypeOK, LoadPc, Running
<1>3. ASSUME NEW t \in Token, RunnerLoad(t) \/ RunnerLoadFails(t)
      PROVE  TypeOK' /\ FdHeld' /\ SameThreads
  <2>1. CASE RunnerLoad(t)
    BY <2>1, Zenon DEF RunnerLoad, TypeOK, LoadPc, Running
  <2>2. CASE RunnerLoadFails(t)
    BY <2>2, Zenon DEF RunnerLoadFails, TypeOK, LoadPc, Running
  <2> QED BY <1>3, <2>1, <2>2, Zenon
<1>4. ASSUME NEW t \in Token, LoadRpcFailed(t)
      PROVE  TypeOK' /\ FdHeld' /\ SameThreads
  BY <1>4 DEF LoadRpcFailed, TypeOK, LoadPc, Running
<1>5. ASSUME NEW t \in Token, SpawnAcceptors(t)
      PROVE  TypeOK' /\ FdHeld' /\ InFlightCount'
  <2>1. InFlightCount' /\ in_flight' \in Nat
    BY <1>5, CountSpawned, Zenon
  <2> QED BY <1>5, <2>1 DEF SpawnAcceptors, TypeOK, LoadPc, AcceptorPc
<1>6. ASSUME NEW t \in Token, WorkerReady(t) \/ WorkerTimeout(t)
      PROVE  TypeOK' /\ FdHeld' /\ SameThreads
  <2>1. CASE WorkerReady(t)
    BY <2>1, Zenon DEF WorkerReady, TypeOK, LoadPc, Running
  <2>2. CASE WorkerTimeout(t)
    BY <2>2, Zenon DEF WorkerTimeout, TypeOK, LoadPc, Running
  <2> QED BY <1>6, <2>1, <2>2, Zenon
<1>7. ASSUME NEW t \in Token, Delete(t)
      PROVE  TypeOK' /\ FdHeld' /\ SameThreads
  BY <1>7, Zenon DEF Delete, TypeOK, Running
<1>8. ASSUME NEW t \in Token, RunnerDelete(t)
      PROVE  TypeOK' /\ FdHeld' /\ SameThreads
  <2>1. TypeOK'
    <3>1. alive' \in [Conn -> BOOLEAN]
      <4>1. CASE alive' = [c \in Conn |-> alive[c] /\ ctoken[c] # t]
        BY <4>1, Zenon
      <4>2. CASE alive' = alive
        BY <4>2, Zenon DEF TypeOK
      <4> QED BY <1>8, <4>1, <4>2, Zenon DEF RunnerDelete
    <3>2. pool' \subseteq Token /\ binary' \subseteq Token
      BY <1>8, Zenon DEF RunnerDelete, TypeOK
    <3>3. del' \in [Token -> {"idle", "rpc", "lock"}]
      BY <1>8, Zenon DEF RunnerDelete, TypeOK
    <3>4. UNCHANGED <<table_vars, in_flight, acceptor_vars, load, request_vars,
                      sock, ctoken, progress, dtor_vars>>
      BY <1>8, Zenon DEF RunnerDelete
    <3> QED BY <3>1, <3>2, <3>3, <3>4, Zenon DEF TypeOK
  <2>2. FdHeld' /\ SameThreads
    BY <1>8, Zenon DEF RunnerDelete, Running
  <2> QED BY <2>1, <2>2, Zenon
<1>9. ASSUME NEW t \in Token, EraseToken(t)
      PROVE  TypeOK' /\ FdHeld' /\ SameThreads
  BY <1>9 DEF EraseToken, TypeOK, LoadPc, Running
<1>10. ASSUME NEW r \in Request, Cancel(r)
       PROVE  TypeOK' /\ FdHeld' /\ SameThreads
  BY <1>10, Zenon DEF Cancel, TypeOK, Running
<1>11. ASSUME NEW r \in Request, NEW t \in Token, ProcessRequest(r, t)
       PROVE  TypeOK' /\ FdHeld' /\ SameThreads
  BY <1>11, Zenon DEF ProcessRequest, TypeOK, RequestPc, Running
<1>12. ASSUME NEW r \in Request, RefuseRequest(r)
       PROVE  TypeOK' /\ FdHeld' /\ SameThreads
  BY <1>12, ZenonT(30) DEF RefuseRequest, TypeOK, RequestPc, Running
<1>13. ASSUME NEW r \in Request, PopMetadata(r)
       PROVE  TypeOK' /\ FdHeld' /\ SameThreads
  BY <1>13 DEF PopMetadata, Popped, TypeOK, RequestPc, Running
<1>14. ASSUME NEW r \in Request, SendRequest(r)
       PROVE  TypeOK' /\ FdHeld' /\ SameThreads
  BY <1>14, ZenonT(30) DEF SendRequest, HandlerOf, TypeOK, RequestPc, Progress, Running
<1>15. ASSUME NEW r \in Request, NotifyReady(r)
       PROVE  TypeOK' /\ FdHeld' /\ SameThreads
  BY <1>15, ZenonT(30) DEF NotifyReady, TypeOK, RequestPc, Running
<1>16. ASSUME NEW a \in Acceptor, NEW c \in Conn, Accept(a, c)
       PROVE  TypeOK' /\ FdHeld' /\ SameThreads
  BY <1>16 DEF Accept, TypeOK, AcceptorPc, Running
<1>17. ASSUME NEW a \in Acceptor, AcceptFails(a)
       PROVE  TypeOK' /\ FdHeld' /\ SameThreads
  BY <1>17 DEF AcceptFails, TypeOK, AcceptorPc, Running
<1>18. ASSUME NEW a \in Acceptor, ReadTokens(a) \/ ReadReadyByte(a)
       PROVE  TypeOK' /\ FdHeld' /\ SameThreads
  <2>1. CASE ReadTokens(a)
    BY <2>1, Zenon DEF ReadTokens, TypeOK, AcceptorPc, Running
  <2>2. CASE ReadReadyByte(a)
    BY <2>2, ZenonT(30) DEF ReadReadyByte, TypeOK, AcceptorPc, Running
  <2> QED BY <1>18, <2>1, <2>2, Zenon
<1>19. ASSUME NEW a \in Acceptor, ReadFails(a)
       PROVE  TypeOK' /\ FdHeld' /\ SameThreads
  BY <1>19, SMTT(20) DEF ReadFails, CloseAndLoop, LoopPc, TypeOK, AcceptorPc, Progress,
               Running
<1>20. ASSUME NEW a \in Acceptor, PushMetadata(a) \/ DropConnection(a)
       PROVE  TypeOK' /\ FdHeld' /\ SameThreads
  <2>1. CASE PushMetadata(a)
    BY <2>1, SMTT(20) DEF PushMetadata, QueueFor, TypeOK, AcceptorPc, Running
  <2>2. CASE DropConnection(a)
    BY <2>2, SMTT(20) DEF DropConnection, CloseAndLoop, LoopPc, TypeOK, AcceptorPc,
                Progress, Running
  <2> QED BY <1>20, <2>1, <2>2, Zenon
<1>21. ASSUME NEW a \in Acceptor, RunDefaultHandler(a)
       PROVE  TypeOK' /\ FdHeld' /\ SameThreads
  BY <1>21, SMTT(20) DEF RunDefaultHandler, CloseAndLoop, LoopPc, TypeOK, AcceptorPc,
               Progress, Running
<1>22. ASSUME NEW a \in Acceptor, RunHandler(a)
       PROVE  TypeOK' /\ FdHeld' /\ SameThreads
  BY <1>22 DEF RunHandler, CloseAndLoop, LoopPc, TypeOK, AcceptorPc, Progress,
               Running
<1>23. ASSUME NEW a \in Acceptor, Exit(a)
       PROVE  TypeOK' /\ FdHeld' /\ InFlightCount'
  <2>1. InFlightCount' /\ in_flight' \in Nat
    BY <1>23, CountExit, Zenon
  <2> QED BY <1>23, <2>1, Zenon DEF Exit, TypeOK, AcceptorPc
<1>24. ASSUME DtorShutdown \/ DtorNotifyAll \/ DtorFinish
       PROVE  TypeOK' /\ FdHeld' /\ SameThreads
  <2>1. CASE DtorShutdown
    BY <2>1, Zenon DEF DtorShutdown, TypeOK, Running
  <2>2. CASE DtorNotifyAll
    <3>1. ready' \in [Acceptor -> BOOLEAN]
      <4>1. ready' = [a \in Acceptor |-> ready[a] \/ a \in DtorNotifies]
        BY <2>2, Zenon DEF DtorNotifyAll
      <4> QED BY <4>1, Zenon
    <3>2. known' \subseteq Token /\ request_metadatas' \in [Token -> Seq(Acceptor)]
      BY <2>2 DEF DtorNotifyAll
    <3>3. dtor' = "await"
          /\ UNCHANGED <<in_flight, apc, parent, parent_deleted, fd, handler,
                         load_vars, request_vars, worker_vars, listening,
                         accept_errors, pool>>
      BY <2>2, Zenon DEF DtorNotifyAll
    <3>4. TypeOK'
      BY <3>1, <3>2, <3>3, Zenon DEF TypeOK
    <3> QED BY <3>3, <3>4, Zenon DEF Running
  <2>3. CASE DtorFinish
    BY <2>3, Zenon DEF DtorFinish, TypeOK, Running
  <2> QED BY <1>24, <2>1, <2>2, <2>3, Zenon
<1>25. ASSUME NEW c \in Conn, NEW t \in Token, WorkerConnect(c, t)
       PROVE  TypeOK' /\ FdHeld' /\ SameThreads
  BY <1>25, Zenon DEF WorkerConnect, TypeOK, Progress, Running
<1>26. ASSUME NEW c \in Conn, WorkerStep(c) \/ WorkerDies(c)
       PROVE  TypeOK' /\ FdHeld' /\ SameThreads
  <2>1. progress' \in [Conn -> Progress] /\ alive' \in [Conn -> BOOLEAN]
    <3>1. CASE WorkerStep(c)
      BY <3>1, ZenonT(30) DEF WorkerStep, TypeOK, Progress
    <3>2. CASE WorkerDies(c)
      BY <3>2, Zenon DEF WorkerDies, TypeOK
    <3> QED BY <1>26, <3>1, <3>2, Zenon
  <2> QED BY <1>26, <2>1 DEF WorkerStep, WorkerDies, TypeOK, Running
<1>27. CASE UNCHANGED vars
  <2>1. TypeOK' /\ FdHeld' /\ SameThreads
    BY <1>27, Zenon DEF vars, TypeOK, Running
  <2> QED BY <2>1, CountKept, Zenon
<1> HIDE DEF SameThreads
<1>28. SameThreads => InFlightCount'
  BY CountKept, Zenon DEF SameThreads
<1> QED
  BY ZenonT(30), <1>1, <1>2, <1>3, <1>4, <1>5, <1>6, <1>7, <1>8, <1>9, <1>10, <1>11, <1>12,
     <1>13, <1>14, <1>15, <1>16, <1>17, <1>18, <1>19, <1>20, <1>21, <1>22,
     <1>23, <1>24, <1>25, <1>26, <1>27, <1>28
  DEF Next, LoadStep, DeleteStep, RequestStep, AcceptorStep, DtorStep,
      LoadBinary, LoadBinaryForLogging, Terminated

\* Every variable of the model keeps its type; in particular
\* acceptor_threads_in_flight_ never becomes negative.
THEOREM TypeCorrect == Spec => []TypeOK
<1>1. Spec => []TypeLayer
  BY TypeInit, TypeNext, PTL DEF Spec
<1> QED BY <1>1, PTL DEF TypeLayer

\* acceptor_threads_in_flight_, on which the destructor waits, counts exactly
\* the acceptor threads that have been started and have not left.
THEOREM InFlightCounted == Spec => []InFlightCount
<1>1. Spec => []TypeLayer
  BY TypeInit, TypeNext, PTL DEF Spec
<1> QED BY <1>1, PTL DEF TypeLayer

-----------------------------------------------------------------------------
(* Pointers to RequestMetadata *)

pointer_vars == <<known, request_metadatas, apc, ready, handler, ppc, pmeta>>

\* No pointer exists in a constructed dispatcher.
LEMMA PointerInit == Init => PointerLayer
<1> SUFFICES ASSUME Init PROVE PointerLayer
  BY Zenon
<1>1. \A t \in Token : request_metadatas[t] = <<>> /\ Queued(t) = {}
  BY DEF Init, Queued
<1> QED BY <1>1, SMTT(30)
                DEF Init, PointerLayer, AsleepWhenUsed, UnknownEmpty,
                    HolderHasPointer, PointersValid, PointersUnique, Holds

\* What is queued is a set of acceptors.
LEMMA QueuedType == TypeOK => \A t \in Token : Queued(t) \subseteq Acceptor
BY SMTT(30) DEF Queued, TypeOK

\* Pointers stay unique when the queues are left alone and nobody gains one.
LEMMA UniqueKept ==
  ASSUME TypeOK, PointersUnique, request_metadatas' = request_metadatas,
         \A r \in Request : \A a \in Acceptor : Holds(r, a)' => Holds(r, a)
  PROVE  PointersUnique'
<1> DEFINE Distinct(m) ==
             \A t, u \in Token : \A i \in 1..Len(m[t]) : \A j \in 1..Len(m[u]) :
               m[t][i] = m[u][j] => t = u /\ i = j
<1>0. Distinct(request_metadatas)
  BY Zenon DEF PointersUnique
<1> HIDE DEF Distinct
<1>1. Distinct(request_metadatas')
  BY <1>0, Zenon
<1>2. \A t \in Token : Queued(t)' = Queued(t) /\ Queued(t) \subseteq Acceptor
  BY QueuedType, Zenon DEF Queued
<1>3. \A r \in Request : \A t \in Token : \A a \in Queued(t)' : ~Holds(r, a)'
  BY <1>2 DEF PointersUnique
<1>4. \A r, s \in Request : \A a \in Acceptor :
        Holds(r, a)' /\ Holds(s, a)' => r = s
  BY Zenon DEF PointersUnique
<1> QED BY <1>1, <1>3, <1>4, Zenon DEF PointersUnique, Distinct

\* An acceptor that is awake, or was notified, is not pointed to: whatever it
\* does to its own frame concerns nobody else.
LEMMA OwnFrame ==
  ASSUME TypeOK, PointerLayer,
         NEW a \in Acceptor, apc[a] # "wait" \/ ready[a],
         apc'[a] # "wait", ~ready'[a], handler'[a] = NULL,
         \A b \in Acceptor \ {a} :
           apc'[b] = apc[b] /\ ready'[b] = ready[b] /\ handler'[b] = handler[b],
         UNCHANGED <<known, request_metadatas, ppc, pmeta>>
  PROVE  PointerLayer'
<1> USE DEF PointerLayer
<1>0. \A t \in Token : Queued(t)' = Queued(t)
  BY Zenon DEF Queued
<1>1. \A t \in Token : Queued(t)' = Queued(t) /\ a \notin Queued(t)
  BY <1>0, Zenon DEF PointersValid
<1>2. \A r \in Request : ~Holds(r, a)
  BY Zenon DEF PointersValid
<1>3. \A r \in Request : \A b \in Acceptor : Holds(r, b)' <=> Holds(r, b)
  BY Zenon DEF Holds
<1>4. AsleepWhenUsed' /\ UnknownEmpty' /\ HolderHasPointer'
  BY Zenon DEF AsleepWhenUsed, UnknownEmpty, HolderHasPointer
<1>5. PointersValid'
  BY <1>1, <1>2, <1>3, QueuedType, Zenon DEF PointersValid
<1>6. PointersUnique'
  BY <1>3, UniqueKept, Zenon
<1> QED BY <1>4, <1>5, <1>6, Zenon

\* Taking a whole queue away, after notifying everyone in it or nobody.
LEMMA QueueDropped ==
  ASSUME TypeOK, PointerLayer, NEW t \in Token, NEW W \in SUBSET Queued(t),
         known' = known \ {t},
         request_metadatas' = [request_metadatas EXCEPT ![t] = <<>>],
         ready' = [a \in Acceptor |-> ready[a] \/ a \in W],
         UNCHANGED <<apc, handler, ppc, pmeta>>
  PROVE  PointerLayer'
<1> USE DEF PointerLayer
<1>1. Queued(t)' = {} /\ \A u \in Token \ {t} : Queued(u)' = Queued(u)
  BY DEF Queued, TypeOK
<1>2. \A u \in Token : Queued(u) \subseteq Acceptor
  BY QueuedType, Zenon
<1>3. \A u \in Token \ {t} : Queued(u) \cap Queued(t) = {}
  BY DEF PointersUnique, Queued
<1>4. \A r \in Request : \A a \in Acceptor : Holds(r, a)' <=> Holds(r, a)
  BY Zenon DEF Holds
<1>5. AsleepWhenUsed' /\ UnknownEmpty' /\ HolderHasPointer'
  BY <1>2, Zenon DEF AsleepWhenUsed, UnknownEmpty, HolderHasPointer, PointersValid,
              TypeOK
<1>6. PointersValid'
  <2>1. \A u \in Token : \A a \in Queued(u)' :
          apc'[a] = "wait" /\ ~ready'[a] /\ handler'[a] = NULL
    BY <1>1, <1>2, <1>3, Zenon DEF PointersValid
  <2>2. \A r \in Request : \A a \in Acceptor :
          Holds(r, a)' => apc'[a] = "wait" /\ ~ready'[a]
    BY <1>4, Zenon DEF PointersValid, PointersUnique
  <2> QED BY <2>1, <2>2, Zenon DEF PointersValid
<1>7. PointersUnique'
  <2>1. \A u, v \in Token : \A i \in 1..Len(request_metadatas'[u]) :
          \A j \in 1..Len(request_metadatas'[v]) :
            request_metadatas'[u][i] = request_metadatas'[v][j] => u = v /\ i = j
    BY DEF PointersUnique, TypeOK
  <2>2. \A r \in Request : \A u \in Token : \A a \in Queued(u)' : ~Holds(r, a)'
    BY <1>1, <1>2, <1>4 DEF PointersUnique
  <2>3. \A r, s \in Request : \A a \in Acceptor :
          Holds(r, a)' /\ Holds(s, a)' => r = s
    BY <1>4, Zenon DEF PointersUnique
  <2> QED BY <2>1, <2>2, <2>3, Zenon DEF PointersUnique
<1> QED BY <1>5, <1>6, <1>7, Zenon

\* A pop takes entries from one queue only.
LEMMA PopShrinks ==
  ASSUME TypeOK, NEW r \in Request, PopMetadata(r)
  PROVE  \A u \in Token : Queued(u)' \subseteq Queued(u)
<1> DEFINE t == ptoken[r]
           q == request_metadatas[t]
<1>1. t \in Token /\ q \in Seq(Acceptor) /\ q # <<>>
  BY Zenon DEF PopMetadata, TypeOK
<1>2. request_metadatas' = [request_metadatas EXCEPT ![t] = Tail(q)]
  BY Zenon DEF PopMetadata, Popped
<1>3. /\ Tail(q) \in Seq(Acceptor) /\ Len(Tail(q)) = Len(q) - 1
      /\ \A i \in 1..Len(Tail(q)) : Tail(q)[i] = q[i + 1] /\ i + 1 \in 1..Len(q)
  BY <1>1
<1> HIDE DEF t, q
<1>4. /\ \A u \in Token \ {t} : request_metadatas'[u] = request_metadatas[u]
      /\ request_metadatas'[t] = Tail(q) /\ request_metadatas[t] = q
  BY <1>1, <1>2, Zenon DEF TypeOK, q
<1> TAKE u \in Token
<1>5. CASE u = t
  BY <1>1, <1>3, <1>4, <1>5, SMTT(60) DEF Queued
<1>6. CASE u # t
  BY <1>4, <1>6, Zenon DEF Queued
<1> QED BY <1>5, <1>6, Zenon

\* Every step keeps the pointers to RequestMetadata valid and unique.
LEMMA PointerNext == TypeLayer /\ PointerLayer /\ [Next]_vars => PointerLayer'
<1> SUFFICES ASSUME TypeOK, PointerLayer, [Next]_vars PROVE PointerLayer'
  BY Zenon DEF TypeLayer
<1> USE NullAssumption DEF PointerLayer
<1>1. CASE UNCHANGED pointer_vars
  <2>1. \A t \in Token : Queued(t)' = Queued(t)
    BY <1>1, Zenon DEF Queued, pointer_vars
  <2>2. \A r \in Request : \A a \in Acceptor : Holds(r, a)' <=> Holds(r, a)
    BY <1>1, Zenon DEF Holds, pointer_vars
  <2>3. UNCHANGED <<known, request_metadatas, apc, ready, handler, ppc, pmeta>>
    BY <1>1, Zenon DEF pointer_vars
  <2>4. AsleepWhenUsed' /\ UnknownEmpty' /\ HolderHasPointer'
    BY <2>3, Zenon DEF AsleepWhenUsed, UnknownEmpty, HolderHasPointer
  <2>5. PointersValid'
    BY <2>1, <2>2, <2>3, QueuedType, Zenon DEF PointersValid
  <2>6. PointersUnique'
    BY <2>2, <2>3, UniqueKept, Zenon
  <2> QED BY <2>4, <2>5, <2>6, Zenon
<1>2. ASSUME NEW t \in Token, InsertToken(t) PROVE PointerLayer'
  <2>1. Queued(t)' = {} /\ \A u \in Token \ {t} : Queued(u)' = Queued(u)
    BY <1>2 DEF InsertToken, Queued, TypeOK
  <2>2. \A r \in Request : \A a \in Acceptor : Holds(r, a)' <=> Holds(r, a)
    BY <1>2, Zenon DEF InsertToken, Holds
  <2>3. AsleepWhenUsed' /\ UnknownEmpty' /\ HolderHasPointer'
    BY <1>2, Zenon DEF InsertToken, AsleepWhenUsed, UnknownEmpty, HolderHasPointer,
                TypeOK
  <2>4. PointersValid'
    BY <1>2, <2>1, <2>2, QueuedType, ZenonT(30) DEF InsertToken, PointersValid
  <2>5. \A u, v \in Token : \A i \in 1..Len(request_metadatas'[u]) :
          \A j \in 1..Len(request_metadatas'[v]) :
            request_metadatas'[u][i] = request_metadatas'[v][j] => u = v /\ i = j
    BY <1>2 DEF InsertToken, PointersUnique, TypeOK
  <2>6. \A u \in Token : Queued(u)' \subseteq Queued(u) /\ Queued(u) \subseteq Acceptor
    BY <2>1, QueuedType, Zenon
  <2>7. /\ \A r \in Request : \A u \in Token : \A b \in Queued(u) : ~Holds(r, b)
        /\ \A r, s \in Request : \A b \in Acceptor :
             Holds(r, b) /\ Holds(s, b) => r = s
    BY Zenon DEF PointersUnique
  <2>8. \A r \in Request : \A u \in Token : \A b \in Queued(u)' : ~Holds(r, b)'
    BY <2>2, <2>6, <2>7, Zenon
  <2>9. \A r, s \in Request : \A b \in Acceptor :
          Holds(r, b)' /\ Holds(s, b)' => r = s
    BY <2>2, <2>7, Zenon
  <2>10. PointersUnique'
    BY <2>5, <2>8, <2>9, Zenon DEF PointersUnique
  <2> QED BY <2>3, <2>4, <2>10, Zenon
<1>3. ASSUME NEW t \in Token, LoadRpcFailed(t) PROVE PointerLayer'
  <2> DEFINE W == {}
  <2>1. W \in SUBSET Queued(t) /\ ready' = [a \in Acceptor |-> ready[a] \/ a \in W]
    BY <1>3 DEF LoadRpcFailed, TypeOK
  <2> HIDE DEF W
  <2> QED BY <1>3, <2>1, QueueDropped, ZenonT(30) DEF LoadRpcFailed
<1>4. ASSUME NEW t \in Token, EraseToken(t) PROVE PointerLayer'
  BY <1>4, QueueDropped, ZenonT(30) DEF EraseToken, DeleteNotifies
<1>5. ASSUME NEW t \in Token, SpawnAcceptors(t) PROVE PointerLayer'
  <2>1. UNCHANGED <<known, request_metadatas, ready, handler, ppc, pmeta>>
    BY <1>5, Zenon DEF SpawnAcceptors
  <2>2. \A a \in Acceptor : apc[a] = "wait" <=> apc'[a] = "wait"
    BY <1>5, SMTT(30) DEF SpawnAcceptors, TypeOK
  <2>3. \A u \in Token : Queued(u)' = Queued(u)
    BY <2>1, Zenon DEF Queued
  <2>4. \A r \in Request : \A a \in Acceptor : Holds(r, a)' <=> Holds(r, a)
    BY <2>1, Zenon DEF Holds
  <2>5. AsleepWhenUsed' /\ UnknownEmpty' /\ HolderHasPointer'
    BY <2>1, <2>2, Zenon DEF AsleepWhenUsed, UnknownEmpty, HolderHasPointer
  <2>6. PointersValid'
    BY <2>1, <2>2, <2>3, <2>4, QueuedType, Zenon DEF PointersValid
  <2>7. PointersUnique'
    BY <2>1, <2>4, UniqueKept, Zenon
  <2> QED BY <2>5, <2>6, <2>7, Zenon
<1>6. ASSUME NEW r \in Request,
             RefuseRequest(r) \/ \E t \in Token : ProcessRequest(r, t)
      PROVE  PointerLayer'
  <2>1. UNCHANGED <<known, request_metadatas, apc, ready, handler, pmeta>>
    BY <1>6, Zenon DEF RefuseRequest, ProcessRequest
  <2>2. \A s \in Request : ppc'[s] \in {"send", "notify"} <=>
                            ppc[s] \in {"send", "notify"}
    BY <1>6 DEF RefuseRequest, ProcessRequest, TypeOK
  <2>3. \A u \in Token : Queued(u)' = Queued(u)
    BY <2>1, Zenon DEF Queued
  <2>4. \A s \in Request : \A a \in Acceptor : Holds(s, a)' <=> Holds(s, a)
    BY <2>1, <2>2, Zenon DEF Holds
  <2>5. AsleepWhenUsed' /\ UnknownEmpty' /\ HolderHasPointer'
    BY <2>1, <2>2, Zenon DEF AsleepWhenUsed, UnknownEmpty, HolderHasPointer
  <2>6. PointersValid'
    BY <2>1, <2>3, <2>4, QueuedType, Zenon DEF PointersValid
  <2>7. PointersUnique'
    BY <2>1, <2>4, UniqueKept, Zenon
  <2> QED BY <2>5, <2>6, <2>7, Zenon
<1>7. ASSUME NEW r \in Request, PopMetadata(r) PROVE PointerLayer'
  <2> DEFINE t == ptoken[r]
             q == request_metadatas[t]
             a == Head(q)
  <2>1. /\ t \in Token /\ q \in Seq(Acceptor) /\ q # <<>>
        /\ a \in Acceptor /\ a \in Queued(t) /\ a = q[1]
    BY <1>7 DEF PopMetadata, TypeOK, Queued
  <2>2. /\ request_metadatas' = [request_metadatas EXCEPT ![t] = Tail(q)]
        /\ pmeta' = [pmeta EXCEPT ![r] = a] /\ ppc' = [ppc EXCEPT ![r] = "send"]
        /\ ppc[r] = "wait" /\ t \in known
        /\ UNCHANGED <<known, apc, ready, handler>>
    BY <1>7, Zenon DEF PopMetadata, Popped
  <2>3. /\ Tail(q) \in Seq(Acceptor) /\ Len(Tail(q)) = Len(q) - 1
        /\ \A i \in 1..Len(Tail(q)) : Tail(q)[i] = q[i + 1] /\ i + 1 \in 1..Len(q)
        /\ 1 \in 1..Len(q)
    BY <2>1
  <2> HIDE DEF t, q, a
  <2>4. /\ \A u \in Token \ {t} : request_metadatas'[u] = request_metadatas[u]
        /\ request_metadatas'[t] = Tail(q) /\ request_metadatas[t] = q
    BY <2>1, <2>2, Zenon DEF TypeOK, q
  <2>5. \A u \in Token : Queued(u)' \subseteq Queued(u)
    BY <1>7, PopShrinks, Zenon
  <2>6. \A u \in Token : a \notin Queued(u)'
    <3> SUFFICES ASSUME NEW u \in Token, a \in Queued(u)' PROVE FALSE
      BY Zenon
    <3>1. PICK i \in 1..Len(request_metadatas'[u]) : request_metadatas'[u][i] = a
      BY Zenon DEF Queued
    <3>2. 1 \in 1..Len(request_metadatas[t]) /\ request_metadatas[t][1] = a
      BY <2>1, <2>3, <2>4, Zenon
    <3>a. \A v \in Token : \A j \in 1..Len(request_metadatas[v]) :
            request_metadatas[v][j] = a => v = t /\ j = 1
      <4>1. \A v, w \in Token : \A j \in 1..Len(request_metadatas[v]) :
              \A k \in 1..Len(request_metadatas[w]) :
                request_metadatas[v][j] = request_metadatas[w][k] => v = w /\ j = k
        BY Zenon DEF PointersUnique
      <4>2. t \in Token
        BY <2>1, Zenon
      <4> QED BY <3>2, <4>1, <4>2
    <3>3. CASE u = t
      <4>1. i + 1 \in 1..Len(request_metadatas[t]) /\ request_metadatas[t][i + 1] = a
        BY <2>3, <2>4, <3>1, <3>3, Zenon
      <4>2. i + 1 = 1
        BY <2>1, <3>a, <4>1, Zenon
      <4> QED BY <4>2
    <3>4. CASE u # t
      BY <2>4, <3>a, <3>1, <3>4, Zenon
    <3> QED BY <3>3, <3>4, Zenon
  <2>7. \A s \in Request : \A b \in Acceptor :
          Holds(s, b)' <=> IF s = r THEN b = a ELSE Holds(s, b)
    BY <2>1, <2>2, Zenon DEF Holds, TypeOK
  <2>8. AsleepWhenUsed' /\ UnknownEmpty' /\ HolderHasPointer'
    BY <2>1, <2>2, <2>4 DEF AsleepWhenUsed, UnknownEmpty, HolderHasPointer, TypeOK
  <2>9. PointersValid'
    BY <2>1, <2>2, <2>5, <2>7, QueuedType DEF PointersValid
  <2>10. \A u, v \in Token : \A i \in 1..Len(request_metadatas'[u]) :
          \A j \in 1..Len(request_metadatas'[v]) :
            request_metadatas'[u][i] = request_metadatas'[v][j] => u = v /\ i = j
    <3> SUFFICES ASSUME NEW u \in Token, NEW v \in Token,
                        NEW i \in 1..Len(request_metadatas'[u]),
                        NEW j \in 1..Len(request_metadatas'[v]),
                        request_metadatas'[u][i] = request_metadatas'[v][j]
                 PROVE  u = v /\ i = j
      BY Zenon
    <3> DEFINE was(w, k) == IF w = t THEN k + 1 ELSE k
    <3>1. \A w \in Token : \A k \in 1..Len(request_metadatas'[w]) :
            /\ was(w, k) \in 1..Len(request_metadatas[w])
            /\ request_metadatas'[w][k] = request_metadatas[w][was(w, k)]
      BY <2>3, <2>4, Zenon
    <3> HIDE DEF was
    <3>2. u = v /\ was(u, i) = was(v, j)
      <4>1. /\ was(u, i) \in 1..Len(request_metadatas[u])
            /\ was(v, j) \in 1..Len(request_metadatas[v])
            /\ request_metadatas[u][was(u, i)] = request_metadatas[v][was(v, j)]
        BY <3>1, Zenon
      <4> QED BY <4>1, ZenonT(30) DEF PointersUnique
    <3>3. i \in Int /\ j \in Int
      OBVIOUS
    <3> QED BY <3>2, <3>3 DEF was
  <2>11. \A s \in Request : \A u \in Token : \A b \in Queued(u)' : ~Holds(s, b)'
    BY <2>5, <2>6, <2>7, QueuedType DEF PointersUnique
  <2>12. \A s, x \in Request : \A b \in Acceptor :
           Holds(s, b)' /\ Holds(x, b)' => s = x
    BY <2>1, <2>7 DEF PointersUnique
  <2> QED BY <2>8, <2>9, <2>10, <2>11, <2>12, Zenon DEF PointersUnique
<1>8. ASSUME NEW r \in Request, SendRequest(r) PROVE PointerLayer'
  <2>1. pmeta[r] \in Acceptor /\ Holds(r, pmeta[r])
    BY <1>8, Zenon DEF SendRequest, Holds, HolderHasPointer
  <2>2. /\ handler' = [handler EXCEPT ![pmeta[r]] = r]
        /\ ppc' = [ppc EXCEPT ![r] = "notify"] /\ ppc[r] = "send"
        /\ UNCHANGED <<known, request_metadatas, apc, ready, pmeta>>
    BY <1>8, Zenon DEF SendRequest, HandlerOf
  <2>3. \A u \in Token : Queued(u)' = Queued(u) /\ pmeta[r] \notin Queued(u)
    <3>1. \A u \in Token : Queued(u)' = Queued(u)
      BY <2>2, Zenon DEF Queued
    <3>2. \A u \in Token : pmeta[r] \notin Queued(u)
      BY <2>1, Zenon DEF PointersUnique
    <3> QED BY <3>1, <3>2, Zenon
  <2>4. \A s \in Request : \A b \in Acceptor : Holds(s, b)' <=> Holds(s, b)
    BY <2>2, Zenon DEF Holds, TypeOK
  <2>5. AsleepWhenUsed' /\ UnknownEmpty' /\ HolderHasPointer'
    BY <2>1, <2>2 DEF AsleepWhenUsed, UnknownEmpty, HolderHasPointer,
                      PointersValid, TypeOK
  <2>6. PointersValid'
    <3>1. \A b \in Acceptor : /\ b # pmeta[r] => handler'[b] = handler[b]
                             /\ apc'[b] = apc[b] /\ ready'[b] = ready[b]
      BY <2>1, <2>2, Zenon DEF TypeOK
    <3>2. \A u \in Token : \A b \in Queued(u) : b \in Acceptor /\ b # pmeta[r]
      BY <2>3, QueuedType, Zenon
    <3>3. \A u \in Token : \A b \in Queued(u)' :
            apc'[b] = "wait" /\ ~ready'[b] /\ handler'[b] = NULL
      BY <2>3, <3>1, <3>2, ZenonT(30) DEF PointersValid
    <3>4. \A s \in Request : \A b \in Acceptor :
            Holds(s, b)' => apc'[b] = "wait" /\ ~ready'[b]
      BY <2>4, <3>1, Zenon DEF PointersValid
    <3> QED BY <3>3, <3>4, Zenon DEF PointersValid
  <2>7. PointersUnique'
    BY <2>2, <2>4, UniqueKept, Zenon
  <2> QED BY <2>5, <2>6, <2>7, Zenon
<1>9. ASSUME NEW r \in Request, NotifyReady(r) PROVE PointerLayer'
  <2>1. pmeta[r] \in Acceptor /\ Holds(r, pmeta[r])
    BY <1>9, Zenon DEF NotifyReady, Holds, HolderHasPointer
  <2>2. /\ ready' = [ready EXCEPT ![pmeta[r]] = TRUE]
        /\ ppc' = [ppc EXCEPT ![r] = "sent"] /\ ppc[r] = "notify"
        /\ UNCHANGED <<known, request_metadatas, apc, handler, pmeta>>
    BY <1>9, Zenon DEF NotifyReady
  <2>3. \A u \in Token : Queued(u)' = Queued(u) /\ pmeta[r] \notin Queued(u)
    <3>1. \A u \in Token : Queued(u)' = Queued(u)
      BY <2>2, Zenon DEF Queued
    <3>2. \A u \in Token : pmeta[r] \notin Queued(u)
      BY <2>1, Zenon DEF PointersUnique
    <3> QED BY <3>1, <3>2, Zenon
  <2>4. \A s \in Request : \A b \in Acceptor :
          Holds(s, b)' <=> s # r /\ Holds(s, b)
    BY <2>2, Zenon DEF Holds, TypeOK
  <2>5. AsleepWhenUsed' /\ UnknownEmpty' /\ HolderHasPointer'
    BY <2>1, <2>2 DEF AsleepWhenUsed, UnknownEmpty, HolderHasPointer,
                      PointersValid, TypeOK
  <2>6. PointersValid'
    <3>1. \A b \in Acceptor : /\ b # pmeta[r] => ready'[b] = ready[b]
                             /\ apc'[b] = apc[b] /\ handler'[b] = handler[b]
      BY <2>1, <2>2, Zenon DEF TypeOK
    <3>2. \A u \in Token : \A b \in Queued(u) : b \in Acceptor /\ b # pmeta[r]
      BY <2>3, QueuedType, Zenon
    <3>3. \A u \in Token : \A b \in Queued(u)' :
            apc'[b] = "wait" /\ ~ready'[b] /\ handler'[b] = NULL
      BY <2>3, <3>1, <3>2, ZenonT(30) DEF PointersValid
    <3>4. \A s \in Request : \A b \in Acceptor :
            Holds(s, b)' => Holds(s, b) /\ b # pmeta[r]
      BY <2>1, <2>4 DEF PointersUnique
    <3>5. \A s \in Request : \A b \in Acceptor :
            Holds(s, b)' => apc'[b] = "wait" /\ ~ready'[b]
      BY <3>1, <3>4, Zenon DEF PointersValid
    <3> QED BY <3>3, <3>5, Zenon DEF PointersValid
  <2>7. PointersUnique'
    BY <2>2, <2>4, UniqueKept, Zenon
  <2> QED BY <2>5, <2>6, <2>7, Zenon
<1>10. ASSUME NEW a \in Acceptor, NEW c \in Conn, Accept(a, c)
       PROVE  PointerLayer'
  BY <1>10, OwnFrame, Zenon DEF Accept, AsleepWhenUsed, TypeOK
<1>11. ASSUME NEW a \in Acceptor, AcceptFails(a) PROVE PointerLayer'
  BY <1>11, OwnFrame, Zenon DEF AcceptFails, AsleepWhenUsed, TypeOK
<1>12. ASSUME NEW a \in Acceptor, ReadTokens(a) PROVE PointerLayer'
  BY <1>12, OwnFrame, Zenon DEF ReadTokens, AsleepWhenUsed, TypeOK
<1>13. ASSUME NEW a \in Acceptor, ReadReadyByte(a) PROVE PointerLayer'
  BY <1>13, OwnFrame, Zenon DEF ReadReadyByte, AsleepWhenUsed, TypeOK
<1>14. ASSUME NEW a \in Acceptor, ReadFails(a) PROVE PointerLayer'
  BY <1>14, OwnFrame, ZenonT(30) DEF ReadFails, CloseAndLoop, LoopPc, TypeOK
<1>15. ASSUME NEW a \in Acceptor, DropConnection(a) PROVE PointerLayer'
  BY <1>15, OwnFrame, Zenon DEF DropConnection, CloseAndLoop, LoopPc, TypeOK
<1>16. ASSUME NEW a \in Acceptor, RunDefaultHandler(a) PROVE PointerLayer'
  BY <1>16, OwnFrame, Zenon DEF RunDefaultHandler, CloseAndLoop, LoopPc, TypeOK
<1>17. ASSUME NEW a \in Acceptor, RunHandler(a) PROVE PointerLayer'
  BY <1>17, OwnFrame, Zenon DEF RunHandler, CloseAndLoop, LoopPc, TypeOK
<1>18. ASSUME NEW a \in Acceptor, Exit(a) PROVE PointerLayer'
  BY <1>18, OwnFrame, ZenonT(30) DEF Exit, AsleepWhenUsed, TypeOK
<1>19. ASSUME NEW a \in Acceptor, PushMetadata(a) PROVE PointerLayer'
  <2> DEFINE t == QueueFor(a)
             q == request_metadatas[t]
  <2>1. t \in Token /\ t \in known /\ q \in Seq(Acceptor)
    BY <1>19, Zenon DEF PushMetadata, TypeOK
  <2>2. /\ request_metadatas' = [request_metadatas EXCEPT ![t] = Append(q, a)]
        /\ apc' = [apc EXCEPT ![a] = "wait"] /\ apc[a] = "lock"
        /\ UNCHANGED <<known, ready, handler, ppc, pmeta>>
    BY <1>19, Zenon DEF PushMetadata
  <2>3. Append(q, a) \in Seq(Acceptor) /\ Len(Append(q, a)) = Len(q) + 1
        /\ \A i \in 1..Len(q) + 1 :
             Append(q, a)[i] = IF i = Len(q) + 1 THEN a ELSE q[i]
    BY <2>1
  <2> HIDE DEF t, q
  <2>4. /\ \A u \in Token \ {t} : request_metadatas'[u] = request_metadatas[u]
        /\ request_metadatas'[t] = Append(q, a) /\ request_metadatas[t] = q
    BY <2>1, <2>2, Zenon DEF TypeOK, q
  <2>5. \A u \in Token : a \notin Queued(u)
    BY <2>2, Zenon DEF PointersValid
  <2>6. \A u \in Token : Queued(u)' \subseteq Queued(u) \cup {a}
    <3> SUFFICES ASSUME NEW u \in Token, NEW i \in 1..Len(request_metadatas'[u])
                 PROVE  request_metadatas'[u][i] \in Queued(u) \cup {a}
      BY Zenon DEF Queued
    <3>1. CASE u = t
      BY <2>1, <2>3, <2>4, <3>1 DEF Queued
    <3>2. CASE u # t
      BY <2>4, <3>2, Zenon DEF Queued
    <3> QED BY <3>1, <3>2, Zenon
  <2>7. \A s \in Request : \A b \in Acceptor : Holds(s, b)' <=> Holds(s, b)
    BY <2>2, Zenon DEF Holds
  <2>8. \A s \in Request : ~Holds(s, a)
    BY <2>2, Zenon DEF PointersValid
  <2>9. AsleepWhenUsed' /\ UnknownEmpty' /\ HolderHasPointer'
    <3>1. AsleepWhenUsed'
      BY <2>2, Zenon DEF AsleepWhenUsed, TypeOK
    <3>2. UnknownEmpty'
      BY <2>1, <2>2, <2>4, Zenon DEF UnknownEmpty
    <3>3. HolderHasPointer'
      BY <2>2, Zenon DEF HolderHasPointer
    <3> QED BY <3>1, <3>2, <3>3, Zenon
  <2>10. PointersValid'
    <3>1. /\ \A b \in Acceptor \ {a} : apc'[b] = apc[b]
          /\ apc'[a] = "wait" /\ ~ready[a] /\ handler[a] = NULL
      BY <2>2, Zenon DEF AsleepWhenUsed, TypeOK
    <3>2. \A u \in Token : \A b \in Queued(u)' :
            apc'[b] = "wait" /\ ~ready[b] /\ handler[b] = NULL
      BY <2>6, <3>1, QueuedType, Zenon DEF PointersValid
    <3>3. \A s \in Request : \A b \in Acceptor :
            Holds(s, b)' => apc'[b] = "wait" /\ ~ready[b]
      BY <2>7, <2>8, <3>1, Zenon DEF PointersValid
    <3> QED BY <2>2, <3>2, <3>3, Zenon DEF PointersValid
  <2>11. \A u \in Token : \A i \in 1..Len(request_metadatas[u]) :
           request_metadatas[u][i] # a
    BY <2>5, Zenon DEF Queued
  <2>12. \A u, v \in Token : \A i \in 1..Len(request_metadatas'[u]) :
          \A j \in 1..Len(request_metadatas'[v]) :
            request_metadatas'[u][i] = request_metadatas'[v][j] => u = v /\ i = j
    <3> SUFFICES ASSUME NEW u \in Token, NEW v \in Token,
                        NEW i \in 1..Len(request_metadatas'[u]),
                        NEW j \in 1..Len(request_metadatas'[v]),
                        request_metadatas'[u][i] = request_metadatas'[v][j]
                 PROVE  u = v /\ i = j
      BY Zenon
    <3>1. \A w \in Token : \A k \in 1..Len(request_metadatas'[w]) :
            \/ w = t /\ k = Len(q) + 1 /\ request_metadatas'[w][k] = a
            \/ /\ k \in 1..Len(request_metadatas[w])
               /\ request_metadatas'[w][k] = request_metadatas[w][k]
      <4> SUFFICES ASSUME NEW w \in Token, NEW k \in 1..Len(request_metadatas'[w])
                   PROVE  \/ w = t /\ k = Len(q) + 1 /\ request_metadatas'[w][k] = a
                          \/ /\ k \in 1..Len(request_metadatas[w])
                             /\ request_metadatas'[w][k] = request_metadatas[w][k]
        BY Zenon
      <4>1. CASE w # t
        BY <4>1, <2>4, Zenon
      <4>2. CASE w = t
        <5>1. k \in 1..Len(q) + 1 /\ Len(q) \in Nat
          BY <4>2, <2>1, <2>3, <2>4
        <5>2. Append(q, a)[k] = IF k = Len(q) + 1 THEN a ELSE q[k]
          BY <5>1, <2>3, Zenon
        <5>3. k # Len(q) + 1 => k \in 1..Len(q)
          BY <5>1
        <5> QED BY <4>2, <5>2, <5>3, <2>4, Zenon
      <4> QED BY <4>1, <4>2, Zenon
    <3>2. \/ u = t /\ i = Len(q) + 1 /\ request_metadatas'[u][i] = a
          \/ /\ i \in 1..Len(request_metadatas[u])
             /\ request_metadatas'[u][i] = request_metadatas[u][i]
      BY <3>1, Zenon
    <3>3. \/ v = t /\ j = Len(q) + 1 /\ request_metadatas'[v][j] = a
          \/ /\ j \in 1..Len(request_metadatas[v])
             /\ request_metadatas'[v][j] = request_metadatas[v][j]
      BY <3>1, Zenon
    <3>4. ASSUME i \in 1..Len(request_metadatas[u]),
                 j \in 1..Len(request_metadatas[v]),
                 request_metadatas[u][i] = request_metadatas[v][j]
          PROVE  u = v /\ i = j
      BY <3>4, ZenonT(30) DEF PointersUnique
    <3> QED BY <2>11, <3>2, <3>3, <3>4, Zenon
  <2>13. \A s \in Request : \A u \in Token : \A b \in Queued(u)' : ~Holds(s, b)'
    <3> SUFFICES ASSUME NEW s \in Request, NEW u \in Token, NEW b \in Queued(u)'
                 PROVE  ~Holds(s, b)'
      BY Zenon
    <3>1. b \in Queued(u) \/ b = a
      BY <2>6, Zenon
    <3>2. b \in Acceptor
      BY <3>1, QueuedType, Zenon
    <3>3. ~Holds(s, b)
      BY <2>8, <3>1, Zenon DEF PointersUnique
    <3> QED BY <2>7, <3>2, <3>3, Zenon
  <2>14. \A r, s \in Request : \A b \in Acceptor :
           Holds(r, b)' /\ Holds(s, b)' => r = s
    BY <2>7, Zenon DEF PointersUnique
  <2>15. PointersUnique'
    BY <2>12, <2>13, <2>14, Zenon DEF PointersUnique
  <2> QED BY <2>9, <2>10, <2>15, Zenon
<1>20. CASE DtorNotifyAll
  <2>0. /\ \A b \in Acceptor : ready'[b] <=> ready[b] \/ b \in DtorNotifies
        /\ \A u \in Token : request_metadatas'[u] = <<>>
        /\ UNCHANGED <<apc, handler, ppc, pmeta>>
    BY <1>20, Zenon DEF DtorNotifyAll
  <2>1. \A u \in Token : Queued(u)' = {}
    BY <2>0 DEF Queued
  <2>2. \A s \in Request : \A b \in Acceptor : Holds(s, b)' <=> Holds(s, b)
    BY <2>0, Zenon DEF Holds
  <2>3. \A b \in DtorNotifies : \E u \in Token : b \in Queued(u)
    BY DEF DtorNotifies, TypeOK
  <2>4. \A s \in Request : \A b \in Acceptor : Holds(s, b) => b \notin DtorNotifies
    BY <2>3, Zenon DEF PointersUnique
  <2>5. AsleepWhenUsed'
    BY <2>0, <2>3, Zenon DEF AsleepWhenUsed, PointersValid
  <2>6. UnknownEmpty' /\ HolderHasPointer'
    BY <2>0, Zenon DEF UnknownEmpty, HolderHasPointer
  <2>7. PointersValid'
    BY <2>0, <2>1, <2>2, <2>4, Zenon DEF PointersValid
  <2>8. PointersUnique'
    BY <2>0, <2>1, <2>2 DEF PointersUnique
  <2> QED BY <2>5, <2>6, <2>7, <2>8, Zenon
<1>21. ASSUME NEW t \in Token,
              \/ LoadRejected(t) \/ RunnerLoad(t) \/ RunnerLoadFails(t)
              \/ WorkerReady(t) \/ WorkerTimeout(t) \/ Delete(t) \/ RunnerDelete(t)
       PROVE  UNCHANGED pointer_vars
  BY <1>21, Zenon DEF LoadRejected, RunnerLoad, RunnerLoadFails, WorkerReady,
               WorkerTimeout, Delete, RunnerDelete, pointer_vars
<1>22. ASSUME NEW r \in Request, Cancel(r) PROVE UNCHANGED pointer_vars
  BY <1>22, Zenon DEF Cancel, pointer_vars
<1>23. ASSUME NEW c \in Conn, \/ \E t \in Token : WorkerConnect(c, t)
                              \/ WorkerStep(c) \/ WorkerDies(c)
       PROVE  UNCHANGED pointer_vars
  BY <1>23, Zenon DEF WorkerConnect, WorkerStep, WorkerDies, pointer_vars
<1>24. DtorShutdown \/ DtorFinish \/ UNCHANGED vars => UNCHANGED pointer_vars
  BY Zenon DEF DtorShutdown, DtorFinish, vars, pointer_vars
<1> QED
  BY Zenon, <1>1, <1>2, <1>3, <1>4, <1>5, <1>6, <1>7, <1>8, <1>9, <1>10, <1>11, <1>12,
     <1>13, <1>14, <1>15, <1>16, <1>17, <1>18, <1>19, <1>20, <1>21, <1>22,
     <1>23, <1>24
  DEF Next, LoadStep, DeleteStep, RequestStep, AcceptorStep, DtorStep,
      LoadBinary, LoadBinaryForLogging, Terminated

\* No pointer to a RequestMetadata dangles, is written through after the
\* Notify, or is notified twice: ProcessRequest, Delete, the destructor and the
\* acceptors share stack frames safely.
THEOREM PointersAlwaysValid == Spec => []PointersValid
<1>1. Spec => [](TypeLayer /\ PointerLayer)
  BY TypeInit, TypeNext, PointerInit, PointerNext, PTL DEF Spec
<1> QED BY <1>1, PTL DEF PointerLayer

\* No two parties ever have a pointer to the same RequestMetadata, so no two
\* requests are given the same worker.
THEOREM PointersAlwaysUnique == Spec => []PointersUnique
<1>1. Spec => [](TypeLayer /\ PointerLayer)
  BY TypeInit, TypeNext, PointerInit, PointerNext, PTL DEF Spec
<1> QED BY <1>1, PTL DEF PointerLayer

-----------------------------------------------------------------------------
(* Descriptors *)

\* No descriptor is open in a constructed dispatcher.
LEMMA FdInit == Init => FdOwnership
BY DEF Init, FdOwnership, HoldsFd

\* An acceptor that closes its descriptor was its only owner.
LEMMA FdClosed ==
  ASSUME TypeLayer, FdOwnership, NEW a \in Acceptor, HoldsFd(a),
         NEW d \in BOOLEAN, CloseAndLoop(a, d)
  PROVE  FdOwnership'
<1>1. fd[a] \in Conn
  BY Zenon DEF TypeLayer, FdHeld, TypeOK
<1>2. sock' = [sock EXCEPT ![fd[a]] = "free"]
  BY Zenon DEF CloseAndLoop
<1>3. ~HoldsFd(a)' /\ \A b \in Acceptor \ {a} :
                        (HoldsFd(b)' <=> HoldsFd(b)) /\ fd'[b] = fd[b]
  BY Zenon DEF CloseAndLoop, LoopPc, HoldsFd, TypeLayer, TypeOK
<1>4. \A b \in Acceptor \ {a} : HoldsFd(b) => fd[b] # fd[a]
  BY Zenon DEF FdOwnership
<1>5. \A c \in Conn :
        sock'[c] = "open" <=> \E b \in Acceptor : HoldsFd(b)' /\ fd'[b] = c
  <2> TAKE c \in Conn
  <2>1. CASE c = fd[a]
    BY <1>2, <1>3, <1>4, <2>1, ZenonT(30) DEF TypeLayer, TypeOK
  <2>2. CASE c # fd[a]
    <3>1. sock'[c] = sock[c]
      BY <1>2, <2>2, Zenon DEF TypeLayer, TypeOK
    <3> QED BY <1>3, <2>2, <3>1, Zenon DEF FdOwnership
  <2> QED BY <2>1, <2>2, Zenon
<1>6. \A b, e \in Acceptor :
        HoldsFd(b)' /\ HoldsFd(e)' /\ fd'[b] = fd'[e] => b = e
  BY <1>3, Zenon DEF FdOwnership
<1> QED BY <1>5, <1>6, Zenon DEF FdOwnership

\* Every step leaves each open descriptor with exactly one owner.
LEMMA FdNext == TypeLayer /\ FdOwnership /\ [Next]_vars => FdOwnership'
<1> SUFFICES ASSUME TypeLayer, FdOwnership, [Next]_vars PROVE FdOwnership'
  BY Zenon
<1> DEFINE SameFds == /\ UNCHANGED <<fd, sock>>
                      /\ \A a \in Acceptor : HoldsFd(a)' <=> HoldsFd(a)
<1>1. SameFds => FdOwnership'
  BY Zenon DEF FdOwnership
<1>2. ASSUME NEW t \in Token,
             \/ LoadRejected(t) \/ InsertToken(t) \/ RunnerLoad(t)
             \/ RunnerLoadFails(t) \/ LoadRpcFailed(t) \/ WorkerReady(t)
             \/ WorkerTimeout(t) \/ Delete(t) \/ RunnerDelete(t) \/ EraseToken(t)
      PROVE  SameFds
  BY <1>2, Zenon DEF LoadRejected, InsertToken, RunnerLoad, RunnerLoadFails,
              LoadRpcFailed, WorkerReady, WorkerTimeout, Delete, RunnerDelete,
              EraseToken, HoldsFd
<1>3. ASSUME NEW t \in Token, SpawnAcceptors(t) PROVE SameFds
  BY <1>3 DEF SpawnAcceptors, HoldsFd, TypeLayer, TypeOK
<1>4. ASSUME NEW r \in Request,
             Cancel(r) \/ RequestStep(r) \/ \E t \in Token : ProcessRequest(r, t)
      PROVE  SameFds
  BY <1>4, Zenon DEF Cancel, RequestStep, RefuseRequest, PopMetadata, SendRequest,
              NotifyReady, ProcessRequest, HoldsFd
<1>5. ASSUME NEW a \in Acceptor, NEW c \in Conn, Accept(a, c)
      PROVE  FdOwnership'
  <2>1. sock[c] # "open" /\ sock' = [sock EXCEPT ![c] = "open"]
    BY <1>5, Zenon DEF Accept
  <2>2. /\ ~HoldsFd(a) /\ HoldsFd(a)' /\ fd'[a] = c
        /\ \A b \in Acceptor \ {a} :
             (HoldsFd(b)' <=> HoldsFd(b)) /\ fd'[b] = fd[b]
    BY <1>5, Zenon DEF Accept, HoldsFd, TypeLayer, TypeOK
  <2>3. \A b \in Acceptor : HoldsFd(b) => fd[b] # c
    BY <2>1, Zenon DEF FdOwnership
  <2>4. \A e \in Conn :
          sock'[e] = "open" <=> \E b \in Acceptor : HoldsFd(b)' /\ fd'[b] = e
    <3> TAKE e \in Conn
    <3>1. CASE e = c
      BY <2>1, <2>2, <3>1, Zenon DEF TypeLayer, TypeOK
    <3>2. CASE e # c
      <4>1. sock'[e] = sock[e]
        BY <2>1, <3>2, Zenon DEF TypeLayer, TypeOK
      <4> QED BY <2>2, <3>2, <4>1 DEF FdOwnership
    <3> QED BY <3>1, <3>2, Zenon
  <2>5. \A b, e \in Acceptor :
          HoldsFd(b)' /\ HoldsFd(e)' /\ fd'[b] = fd'[e] => b = e
    BY <2>2, <2>3, Zenon DEF FdOwnership
  <2> QED BY <2>4, <2>5, Zenon DEF FdOwnership
<1>6. ASSUME NEW a \in Acceptor,
             AcceptFails(a) \/ ReadTokens(a) \/ ReadReadyByte(a)
               \/ PushMetadata(a) \/ Exit(a)
      PROVE  SameFds
  <2>1. CASE AcceptFails(a)
    BY <2>1, Zenon DEF AcceptFails, HoldsFd, TypeLayer, TypeOK
  <2>2. CASE ReadTokens(a)
    BY <2>2, Zenon DEF ReadTokens, HoldsFd, TypeLayer, TypeOK
  <2>3. CASE ReadReadyByte(a)
    BY <2>3, Zenon DEF ReadReadyByte, HoldsFd, TypeLayer, TypeOK
  <2>4. CASE PushMetadata(a)
    BY <2>4, Zenon DEF PushMetadata, HoldsFd, TypeLayer, TypeOK
  <2>5. CASE Exit(a)
    BY <2>5, Zenon DEF Exit, HoldsFd, TypeLayer, TypeOK
  <2> QED BY <1>6, <2>1, <2>2, <2>3, <2>4, <2>5, Zenon
<1>7. ASSUME NEW a \in Acceptor,
             ReadFails(a) \/ DropConnection(a) \/ RunDefaultHandler(a)
               \/ RunHandler(a)
      PROVE  FdOwnership'
  <2>1. HoldsFd(a) /\ \E d \in BOOLEAN : CloseAndLoop(a, d)
    BY <1>7, Zenon
       DEF ReadFails, DropConnection, RunDefaultHandler, RunHandler, HoldsFd,
                TypeLayer, TypeOK
  <2> QED BY <2>1, FdClosed, Zenon
<1>8. ASSUME NEW c \in Conn, NEW t \in Token, WorkerConnect(c, t)
      PROVE  FdOwnership'
  <2>1. sock[c] # "open" /\ sock' = [sock EXCEPT ![c] = "backlog"]
        /\ UNCHANGED <<apc, fd>>
    BY <1>8, Zenon DEF WorkerConnect
  <2>2. \A a \in Acceptor : HoldsFd(a)' <=> HoldsFd(a)
    BY <2>1, Zenon DEF HoldsFd
  <2> QED BY <2>1, <2>2 DEF FdOwnership, TypeLayer, TypeOK
<1>9. ASSUME NEW c \in Conn, WorkerStep(c) \/ WorkerDies(c) PROVE SameFds
  BY <1>9, Zenon DEF WorkerStep, WorkerDies, HoldsFd
<1>10. DtorShutdown \/ DtorNotifyAll \/ DtorFinish \/ UNCHANGED vars => SameFds
  BY Zenon DEF DtorShutdown, DtorNotifyAll, DtorFinish, vars, HoldsFd
<1> HIDE DEF SameFds
<1> QED
  BY <1>1, <1>2, <1>3, <1>4, <1>5, <1>6, <1>7, <1>8, <1>9, <1>10, Zenon
  DEF Next, LoadStep, DeleteStep, AcceptorStep, DtorStep, LoadBinary,
      LoadBinaryForLogging, Terminated

\* No descriptor is leaked, closed twice or used after its close by the
\* acceptor threads.
THEOREM FdsAlwaysOwned == Spec => []FdOwnership
<1>1. Spec => [](TypeLayer /\ FdOwnership)
  BY TypeInit, TypeNext, FdInit, FdNext, PTL DEF Spec
<1> QED BY <1>1, PTL

-----------------------------------------------------------------------------
(* Calls under way and the destructor *)

\* A token under load stays in the table: only its own load may delete it.
LoadKeepsToken ==
  \A t \in Token :
    /\ load[t] \in {"rpc", "rpc_ok", "rpc_err", "await"} => t \in known
    /\ del[t] # "idle" => load[t] \in {"deleting", "done", "deleted"}

\* The destructor starts when no member function runs, and none starts later.
AloneInDtor == dtor # "no" => NoCallInProgress

\* It returns when no acceptor thread is left.
NoneLeft == dtor = "done" => \A a \in Acceptor : ~Running(a)

CallLayer == LoadKeepsToken /\ AloneInDtor /\ NoneLeft


\* No call is under way in a constructed dispatcher.
LEMMA CallInit == Init => CallLayer
BY DEF Init, CallLayer, LoadKeepsToken, AloneInDtor, NoneLeft

\* Every step keeps tokens under load in the table and the destructor alone.
LEMMA CallNext == TypeLayer /\ CallLayer /\ [Next]_vars => CallLayer'
<1> SUFFICES ASSUME TypeLayer, CallLayer, [Next]_vars PROVE CallLayer'
  BY Zenon
<1> USE DEF CallLayer, LoadKeepsToken, AloneInDtor, NoneLeft, NoCallInProgress
<1>0. TypeOK
  BY Zenon DEF TypeLayer
<1> DEFINE SameCalls == UNCHANGED <<known, load, del, dtor, ppc>>
           SameRunning == \A a \in Acceptor : Running(a)' => Running(a)
<1>1. SameCalls /\ SameRunning => CallLayer'
  BY Zenon
<1>2. ASSUME NEW t \in Token, LoadRejected(t) PROVE CallLayer'
  BY <1>0, <1>2 DEF LoadRejected, TypeOK, Running
<1>3. ASSUME NEW t \in Token, InsertToken(t) PROVE CallLayer'
  BY <1>0, <1>3 DEF InsertToken, TypeOK, Running
<1>4. ASSUME NEW t \in Token, RunnerLoad(t) PROVE CallLayer'
  BY <1>0, <1>4, Zenon DEF RunnerLoad, TypeOK, Running
<1>5. ASSUME NEW t \in Token, RunnerLoadFails(t) PROVE CallLayer'
  BY <1>0, <1>5, Zenon DEF RunnerLoadFails, TypeOK, Running
<1>6. ASSUME NEW t \in Token, LoadRpcFailed(t) PROVE CallLayer'
  BY <1>0, <1>6, Zenon DEF LoadRpcFailed, TypeOK, Running
<1>7. ASSUME NEW t \in Token, SpawnAcceptors(t) PROVE CallLayer'
  <2>1. /\ load[t] = "rpc_ok" /\ load' = [load EXCEPT ![t] = "await"]
        /\ UNCHANGED <<known, del, dtor, ppc>>
    BY <1>7, Zenon DEF SpawnAcceptors
  <2> QED BY <1>0, <2>1, Zenon DEF TypeOK
<1>8. ASSUME NEW t \in Token, WorkerReady(t) PROVE CallLayer'
  BY <1>0, <1>8, Zenon DEF WorkerReady, TypeOK, Running
<1>9. ASSUME NEW t \in Token, WorkerTimeout(t) PROVE CallLayer'
  BY <1>0, <1>9, Zenon DEF WorkerTimeout, TypeOK, Running
<1>10. ASSUME NEW t \in Token, Delete(t) PROVE CallLayer'
  BY <1>0, <1>10 DEF Delete, TypeOK, Running
<1>11. ASSUME NEW t \in Token, RunnerDelete(t) PROVE CallLayer'
  BY <1>0, <1>11, Zenon DEF RunnerDelete, TypeOK, Running
<1>12. ASSUME NEW t \in Token, EraseToken(t) PROVE CallLayer'
  BY <1>0, <1>12, Zenon DEF EraseToken, TypeOK, Running
<1>13. ASSUME NEW r \in Request, NEW t \in Token, ProcessRequest(r, t)
       PROVE  CallLayer'
  BY <1>0, <1>13, Zenon DEF ProcessRequest, TypeOK, Running
<1>14. ASSUME NEW r \in Request, RequestStep(r) PROVE CallLayer'
  <2>1. /\ ppc[r] \in {"wait", "send", "notify"}
        /\ UNCHANGED <<known, load, del, dtor, apc>>
    BY <1>14, Zenon
       DEF RequestStep, RefuseRequest, PopMetadata, SendRequest, NotifyReady
  <2> QED BY <2>1, Zenon DEF Running
<1>15. ASSUME NEW r \in Request, Cancel(r) PROVE CallLayer'
  BY <1>15, Zenon DEF Cancel, Running
<1>16. ASSUME NEW a \in Acceptor, AcceptorStep(a) PROVE CallLayer'
  <2>1. SameCalls
    BY <1>16, Zenon DEF AcceptorStep, Accept, AcceptFails, ReadTokens, ReadReadyByte,
                 ReadFails, PushMetadata, DropConnection, RunDefaultHandler,
                 RunHandler, Exit
  <2>2. Running(a) /\ \A b \in Acceptor \ {a} : apc'[b] = apc[b]
    BY <1>0, <1>16, ZenonT(90)
                   DEF AcceptorStep, Accept, AcceptFails, ReadTokens,
                       ReadReadyByte, ReadFails, PushMetadata, DropConnection,
                       RunDefaultHandler, RunHandler, Exit, CloseAndLoop, Running,
                       TypeOK
  <2>3. SameRunning
    BY <2>2, Zenon DEF Running
  <2> QED BY <1>1, <2>1, <2>3, Zenon
<1>17. CASE DtorShutdown
  BY <1>17, Zenon DEF DtorShutdown, Running
<1>18. CASE DtorNotifyAll
  BY <1>18, Zenon DEF DtorNotifyAll, Running
<1>19. CASE DtorFinish
  <2>1. /\ dtor = "await" /\ in_flight = 0
        /\ UNCHANGED <<known, load, del, ppc, apc>>
    BY <1>19, Zenon DEF DtorFinish, DtorMayReturn
  <2>2. {a \in Acceptor : Running(a)} = {}
    <3>1. IsFiniteSet({a \in Acceptor : Running(a)})
      BY FiniteAssumption, FS_Subset, Zenon
    <3> QED BY <2>1, <3>1, FS_EmptySet, Zenon DEF TypeLayer, InFlightCount
  <2>3. \A a \in Acceptor : ~Running(a)'
    BY <2>1, <2>2, Zenon DEF Running
  <2> QED BY <2>1, <2>3, Zenon
<1>20. ASSUME NEW c \in Conn, \/ \E t \in Token : WorkerConnect(c, t)
                              \/ WorkerStep(c) \/ WorkerDies(c)
       PROVE  CallLayer'
  BY <1>20, Zenon DEF WorkerConnect, WorkerStep, WorkerDies, Running
<1>21. CASE UNCHANGED vars
  BY <1>21, Zenon DEF vars, Running
<1> HIDE DEF CallLayer
<1> QED
  BY <1>2, <1>3, <1>4, <1>5, <1>6, <1>7, <1>8, <1>9, <1>10, <1>11, <1>12, <1>13,
     <1>14, <1>15, <1>16, <1>17, <1>18, <1>19, <1>20, <1>21, ZenonT(30)
  DEF Next, LoadStep, DeleteStep, DtorStep, LoadBinary, LoadBinaryForLogging,
      Terminated

\* LoadBinary may dereference find(code_token) in the condition it awaits.
THEOREM AwaitedTokensKnown == Spec => []AwaitedTokenKnown
<1>1. Spec => [](TypeLayer /\ CallLayer)
  BY TypeInit, TypeNext, CallInit, CallNext, PTL DEF Spec
<1>2. CallLayer => AwaitedTokenKnown
  BY Zenon DEF CallLayer, LoadKeepsToken, AwaitedTokenKnown
<1> QED BY <1>1, <1>2, PTL
=============================================================================

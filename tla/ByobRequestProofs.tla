------------------------- MODULE ByobRequestProofs -------------------------
(***************************************************************************)
(* What a caller of Dispatcher relies on, proved on top of the layers of   *)
(* ByobPointerProofs:                                                      *)
(*   CallbackLayer  where the callback of an accepted request is;          *)
(*   TokenLayer     what a pointer leads to belongs to its token;          *)
(*   AbandonLayer   every sleeping acceptor can be reached by somebody who *)
(*                  will wake it, as long as no pool is orphaned;          *)
(* and that every step refines RequestContract.                            *)
(***************************************************************************)
EXTENDS ByobPointerProofs

\* The handler that owns a callback is installed before the Notify that hands
\* it over, belongs to one acceptor, and is used up by the one call it makes.
HandlerOwned ==
  /\ \A r \in Request : \A a \in Acceptor :
       handler[a] = r => /\ calls[r] = 0
                         /\ IF ready[a] THEN ppc[r] = "sent"
                                        ELSE ppc[r] = "notify" /\ pmeta[r] = a
  /\ \A r \in Request : ppc[r] = "notify" => handler[pmeta[r]] = r
  /\ \A a, b \in Acceptor : handler[a] # NULL /\ handler[a] = handler[b] => a = b

CallbackLayer == HandlerOwned /\ CallbackOwned

\* The descriptor behind a pointer is a connection of the token that the
\* pointer is queued for, was popped for, or carries the handler of.
PointsToOwnToken ==
  /\ \A t \in Token : \A a \in Queued(t) : ctoken[fd[a]] = t
  /\ \A r \in Request : \A a \in Acceptor :
       Holds(r, a) \/ handler[a] = r => ctoken[fd[a]] = ptoken[r]

\* A request has an outcome only after ProcessRequest has returned.
OutcomeLast == \A r \in Request : outcome[r] # NULL => ppc[r] = "sent"

TokenLayer == PointsToOwnToken /\ OutcomeLast /\ ResponseFromOwnBinary

USE DEF table_vars, acceptor_vars, load_vars, request_vars, worker_vars,
        dtor_vars

-----------------------------------------------------------------------------
(* Callbacks *)

callback_vars == <<apc, ready, handler, ppc, pmeta, calls>>

\* No callback has been handed over in a constructed dispatcher.
LEMMA CallbackInit == Init => CallbackLayer
BY NullAssumption DEF Init, CallbackLayer, HandlerOwned, CallbackOwned

\* An acceptor without a handler of a request may do with its own frame what
\* it likes.
LEMMA NoHandler ==
  ASSUME CallbackLayer, HolderHasPointer,
         NEW a \in Acceptor, handler[a] = NULL, handler'[a] = NULL,
         \A b \in Acceptor \ {a} :
           apc'[b] = apc[b] /\ ready'[b] = ready[b] /\ handler'[b] = handler[b],
         UNCHANGED <<ppc, pmeta, calls>>
  PROVE  CallbackLayer'
<1> USE NullAssumption DEF CallbackLayer
<1>1. \A b \in Acceptor : handler'[b] = handler[b]
  BY Zenon
<1>2. \A r \in Request : ppc[r] = "notify" => pmeta[r] \in Acceptor \ {a}
  BY DEF HandlerOwned, HolderHasPointer
<1>3. HandlerOwned'
  BY <1>1, <1>2 DEF HandlerOwned
<1>4. CallbackOwned'
  BY <1>1 DEF CallbackOwned
<1> QED BY <1>3, <1>4, Zenon

\* Notifying acceptors that have the default handler is no concern of requests.
LEMMA DefaultsWoken ==
  ASSUME TypeOK, CallbackLayer, NEW W \in SUBSET Acceptor,
         \A a \in W : handler[a] = NULL,
         ready' = [a \in Acceptor |-> ready[a] \/ a \in W],
         UNCHANGED <<apc, handler, ppc, pmeta, calls>>
  PROVE  CallbackLayer'
<1> USE NullAssumption DEF CallbackLayer
<1>1. \A a \in Acceptor : handler[a] # NULL => ready'[a] = ready[a]
  BY Zenon DEF TypeOK
<1>2. HandlerOwned'
  BY <1>1 DEF HandlerOwned
<1>3. CallbackOwned'
  BY <1>1, Zenon DEF CallbackOwned
<1> QED BY <1>2, <1>3, Zenon

\* Every step keeps the callback of an accepted request in one place.
LEMMA CallbackNext ==
  TypeLayer /\ PointerLayer /\ CallbackLayer /\ [Next]_vars => CallbackLayer'
<1> SUFFICES ASSUME TypeOK, PointerLayer, CallbackLayer, [Next]_vars
             PROVE  CallbackLayer'
  BY Zenon DEF TypeLayer
<1> USE NullAssumption DEF PointerLayer, CallbackLayer
<1>1. CASE UNCHANGED callback_vars
  BY <1>1, SMTT(30) DEF callback_vars, HandlerOwned, CallbackOwned
<1>2. ASSUME NEW t \in Token, EraseToken(t) PROVE CallbackLayer'
  <2>1. DeleteNotifies(t) \in SUBSET Acceptor
        /\ \A a \in DeleteNotifies(t) : handler[a] = NULL
    BY QueuedType, Zenon DEF DeleteNotifies, PointersValid
  <2> QED BY <1>2, <2>1, DefaultsWoken, Zenon DEF EraseToken
<1>3. CASE DtorNotifyAll
  <2>1. DtorNotifies \in SUBSET Acceptor
        /\ \A a \in DtorNotifies : handler[a] = NULL
    BY QueuedType DEF DtorNotifies, PointersValid, TypeOK
  <2> QED BY <1>3, <2>1, DefaultsWoken, Zenon DEF DtorNotifyAll
<1>4. ASSUME NEW t \in Token, SpawnAcceptors(t) PROVE CallbackLayer'
  <2>1. UNCHANGED <<ready, handler, ppc, pmeta, calls>>
        /\ \A a \in Acceptor : apc[a] = "wait" <=> apc'[a] = "wait"
    BY <1>4 DEF SpawnAcceptors, TypeOK
  <2> QED BY <2>1 DEF HandlerOwned, CallbackOwned
<1>5. ASSUME NEW r \in Request,
             RefuseRequest(r) \/ \E t \in Token : ProcessRequest(r, t)
      PROVE  CallbackLayer'
  <2>1. /\ UNCHANGED <<apc, ready, handler, pmeta, calls>>
        /\ ppc[r] \notin {"notify", "sent"} /\ ppc'[r] \notin {"notify", "sent"}
        /\ \A s \in Request \ {r} : ppc'[s] = ppc[s]
    BY <1>5 DEF RefuseRequest, ProcessRequest, TypeOK
  <2> QED BY <2>1 DEF HandlerOwned, CallbackOwned
<1>6. ASSUME NEW r \in Request, PopMetadata(r) PROVE CallbackLayer'
  <2>1. /\ UNCHANGED <<apc, ready, handler, calls>>
        /\ ppc[r] = "wait" /\ ppc'[r] = "send"
        /\ \A s \in Request \ {r} : ppc'[s] = ppc[s] /\ pmeta'[s] = pmeta[s]
    BY <1>6, ZenonT(30) DEF PopMetadata, TypeOK
  <2>2. HandlerOwned'
    BY <2>1, SMTT(30) DEF HandlerOwned
  <2>3. CallbackOwned'
    BY <2>1, SMTT(30) DEF CallbackOwned
  <2> QED BY <2>2, <2>3, Zenon
<1>7. ASSUME NEW r \in Request, SendRequest(r) PROVE CallbackLayer'
  <2> DEFINE a == pmeta[r]
  <2>1. /\ a \in Acceptor /\ Holds(r, a) /\ ~ready[a]
        /\ ppc[r] = "send" /\ calls[r] = 0
    BY <1>7 DEF SendRequest, Holds, HolderHasPointer, PointersValid,
                CallbackOwned, TypeOK
  <2>2. handler[a] = NULL
    <3> SUFFICES ASSUME handler[a] # NULL PROVE FALSE
      BY Zenon
    <3>1. handler[a] \in Request /\ Holds(handler[a], a) /\ ppc[handler[a]] = "notify"
      BY <2>1 DEF HandlerOwned, Holds, TypeOK
    <3> QED BY <2>1, <3>1, Zenon DEF PointersUnique
  <2>3. \A b \in Acceptor : handler[b] # r
    BY <2>1, Zenon DEF HandlerOwned
  <2>4. /\ handler'[a] = r /\ ppc'[r] = "notify"
        /\ \A b \in Acceptor \ {a} : handler'[b] = handler[b]
        /\ \A s \in Request \ {r} : ppc'[s] = ppc[s]
        /\ UNCHANGED <<apc, ready, pmeta, calls>>
    BY <1>7, <2>1, ZenonT(30) DEF SendRequest, HandlerOf, TypeOK
  <2> HIDE DEF a
  <2>5. HandlerOwned'
    <3>1. \A s \in Request : \A b \in Acceptor :
            handler'[b] = s => /\ calls'[s] = 0
                               /\ IF ready'[b] THEN ppc'[s] = "sent"
                                    ELSE ppc'[s] = "notify" /\ pmeta'[s] = b
      BY <2>1, <2>3, <2>4 DEF HandlerOwned, a
    <3>2. \A s \in Request : ppc'[s] = "notify" => handler'[pmeta'[s]] = s
      <4>1. \A s \in Request : ppc[s] = "notify" => pmeta[s] \in Acceptor \ {a}
        BY <2>2 DEF HandlerOwned, HolderHasPointer
      <4> QED BY <2>4, <4>1 DEF HandlerOwned, a
    <3>3. \A b, e \in Acceptor :
            handler'[b] # NULL /\ handler'[b] = handler'[e] => b = e
      BY <2>3, <2>4 DEF HandlerOwned
    <3> QED BY <3>1, <3>2, <3>3, Zenon DEF HandlerOwned
  <2>6. CallbackOwned'
    BY <2>1, <2>2, <2>4, SMTT(20) DEF CallbackOwned
  <2> QED BY <2>5, <2>6, Zenon
<1>8. ASSUME NEW r \in Request, NotifyReady(r) PROVE CallbackLayer'
  <2> DEFINE a == pmeta[r]
  <2>1. /\ a \in Acceptor /\ apc[a] = "wait" /\ handler[a] = r
        /\ ppc[r] = "notify"
    BY <1>8, Zenon DEF NotifyReady, Holds, HolderHasPointer, PointersValid, HandlerOwned
  <2>2. /\ ready'[a] /\ ppc'[r] = "sent"
        /\ \A b \in Acceptor \ {a} : ready'[b] = ready[b]
        /\ \A s \in Request \ {r} : ppc'[s] = ppc[s]
        /\ UNCHANGED <<apc, handler, pmeta, calls>>
    BY <1>8, <2>1 DEF NotifyReady, TypeOK
  <2> HIDE DEF a
  <2>3. HandlerOwned'
    BY <2>1, <2>2 DEF HandlerOwned
  <2>4. CallbackOwned'
    BY <2>1, <2>2 DEF CallbackOwned
  <2> QED BY <2>3, <2>4, Zenon
<1>9. ASSUME NEW a \in Acceptor, NEW c \in Conn, Accept(a, c)
      PROVE  CallbackLayer'
  BY <1>9, NoHandler, Zenon DEF Accept, AsleepWhenUsed, TypeOK
<1>10. ASSUME NEW a \in Acceptor, AcceptFails(a) PROVE CallbackLayer'
  BY <1>10, NoHandler, Zenon DEF AcceptFails, AsleepWhenUsed, TypeOK
<1>11. ASSUME NEW a \in Acceptor, ReadTokens(a) PROVE CallbackLayer'
  BY <1>11, NoHandler, Zenon DEF ReadTokens, AsleepWhenUsed, TypeOK
<1>12. ASSUME NEW a \in Acceptor, ReadReadyByte(a) PROVE CallbackLayer'
  BY <1>12, NoHandler, Zenon DEF ReadReadyByte, AsleepWhenUsed, TypeOK
<1>13. ASSUME NEW a \in Acceptor, ReadFails(a) PROVE CallbackLayer'
  BY <1>13, NoHandler, ZenonT(30) DEF ReadFails, CloseAndLoop, AsleepWhenUsed, TypeOK
<1>14. ASSUME NEW a \in Acceptor, PushMetadata(a) PROVE CallbackLayer'
  BY <1>14, NoHandler, Zenon DEF PushMetadata, AsleepWhenUsed, TypeOK
<1>15. ASSUME NEW a \in Acceptor, DropConnection(a) PROVE CallbackLayer'
  BY <1>15, NoHandler, ZenonT(30)
     DEF DropConnection, CloseAndLoop, AsleepWhenUsed, TypeOK
<1>16. ASSUME NEW a \in Acceptor, RunDefaultHandler(a) PROVE CallbackLayer'
  BY <1>16, NoHandler, ZenonT(30) DEF RunDefaultHandler, CloseAndLoop, TypeOK
<1>17. ASSUME NEW a \in Acceptor, Exit(a) PROVE CallbackLayer'
  BY <1>17, NoHandler, Zenon DEF Exit, AsleepWhenUsed, TypeOK
<1>18. ASSUME NEW a \in Acceptor, RunHandler(a) PROVE CallbackLayer'
  <2> DEFINE r == handler[a]
  <2>1. r \in Request /\ ppc[r] = "sent" /\ calls[r] = 0
    BY <1>18 DEF RunHandler, HandlerOwned, TypeOK
  <2>2. \A b \in Acceptor \ {a} : handler[b] # r
    BY <2>1, ZenonT(30) DEF HandlerOwned
  <2>3. /\ handler'[a] = NULL /\ calls'[r] = 1
        /\ \A b \in Acceptor \ {a} :
             apc'[b] = apc[b] /\ ready'[b] = ready[b] /\ handler'[b] = handler[b]
        /\ \A s \in Request \ {r} : calls'[s] = calls[s]
        /\ UNCHANGED <<ppc, pmeta>>
    BY <1>18, <2>1 DEF RunHandler, CloseAndLoop, TypeOK
  <2>4. \A s \in Request : ppc[s] = "notify" => pmeta[s] \in Acceptor \ {a}
    BY <2>1, Zenon DEF HandlerOwned, HolderHasPointer
  <2> HIDE DEF r
  <2>5. HandlerOwned'
    BY <2>1, <2>2, <2>3, <2>4, SMTT(20) DEF HandlerOwned
  <2>6. CallbackOwned'
    BY <2>1, <2>2, <2>3 DEF CallbackOwned, r
  <2> QED BY <2>5, <2>6, Zenon
<1>19. ASSUME NEW t \in Token,
              \/ LoadRejected(t) \/ InsertToken(t) \/ RunnerLoad(t)
              \/ RunnerLoadFails(t) \/ LoadRpcFailed(t) \/ WorkerReady(t)
              \/ WorkerTimeout(t) \/ Delete(t) \/ RunnerDelete(t)
       PROVE  UNCHANGED callback_vars
  BY <1>19, Zenon DEF LoadRejected, InsertToken, RunnerLoad, RunnerLoadFails,
               LoadRpcFailed, WorkerReady, WorkerTimeout, Delete, RunnerDelete,
               callback_vars
<1>20. ASSUME NEW r \in Request, Cancel(r) PROVE UNCHANGED callback_vars
  BY <1>20, Zenon DEF Cancel, callback_vars
<1>21. ASSUME NEW c \in Conn, \/ \E t \in Token : WorkerConnect(c, t)
                              \/ WorkerStep(c) \/ WorkerDies(c)
       PROVE  UNCHANGED callback_vars
  BY <1>21, Zenon DEF WorkerConnect, WorkerStep, WorkerDies, callback_vars
<1>22. DtorShutdown \/ DtorFinish \/ UNCHANGED vars => UNCHANGED callback_vars
  BY Zenon DEF DtorShutdown, DtorFinish, vars, callback_vars
<1> QED
  BY <1>1, <1>2, <1>3, <1>4, <1>5, <1>6, <1>7, <1>8, <1>9, <1>10, <1>11, <1>12,
     <1>13, <1>14, <1>15, <1>16, <1>17, <1>18, <1>19, <1>20, <1>21, <1>22, ZenonT(30)
  DEF Next, LoadStep, DeleteStep, RequestStep, AcceptorStep, DtorStep,
      LoadBinary, LoadBinaryForLogging, Terminated

\* The callback of a request runs at most once, never for a refused request,
\* and an accepted request that waits for it is held by a notified acceptor.
THEOREM CallbacksAlwaysOwned == Spec => []CallbackOwned
<1>1. Spec => [](TypeLayer /\ PointerLayer /\ CallbackLayer)
  BY TypeInit, TypeNext, PointerInit, PointerNext, CallbackInit, CallbackNext,
     PTL DEF Spec
<1> QED BY <1>1, PTL DEF CallbackLayer

-----------------------------------------------------------------------------
(* Tokens *)

token_vars ==
  <<request_metadatas, fd, handler, ppc, ptoken, pmeta, outcome, ctoken>>

\* No pointer exists yet that could lead to another token.
LEMMA TokenInit == Init => TokenLayer
<1> SUFFICES ASSUME Init PROVE TokenLayer
  BY Zenon
<1>1. \A t \in Token : Queued(t) = {}
  BY DEF Init, Queued
<1> QED BY <1>1, NullAssumption, Zenon
        DEF Init, TokenLayer, PointsToOwnToken, OutcomeLast,
            ResponseFromOwnBinary, Holds

\* Queues may lose entries.
LEMMA QueuesShrink ==
  ASSUME TokenLayer, \A t \in Token : Queued(t)' \subseteq Queued(t),
         UNCHANGED <<fd, handler, ppc, ptoken, pmeta, outcome, ctoken>>
  PROVE  TokenLayer'
<1>1. \A r \in Request : \A a \in Acceptor : Holds(r, a)' <=> Holds(r, a)
  BY Zenon DEF Holds
<1> QED BY <1>1, Zenon DEF TokenLayer, PointsToOwnToken, OutcomeLast,
                    ResponseFromOwnBinary

\* Whoever is pointed to, or has the handler of a request, has a descriptor.
LEMMA PointedHoldsFd ==
  ASSUME TypeLayer, PointerLayer
  PROVE  /\ \A t \in Token : \A a \in Queued(t) :
              a \in Acceptor /\ HoldsFd(a) /\ fd[a] \in Conn
         /\ \A r \in Request : \A a \in Acceptor :
              Holds(r, a) \/ handler[a] = r => HoldsFd(a) /\ fd[a] \in Conn
<1>1. \A a \in Acceptor : apc[a] = "wait" => HoldsFd(a) /\ fd[a] \in Conn
  BY SMTT(20) DEF HoldsFd, TypeLayer, FdHeld, TypeOK
<1> QED BY <1>1, QueuedType, NullAssumption, Zenon
        DEF TypeLayer, PointerLayer, PointersValid, AsleepWhenUsed

\* Closing a descriptor changes the token of no other.
LEMMA TokenClosed ==
  ASSUME TypeLayer, PointerLayer, FdOwnership, TokenLayer,
         NEW a \in Acceptor, HoldsFd(a), apc[a] # "wait" \/ ready[a],
         fd' = [fd EXCEPT ![a] = NULL],
         handler' = [handler EXCEPT ![a] = NULL],
         ctoken' = [ctoken EXCEPT ![fd[a]] = NULL],
         UNCHANGED <<request_metadatas, ppc, ptoken, pmeta>>
  PROVE  PointsToOwnToken'
<1>1. /\ \A t \in Token : Queued(t)' = Queued(t) /\ a \notin Queued(t)
      /\ \A r \in Request : ~Holds(r, a)
  BY Zenon DEF Queued, PointerLayer, PointersValid
<1>2. \A r \in Request : \A b \in Acceptor : Holds(r, b)' <=> Holds(r, b)
  BY Zenon DEF Holds
<1>3. \A b \in Acceptor \ {a} :
        HoldsFd(b) /\ fd[b] \in Conn => ctoken'[fd'[b]] = ctoken[fd[b]]
  BY DEF FdOwnership, TypeLayer, TypeOK
<1>4. /\ handler'[a] = NULL
      /\ \A b \in Acceptor \ {a} : handler'[b] = handler[b]
  BY Zenon DEF TypeLayer, TypeOK
<1> QED BY <1>1, <1>2, <1>3, <1>4, PointedHoldsFd, NullAssumption
        DEF TokenLayer, PointsToOwnToken

\* Every step keeps pointers, handlers and responses with their token.
LEMMA TokenNext ==
  TypeLayer /\ PointerLayer /\ FdOwnership /\ CallbackLayer /\ TokenLayer
    /\ [Next]_vars => TokenLayer'
<1> SUFFICES ASSUME TypeLayer, PointerLayer, FdOwnership, CallbackLayer,
                    TokenLayer, [Next]_vars
             PROVE  TokenLayer'
  BY Zenon
<1> USE NullAssumption, OutcomeAssumption DEF TokenLayer
<1>0. TypeOK
  BY Zenon DEF TypeLayer
<1>1. CASE UNCHANGED token_vars
  <2>1. \A t \in Token : Queued(t)' = Queued(t)
    BY <1>1, Zenon DEF token_vars, Queued
  <2> QED BY <1>1, <2>1, QueuesShrink, Zenon DEF token_vars
<1>2. ASSUME NEW t \in Token, InsertToken(t) \/ LoadRpcFailed(t) \/ EraseToken(t)
      PROVE  TokenLayer'
  <2>1. \A u \in Token : request_metadatas'[u] \in {request_metadatas[u], <<>>}
    BY <1>0, <1>2, Zenon DEF InsertToken, LoadRpcFailed, EraseToken, TypeOK
  <2>2. \A u \in Token : Queued(u)' \subseteq Queued(u)
    BY <2>1 DEF Queued
  <2> QED BY <1>2, <2>2, QueuesShrink, Zenon DEF InsertToken, LoadRpcFailed, EraseToken
<1>3. CASE DtorNotifyAll
  <2>1. \A u \in Token : Queued(u)' \subseteq Queued(u)
    <3>1. \A u \in Token : request_metadatas'[u] = <<>>
      BY <1>3, Zenon DEF DtorNotifyAll
    <3> QED BY <3>1 DEF Queued
  <2> QED BY <1>3, <2>1, QueuesShrink, Zenon DEF DtorNotifyAll
<1>4. ASSUME NEW r \in Request,
             RefuseRequest(r) \/ \E t \in Token : ProcessRequest(r, t)
      PROVE  TokenLayer'
  <2>0. /\ UNCHANGED <<request_metadatas, fd, handler, pmeta, outcome, ctoken>>
        /\ ppc[r] \in {"idle", "wait"}
        /\ \E p \in {"wait", "invalid", "deadline"} : ppc' = [ppc EXCEPT ![r] = p]
        /\ \E t \in Token \cup {ptoken[r]} : ptoken' = [ptoken EXCEPT ![r] = t]
    <3>1. CASE RefuseRequest(r)
      <4>1. ptoken' = [ptoken EXCEPT ![r] = ptoken[r]]
        BY <1>0, <3>1, Zenon DEF RefuseRequest, TypeOK
      <4> QED BY <3>1, <4>1, Zenon DEF RefuseRequest
    <3>2. CASE \E t \in Token : ProcessRequest(r, t)
      BY <3>2, ZenonT(30) DEF ProcessRequest
    <3> QED BY <1>4, <3>1, <3>2, Zenon
  <2>1. /\ UNCHANGED <<request_metadatas, fd, handler, pmeta, outcome, ctoken>>
        /\ ppc[r] \in {"idle", "wait"} /\ ppc'[r] \notin {"send", "notify"}
        /\ \A s \in Request \ {r} : ppc'[s] = ppc[s] /\ ptoken'[s] = ptoken[s]
    BY <1>0, <2>0, Zenon DEF TypeOK
  <2>2. \A t \in Token : Queued(t)' = Queued(t)
    BY <2>1, Zenon DEF Queued
  <2>3. outcome[r] = NULL /\ \A a \in Acceptor : handler[a] # r
    BY <2>1, Zenon DEF OutcomeLast, CallbackLayer, HandlerOwned
  <2>4. \A s \in Request : \A a \in Acceptor : Holds(s, a)' => s # r /\ Holds(s, a)
    BY <2>1, Zenon DEF Holds
  <2>5. PointsToOwnToken'
    BY <2>1, <2>2, <2>3, <2>4, ZenonT(90) DEF PointsToOwnToken
  <2>6. OutcomeLast' /\ ResponseFromOwnBinary'
    BY <2>1, <2>3, Zenon DEF OutcomeLast, ResponseFromOwnBinary
  <2> QED BY <2>5, <2>6, Zenon
<1>5. ASSUME NEW r \in Request, PopMetadata(r) PROVE TokenLayer'
  <2> DEFINE t == ptoken[r]
             a == Head(request_metadatas[t])
  <2>1. t \in Token /\ a \in Queued(t) /\ ppc[r] = "wait"
    BY <1>0, <1>5 DEF PopMetadata, TypeOK, Queued
  <2>2. /\ UNCHANGED <<fd, handler, ptoken, outcome, ctoken>>
        /\ ppc'[r] = "send" /\ pmeta'[r] = a
        /\ \A s \in Request \ {r} : ppc'[s] = ppc[s] /\ pmeta'[s] = pmeta[s]
    BY <1>0, <1>5, Zenon DEF PopMetadata, TypeOK
  <2>3. \A u \in Token : Queued(u)' \subseteq Queued(u)
    BY <1>0, <1>5, PopShrinks, Zenon
  <2> HIDE DEF t, a
  <2>4. \A s \in Request : \A b \in Acceptor :
          Holds(s, b)' => IF s = r THEN b = a ELSE Holds(s, b)
    BY <2>2, Zenon DEF Holds
  <2>5. \A u \in Token : \A b \in Queued(u)' : ctoken'[fd'[b]] = u
    BY <2>2, <2>3, Zenon DEF PointsToOwnToken
  <2>6. ctoken'[fd'[a]] = ptoken'[r]
    BY <2>1, <2>2, Zenon DEF PointsToOwnToken, t
  <2>7. PointsToOwnToken'
    BY <2>2, <2>4, <2>5, <2>6, ZenonT(30) DEF PointsToOwnToken
  <2>8. OutcomeLast' /\ ResponseFromOwnBinary'
    BY <2>1, <2>2, Zenon DEF OutcomeLast, ResponseFromOwnBinary
  <2> QED BY <2>7, <2>8, Zenon
<1>6. ASSUME NEW r \in Request, SendRequest(r) \/ NotifyReady(r)
      PROVE  TokenLayer'
  <2> DEFINE a == pmeta[r]
  <2>1. a \in Acceptor /\ Holds(r, a)
    BY <1>6, Zenon DEF SendRequest, NotifyReady, Holds, PointerLayer, HolderHasPointer
  <2>2. /\ UNCHANGED <<request_metadatas, fd, ptoken, pmeta, outcome, ctoken>>
        /\ \A s \in Request \ {r} : ppc'[s] = ppc[s]
        /\ \A b \in Acceptor : handler'[b] = handler[b] \/ (b = a /\ handler'[b] = r)
    BY <1>0, <1>6, ZenonT(30) DEF SendRequest, HandlerOf, NotifyReady, TypeOK
  <2>3. ppc[r] # "sent"
    BY <1>6, Zenon DEF SendRequest, NotifyReady
  <2>4. \A t \in Token : Queued(t)' = Queued(t)
    BY <2>2, Zenon DEF Queued
  <2>5. \A s \in Request : \A b \in Acceptor : Holds(s, b)' => Holds(s, b)
    BY <2>1, <2>2, Zenon DEF Holds
  <2> HIDE DEF a
  <2>6. OutcomeLast' /\ ResponseFromOwnBinary'
    BY <2>2, <2>3, ZenonT(30) DEF OutcomeLast, ResponseFromOwnBinary
  <2>7. \A t \in Token : \A b \in Queued(t)' : ctoken'[fd'[b]] = t
    BY <2>2, <2>4 DEF PointsToOwnToken
  <2>8. \A s \in Request : \A b \in Acceptor :
          Holds(s, b)' \/ handler'[b] = s => Holds(s, b) \/ handler[b] = s
    BY <2>1, <2>2, <2>5, Zenon
  <2>9. PointsToOwnToken'
    BY <2>2, <2>7, <2>8, Zenon DEF PointsToOwnToken
  <2> QED BY <2>6, <2>9, Zenon
<1>7. ASSUME NEW a \in Acceptor, NEW c \in Conn, Accept(a, c)
      PROVE  TokenLayer'
  <2>1. /\ ~HoldsFd(a) /\ \A b \in Acceptor \ {a} : fd'[b] = fd[b]
        /\ UNCHANGED <<request_metadatas, handler, ppc, ptoken, pmeta, outcome,
                       ctoken>>
    BY <1>0, <1>7, Zenon DEF Accept, HoldsFd, TypeOK
  <2>2. \A t \in Token : Queued(t)' = Queued(t)
    BY <2>1, Zenon DEF Queued
  <2>3. \A s \in Request : \A b \in Acceptor : Holds(s, b)' <=> Holds(s, b)
    BY <2>1, Zenon DEF Holds
  <2> QED BY <2>1, <2>2, <2>3, PointedHoldsFd
          DEF PointsToOwnToken, OutcomeLast, ResponseFromOwnBinary
<1>8. ASSUME NEW a \in Acceptor,
             ReadFails(a) \/ DropConnection(a) \/ RunDefaultHandler(a)
      PROVE  TokenLayer'
  <2>1. /\ HoldsFd(a) /\ (apc[a] # "wait" \/ ready[a])
        /\ fd' = [fd EXCEPT ![a] = NULL]
        /\ handler' = [handler EXCEPT ![a] = NULL]
        /\ ctoken' = [ctoken EXCEPT ![fd[a]] = NULL]
        /\ UNCHANGED <<request_metadatas, ppc, ptoken, pmeta, outcome>>
    BY <1>8, Zenon
       DEF ReadFails, DropConnection, RunDefaultHandler, CloseAndLoop, HoldsFd
  <2>2. PointsToOwnToken'
    BY <2>1, TokenClosed, Zenon
  <2> QED BY <2>1, <2>2, Zenon DEF OutcomeLast, ResponseFromOwnBinary
<1>9. ASSUME NEW a \in Acceptor, RunHandler(a) PROVE TokenLayer'
  <2> DEFINE r == handler[a]
  <2>1. /\ HoldsFd(a) /\ ready[a]
        /\ fd' = [fd EXCEPT ![a] = NULL]
        /\ handler' = [handler EXCEPT ![a] = NULL]
        /\ ctoken' = [ctoken EXCEPT ![fd[a]] = NULL]
        /\ UNCHANGED <<request_metadatas, ppc, ptoken, pmeta>>
    BY <1>9, Zenon DEF RunHandler, CloseAndLoop, HoldsFd
  <2>2. PointsToOwnToken'
    BY <2>1, TokenClosed, Zenon
  <2>3. r \in Request /\ ppc[r] = "sent" /\ ctoken[fd[a]] = ptoken[r]
    BY <1>0, <1>9, SMTT(30)
    DEF RunHandler, CallbackLayer, HandlerOwned, PointsToOwnToken, TypeOK
  <2>4. /\ outcome'[r] \in {ctoken[fd[a]], "unavailable"}
        /\ \A s \in Request \ {r} : outcome'[s] = outcome[s]
    BY <1>0, <1>9, <2>3, Zenon DEF RunHandler, TypeOK
  <2> HIDE DEF r
  <2> QED BY <2>1, <2>2, <2>3, <2>4, Zenon DEF OutcomeLast, ResponseFromOwnBinary
<1>10. ASSUME NEW a \in Acceptor, PushMetadata(a) PROVE TokenLayer'
  <2>1. UNCHANGED <<fd, handler, ppc, ptoken, pmeta, outcome, ctoken>>
    BY <1>10, Zenon DEF PushMetadata
  <2>2. \A t \in Token : \A b \in Queued(t)' :
          b \in Queued(t) \/ (b = a /\ t = ctoken[fd[a]])
    <3> TAKE t \in Token
    <3>1. CASE t # QueueFor(a)
      <4>1. request_metadatas'[t] = request_metadatas[t]
        BY <1>0, <1>10, <3>1, Zenon DEF PushMetadata, TypeOK
      <4> QED BY <4>1, Zenon DEF Queued
    <3>2. CASE t = QueueFor(a)
      <4>1. /\ t = ctoken[fd[a]] /\ request_metadatas[t] \in Seq(Acceptor)
            /\ request_metadatas'[t] = Append(request_metadatas[t], a)
        BY <1>0, <1>10, <3>2, Zenon DEF PushMetadata, TypeOK, QueueFor
      <4>2. \A i \in 1..Len(request_metadatas'[t]) :
              \/ request_metadatas'[t][i] = a
              \/ /\ i \in 1..Len(request_metadatas[t])
                 /\ request_metadatas'[t][i] = request_metadatas[t][i]
        <5> DEFINE q == request_metadatas[t]
        <5>1. q \in Seq(Acceptor) /\ request_metadatas'[t] = Append(q, a)
          BY <4>1, Zenon
        <5> HIDE DEF q
        <5>2. Len(Append(q, a)) = Len(q) + 1
              /\ \A i \in 1..Len(q) + 1 :
                   Append(q, a)[i] = IF i = Len(q) + 1 THEN a ELSE q[i]
          BY <5>1
        <5>3. Len(q) \in Nat
          BY <5>1
        <5>4. \A i \in 1..Len(request_metadatas'[t]) :
                request_metadatas'[t][i] = a
                  \/ (i \in 1..Len(q) /\ request_metadatas'[t][i] = q[i])
          BY <5>1, <5>2, <5>3
        <5> QED BY <5>4, Zenon DEF q
      <4>3. \A b \in Queued(t)' : b \in Queued(t) \/ b = a
        BY <4>2, Zenon DEF Queued
      <4> QED BY <4>1, <4>3, Zenon
    <3> QED BY <3>1, <3>2, Zenon
  <2>3. \A s \in Request : \A b \in Acceptor : Holds(s, b)' <=> Holds(s, b)
    BY <2>1, Zenon DEF Holds
  <2> QED BY ZenonT(30), <2>1, <2>2, <2>3
          DEF PointsToOwnToken, OutcomeLast, ResponseFromOwnBinary
<1>11. ASSUME NEW c \in Conn, NEW t \in Token, WorkerConnect(c, t)
       PROVE  TokenLayer'
  <2>1. /\ sock[c] = "free" /\ \A d \in Conn \ {c} : ctoken'[d] = ctoken[d]
        /\ UNCHANGED <<request_metadatas, fd, handler, ppc, ptoken, pmeta, outcome>>
    BY <1>0, <1>11, Zenon DEF WorkerConnect, TypeOK
  <2>2. \A a \in Acceptor : HoldsFd(a) => fd[a] # c
    BY <2>1, Zenon DEF FdOwnership
  <2>3. \A u \in Token : Queued(u)' = Queued(u)
    BY <2>1, Zenon DEF Queued
  <2>4. \A s \in Request : \A b \in Acceptor : Holds(s, b)' <=> Holds(s, b)
    BY <2>1, Zenon DEF Holds
  <2> QED BY <2>1, <2>2, <2>3, <2>4, PointedHoldsFd, SMTT(20)
          DEF PointsToOwnToken, OutcomeLast, ResponseFromOwnBinary
<1>12. ASSUME NEW t \in Token,
              \/ LoadRejected(t) \/ RunnerLoad(t) \/ RunnerLoadFails(t)
              \/ SpawnAcceptors(t) \/ WorkerReady(t) \/ WorkerTimeout(t)
              \/ Delete(t) \/ RunnerDelete(t)
       PROVE  UNCHANGED token_vars
  BY <1>12, Zenon DEF LoadRejected, RunnerLoad, RunnerLoadFails, SpawnAcceptors,
               WorkerReady, WorkerTimeout, Delete, RunnerDelete, token_vars
<1>13. ASSUME NEW r \in Request, Cancel(r) PROVE UNCHANGED token_vars
  BY <1>13, Zenon DEF Cancel, token_vars
<1>14. ASSUME NEW a \in Acceptor,
              AcceptFails(a) \/ ReadTokens(a) \/ ReadReadyByte(a) \/ Exit(a)
       PROVE  UNCHANGED token_vars
  BY <1>14, Zenon DEF AcceptFails, ReadTokens, ReadReadyByte, Exit, token_vars
<1>15. ASSUME NEW c \in Conn, WorkerStep(c) \/ WorkerDies(c)
       PROVE  UNCHANGED token_vars
  BY <1>15, Zenon DEF WorkerStep, WorkerDies, token_vars
<1>16. DtorShutdown \/ DtorFinish \/ UNCHANGED vars => UNCHANGED token_vars
  BY Zenon DEF DtorShutdown, DtorFinish, vars, token_vars
<1> QED
  BY <1>1, <1>2, <1>3, <1>4, <1>5, <1>6, <1>7, <1>8, <1>9, <1>10, <1>11, <1>12,
     <1>13, <1>14, <1>15, <1>16, ZenonT(30)
  DEF Next, LoadStep, DeleteStep, RequestStep, AcceptorStep, DtorStep,
      LoadBinary, LoadBinaryForLogging, Terminated

\* A response comes from a worker that runs the binary of the request's token,
\* whichever acceptor thread took the worker's connection.
THEOREM ResponsesFromOwnBinary == Spec => []ResponseFromOwnBinary
<1>1. Spec => [](TypeLayer /\ PointerLayer /\ FdOwnership /\ CallbackLayer
                   /\ TokenLayer)
  BY TypeInit, TypeNext, PointerInit, PointerNext, FdInit, FdNext,
     CallbackInit, CallbackNext, TokenInit, TokenNext, PTL DEF Spec
<1> QED BY <1>1, PTL DEF TokenLayer

-----------------------------------------------------------------------------
(* The contract of ProcessRequest *)

\* A constructed dispatcher has no request.
LEMMA ContractInit == Init => Contract!Init
BY DEF Init, Contract!Init, request_status, StatusOf

\* A step of one call is seen at that call only.
LEMMA StatusMoves ==
  ASSUME NEW r \in Request, NEW v,
         \A s \in Request \ {r} : ppc'[s] = ppc[s] /\ calls'[s] = calls[s],
         StatusOf(ppc'[r], calls'[r]) = v
  PROVE  request_status' = [request_status EXCEPT ![r] = v]
BY Zenon DEF request_status

\* Every step is a step of the contract or leaves its state alone.
LEMMA ContractNext ==
  TypeLayer /\ PointerLayer /\ CallbackLayer /\ [Next]_vars
    => [Contract!Next]_(Contract!vars)
<1> SUFFICES ASSUME TypeLayer, PointerLayer, CallbackLayer, [Next]_vars
             PROVE  [Contract!Next]_(Contract!vars)
  BY Zenon
<1> USE DEF Contract!Next, Contract!vars
<1>0. TypeOK /\ calls \in [Request -> Nat]
  BY Zenon DEF TypeLayer, TypeOK
<1>1. UNCHANGED <<ppc, calls>> => UNCHANGED Contract!vars
  BY Zenon DEF request_status
<1>2. ASSUME NEW r \in Request, NEW t \in Token, ProcessRequest(r, t)
      PROVE  Contract!Submit(r)
  <2>1. /\ ppc[r] = "idle" /\ ppc' = [ppc EXCEPT ![r] = "wait"]
        /\ UNCHANGED calls /\ calls[r] = 0
    BY <1>0, <1>2 DEF ProcessRequest, CallbackLayer, CallbackOwned, TypeOK
  <2>2. request_status[r] = "idle"
    BY <2>1 DEF request_status, StatusOf
  <2>3. request_status' = [request_status EXCEPT ![r] = "pending"]
    BY <1>0, <2>1, StatusMoves DEF StatusOf, TypeOK
  <2> QED BY <2>1, <2>2, <2>3, Zenon DEF Contract!Submit
<1>3. ASSUME NEW r \in Request, RefuseRequest(r) PROVE Contract!Decide(r)
  <2>1. /\ ppc[r] = "wait" /\ ppc'[r] \in {"invalid", "deadline"}
        /\ \A s \in Request \ {r} : ppc'[s] = ppc[s]
        /\ UNCHANGED calls
    BY <1>0, <1>3, Zenon DEF RefuseRequest, TypeOK
  <2>2. calls[r] = 0
    BY <1>0, <2>1 DEF CallbackLayer, CallbackOwned
  <2>3. request_status[r] = "pending"
    BY <2>2, <2>1 DEF request_status, StatusOf
  <2>4. request_status' = [request_status EXCEPT ![r] = "refused"]
    <3>1. StatusOf(ppc'[r], calls'[r]) = "refused"
      BY <2>1, <2>2 DEF StatusOf
    <3> QED BY <2>1, <3>1, StatusMoves, Zenon
  <2> QED BY <2>1, <2>3, <2>4, Zenon DEF Contract!Decide
<1>4. ASSUME NEW r \in Request, PopMetadata(r) \/ SendRequest(r)
      PROVE  UNCHANGED Contract!vars
  <2>1. /\ ppc[r] \in {"wait", "send"} /\ ppc'[r] \in {"send", "notify"}
        /\ \A s \in Request \ {r} : ppc'[s] = ppc[s]
        /\ UNCHANGED calls
    BY <1>0, <1>4, Zenon DEF PopMetadata, SendRequest, TypeOK
  <2> QED BY <2>1 DEF request_status, StatusOf
<1>5. ASSUME NEW r \in Request, NotifyReady(r) PROVE Contract!Decide(r)
  <2>1. /\ ppc[r] = "notify" /\ ppc' = [ppc EXCEPT ![r] = "sent"]
        /\ UNCHANGED calls /\ calls[r] = 0
    BY <1>0, <1>5 DEF NotifyReady, CallbackLayer, CallbackOwned, TypeOK
  <2>2. request_status[r] = "pending"
    BY <2>1 DEF request_status, StatusOf
  <2>3. request_status' = [request_status EXCEPT ![r] = "accepted"]
    BY <1>0, <2>1, StatusMoves DEF StatusOf, TypeOK
  <2> QED BY <2>1, <2>2, <2>3, Zenon DEF Contract!Decide
<1>6. ASSUME NEW a \in Acceptor, RunHandler(a)
      PROVE  \E r \in Request : Contract!Answer(r)
  <2> DEFINE r == handler[a]
  <2>1. /\ r \in Request /\ ppc[r] = "sent" /\ calls[r] = 0
        /\ calls' = [calls EXCEPT ![r] = @ + 1] /\ UNCHANGED ppc
    BY <1>0, <1>6, NullAssumption, SMTT(20)
    DEF RunHandler, CallbackLayer, HandlerOwned, TypeOK
  <2> HIDE DEF r
  <2>2. request_status[r] = "accepted"
    BY <2>1 DEF request_status, StatusOf
  <2>3. request_status' = [request_status EXCEPT ![r] = "answered"]
    BY <1>0, <2>1, StatusMoves DEF StatusOf
  <2> QED BY <2>1, <2>2, <2>3, Zenon DEF Contract!Answer
<1>7. ASSUME NEW t \in Token,
             \/ LoadRejected(t) \/ InsertToken(t) \/ LoadStep(t) \/ Delete(t)
             \/ DeleteStep(t)
      PROVE  UNCHANGED <<ppc, calls>>
  BY <1>7, Zenon DEF LoadRejected, InsertToken, LoadStep, RunnerLoad, RunnerLoadFails,
              LoadRpcFailed, SpawnAcceptors, WorkerReady, WorkerTimeout, Delete,
              DeleteStep, RunnerDelete, EraseToken
<1>8. ASSUME NEW r \in Request, Cancel(r) PROVE UNCHANGED <<ppc, calls>>
  BY <1>8, Zenon DEF Cancel
<1>9. ASSUME NEW a \in Acceptor,
             \/ \E c \in Conn : Accept(a, c)
             \/ AcceptFails(a) \/ ReadTokens(a) \/ ReadReadyByte(a) \/ ReadFails(a)
             \/ PushMetadata(a) \/ DropConnection(a) \/ RunDefaultHandler(a)
             \/ Exit(a)
      PROVE  UNCHANGED <<ppc, calls>>
  BY <1>9, Zenon DEF Accept, AcceptFails, ReadTokens, ReadReadyByte, ReadFails,
              PushMetadata, DropConnection, RunDefaultHandler, Exit
<1>10. ASSUME NEW c \in Conn, \/ \E t \in Token : WorkerConnect(c, t)
                              \/ WorkerStep(c) \/ WorkerDies(c)
       PROVE  UNCHANGED <<ppc, calls>>
  BY <1>10, Zenon DEF WorkerConnect, WorkerStep, WorkerDies
<1>11. DtorShutdown \/ DtorStep \/ UNCHANGED vars => UNCHANGED <<ppc, calls>>
  BY Zenon DEF DtorShutdown, DtorStep, DtorNotifyAll, DtorFinish, vars
<1> QED
  BY <1>1, <1>2, <1>3, <1>4, <1>5, <1>6, <1>7, <1>8, <1>9, <1>10, <1>11, ZenonT(30)
  DEF Next, RequestStep, AcceptorStep, LoadBinary, LoadBinaryForLogging,
      Terminated

\* ProcessRequest keeps the safety part of its contract: every step of the
\* dispatcher is a step of RequestContract or leaves it unchanged.
THEOREM ContractKept == Spec => ContractSafety
<1>1. Spec => [](TypeLayer /\ PointerLayer /\ CallbackLayer)
  BY TypeInit, TypeNext, PointerInit, PointerNext, CallbackInit, CallbackNext,
     PTL DEF Spec
<1> QED BY <1>1, ContractInit, ContractNext, PTL
        DEF Spec, ContractSafety, Contract!SafetySpec
-----------------------------------------------------------------------------
(* The destructor *)

\* When ~Dispatcher has returned no thread uses the object, no descriptor is
\* open and no accepted request waits for its callback.
THEOREM ShutdownAlwaysClean == Spec => []CleanShutdown
<1>1. Spec => [](TypeLayer /\ PointerLayer /\ FdOwnership /\ CallbackLayer
                   /\ CallLayer)
  BY TypeInit, TypeNext, PointerInit, PointerNext, FdInit, FdNext,
     CallbackInit, CallbackNext, CallInit, CallNext, PTL DEF Spec
<1>2. TypeLayer /\ FdOwnership /\ CallbackLayer /\ CallLayer => CleanShutdown
  <2> SUFFICES ASSUME TypeLayer, FdOwnership, CallbackLayer, CallLayer,
                      dtor = "done"
               PROVE  /\ \A a \in Acceptor : ~Running(a)
                      /\ \A c \in Conn : sock[c] # "open"
                      /\ \A r \in Request : ppc[r] = "sent" => calls[r] = 1
    BY Zenon DEF CleanShutdown
  <2>1. \A a \in Acceptor : ~Running(a)
    BY Zenon DEF CallLayer, NoneLeft
  <2>2. \A a \in Acceptor : apc[a] # "wait" /\ ~HoldsFd(a)
    BY <2>1, Zenon DEF Running, HoldsFd
  <2>3. \A c \in Conn : sock[c] # "open"
    BY <2>2, Zenon DEF FdOwnership
  <2>4. \A r \in Request : calls[r] \in Nat
    BY Zenon DEF TypeLayer, TypeOK
  <2> QED BY <2>1, <2>2, <2>3, <2>4 DEF CallbackLayer, CallbackOwned
<1> QED BY <1>1, <1>2, PTL

-----------------------------------------------------------------------------
(* Acceptors that nobody could wake *)

\* Without orphans a token whose load RPC has not succeeded has no worker.
NoWorkerYet ==
  ~OrphanPools =>
    \A t \in Token :
      load[t] \in {"new", "rpc", "rpc_err"} =>
        t \notin pool /\ \A c \in Conn : ctoken[c] # t

AbandonLayer == NoWorkerYet /\ (~OrphanPools => NoAbandonedAcceptor)

abandon_vars == <<known, request_metadatas, apc, ready, ppc, pmeta>>

\* Workers of a token appear only through its load RPC.
LEMMA NoWorkerYetNext ==
  ASSUME TypeOK, NoWorkerYet, [Next]_vars PROVE NoWorkerYet'
<1> SUFFICES ASSUME ~OrphanPools PROVE NoWorkerYet'
  BY Zenon DEF NoWorkerYet
<1> USE NullAssumption DEF NoWorkerYet
<1>1. ASSUME NEW t \in Token,
             \/ LoadRejected(t) \/ InsertToken(t) \/ LoadRpcFailed(t)
             \/ WorkerReady(t) \/ WorkerTimeout(t) \/ SpawnAcceptors(t)
             \/ EraseToken(t)
      PROVE  NoWorkerYet'
  <2> DEFINE Keeps == /\ load'[t] \in {"new", "rpc", "rpc_err"}
                           => load[t] \in {"new", "rpc", "rpc_err"}
                      /\ \A u \in Token \ {t} : load'[u] = load[u]
                      /\ UNCHANGED <<pool, ctoken>>
  <2>1. LoadRejected(t) => Keeps
    BY Zenon DEF LoadRejected, TypeOK
  <2>2. InsertToken(t) => Keeps
    BY Zenon DEF InsertToken, TypeOK
  <2>3. LoadRpcFailed(t) => Keeps
    BY Zenon DEF LoadRpcFailed, TypeOK
  <2>4. WorkerReady(t) \/ WorkerTimeout(t) => Keeps
    BY DEF WorkerReady, WorkerTimeout, TypeOK
  <2>5. SpawnAcceptors(t) => Keeps
    BY DEF SpawnAcceptors, TypeOK
  <2>6. EraseToken(t) => Keeps
    BY DEF EraseToken, TypeOK
  <2>7. Keeps
    BY <1>1, <2>1, <2>2, <2>3, <2>4, <2>5, <2>6, Zenon
  <2> QED BY <2>7, Zenon
<1>2. ASSUME NEW t \in Token, RunnerLoad(t) PROVE NoWorkerYet'
  BY <1>2, Zenon DEF RunnerLoad, TypeOK
<1>3. ASSUME NEW t \in Token, RunnerLoadFails(t) PROVE NoWorkerYet'
  BY <1>3, Zenon DEF RunnerLoadFails, TypeOK
<1>4. ASSUME NEW t \in Token, Delete(t) \/ RunnerDelete(t) PROVE NoWorkerYet'
  BY <1>4, Zenon DEF Delete, RunnerDelete
<1>5. ASSUME NEW r \in Request,
             Cancel(r) \/ RequestStep(r) \/ \E t \in Token : ProcessRequest(r, t)
      PROVE  NoWorkerYet'
  BY <1>5, Zenon DEF Cancel, RequestStep, RefuseRequest, PopMetadata, SendRequest,
              NotifyReady, ProcessRequest
<1>6. ASSUME NEW a \in Acceptor, AcceptorStep(a) PROVE NoWorkerYet'
  <2>1. UNCHANGED <<load, pool>>
        /\ \A c \in Conn : ctoken'[c] \in {ctoken[c], NULL}
    <3> DEFINE Keeps == /\ UNCHANGED <<load, pool>>
                        /\ \A c \in Conn : ctoken'[c] \in {ctoken[c], NULL}
    <3>1. (\E c \in Conn : Accept(a, c)) \/ AcceptFails(a) => Keeps
      BY Zenon DEF Accept, AcceptFails
    <3>2. ReadTokens(a) \/ ReadReadyByte(a) \/ PushMetadata(a) \/ Exit(a)
            => Keeps
      BY Zenon DEF ReadTokens, ReadReadyByte, PushMetadata, Exit
    <3>3. ReadFails(a) => Keeps
      BY DEF ReadFails, CloseAndLoop, TypeOK
    <3>4. DropConnection(a) => Keeps
      BY Zenon DEF DropConnection, CloseAndLoop, TypeOK
    <3>5. RunDefaultHandler(a) => Keeps
      BY DEF RunDefaultHandler, CloseAndLoop, TypeOK
    <3>6. RunHandler(a) => Keeps
      BY Zenon DEF RunHandler, CloseAndLoop, TypeOK
    <3> HIDE DEF Keeps
    <3>7. Keeps
      BY <1>6, <3>1, <3>2, <3>3, <3>4, <3>5, <3>6, Zenon DEF AcceptorStep
    <3> QED BY <3>7, Zenon DEF Keeps
  <2> QED BY <2>1, Zenon
<1>7. ASSUME NEW c \in Conn, NEW t \in Token, WorkerConnect(c, t)
      PROVE  NoWorkerYet'
  BY <1>7, Zenon DEF WorkerConnect, TypeOK
<1>8. ASSUME NEW c \in Conn, WorkerStep(c) \/ WorkerDies(c) PROVE NoWorkerYet'
  BY <1>8, Zenon DEF WorkerStep, WorkerDies
<1>9. DtorShutdown \/ DtorNotifyAll \/ DtorFinish \/ UNCHANGED vars
        => NoWorkerYet'
  BY Zenon DEF DtorShutdown, DtorNotifyAll, DtorFinish, vars
<1> QED
  BY <1>1, <1>2, <1>3, <1>4, <1>5, <1>6, <1>7, <1>8, <1>9, ZenonT(30)
  DEF Next, LoadStep, DeleteStep, DtorStep, LoadBinary, LoadBinaryForLogging,
      Terminated

\* What a step that puts nobody to sleep has to keep.
LEMMA StillReachable ==
  ASSUME NoAbandonedAcceptor,
         \A a \in Acceptor : \A t \in known :
           a \in Queued(t) => \/ t \in known' /\ a \in Queued(t)'
                             \/ ready'[a] \/ \E r \in Request : Holds(r, a)',
         \A a \in Acceptor : \A r \in Request :
           Holds(r, a) => Holds(r, a)' \/ ready'[a],
         \A a \in Acceptor :
           apc'[a] = "wait" /\ ~ready'[a] => apc[a] = "wait" /\ ~ready[a]
  PROVE  NoAbandonedAcceptor'
<1> SUFFICES ASSUME NEW a \in Acceptor, apc'[a] = "wait", ~ready'[a]
             PROVE  \/ \E t \in known' : a \in Queued(t)'
                    \/ \E r \in Request : Holds(r, a)'
  BY Zenon DEF NoAbandonedAcceptor
<1>1. (\E t \in known : a \in Queued(t)) \/ \E r \in Request : Holds(r, a)
  BY Zenon DEF NoAbandonedAcceptor
<1> QED BY <1>1, Zenon

\* Acceptors that fall asleep, wake up or are notified, one at a time.
LEMMA AbandonNext ==
  ASSUME TypeLayer, PointerLayer, TokenLayer, NoWorkerYet, ~OrphanPools,
         NoAbandonedAcceptor, [Next]_vars
  PROVE  NoAbandonedAcceptor'
<1> USE DEF PointerLayer
<1>0. TypeOK
  BY Zenon DEF TypeLayer
<1>2. UNCHANGED abandon_vars => NoAbandonedAcceptor'
  <2> SUFFICES ASSUME UNCHANGED abandon_vars PROVE NoAbandonedAcceptor'
    BY Zenon
  <2>1. \A u \in Token : Queued(u) = Queued(u)'
    BY Zenon DEF abandon_vars, Queued
  <2>2. \A r \in Request : \A a \in Acceptor : Holds(r, a)' <=> Holds(r, a)
    BY Zenon DEF abandon_vars, Holds
  <2> QED BY <1>0, <2>1, <2>2, StillReachable, Zenon DEF abandon_vars, TypeOK
<1>3. ASSUME NEW t \in Token, InsertToken(t) PROVE NoAbandonedAcceptor'
  <2>1. /\ UNCHANGED <<apc, ready, ppc, pmeta>> /\ known' = known \cup {t}
        /\ request_metadatas' = [request_metadatas EXCEPT ![t] = <<>>]
        /\ load[t] = "new"
    BY <1>3, ZenonT(30) DEF InsertToken
  <2>2. Queued(t) = {}
    BY <2>1, PointedHoldsFd DEF NoWorkerYet, TokenLayer, PointsToOwnToken
  <2>3. \A u \in Token \ {t} : Queued(u) = Queued(u)'
    BY <1>0, <2>1 DEF Queued, TypeOK
  <2>4. \A r \in Request : \A a \in Acceptor : Holds(r, a)' <=> Holds(r, a)
    BY <2>1, Zenon DEF Holds
  <2> QED BY <1>0, <2>1, <2>2, <2>3, <2>4, StillReachable, Zenon DEF TypeOK
<1>4. ASSUME NEW t \in Token, LoadRpcFailed(t) PROVE NoAbandonedAcceptor'
  <2>1. /\ UNCHANGED <<apc, ready, ppc, pmeta>> /\ known' = known \ {t}
        /\ request_metadatas' = [request_metadatas EXCEPT ![t] = <<>>]
        /\ load[t] = "rpc_err"
    BY <1>4, Zenon DEF LoadRpcFailed
  <2>2. Queued(t) = {}
    BY <2>1, PointedHoldsFd DEF NoWorkerYet, TokenLayer, PointsToOwnToken
  <2>3. \A u \in Token \ {t} : Queued(u) = Queued(u)'
    BY <1>0, <2>1 DEF Queued, TypeOK
  <2>4. \A r \in Request : \A a \in Acceptor : Holds(r, a)' <=> Holds(r, a)
    BY <2>1, Zenon DEF Holds
  <2> QED BY <1>0, <2>1, <2>2, <2>3, <2>4, StillReachable, Zenon DEF TypeOK
<1>5. ASSUME NEW t \in Token, EraseToken(t) PROVE NoAbandonedAcceptor'
  <2>1. /\ UNCHANGED <<apc, ppc, pmeta>> /\ known' = known \ {t}
        /\ request_metadatas' = [request_metadatas EXCEPT ![t] = <<>>]
        /\ ready' = [a \in Acceptor |-> ready[a] \/ a \in DeleteNotifies(t)]
    BY <1>5, Zenon DEF EraseToken
  <2>2. \A u \in Token \ {t} : Queued(u) = Queued(u)'
    BY <1>0, <2>1 DEF Queued, TypeOK
  <2>3. \A r \in Request : \A a \in Acceptor : Holds(r, a)' <=> Holds(r, a)
    BY <2>1, Zenon DEF Holds
  <2> QED BY <1>0, <2>1, <2>2, <2>3, StillReachable, Zenon DEF DeleteNotifies, TypeOK
<1>6. CASE DtorNotifyAll
  <2>1. \A r \in Request : \A a \in Acceptor : Holds(r, a)' <=> Holds(r, a)
    BY <1>6, Zenon DEF DtorNotifyAll, Holds
  <2> QED BY <1>6, <2>1, Zenon DEF DtorNotifyAll, DtorNotifies, NoAbandonedAcceptor
<1>7. ASSUME NEW r \in Request,
             RefuseRequest(r) \/ \E t \in Token : ProcessRequest(r, t)
      PROVE  NoAbandonedAcceptor'
  <2>1. /\ UNCHANGED <<known, request_metadatas, apc, ready, pmeta>>
        /\ \A s \in Request : ppc[s] \in {"send", "notify"} => ppc'[s] = ppc[s]
    BY <1>0, <1>7 DEF RefuseRequest, ProcessRequest, TypeOK
  <2>2. \A u \in Token : Queued(u) = Queued(u)'
    BY <2>1, Zenon DEF Queued
  <2>3. \A s \in Request : \A a \in Acceptor : Holds(s, a) => Holds(s, a)'
    BY <2>1, Zenon DEF Holds
  <2> QED BY <1>0, <2>1, <2>2, <2>3, StillReachable, ZenonT(30) DEF TypeOK
<1>8. ASSUME NEW r \in Request, PopMetadata(r) PROVE NoAbandonedAcceptor'
  <2> DEFINE t == ptoken[r]
             q == request_metadatas[t]
  <2>1. t \in Token /\ t \in known /\ q \in Seq(Acceptor) /\ q # <<>>
    BY <1>0, <1>8, Zenon DEF PopMetadata, TypeOK
  <2>2. /\ request_metadatas' = [request_metadatas EXCEPT ![t] = Tail(q)]
        /\ pmeta' = [pmeta EXCEPT ![r] = Head(q)]
        /\ ppc' = [ppc EXCEPT ![r] = "send"] /\ ppc[r] = "wait"
        /\ UNCHANGED <<known, apc, ready>>
    BY <1>8, Zenon DEF PopMetadata, Popped
  <2>3. /\ Len(Tail(q)) = Len(q) - 1 /\ Head(q) = q[1]
        /\ \A i \in 1..Len(q) : i = 1 \/ (i - 1 \in 1..Len(Tail(q))
                                           /\ Tail(q)[i - 1] = q[i])
    BY <2>1
  <2> HIDE DEF t, q
  <2>4. /\ \A u \in Token \ {t} : request_metadatas'[u] = request_metadatas[u]
        /\ request_metadatas'[t] = Tail(q) /\ request_metadatas[t] = q
    BY <1>0, <2>1, <2>2, Zenon DEF TypeOK, q
  <2>5. \A u \in Token : \A a \in Queued(u) : a \in Queued(u)' \/ a = Head(q)
    <3> TAKE u \in Token
    <3>1. CASE u = t
      <4> SUFFICES ASSUME NEW i \in 1..Len(q)
                   PROVE  q[i] = Head(q) \/ q[i] \in Queued(u)'
        BY <2>4, <3>1, Zenon DEF Queued
      <4>1. CASE i = 1
        BY <2>3, <4>1, Zenon
      <4>2. CASE i # 1
        <5>1. i - 1 \in 1..Len(Tail(q)) /\ Tail(q)[i - 1] = q[i]
          BY <2>3, <4>2, Zenon
        <5> QED BY <2>4, <3>1, <5>1, Zenon DEF Queued
      <4> QED BY <4>1, <4>2, Zenon
    <3>2. CASE u # t
      BY <2>4, <3>2, Zenon DEF Queued
    <3> QED BY <3>1, <3>2, Zenon
  <2>6. \A a \in Acceptor : a = Head(q) => Holds(r, a)'
    BY <1>0, <2>2, Zenon DEF Holds, TypeOK
  <2>7. \A s \in Request : \A a \in Acceptor : Holds(s, a) => Holds(s, a)'
    BY <1>0, <2>2, Zenon DEF Holds, TypeOK
  <2> QED BY <1>0, <2>2, <2>5, <2>6, <2>7, StillReachable, Zenon DEF TypeOK
<1>9. ASSUME NEW r \in Request, SendRequest(r) PROVE NoAbandonedAcceptor'
  <2>1. /\ UNCHANGED <<known, request_metadatas, apc, ready, pmeta>>
        /\ \A s \in Request : ppc[s] \in {"send", "notify"}
                                => ppc'[s] \in {"send", "notify"}
    BY <1>0, <1>9, Zenon DEF SendRequest, TypeOK
  <2>2. \A u \in Token : Queued(u) = Queued(u)'
    BY <2>1, Zenon DEF Queued
  <2>3. \A s \in Request : \A a \in Acceptor : Holds(s, a) => Holds(s, a)'
    BY <2>1, Zenon DEF Holds
  <2> QED BY <1>0, <2>1, <2>2, <2>3, StillReachable, ZenonT(30) DEF TypeOK
<1>10. ASSUME NEW r \in Request, NotifyReady(r) PROVE NoAbandonedAcceptor'
  <2>1. /\ UNCHANGED <<known, request_metadatas, apc, pmeta>>
        /\ ready' = [ready EXCEPT ![pmeta[r]] = TRUE]
        /\ \A s \in Request \ {r} : ppc'[s] = ppc[s]
    BY <1>0, <1>10, Zenon DEF NotifyReady, TypeOK
  <2>2. \A u \in Token : Queued(u) = Queued(u)'
    BY <2>1, Zenon DEF Queued
  <2>3. \A s \in Request : \A a \in Acceptor :
          Holds(s, a) => Holds(s, a)' \/ ready'[a]
    BY <1>0, <2>1, Zenon DEF Holds, TypeOK
  <2> QED BY <1>0, <2>1, <2>2, <2>3, StillReachable, ZenonT(30) DEF TypeOK
<1>11. ASSUME NEW a \in Acceptor, PushMetadata(a) PROVE NoAbandonedAcceptor'
  <2> DEFINE t == QueueFor(a)
             q == request_metadatas[t]
  <2>1. t \in Token /\ t \in known /\ q \in Seq(Acceptor)
    BY <1>0, <1>11, Zenon DEF PushMetadata, TypeOK
  <2>2. /\ request_metadatas' = [request_metadatas EXCEPT ![t] = Append(q, a)]
        /\ apc' = [apc EXCEPT ![a] = "wait"]
        /\ UNCHANGED <<known, ready, ppc, pmeta>>
    BY <1>11, Zenon DEF PushMetadata
  <2>3. Len(Append(q, a)) = Len(q) + 1 /\ Append(q, a)[Len(q) + 1] = a
        /\ Len(q) \in Nat /\ \A i \in 1..Len(q) : Append(q, a)[i] = q[i]
    BY <2>1
  <2> HIDE DEF t, q
  <2>4. /\ \A u \in Token \ {t} : request_metadatas'[u] = request_metadatas[u]
        /\ request_metadatas'[t] = Append(q, a) /\ request_metadatas[t] = q
    BY <1>0, <2>1, <2>2, Zenon DEF TypeOK, q
  <2>5. \A u \in Token : Queued(u) \subseteq Queued(u)' /\ (u = t => a \in Queued(u)')
    <3> TAKE u \in Token
    <3>1. CASE u = t
      <4>1. Queued(u) = {q[i] : i \in 1..Len(q)}
        BY <2>4, <3>1, Zenon DEF Queued
      <4>2. Queued(u)' = {Append(q, a)[i] : i \in 1..(Len(q) + 1)}
        BY <2>3, <2>4, <3>1, Zenon DEF Queued
      <4>3. Len(q) + 1 \in 1..(Len(q) + 1) /\ 1..Len(q) \subseteq 1..(Len(q) + 1)
        BY <2>3
      <4>4. a \in Queued(u)'
        BY <2>3, <4>2, <4>3, Zenon
      <4>5. Queued(u) \subseteq Queued(u)'
        BY <2>3, <4>1, <4>2, <4>3, Zenon
      <4> QED BY <4>4, <4>5, Zenon
    <3>2. CASE u # t
      BY <2>4, <3>2, Zenon DEF Queued
    <3> QED BY <3>1, <3>2, Zenon
  <2>6. \A s \in Request : \A b \in Acceptor : Holds(s, b) <=> Holds(s, b)'
    BY <2>2, Zenon DEF Holds
  <2> QED BY <1>0, <2>1, <2>2, <2>5, <2>6, SMTT(20) DEF NoAbandonedAcceptor, TypeOK
<1>12. ASSUME NEW a \in Acceptor,
              \/ \E c \in Conn : Accept(a, c)
              \/ AcceptFails(a) \/ ReadTokens(a) \/ ReadReadyByte(a) \/ ReadFails(a)
              \/ DropConnection(a) \/ RunDefaultHandler(a) \/ RunHandler(a)
              \/ Exit(a)
       PROVE  NoAbandonedAcceptor'
  <2>1. /\ UNCHANGED <<known, request_metadatas, ppc, pmeta>>
        /\ apc'[a] # "wait"
        /\ \A b \in Acceptor \ {a} : apc'[b] = apc[b] /\ ready'[b] = ready[b]
    BY <1>0, <1>12, ZenonT(90)
             DEF Accept, AcceptFails, ReadTokens, ReadReadyByte, ReadFails,
                 DropConnection, RunDefaultHandler, RunHandler, Exit,
                 CloseAndLoop, LoopPc, TypeOK
  <2>2. \A u \in Token : Queued(u) = Queued(u)'
    BY <2>1, Zenon DEF Queued
  <2>3. \A s \in Request : \A b \in Acceptor : Holds(s, b) <=> Holds(s, b)'
    BY <2>1, Zenon DEF Holds
  <2> QED BY <1>0, <2>1, <2>2, <2>3, StillReachable, Zenon DEF TypeOK
<1>13. ASSUME NEW t \in Token, SpawnAcceptors(t) PROVE NoAbandonedAcceptor'
  <2>1. /\ UNCHANGED <<known, request_metadatas, ready, ppc, pmeta>>
        /\ \A b \in Acceptor : apc'[b] = "wait" => apc[b] = "wait"
    BY <1>0, <1>13 DEF SpawnAcceptors, TypeOK
  <2>2. \A u \in Token : Queued(u) = Queued(u)'
    BY <2>1, Zenon DEF Queued
  <2>3. \A s \in Request : \A b \in Acceptor : Holds(s, b) <=> Holds(s, b)'
    BY <2>1, Zenon DEF Holds
  <2> QED BY <1>0, <2>1, <2>2, <2>3, StillReachable, Zenon DEF TypeOK
<1>14. ASSUME NEW t \in Token,
              \/ LoadRejected(t) \/ RunnerLoad(t) \/ RunnerLoadFails(t)
              \/ WorkerReady(t) \/ WorkerTimeout(t) \/ Delete(t) \/ RunnerDelete(t)
       PROVE  UNCHANGED abandon_vars
  BY <1>14, Zenon DEF LoadRejected, RunnerLoad, RunnerLoadFails, WorkerReady,
               WorkerTimeout, Delete, RunnerDelete, abandon_vars
<1>15. ASSUME NEW r \in Request, Cancel(r) PROVE UNCHANGED abandon_vars
  BY <1>15, Zenon DEF Cancel, abandon_vars
<1>16. ASSUME NEW c \in Conn, \/ \E t \in Token : WorkerConnect(c, t)
                              \/ WorkerStep(c) \/ WorkerDies(c)
       PROVE  UNCHANGED abandon_vars
  BY <1>16, Zenon DEF WorkerConnect, WorkerStep, WorkerDies, abandon_vars
<1>17. DtorShutdown \/ DtorFinish \/ UNCHANGED vars => UNCHANGED abandon_vars
  BY Zenon DEF DtorShutdown, DtorFinish, vars, abandon_vars
<1> QED
  BY <1>2, <1>3, <1>4, <1>5, <1>6, <1>7, <1>8, <1>9, <1>10, <1>11, <1>12, <1>13,
     <1>14, <1>15, <1>16, <1>17, ZenonT(30)
  DEF Next, LoadStep, DeleteStep, RequestStep, AcceptorStep, DtorStep,
      LoadBinary, LoadBinaryForLogging, Terminated

\* Nobody sleeps in a constructed dispatcher.
LEMMA AbandonInit == Init => AbandonLayer
BY NullAssumption DEF Init, AbandonLayer, NoWorkerYet, NoAbandonedAcceptor

\* When no worker pool survives a failed RPC, an acceptor that sleeps can
\* always be woken: by Delete, by the destructor, or by the request that has it.
THEOREM NeverAbandoned == Spec => [](~OrphanPools => NoAbandonedAcceptor)
<1> DEFINE Lower == TypeLayer /\ PointerLayer /\ FdOwnership /\ CallbackLayer
                      /\ TokenLayer
<1>1. Spec => []Lower
  BY TypeInit, TypeNext, PointerInit, PointerNext, FdInit, FdNext,
     CallbackInit, CallbackNext, TokenInit, TokenNext, PTL DEF Spec
<1>2. Lower /\ AbandonLayer /\ [Next]_vars => AbandonLayer'
  BY NoWorkerYetNext, AbandonNext, Zenon DEF AbandonLayer, TypeLayer
<1>3. Spec => []AbandonLayer
  BY <1>1, <1>2, AbandonInit, PTL DEF Spec
<1> QED BY <1>3, PTL DEF AbandonLayer
=============================================================================

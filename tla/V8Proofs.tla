------------------------------ MODULE V8Proofs ------------------------------
(***************************************************************************)
(* Proofs about V8Dispatcher, for any workers, code objects, invocations,  *)
(* queue sizes and numbers of crashes:                                     *)
(*   OwnInv   who has an accepted invocation;                              *)
(*   LoadInv  which loads a consumer can meet, and what it tells the user; *)
(*   CodeInv  how accepted code gets to every sandbox that lacks it, when  *)
(*            all code compiles and no sandbox crashes during a reload.    *)
(***************************************************************************)
EXTENDS V8Dispatcher, FiniteSetTheorems, TLAPS

In(x, s) == \E i \in 1..Len(s) : s[i] = x
Distinct(s) == \A i, j \in 1..Len(s) : s[i] = s[j] => i = j

Types ==
  /\ status \in [Item -> ItemStatus] /\ calls \in [Item -> Nat]
  /\ load_result \in [Version -> {NULL, "ok", "error"}]
  /\ counter \in [Version -> Nat]
  /\ version \in [Request -> Version \cup {NULL}] /\ entitled \subseteq Request
  /\ per_worker_requests \in [Worker -> Seq(Version)]
  /\ requests \in Seq(Request) /\ params \in Seq(Version)
  /\ cpc \in [Worker -> {"wait", "run", "copy", "reload", "answer", "cleanup",
                         "exit"}]
  /\ item \in [Worker -> Item \cup {NULL}]
  /\ result \in [Worker -> {NULL, "ok", "error"}]
  /\ todo \in [Worker -> Seq(Version)]
  /\ code \in [Worker -> SUBSET Version] /\ alive \subseteq Worker

\* A consumer holds an item from Take to the end of the callback.
HoldInv ==
  \A w \in Worker :
    /\ item[w] = NULL <=> cpc[w] \in {"wait", "exit"}
    /\ cpc[w] = "cleanup" => item[w] \in Request

\* An invocation is in the queue at most once, and then accepted and with no
\* consumer; with one consumer at most, and then accepted until its callback has
\* run; and in one of these places as long as it is accepted.
QueueInv ==
  /\ Distinct(requests)
  /\ \A r \in Request : In(r, requests) => status[r] = "accepted"
  /\ \A w \in Worker : ~In(item[w], requests)
ConsumerInv ==
  /\ \A u, w \in Worker : item[u] \in Request /\ item[u] = item[w] => u = w
  /\ \A w \in Worker :
       item[w] \in Request =>
         status[item[w]] = IF cpc[w] = "cleanup" THEN "answered" ELSE "accepted"
OwnedInv ==
  \A r \in Request :
    status[r] = "accepted" => In(r, requests) \/ \E w \in Worker : item[w] = r
OwnInv == QueueInv /\ ConsumerInv /\ OwnedInv

Accepted(v) == status[v] \in {"accepted", "answered"}

\* What is kept in params_, queued for a worker or held by a consumer has been
\* accepted, and reported when the first consumer was done with it.
LoadInv ==
  /\ \A v \in Version :
       /\ status[v] # "dropped"
       /\ Accepted(v) <=> In(v, params)
       /\ counter[v] = 0 <=> status[v] # "answered"
       /\ load_result[v] = "ok" => status[v] = "answered"
       /\ \A w \in Worker : In(v, per_worker_requests[w]) \/ item[w] = v => Accepted(v)
  /\ \A r \in entitled : /\ status[r] # "idle" /\ version[r] \in Version
                         /\ status[version[r]] = "answered"

\* Code that was accepted is queued for a worker, being loaded, or on its way
\* back after a crash, unless the sandbox has it or is dead.
Coming(w, v) ==
  \/ In(v, per_worker_requests[w])
  \/ cpc[w] = "run" /\ item[w] = v
  \/ cpc[w] = "copy"
  \/ cpc[w] = "reload" /\ In(v, todo[w])
CodeInv ==
  /\ \A w \in alive : \A v \in Version :
       In(v, params) => v \in code[w] \/ Coming(w, v)
  /\ LoadedBeforeRun

IInv == Types /\ HoldInv /\ OwnInv /\ LoadInv

-----------------------------------------------------------------------------
(* Queues *)

\* push() adds one element at the end.
LEMMA InAppend ==
  ASSUME NEW S, NEW s \in Seq(S), NEW e \in S
  PROVE  /\ Append(s, e) \in Seq(S)
         /\ \A x : In(x, Append(s, e)) <=> In(x, s) \/ x = e
         /\ Distinct(s) /\ ~In(e, s) => Distinct(Append(s, e))
<1>1. /\ Append(s, e) \in Seq(S) /\ Len(Append(s, e)) = Len(s) + 1 /\ Len(s) \in Nat
      /\ \A i \in 1..Len(s) : Append(s, e)[i] = s[i]
      /\ Append(s, e)[Len(s) + 1] = e
  OBVIOUS
<1>2. ASSUME NEW x PROVE In(x, Append(s, e)) <=> In(x, s) \/ x = e
  BY <1>1 DEF In
<1>3. Distinct(s) /\ ~In(e, s) => Distinct(Append(s, e))
  BY <1>1 DEF Distinct, In
<1> QED  BY <1>1, <1>2, <1>3, Zenon

\* front() and pop() take the first element off.
LEMMA InTail ==
  ASSUME NEW S, NEW s \in Seq(S), s # <<>>
  PROVE  /\ Head(s) \in S /\ Tail(s) \in Seq(S)
         /\ \A x : In(x, s) <=> x = Head(s) \/ In(x, Tail(s))
         /\ Distinct(s) => Distinct(Tail(s)) /\ ~In(Head(s), Tail(s))
<1>1. /\ Head(s) \in S /\ Tail(s) \in Seq(S) /\ Len(Tail(s)) = Len(s) - 1
      /\ Len(s) \in Nat /\ Len(s) >= 1 /\ Head(s) = s[1]
      /\ \A i \in 1..Len(s) - 1 : Tail(s)[i] = s[i + 1]
  OBVIOUS
<1>2. ASSUME NEW x PROVE In(x, s) <=> x = Head(s) \/ In(x, Tail(s))
  <2>1. In(x, Tail(s)) => In(x, s)  BY <1>1 DEF In
  <2>2. In(Head(s), s)  BY <1>1 DEF In
  <2>3. ASSUME NEW i \in 1..Len(s), s[i] = x PROVE x = Head(s) \/ In(x, Tail(s))
    <3>1. CASE i = 1  BY <1>1, <2>3, <3>1, Zenon
    <3>2. CASE i # 1
      <4>1. i - 1 \in 1..Len(Tail(s)) /\ Tail(s)[i - 1] = x  BY <1>1, <2>3, <3>2
      <4> QED  BY <4>1, Zenon DEF In
    <3> QED  BY <3>1, <3>2, Zenon
  <2> QED  BY <2>1, <2>2, <2>3, Zenon DEF In
<1>3. Distinct(s) => Distinct(Tail(s)) /\ ~In(Head(s), Tail(s))
  BY <1>1 DEF Distinct, In
<1> QED  BY <1>1, <1>2, <1>3, Zenon

\* Cancel takes one request out of the queue and leaves the others there.
LEMMA InUncancelled ==
  ASSUME requests \in Seq(Request), Distinct(requests), NEW r \in Request
  PROVE  /\ Uncancelled(r) \in Seq(Request) /\ Distinct(Uncancelled(r))
         /\ \A x : In(x, Uncancelled(r)) <=> In(x, requests) /\ x # r
<1>1. CASE ~Waiting(r)  BY <1>1 DEF Uncancelled, Waiting, In
<1>2. CASE Waiting(r)
  <2> DEFINE q == requests
             n == Len(requests)
             i == Position(r)
             a == SubSeq(q, 1, i - 1)
             b == SubSeq(q, i + 1, n)
             u == a \o b
  <2>1. i \in 1..n /\ q[i] = r /\ n \in Nat /\ q \in Seq(Request)
    BY <1>2 DEF Waiting, Position
  <2>2. u = Uncancelled(r)  BY <1>2, Zenon DEF Uncancelled
  <2> HIDE DEF i
  <2>3. /\ u \in Seq(Request) /\ Len(u) = n - 1
        /\ \A j \in 1..n - 1 : u[j] = IF j < i THEN q[j] ELSE q[j + 1]
    <3>1. /\ a \in Seq(Request) /\ Len(a) = i - 1 /\ \A j \in 1..i - 1 : a[j] = q[j]
      BY <2>1
    <3>2. /\ b \in Seq(Request) /\ Len(b) = n - i /\ \A j \in 1..n - i : b[j] = q[i + j]
      BY <2>1
    <3> HIDE DEF a, b
    <3>3. /\ u \in Seq(Request) /\ Len(u) = Len(a) + Len(b)
          /\ \A j \in 1..Len(a) + Len(b) :
               u[j] = IF j <= Len(a) THEN a[j] ELSE b[j - Len(a)]
      BY <3>1, <3>2, SMTT(20)
    <3> QED  BY <2>1, <3>1, <3>2, <3>3
  <2>4. \A j \in 1..n : j # i => q[j] # r  BY <2>1, Zenon DEF Distinct
  <2> HIDE DEF u
  <2>5. Distinct(u)
    <3> DEFINE was(j) == IF j < i THEN j ELSE j + 1
    <3>1. ASSUME NEW j \in 1..n - 1, NEW k \in 1..n - 1, j # k
          PROVE  was(j) \in 1..n /\ was(k) \in 1..n /\ was(j) # was(k)
      BY <2>1, <3>1
    <3>2. \A j \in 1..n - 1 : u[j] = q[was(j)]  BY <2>3, Zenon
    <3> HIDE DEF was
    <3>3. ASSUME NEW j \in 1..n - 1, NEW k \in 1..n - 1, j # k PROVE u[j] # u[k]
      BY <3>1, <3>2, <3>3, Zenon DEF Distinct
    <3> QED  BY <2>3, <3>3, SMTT(20) DEF Distinct
  <2>6. ASSUME NEW x PROVE In(x, u) <=> In(x, q) /\ x # r
    <3>1. In(x, u) => In(x, q) /\ x # r  BY <2>1, <2>3, <2>4 DEF In
    <3>2. ASSUME NEW j \in 1..n, q[j] = x, x # r PROVE In(x, u)
      <4>1. CASE j < i
        <5>1. j \in 1..Len(u) /\ u[j] = x  BY <2>1, <2>3, <3>2, <4>1
        <5> QED  BY <5>1, Zenon DEF In
      <4>2. CASE j > i
        <5>1. j - 1 \in 1..Len(u) /\ u[j - 1] = x  BY <2>1, <2>3, <3>2, <4>2
        <5> QED  BY <5>1, Zenon DEF In
      <4> QED  BY <2>1, <3>2, <4>1, <4>2
    <3> QED  BY <3>1, <3>2, Zenon DEF In
  <2> QED  BY <2>2, <2>3, <2>5, <2>6, Zenon
<1> QED  BY <1>1, <1>2, Zenon

-----------------------------------------------------------------------------
(* Steps *)

\* Loads and invocations are different things, and none of them is NULL.
LEMMA Items ==
  /\ \A v \in Version : v \in Item /\ v \notin Request /\ v # NULL
  /\ \A r \in Request : r \in Item /\ r \notin Version /\ r # NULL
  /\ NULL \notin Item /\ NULL # "ok" /\ Item = Version \cup Request
BY SetAssumption, NullAssumption, Zenon DEF Item

\* Only invocations are in the queue of invocations.
LEMMA OnlyRequests ==
  ASSUME Types, NEW x, In(x, requests) PROVE x \in Request
BY DEF Types, In

\* A new dispatcher has no code and no requests.
LEMMA InitIInv == Init => IInv
<1> SUFFICES ASSUME Init PROVE IInv  BY Zenon
<1> USE Items DEF Init
<1>1. /\ requests = <<>> /\ params = <<>>
      /\ \A w \in Worker : per_worker_requests[w] = <<>> /\ item[w] = NULL
  BY Zenon
<1>2. \A x : ~In(x, <<>>)  BY DEF In
<1>3. Distinct(<<>>)  BY DEF Distinct
<1>4. Types  BY DEF Types, ItemStatus
<1>5. HoldInv  BY Zenon DEF HoldInv
<1>6. OwnInv
  BY <1>1, <1>2, <1>3, Zenon DEF OwnInv, QueueInv, ConsumerInv, OwnedInv
<1>7. LoadInv  BY <1>1, <1>2, Zenon DEF LoadInv, Accepted
<1> QED  BY <1>4, <1>5, <1>6, <1>7, Zenon DEF IInv

\* A user calls LoadCodeObj.
LEMMA LoadCodeObjStep ==
  ASSUME IInv, NEW v \in Version, LoadCodeObj(v)
  PROVE  IInv'
<1> USE Items DEF IInv, LoadCodeObj,
        queue_vars, load_vars, invoke_vars, consumer_vars, sandbox_vars, dtor_vars
<1>1. Types'  BY Zenon DEF Types, ItemStatus
<1>2. HoldInv'  BY Zenon DEF Types, HoldInv
<1>3. OwnInv'
  <2>1. QueueInv'  BY Zenon DEF Types, HoldInv, OwnInv, QueueInv
  <2>2. ConsumerInv'  BY Zenon DEF Types, HoldInv, OwnInv, ConsumerInv, QueueInv
  <2>3. OwnedInv'  BY Zenon DEF Types, HoldInv, OwnInv, OwnedInv
  <2> QED  BY <2>1, <2>2, <2>3, Zenon DEF OwnInv
<1>4. LoadInv'  BY Zenon DEF Types, LoadInv, HoldInv, Accepted
<1> QED  BY <1>1, <1>2, <1>3, <1>4, Zenon

\* A user calls Execute, maybe after the load was reported.
LEMMA ExecuteStep ==
  ASSUME IInv, NEW v \in Version, NEW r \in Request, Execute(r, v)
  PROVE  IInv'
<1> USE Items DEF IInv, Execute,
        queue_vars, load_vars, invoke_vars, consumer_vars, sandbox_vars, dtor_vars
<1>1. Types'  BY Zenon DEF Types, ItemStatus
<1>2. HoldInv'  BY Zenon DEF Types, HoldInv
<1>3. OwnInv'
  <2>1. QueueInv'  BY Zenon DEF Types, HoldInv, OwnInv, QueueInv
  <2>2. ConsumerInv'  BY Zenon DEF Types, HoldInv, OwnInv, ConsumerInv, QueueInv
  <2>3. OwnedInv'  BY Zenon DEF Types, HoldInv, OwnInv, OwnedInv
  <2> QED  BY <2>1, <2>2, <2>3, Zenon DEF OwnInv
<1>4. LoadInv'  BY DEF Types, LoadInv, HoldInv, Accepted
<1> QED  BY <1>1, <1>2, <1>3, <1>4, Zenon

\* A load is refused.
LEMMA LoadRefusedStep ==
  ASSUME IInv, NEW v \in Version, LoadRefused(v)
  PROVE  IInv'
<1> USE Items DEF IInv, LoadRefused,
        queue_vars, load_vars, invoke_vars, consumer_vars, sandbox_vars, dtor_vars
<1>1. Types'  BY Zenon DEF Types, ItemStatus
<1>2. HoldInv'  BY Zenon DEF Types, HoldInv
<1>3. OwnInv'
  <2>1. QueueInv'  BY Zenon DEF Types, HoldInv, OwnInv, QueueInv
  <2>2. ConsumerInv'  BY Zenon DEF Types, HoldInv, OwnInv, ConsumerInv, QueueInv
  <2>3. OwnedInv'  BY Zenon DEF Types, HoldInv, OwnInv, OwnedInv
  <2> QED  BY <2>1, <2>2, <2>3, Zenon DEF OwnInv
<1>4. LoadInv'  BY Zenon DEF Types, LoadInv, HoldInv, Accepted
<1> QED  BY <1>1, <1>2, <1>3, <1>4, Zenon

\* An invocation is refused.
LEMMA InvokeRefusedStep ==
  ASSUME IInv, NEW r \in Request, InvokeRefused(r)
  PROVE  IInv'
<1> USE Items DEF IInv, InvokeRefused,
        queue_vars, load_vars, invoke_vars, consumer_vars, sandbox_vars, dtor_vars
<1>1. Types'  BY Zenon DEF Types, ItemStatus
<1>2. HoldInv'  BY Zenon DEF Types, HoldInv
<1>3. OwnInv'
  <2>1. QueueInv'  BY Zenon DEF Types, HoldInv, OwnInv, QueueInv
  <2>2. ConsumerInv'  BY Zenon DEF Types, HoldInv, OwnInv, ConsumerInv, QueueInv
  <2>3. OwnedInv'  BY Zenon DEF Types, HoldInv, OwnInv, OwnedInv
  <2> QED  BY <2>1, <2>2, <2>3, Zenon DEF OwnInv
<1>4. LoadInv'  BY Zenon DEF Types, LoadInv, HoldInv, Accepted
<1> QED  BY <1>1, <1>2, <1>3, <1>4, Zenon

\* Load queues the code for every worker and keeps it.
LEMMA LoadStep ==
  ASSUME IInv, NEW v \in Version, Load(v)
  PROVE  IInv'
<1> USE Items DEF IInv, Load,
        queue_vars, load_vars, invoke_vars, consumer_vars, sandbox_vars, dtor_vars
<1>a. /\ params' \in Seq(Version) /\ \A x : In(x, params') <=> In(x, params) \/ x = v
  BY InAppend, Zenon DEF Types
<1>b. ASSUME NEW w \in Worker
      PROVE  /\ per_worker_requests'[w] \in Seq(Version)
             /\ \A x : In(x, per_worker_requests'[w]) <=>
                         In(x, per_worker_requests[w]) \/ x = v
  BY InAppend DEF Types
<1>1. Types'  BY <1>a, <1>b, Zenon DEF Types, ItemStatus
<1>2. HoldInv'  BY Zenon DEF Types, HoldInv
<1>3. OwnInv'
  <2>1. QueueInv'  BY Zenon DEF Types, HoldInv, OwnInv, QueueInv
  <2>2. ConsumerInv'  BY Zenon DEF Types, HoldInv, OwnInv, ConsumerInv, QueueInv
  <2>3. OwnedInv'  BY DEF Types, HoldInv, OwnInv, OwnedInv
  <2> QED  BY <2>1, <2>2, <2>3, Zenon DEF OwnInv
<1>4. LoadInv'  BY <1>a, <1>b, Zenon DEF Types, LoadInv, HoldInv, Accepted
<1> QED  BY <1>1, <1>2, <1>3, <1>4, Zenon

\* Invoke queues the invocation, which nobody had yet.
LEMMA InvokeStep ==
  ASSUME IInv, NEW r \in Request, Invoke(r)
  PROVE  IInv'
<1> USE Items DEF IInv, Invoke,
        queue_vars, load_vars, invoke_vars, consumer_vars, sandbox_vars, dtor_vars
<1>a. ~In(r, requests) /\ \A w \in Worker : item[w] # r  BY
    DEF OwnInv, QueueInv, ConsumerInv, HoldInv
<1>b. /\ requests' \in Seq(Request) /\ Distinct(requests')
      /\ \A x : In(x, requests') <=> In(x, requests) \/ x = r
  BY <1>a, InAppend DEF Types, OwnInv, QueueInv
<1>1. Types'  BY <1>b, Zenon DEF Types, ItemStatus
<1>2. HoldInv'  BY Zenon DEF Types, HoldInv
<1>3. OwnInv'
  <2>1. QueueInv'  BY <1>a, <1>b, Zenon DEF Types, HoldInv, OwnInv, QueueInv
  <2>2. ConsumerInv'  BY <1>a, <1>b, Zenon
      DEF Types, HoldInv, OwnInv, ConsumerInv, QueueInv
  <2>3. OwnedInv'  BY <1>a, <1>b, Zenon DEF Types, HoldInv, OwnInv, OwnedInv
  <2> QED  BY <2>1, <2>2, <2>3, Zenon DEF OwnInv
<1>4. LoadInv'  BY DEF Types, LoadInv, HoldInv, Accepted
<1> QED  BY <1>1, <1>2, <1>3, <1>4, Zenon

\* Cancel takes a queued invocation out and calls it back.
LEMMA CancelStep ==
  ASSUME IInv, NEW r \in Request, Cancel(r)
  PROVE  IInv'
<1> USE Items DEF IInv, queue_vars, load_vars, invoke_vars, consumer_vars,
        sandbox_vars, dtor_vars
<1>a. /\ requests' \in Seq(Request) /\ Distinct(requests')
      /\ \A x : In(x, requests') <=> In(x, requests) /\ x # r
  BY InUncancelled, Zenon DEF Types, OwnInv, QueueInv, Cancel
<1>b. Waiting(r) <=> In(r, requests)  BY DEF Waiting, In, Types
<1>c. /\ UNCHANGED <<load_result, counter, version, entitled, per_worker_requests,
                     params, cpc, item, result, todo, code, alive>>
      /\ calls' \in [Item -> Nat] /\ status' \in [Item -> ItemStatus]
      /\ \A x \in Item \ {r} : status'[x] = status[x]
      /\ In(r, requests) => status[r] = "accepted" /\ status'[r] = "answered"
      /\ ~In(r, requests) => status'[r] = status[r]
  <2>1. CASE Waiting(r)
    <3>1. status' = [status EXCEPT ![r] = "answered"] /\ calls' = [calls EXCEPT ![r] = @ + 1]
      BY <2>1, Zenon DEF Cancel
    <3>2. status[r] = "accepted"  BY <1>b, <2>1, Zenon DEF OwnInv, QueueInv
    <3> QED  BY <1>b, <2>1, <3>1, <3>2 DEF Cancel, Types, ItemStatus
  <2>2. CASE ~Waiting(r)  BY <1>b, <2>2, Zenon DEF Cancel, Types
  <2> QED  BY <2>1, <2>2, Zenon
<1>d. \A w \in Worker : item[w] \in Request => status'[item[w]] = status[item[w]]
  BY <1>c DEF OwnInv, QueueInv
<1>1. Types'  BY <1>a, <1>c, Zenon DEF Types
<1>2. HoldInv'  BY <1>c, Zenon DEF Types, HoldInv
<1>3. OwnInv'
  <2>1. QueueInv'  BY <1>a, <1>c, Zenon DEF Types, OwnInv, QueueInv
  <2>2. ConsumerInv'  BY <1>c, <1>d, Zenon DEF OwnInv, ConsumerInv
  <2>3. OwnedInv'  BY <1>a, <1>c, ZenonT(30) DEF Types, OwnInv, OwnedInv
  <2> QED  BY <2>1, <2>2, <2>3, Zenon DEF OwnInv
<1>4. LoadInv'  BY <1>c DEF Types, LoadInv, Accepted
<1> QED  BY <1>1, <1>2, <1>3, <1>4, Zenon

\* A consumer takes code to load.
LEMMA TakeLoadStep ==
  ASSUME IInv, NEW w \in Worker, Take(w), per_worker_requests[w] # <<>>
  PROVE  IInv'
<1> USE Items DEF IInv, queue_vars, load_vars, invoke_vars, consumer_vars,
        sandbox_vars, dtor_vars
<1> DEFINE v == Head(per_worker_requests[w])
<1>a. /\ v \in Version /\ Tail(per_worker_requests[w]) \in Seq(Version)
      /\ \A x : In(x, per_worker_requests[w]) <=>
                  x = v \/ In(x, Tail(per_worker_requests[w]))
  BY InTail, Zenon DEF Types
<1>b. /\ cpc[w] = "wait" /\ item[w] = NULL /\ Accepted(v)
      /\ cpc' = [cpc EXCEPT ![w] = "run"] /\ item' = [item EXCEPT ![w] = v]
      /\ per_worker_requests' =
           [per_worker_requests EXCEPT ![w] = Tail(per_worker_requests[w])]
      /\ UNCHANGED <<status, calls, load_result, counter, version, entitled, requests,
                     params, result, todo, code, alive>>
  BY <1>a, Zenon DEF Take, HoldInv, LoadInv, Types
<1> HIDE DEF v
<1>c. ~In(v, requests)  BY <1>a, <1>b, SMTT(20) DEF Types, In
<1>d. /\ item'[w] = v /\ cpc'[w] = "run" /\ status' = status
      /\ \A u \in Worker : u # w => item'[u] = item[u] /\ cpc'[u] = cpc[u]
  BY <1>b, Zenon DEF Types
<1>1. Types'  BY <1>a, <1>b, Zenon DEF Types
<1>2. HoldInv'  BY <1>a, <1>b, Zenon DEF Types, HoldInv
<1>3. OwnInv'
  <2>1. QueueInv'  BY <1>a, <1>b, <1>c, Zenon DEF Types, OwnInv, QueueInv
  <2>2. ConsumerInv'  BY <1>a, <1>d, ZenonT(30) DEF OwnInv, ConsumerInv
  <2>3. OwnedInv'  BY <1>a, <1>b, <1>c DEF Types, OwnInv, OwnedInv
  <2> QED  BY <2>1, <2>2, <2>3, Zenon DEF OwnInv
<1>4. LoadInv'
  <2>1. \A u \in Worker : \A x : In(x, per_worker_requests'[u]) =>
                                   In(x, per_worker_requests[u])
    BY <1>a, <1>b, Zenon DEF Types
  <2> QED  BY <1>a, <1>b, <2>1 DEF Types, LoadInv, Accepted
<1> QED  BY <1>1, <1>2, <1>3, <1>4, Zenon

\* A consumer without code to load takes an invocation.
LEMMA TakeInvokeStep ==
  ASSUME IInv, NEW w \in Worker, Take(w), per_worker_requests[w] = <<>>
  PROVE  IInv'
<1> USE Items DEF IInv, queue_vars, load_vars, invoke_vars, consumer_vars,
        sandbox_vars, dtor_vars
<1> DEFINE r == Head(requests)
<1>a. /\ cpc[w] = "wait" /\ item[w] = NULL /\ requests # <<>>
      /\ cpc' = [cpc EXCEPT ![w] = "run"] /\ item' = [item EXCEPT ![w] = r]
      /\ requests' = Tail(requests)
      /\ UNCHANGED <<status, calls, load_result, counter, version, entitled, params,
                     per_worker_requests, result, todo, code, alive>>
  BY Zenon DEF Take, HoldInv
<1>b. /\ r \in Request /\ requests' \in Seq(Request)
      /\ \A x : In(x, requests) <=> x = r \/ In(x, requests')
      /\ Distinct(requests') /\ ~In(r, requests')
  BY <1>a, InTail, Zenon DEF Types, OwnInv, QueueInv
<1>c. status[r] = "accepted" /\ \A u \in Worker : item[u] # r
  BY <1>b, Zenon DEF OwnInv, QueueInv
<1>d. /\ item'[w] = r /\ cpc'[w] = "run" /\ status' = status
      /\ \A u \in Worker : u # w => item'[u] = item[u] /\ cpc'[u] = cpc[u]
  BY <1>a, Zenon DEF Types
<1> HIDE DEF r
<1>1. Types'  BY <1>a, <1>b, Zenon DEF Types
<1>2. HoldInv'  BY <1>a, <1>b, Zenon DEF Types, HoldInv
<1>3. OwnInv'
  <2>1. QueueInv'  BY <1>a, <1>b, <1>c, Zenon DEF Types, OwnInv, QueueInv
  <2>2. ConsumerInv'
    <3>1. ASSUME NEW u \in Worker, NEW x \in Worker, item'[u] \in Request,
                 item'[u] = item'[x]
          PROVE  u = x
      <4>1. CASE u = w  BY <3>1, <4>1, <1>c, <1>d, Zenon
      <4>2. CASE x = w  BY <3>1, <4>2, <1>c, <1>d, Zenon
      <4>3. CASE u # w /\ x # w
        BY <3>1, <4>3, <1>d, Zenon DEF OwnInv, ConsumerInv
      <4> QED  BY <4>1, <4>2, <4>3, Zenon
    <3>2. ASSUME NEW u \in Worker, item'[u] \in Request
          PROVE  status'[item'[u]] = IF cpc'[u] = "cleanup" THEN "answered" ELSE "accepted"
      <4>1. CASE u = w  BY <4>1, <1>c, <1>d
      <4>2. CASE u # w  BY <3>2, <4>2, <1>d, Zenon DEF OwnInv, ConsumerInv
      <4> QED  BY <4>1, <4>2, Zenon
    <3> QED  BY <3>1, <3>2, Zenon DEF ConsumerInv
  <2>3. OwnedInv'  BY <1>a, <1>b, <1>c DEF Types, OwnInv, OwnedInv
  <2> QED  BY <2>1, <2>2, <2>3, Zenon DEF OwnInv
<1>4. LoadInv'  BY <1>a, <1>b DEF Types, LoadInv, Accepted
<1> QED  BY <1>1, <1>2, <1>3, <1>4, Zenon

\* A consumer ends.
LEMMA ExitStep ==
  ASSUME IInv, NEW w \in Worker, ConsumerExits(w)
  PROVE  IInv'
<1> USE Items DEF IInv, ConsumerExits,
        queue_vars, load_vars, invoke_vars, consumer_vars, sandbox_vars, dtor_vars
<1>1. Types'  BY Zenon DEF Types, ItemStatus
<1>2. HoldInv'  BY Zenon DEF Types, HoldInv
<1>3. OwnInv'
  <2>1. QueueInv'  BY Zenon DEF Types, HoldInv, OwnInv, QueueInv
  <2>2. ConsumerInv'  BY DEF Types, HoldInv, OwnInv, ConsumerInv, QueueInv
  <2>3. OwnedInv'  BY Zenon DEF Types, HoldInv, OwnInv, OwnedInv
  <2> QED  BY <2>1, <2>2, <2>3, Zenon DEF OwnInv
<1>4. LoadInv'  BY ZenonT(30) DEF Types, LoadInv, HoldInv, Accepted
<1> QED  BY <1>1, <1>2, <1>3, <1>4, Zenon

\* RunCode and the reload of the code change the sandbox and how far the
\* consumer is with its item, not what it holds.
LEMMA RunStep ==
  ASSUME IInv, NEW w \in Worker,
         cpc[w] \in {"run", "copy", "reload"},
         \E p \in {"copy", "reload", "answer"} : cpc' = [cpc EXCEPT ![w] = p],
         todo' \in [Worker -> Seq(Version)], code' \in [Worker -> SUBSET Version],
         alive' \subseteq Worker, result' \in [Worker -> {NULL, "ok", "error"}],
         UNCHANGED <<status, calls, load_vars, version, entitled, queue_vars, item>>
  PROVE  IInv'
<1> USE Items DEF IInv, queue_vars, load_vars
<1>1. Types'  BY Zenon DEF Types
<1>2. HoldInv'  BY DEF Types, HoldInv
<1>3. OwnInv'
  <2>1. QueueInv'  BY Zenon DEF Types, HoldInv, OwnInv, QueueInv
  <2>2. ConsumerInv'  BY DEF Types, HoldInv, OwnInv, ConsumerInv, QueueInv
  <2>3. OwnedInv'  BY Zenon DEF Types, HoldInv, OwnInv, OwnedInv
  <2> QED  BY <2>1, <2>2, <2>3, Zenon DEF OwnInv
<1>4. LoadInv'  BY Zenon DEF Types, LoadInv, Accepted
<1> QED  BY <1>1, <1>2, <1>3, <1>4, Zenon

\* RunCode returns.
LEMMA ReturnStep ==
  ASSUME IInv, NEW w \in Worker, CodeLoaded(w) \/ CodeRun(w) \/ RunFails(w)
  PROVE  IInv'
<1>1. /\ cpc[w] = "run" /\ cpc' = [cpc EXCEPT ![w] = "answer"]
      /\ UNCHANGED <<status, calls, load_vars, version, entitled, queue_vars, item,
                     todo, alive>>
  BY Zenon DEF CodeLoaded, CodeRun, RunFails, Returns, invoke_vars
<1>2. code' \in [Worker -> SUBSET Version]
  <2>1. CASE CodeLoaded(w)  BY <2>1, Zenon DEF CodeLoaded, IInv, Types
  <2>2. CASE CodeRun(w) \/ RunFails(w)  BY <2>2, Zenon
      DEF CodeRun, RunFails, IInv, Types
  <2> QED  BY <2>1, <2>2, Zenon
<1>3. todo' \in [Worker -> Seq(Version)] /\ alive' \subseteq Worker
  BY <1>1, Zenon DEF IInv, Types
<1>4. result' \in [Worker -> {NULL, "ok", "error"}]
  BY Zenon DEF CodeLoaded, CodeRun, RunFails, Returns, IInv, Types
<1> QED  BY <1>1, <1>2, <1>3, <1>4, RunStep, Zenon

\* The sandbox crashes in RunCode.
LEMMA CrashStep ==
  ASSUME IInv, NEW w \in Worker, RunCrashes(w)
  PROVE  IInv'
<1>1. /\ cpc[w] = "run"
      /\ \E p \in {"copy", "reload", "answer"} : cpc' = [cpc EXCEPT ![w] = p]
      /\ UNCHANGED <<status, calls, load_vars, version, entitled, queue_vars, item,
                     todo>>
  BY Zenon DEF RunCrashes, invoke_vars
<1>2. code' \in [Worker -> SUBSET Version] /\ alive' \subseteq Worker
  BY Zenon DEF RunCrashes, Restart, IInv, Types
<1>3. /\ todo' \in [Worker -> Seq(Version)]
      /\ result' \in [Worker -> {NULL, "ok", "error"}]
  BY <1>1, Zenon DEF RunCrashes, IInv, Types
<1> QED  BY <1>1, <1>2, <1>3, RunStep, Zenon

\* The code is copied for the sandbox that was restarted.
LEMMA CopyStep ==
  ASSUME IInv, NEW w \in Worker, CopyParams(w)
  PROVE  IInv'
<1>1. /\ cpc[w] = "copy" /\ cpc' = [cpc EXCEPT ![w] = "reload"]
      /\ UNCHANGED <<status, calls, load_vars, version, entitled, queue_vars, item,
                     result, code, alive>>
  BY Zenon DEF CopyParams, invoke_vars, sandbox_vars
<1>2. /\ todo' \in [Worker -> Seq(Version)] /\ code' \in [Worker -> SUBSET Version]
      /\ alive' \subseteq Worker /\ result' \in [Worker -> {NULL, "ok", "error"}]
  BY <1>1, Zenon DEF CopyParams, IInv, Types
<1> QED  BY <1>1, <1>2, RunStep, Zenon

\* One code object is loaded again.
LEMMA ReloadStep ==
  ASSUME IInv, NEW w \in Worker, Reload(w)
  PROVE  IInv'
<1>1. /\ cpc[w] = "reload" /\ cpc' = cpc /\ todo[w] # <<>>
      /\ UNCHANGED <<status, calls, load_vars, version, entitled, queue_vars, item,
                     result, alive>>
  BY Zenon DEF Reload, invoke_vars
<1>2. cpc' = [cpc EXCEPT ![w] = "reload"]  BY <1>1, Zenon DEF IInv, Types
<1>3. Head(todo[w]) \in Version /\ Tail(todo[w]) \in Seq(Version)
  BY <1>1, InTail, Zenon DEF IInv, Types
<1>4. /\ todo' \in [Worker -> Seq(Version)] /\ code' \in [Worker -> SUBSET Version]
      /\ alive' \subseteq Worker /\ result' \in [Worker -> {NULL, "ok", "error"}]
  BY <1>1, <1>3, Zenon DEF Reload, IInv, Types
<1> QED  BY <1>1, <1>2, <1>4, RunStep, Zenon

\* The reload is over.
LEMMA ReloadEndsStep ==
  ASSUME IInv, NEW w \in Worker, ReloadEnds(w)
  PROVE  IInv'
<1>1. /\ cpc[w] = "reload" /\ cpc' = [cpc EXCEPT ![w] = "answer"]
      /\ UNCHANGED <<status, calls, load_vars, version, entitled, queue_vars, item>>
  BY Zenon DEF ReloadEnds, invoke_vars
<1>2. code' \in [Worker -> SUBSET Version] /\ alive' \subseteq Worker
  BY Zenon DEF ReloadEnds, Restart, sandbox_vars, IInv, Types
<1>3. /\ todo' \in [Worker -> Seq(Version)]
      /\ result' \in [Worker -> {NULL, "ok", "error"}]
  BY DEF ReloadEnds, IInv, Types
<1> QED  BY <1>1, <1>2, <1>3, RunStep, Zenon

\* The first callback of a load is the one the user gets.
LEMMA AnswerLoadStep ==
  ASSUME IInv, NEW w \in Worker, AnswerLoad(w)
  PROVE  IInv'
<1> USE Items DEF IInv, queue_vars, load_vars, invoke_vars, consumer_vars,
        sandbox_vars, dtor_vars
<1> DEFINE v == item[w]
<1>a. /\ cpc[w] = "answer" /\ v \in Version /\ Accepted(v)
      /\ item' = [item EXCEPT ![w] = NULL] /\ cpc' = [cpc EXCEPT ![w] = "wait"]
      /\ counter' = [counter EXCEPT ![v] = @ + 1]
      /\ UNCHANGED <<version, entitled, requests, params, per_worker_requests,
                     result, todo, code, alive>>
  BY Zenon DEF AnswerLoad, LoadInv
<1>b. /\ calls' \in [Item -> Nat] /\ status' \in [Item -> ItemStatus]
      /\ load_result' \in [Version -> {NULL, "ok", "error"}]
      /\ \A x \in Item \ {v} : status'[x] = status[x]
      /\ \A x \in Version \ {v} : load_result'[x] = load_result[x]
      /\ status'[v] = "answered"
  <2>1. CASE First(v)
    <3>1. /\ status' = [status EXCEPT ![v] = "answered"]
          /\ calls' = [calls EXCEPT ![v] = @ + 1]
          /\ load_result' = [load_result EXCEPT ![v] = result[w]]
      BY <2>1, Zenon DEF AnswerLoad
    <3> QED  BY <1>a, <3>1 DEF Types, ItemStatus
  <2>2. CASE ~First(v)
    BY <1>a, <2>2, Zenon DEF AnswerLoad, Types, First, LoadInv
  <2> QED  BY <2>1, <2>2, Zenon
<1>c. ~In(NULL, requests) /\ ~In(v, requests)  BY <1>a, OnlyRequests, Zenon
<1>d. \A u \in Worker \ {w} : item'[u] = item[u] /\ cpc'[u] = cpc[u]  BY <1>a, Zenon
    DEF Types
<1>e. item'[w] = NULL /\ cpc'[w] = "wait"  BY <1>a, Zenon DEF Types
<1>f. /\ counter' \in [Version -> Nat] /\ counter'[v] # 0
      /\ \A x \in Version \ {v} : counter'[x] = counter[x]
  BY <1>a DEF Types
<1> HIDE DEF v
<1>1. Types'  BY <1>a, <1>b, <1>f, Zenon DEF Types
<1>2. HoldInv'  BY <1>a, <1>b DEF Types, HoldInv
<1>3. OwnInv'
  <2>1. QueueInv'  BY <1>a, <1>b, <1>c, <1>d, <1>e DEF OwnInv, QueueInv
  <2>2. ConsumerInv'  BY <1>a, <1>b, <1>d, <1>e DEF OwnInv, ConsumerInv
  <2>3. OwnedInv'  BY <1>a, <1>b, <1>d DEF OwnInv, OwnedInv, v
  <2> QED  BY <2>1, <2>2, <2>3, Zenon DEF OwnInv
<1>4. LoadInv'
  <2>1. ASSUME NEW x \in Version
        PROVE  /\ status'[x] # "dropped"
               /\ Accepted(x)' <=> In(x, params')
               /\ counter'[x] = 0 <=> status'[x] # "answered"
               /\ load_result'[x] = "ok" => status'[x] = "answered"
    <3>1. CASE x = v  BY <1>a, <1>b, <1>f, <3>1, Zenon DEF LoadInv, Accepted
    <3>2. CASE x # v  BY <1>a, <1>b, <1>f, <3>2 DEF LoadInv, Accepted
    <3> QED  BY <3>1, <3>2, Zenon
  <2>2. \A x \in Version : Accepted(x) => Accepted(x)'
    BY <1>a, <1>b, Zenon DEF Accepted
  <2>3. ASSUME NEW x \in Version, NEW u \in Worker,
               In(x, per_worker_requests'[u]) \/ item'[u] = x
        PROVE  Accepted(x)
    BY <1>a, <1>d, <1>e, <2>3 DEF LoadInv
  <2>4. \A r \in entitled' : /\ status'[r] # "idle" /\ version'[r] \in Version
                            /\ status'[version'[r]] = "answered"
    BY <1>a, <1>b, ZenonT(30) DEF LoadInv, Types
  <2> QED  BY <2>1, <2>2, <2>3, <2>4, Zenon DEF LoadInv
<1> QED  BY <1>1, <1>2, <1>3, <1>4, Zenon

\* The callback of an invocation runs.
LEMMA AnswerInvokeStep ==
  ASSUME IInv, NEW w \in Worker, AnswerInvoke(w)
  PROVE  IInv'
<1> USE Items DEF IInv, AnswerInvoke,
        queue_vars, load_vars, invoke_vars, consumer_vars, sandbox_vars, dtor_vars
<1>1. Types'  BY DEF Types, ItemStatus
<1>2. HoldInv'  BY Zenon DEF Types, HoldInv
<1>3. OwnInv'
  <2>1. QueueInv'  BY DEF Types, HoldInv, OwnInv, QueueInv
  <2>2. ConsumerInv'  BY SMTT(20) DEF Types, HoldInv, OwnInv, ConsumerInv, QueueInv
  <2>3. OwnedInv'  BY Zenon DEF Types, HoldInv, OwnInv, OwnedInv
  <2> QED  BY <2>1, <2>2, <2>3, Zenon DEF OwnInv
<1>4. LoadInv'  BY DEF Types, LoadInv, HoldInv, Accepted
<1> QED  BY <1>1, <1>2, <1>3, <1>4, Zenon

\* The consumer is done with an invocation.
LEMMA DeleteMetadataStep ==
  ASSUME IInv, NEW w \in Worker, DeleteMetadata(w)
  PROVE  IInv'
<1> USE Items DEF IInv, DeleteMetadata,
        queue_vars, load_vars, invoke_vars, consumer_vars, sandbox_vars, dtor_vars
<1>a. ~In(NULL, requests)  BY OnlyRequests, Zenon
<1>b. /\ item[w] \in Request /\ status[item[w]] = "answered" /\ item'[w] = NULL
      /\ cpc'[w] = "wait"
      /\ \A u \in Worker \ {w} : item'[u] = item[u] /\ cpc'[u] = cpc[u]
  BY DEF HoldInv, OwnInv, ConsumerInv, Types
<1>1. Types'  BY Zenon DEF Types, ItemStatus
<1>2. HoldInv'  BY Zenon DEF Types, HoldInv
<1>3. OwnInv'
  <2>1. QueueInv'  BY <1>a, <1>b DEF OwnInv, QueueInv
  <2>2. ConsumerInv'  BY <1>b, SMTT(20) DEF OwnInv, ConsumerInv
  <2>3. OwnedInv'  BY <1>b DEF OwnInv, OwnedInv
  <2> QED  BY <2>1, <2>2, <2>3, Zenon DEF OwnInv
<1>4. LoadInv'  BY DEF Types, LoadInv, HoldInv, Accepted
<1> QED  BY <1>1, <1>2, <1>3, <1>4, Zenon

\* The destructor drops the invocations that are queued.
LEMMA KillStep ==
  ASSUME IInv, KillConsumers
  PROVE  IInv'
<1> USE Items DEF IInv, KillConsumers,
        queue_vars, load_vars, invoke_vars, consumer_vars, sandbox_vars, dtor_vars
<1>a. \A x : ~In(x, requests')  BY DEF In
<1>b. Distinct(requests')  BY DEF Distinct
<1>c. \A x : Waiting(x) <=> In(x, requests)  BY DEF Waiting, In, Types
<1>d. ASSUME NEW v \in Version PROVE status'[v] = status[v]
  <2>1. ~In(v, requests)  BY OnlyRequests, Zenon
  <2>2. ~Waiting(v)  BY <1>c, <2>1, Zenon
  <2>3. v \in Item  BY Zenon
  <2> QED  BY <2>2, <2>3, Zenon
<1>1. Types'  BY <1>c DEF Types, ItemStatus
<1>2. HoldInv'  BY Zenon DEF Types, HoldInv
<1>3. OwnInv'
  <2>1. QueueInv'  BY <1>a, <1>b, <1>c, Zenon DEF Types, HoldInv, OwnInv, QueueInv
  <2>2. ConsumerInv'  BY <1>a, <1>b, <1>c, Zenon
      DEF Types, HoldInv, OwnInv, ConsumerInv, QueueInv
  <2>3. OwnedInv'  BY <1>a, <1>b, <1>c, Zenon DEF Types, HoldInv, OwnInv, OwnedInv
  <2> QED  BY <2>1, <2>2, <2>3, Zenon DEF OwnInv
<1>4. LoadInv'  BY <1>c, <1>d, Zenon DEF Types, LoadInv, HoldInv, Accepted
<1> QED  BY <1>1, <1>2, <1>3, <1>4, Zenon

\* The destructor starts or ends.
LEMMA StopStep ==
  ASSUME IInv, Stop \/ Join \/ UNCHANGED vars
  PROVE  IInv'
<1> USE Items DEF IInv, Stop, Join, vars,
        queue_vars, load_vars, invoke_vars, consumer_vars, sandbox_vars, dtor_vars
<1>1. Types'  BY Zenon DEF Types, ItemStatus
<1>2. HoldInv'  BY Zenon DEF Types, HoldInv
<1>3. OwnInv'
  <2>1. QueueInv'  BY DEF Types, HoldInv, OwnInv, QueueInv
  <2>2. ConsumerInv'  BY DEF Types, HoldInv, OwnInv, ConsumerInv, QueueInv
  <2>3. OwnedInv'  BY DEF Types, HoldInv, OwnInv, OwnedInv
  <2> QED  BY <2>1, <2>2, <2>3, ZenonT(30) DEF OwnInv
<1>4. LoadInv'  BY DEF Types, LoadInv, HoldInv, Accepted
<1> QED  BY <1>1, <1>2, <1>3, <1>4, Zenon

-----------------------------------------------------------------------------
(* The places of an invocation *)

\* Every step keeps the invariant.
LEMMA NextIInv ==
  ASSUME IInv, [Next]_vars PROVE IInv'
<1>1. ASSUME NEW v \in Version, LoadCodeObj(v) \/ LoadRefused(v) \/ Load(v) PROVE IInv'
  BY <1>1, LoadCodeObjStep, LoadRefusedStep, LoadStep, Zenon
<1>2. ASSUME NEW r \in Request, NEW v \in Version, Execute(r, v) PROVE IInv'
  BY <1>2, ExecuteStep, Zenon
<1>3. ASSUME NEW r \in Request, Invoke(r) \/ InvokeRefused(r) \/ Cancel(r) PROVE IInv'
  BY <1>3, InvokeStep, InvokeRefusedStep, CancelStep, Zenon
<1>4. ASSUME NEW w \in Worker, Consume(w) PROVE IInv'
  BY <1>4, TakeLoadStep, TakeInvokeStep, ExitStep, ReturnStep, CrashStep, CopyStep,
     ReloadStep, ReloadEndsStep, AnswerLoadStep, AnswerInvokeStep, DeleteMetadataStep, ZenonT(30)
  DEF Consume
<1>5. CASE Stop \/ KillConsumers \/ Join \/ UNCHANGED vars
  BY <1>5, StopStep, KillStep, Zenon
<1> QED  BY <1>1, <1>2, <1>3, <1>4, <1>5, Zenon DEF Next, Call

\* The inductive invariant always holds.
LEMMA Invariance == Spec => []IInv
BY InitIInv, NextIInv, PTL DEF Spec

\* Cancel, the consumers and the destructor never lose an accepted invocation
\* or hand it to two of them: it is queued once or with one consumer.
THEOREM OneOwnerAlways == Spec => []OneOwner
<1>1. ASSUME IInv, NEW r \in Request, status[r] = "accepted"
      PROVE  Cardinality(Places(r)) = 1
  <2> USE <1>1 DEF IInv, OwnInv
  <2>1. DOMAIN requests = 1..Len(requests)  BY DEF Types
  <2>2. CASE In(r, requests)
    <3>1. PICK i \in 1..Len(requests) : requests[i] = r  BY <2>2, Zenon DEF In
    <3>2. \A j \in 1..Len(requests) : requests[j] = r => j = i
      BY <3>1, Zenon DEF QueueInv, Distinct
    <3>3. \A w \in Worker : item[w] # r  BY <2>2, Zenon DEF QueueInv
    <3>4. Places(r) = {<<"queue", i>>}  BY <2>1, <3>1, <3>2, <3>3, Zenon DEF Places
    <3> QED  BY <3>4, FS_Singleton, Zenon
  <2>3. CASE ~In(r, requests)
    <3>1. PICK w \in Worker : item[w] = r  BY <2>3, Zenon DEF OwnedInv
    <3>2. \A u \in Worker : item[u] = r => u = w  BY <3>1, Zenon DEF ConsumerInv
    <3>3. \A j \in 1..Len(requests) : requests[j] # r  BY <2>3, Zenon DEF In
    <3>4. Places(r) = {<<"worker", w>>}  BY <2>1, <3>1, <3>2, <3>3, Zenon DEF Places
    <3> QED  BY <3>4, FS_Singleton, Zenon
  <2> QED  BY <2>2, <2>3, Zenon
<1>2. IInv => OneOwner  BY <1>1, Zenon DEF OneOwner
<1> QED  BY <1>2, Invariance, PTL

-----------------------------------------------------------------------------
(* The contract of LoadCodeObj and Execute *)

\* In the contract nothing has been called yet, either.
LEMMA ContractInit == Init => Contract!Init
BY Zenon DEF Init, Contract!Init

\* A step that moves one call on, or none, does the same in the contract.
LEMMA StatusMoves ==
  ASSUME NEW x \in Item, NEW s, s # "dropped",
         status \in [Item -> ItemStatus], status' = [status EXCEPT ![x] = s]
  PROVE  [y \in Item |-> IF status'[y] = "dropped" THEN "accepted" ELSE status'[y]]
         = [[y \in Item |-> IF status[y] = "dropped" THEN "accepted" ELSE status[y]]
              EXCEPT ![x] = s]
BY Zenon

\* Every step of the dispatcher is a step of the contract or leaves it alone.
LEMMA ContractNext ==
  ASSUME IInv, [Next]_vars PROVE [Contract!Next]_(Contract!vars)
<1> USE Items DEF IInv, queue_vars, load_vars, invoke_vars, consumer_vars,
        sandbox_vars, dtor_vars
<1>0. status \in [Item -> ItemStatus] /\ calls \in [Item -> Nat]  BY Zenon DEF Types
<1>1. UNCHANGED <<status, calls>> => UNCHANGED Contract!vars
  BY Zenon DEF Contract!vars
<1>2. ASSUME NEW x \in Item, status[x] = "idle",
             status' = [status EXCEPT ![x] = "pending"], UNCHANGED calls
      PROVE  Contract!Submit(x)
  BY <1>0, <1>2, StatusMoves, Zenon DEF Contract!Submit
<1>3. ASSUME NEW x \in Item, status[x] = "pending", UNCHANGED calls,
             NEW s \in {"refused", "accepted"}, status' = [status EXCEPT ![x] = s]
      PROVE  Contract!Decide(x)
  BY <1>0, <1>3, StatusMoves, Zenon DEF Contract!Decide
<1>4. ASSUME NEW x \in Item, status[x] = "accepted",
             status' = [status EXCEPT ![x] = "answered"],
             calls' = [calls EXCEPT ![x] = @ + 1]
      PROVE  Contract!Answer(x)
  BY <1>0, <1>4, StatusMoves, Zenon DEF Contract!Answer
<1>5. ASSUME NEW v \in Version, LoadCodeObj(v) PROVE Contract!Submit(v)
  BY <1>2, <1>5, Zenon DEF LoadCodeObj
<1>6. ASSUME NEW v \in Version, LoadRefused(v) \/ Load(v) PROVE Contract!Decide(v)
  BY <1>3, <1>6, Zenon DEF LoadRefused, Load
<1>7. ASSUME NEW r \in Request, NEW v \in Version, Execute(r, v) PROVE Contract!Submit(r)
  BY <1>2, <1>7, Zenon DEF Execute
<1>8. ASSUME NEW r \in Request, Invoke(r) \/ InvokeRefused(r) PROVE Contract!Decide(r)
  BY <1>3, <1>8, Zenon DEF Invoke, InvokeRefused
<1>9. ASSUME NEW r \in Request, Cancel(r)
      PROVE  Contract!Answer(r) \/ UNCHANGED <<status, calls>>
  <2>1. CASE Waiting(r)
    <3>1. status[r] = "accepted"
      BY <2>1 DEF Waiting, In, Types, OwnInv, QueueInv
    <3> QED  BY <1>4, <1>9, <2>1, <3>1, Zenon DEF Cancel
  <2>2. CASE ~Waiting(r)  BY <1>9, <2>2, Zenon DEF Cancel
  <2> QED  BY <2>1, <2>2, Zenon
<1>10. ASSUME NEW w \in Worker, AnswerLoad(w)
       PROVE  (\E x \in Item : Contract!Answer(x)) \/ UNCHANGED <<status, calls>>
  <2>1. PICK v \in Version : v = item[w]  BY <1>10, Zenon DEF AnswerLoad
  <2>2. CASE First(item[w])
    <3>1. status[v] = "accepted"
      BY <2>1, <2>2, Zenon DEF First, LoadInv, Accepted
    <3>2. /\ status' = [status EXCEPT ![v] = "answered"]
          /\ calls' = [calls EXCEPT ![v] = @ + 1]
      BY <1>10, <2>1, <2>2, Zenon DEF AnswerLoad
    <3> QED  BY <1>4, <3>1, <3>2, Zenon
  <2>3. CASE ~First(item[w])  BY <1>10, <2>3, Zenon DEF AnswerLoad
  <2> QED  BY <2>2, <2>3, Zenon
<1>11. ASSUME NEW w \in Worker, AnswerInvoke(w)
       PROVE  \E x \in Item : Contract!Answer(x)
  <2>1. PICK r \in Request : r = item[w]  BY <1>11, Zenon DEF AnswerInvoke
  <2>2. status[r] = "accepted"
    BY <1>11, <2>1, Zenon DEF AnswerInvoke, OwnInv, ConsumerInv
  <2>3. /\ status' = [status EXCEPT ![r] = "answered"]
        /\ calls' = [calls EXCEPT ![r] = @ + 1]
    BY <1>11, <2>1, Zenon DEF AnswerInvoke
  <2> QED  BY <1>4, <2>2, <2>3, Zenon
<1>12. CASE KillConsumers
  <2>1. \A x \in Item : Waiting(x) => status[x] = "accepted"
    BY DEF Waiting, Types, OwnInv, QueueInv, In
  <2>2. UNCHANGED Contract!vars  BY <1>12, <2>1, Zenon DEF KillConsumers, Contract!vars
  <2> QED  BY <2>2, Zenon
<1>13. ASSUME NEW w \in Worker,
              \/ Take(w) \/ ConsumerExits(w) \/ CodeLoaded(w) \/ CodeRun(w) \/ RunFails(w)
              \/ RunCrashes(w) \/ CopyParams(w) \/ Reload(w) \/ ReloadEnds(w)
              \/ DeleteMetadata(w)
       PROVE  UNCHANGED <<status, calls>>
  BY <1>13, Zenon DEF Take, ConsumerExits, CodeLoaded, CodeRun, RunFails, Returns,
     RunCrashes, CopyParams, Reload, ReloadEnds, DeleteMetadata
<1>14. CASE Stop \/ Join \/ UNCHANGED vars
  BY <1>1, <1>14, Zenon DEF Stop, Join, vars
<1>15. ASSUME NEW w \in Worker, Consume(w)
       PROVE  (\E x \in Item : Contract!Answer(x)) \/ UNCHANGED <<status, calls>>
  BY <1>10, <1>11, <1>13, <1>15, Zenon DEF Consume
<1>16. ASSUME NEW x \in Item, Call(x) PROVE \E y \in Item : Contract!Decide(y)
  BY <1>6, <1>8, <1>16, Zenon DEF Call
<1> QED
  BY <1>1, <1>5, <1>7, <1>9, <1>12, <1>14, <1>15, <1>16, Zenon DEF Next, Contract!Next

\* LoadCodeObj and Execute keep the safety part of their contract: a refused
\* call is never called back, an accepted one at most once.
THEOREM ContractKept == Spec => CalledBackOnce
BY Invariance, ContractInit, ContractNext, PTL
DEF Spec, CalledBackOnce, Contract!SafetySpec

-----------------------------------------------------------------------------
(* The code of the sandboxes *)

CodeAssumption == BadVersion = {} /\ ~ReloadMayCrash

\* A new dispatcher runs nothing.
LEMMA InitCodeInv == Init => CodeInv
<1> SUFFICES ASSUME Init PROVE CodeInv  BY Zenon
<1>1. \A x : ~In(x, params)  BY DEF Init, In
<1>2. LoadedBeforeRun  BY Zenon DEF Init, LoadedBeforeRun
<1> QED  BY <1>1, <1>2, Zenon DEF CodeInv

\* Steps that are not about code.
LEMMA CodeFrame ==
  ASSUME CodeInv, UNCHANGED <<alive, params, code, per_worker_requests, cpc, item,
                              todo, entitled, version>>
  PROVE  CodeInv'
BY Zenon DEF CodeInv, Coming, LoadedBeforeRun

\* A user is entitled only to versions that were reported.
LEMMA ExecuteCode ==
  ASSUME IInv, CodeInv, NEW r \in Request, NEW v \in Version, Execute(r, v)
  PROVE  CodeInv'
<1> USE Items DEF IInv
<1>1. /\ UNCHANGED <<alive, params, code, per_worker_requests, cpc, item, todo>>
      /\ entitled' \subseteq entitled \cup {r} /\ version' = [version EXCEPT ![r] = v]
      /\ status[r] = "idle"
  BY Zenon DEF Execute, queue_vars, consumer_vars, sandbox_vars
<1>2. \A w \in Worker : item[w] # r  BY <1>1, Zenon DEF OwnInv, ConsumerInv
<1>3. LoadedBeforeRun'  BY <1>1, <1>2 DEF Types, CodeInv, LoadedBeforeRun
<1>4. \A w \in alive' : \A x \in Version : In(x, params') => x \in code'[w] \/ Coming(w, x)'
  BY <1>1, Zenon DEF CodeInv, Coming
<1> QED  BY <1>3, <1>4, Zenon DEF CodeInv

\* New code is queued for every worker.
LEMMA LoadCode ==
  ASSUME IInv, CodeInv, NEW v \in Version, Load(v)
  PROVE  CodeInv'
<1> USE DEF IInv
<1>1. /\ UNCHANGED <<alive, code, cpc, item, todo, entitled, version>>
      /\ params' = Append(params, v)
      /\ per_worker_requests' = [w \in Worker |-> Append(per_worker_requests[w], v)]
  BY Zenon DEF Load, invoke_vars, consumer_vars, sandbox_vars
<1>2. \A x : In(x, params') <=> In(x, params) \/ x = v
  BY <1>1, InAppend, Zenon DEF Types
<1>3. ASSUME NEW w \in Worker
      PROVE  \A x : In(x, per_worker_requests'[w]) <=> In(x, per_worker_requests[w]) \/ x = v
  BY <1>1, InAppend DEF Types
<1>4. LoadedBeforeRun'  BY <1>1, Zenon DEF CodeInv, LoadedBeforeRun
<1>5. \A w \in alive' : \A x \in Version : In(x, params') => x \in code'[w] \/ Coming(w, x)'
  BY <1>1, <1>2, <1>3, Zenon DEF Types, CodeInv, Coming
<1> QED  BY <1>4, <1>5, Zenon DEF CodeInv

\* A consumer that is not at work on code moves on.
LEMMA ConsumerCode ==
  ASSUME IInv, CodeInv, NEW w \in Worker, cpc[w] \in {"wait", "answer", "cleanup"},
         NEW p \in {"wait", "exit", "cleanup"}, cpc' = [cpc EXCEPT ![w] = p],
         NEW x, item' = [item EXCEPT ![w] = x],
         UNCHANGED <<alive, params, code, per_worker_requests, todo, entitled, version>>
  PROVE  CodeInv'
<1> USE DEF IInv
<1>1. LoadedBeforeRun'  BY Zenon DEF Types, CodeInv, LoadedBeforeRun
<1>2. \A u \in alive' : \A v \in Version : In(v, params') => v \in code'[u] \/ Coming(u, v)'
  BY Zenon DEF Types, CodeInv, Coming
<1> QED  BY <1>1, <1>2, Zenon DEF CodeInv

\* A consumer takes code to load.
LEMMA TakeLoadCode ==
  ASSUME IInv, CodeInv, NEW w \in Worker, Take(w), per_worker_requests[w] # <<>>
  PROVE  CodeInv'
<1> USE Items DEF IInv
<1> DEFINE y == Head(per_worker_requests[w])
<1>1. /\ y \in Version
      /\ \A x : In(x, per_worker_requests[w]) <=>
                  x = y \/ In(x, Tail(per_worker_requests[w]))
  BY InTail, Zenon DEF Types
<1>2. /\ cpc[w] = "wait" /\ cpc' = [cpc EXCEPT ![w] = "run"]
      /\ item' = [item EXCEPT ![w] = y]
      /\ per_worker_requests' =
           [per_worker_requests EXCEPT ![w] = Tail(per_worker_requests[w])]
      /\ UNCHANGED <<alive, params, code, todo, entitled, version>>
  BY Zenon DEF Take, invoke_vars, sandbox_vars
<1>3. /\ \A u \in Worker \ {w} : /\ cpc'[u] = cpc[u] /\ item'[u] = item[u]
                                 /\ per_worker_requests'[u] = per_worker_requests[u]
      /\ cpc'[w] = "run" /\ item'[w] = y
      /\ per_worker_requests'[w] = Tail(per_worker_requests[w])
  BY <1>2, Zenon DEF Types
<1> HIDE DEF y
<1>4. LoadedBeforeRun'  BY <1>1, <1>2, <1>3 DEF Types, CodeInv, LoadedBeforeRun
<1>5. ASSUME NEW u \in alive', NEW v \in Version, In(v, params')
      PROVE  v \in code'[u] \/ Coming(u, v)'
  BY <1>1, <1>2, <1>3, <1>5, ZenonT(30) DEF Types, CodeInv, Coming
<1> QED  BY <1>4, <1>5, Zenon DEF CodeInv

\* A consumer takes an invocation only when it has no code to load: all code
\* that was accepted is in the sandbox.
LEMMA TakeInvokeCode ==
  ASSUME IInv, CodeInv, NEW w \in Worker, Take(w), per_worker_requests[w] = <<>>
  PROVE  CodeInv'
<1> USE Items DEF IInv
<1>1. /\ cpc[w] = "wait" /\ cpc' = [cpc EXCEPT ![w] = "run"]
      /\ item' = [item EXCEPT ![w] = Head(requests)]
      /\ UNCHANGED <<alive, params, code, per_worker_requests, todo, entitled, version>>
  BY Zenon DEF Take, invoke_vars, sandbox_vars
<1>2. /\ \A u \in Worker \ {w} : cpc'[u] = cpc[u] /\ item'[u] = item[u]
      /\ cpc'[w] = "run"
  BY <1>1, Zenon DEF Types
<1>3. \A v : ~In(v, per_worker_requests[w])  BY DEF In
<1>4. w \in alive => \A v \in Version : In(v, params) => v \in code[w]
  BY <1>1, <1>3, Zenon DEF CodeInv, Coming
<1>5. \A r \in entitled : version[r] \in Version /\ In(version[r], params)
  BY Zenon DEF LoadInv, Accepted
<1>6. LoadedBeforeRun'
  BY <1>1, <1>2, <1>4, <1>5 DEF CodeInv, LoadedBeforeRun
<1>7. ASSUME NEW u \in alive', NEW v \in Version, In(v, params')
      PROVE  v \in code'[u] \/ Coming(u, v)'
  BY <1>1, <1>2, <1>4, <1>7, Zenon DEF Types, CodeInv, Coming
<1> QED  BY <1>6, <1>7, Zenon DEF CodeInv

\* Code is loaded, or an invocation has run, without a crash.
LEMMA ReturnCode ==
  ASSUME IInv, CodeInv, CodeAssumption, NEW w \in Worker,
         CodeLoaded(w) \/ CodeRun(w) \/ RunFails(w)
  PROVE  CodeInv'
<1> USE Items DEF IInv
<1>1. /\ cpc[w] = "run" /\ cpc' = [cpc EXCEPT ![w] = "answer"]
      /\ UNCHANGED <<alive, params, item, per_worker_requests, todo, entitled, version>>
  BY Zenon DEF CodeLoaded, CodeRun, RunFails, Returns, queue_vars, invoke_vars
<1>2. /\ \A u \in Worker \ {w} : cpc'[u] = cpc[u] /\ code'[u] = code[u]
      /\ cpc'[w] = "answer" /\ code[w] \subseteq code'[w]
      /\ w \in alive /\ item[w] \in Version => item[w] \in code'[w]
  <2>1. CASE CodeLoaded(w)  BY <1>1, <2>1, ZenonT(30) DEF CodeLoaded, Types
  <2>2. CASE CodeRun(w)  BY <1>1, <2>2, Zenon DEF CodeRun, Types
  <2>3. CASE RunFails(w)  BY <1>1, <2>3, Zenon DEF RunFails, CodeAssumption, Types
  <2> QED  BY <2>1, <2>2, <2>3, Zenon
<1>3. LoadedBeforeRun'  BY <1>1, <1>2, Zenon DEF CodeInv, LoadedBeforeRun
<1>4. ASSUME NEW u \in alive', NEW v \in Version, In(v, params')
      PROVE  v \in code'[u] \/ Coming(u, v)'
  <2>1. u \in alive /\ u \in Worker /\ In(v, params)  BY <1>1, <1>4, Zenon DEF Types
  <2>2. v \in code[u] \/ Coming(u, v)  BY <2>1, Zenon DEF CodeInv
  <2> QED  BY <1>1, <1>2, <2>1, <2>2, Zenon DEF Coming
<1> QED  BY <1>3, <1>4, Zenon DEF CodeInv

\* A sandbox that was restarted gets all code again; one that could not be
\* restarted runs nothing.
LEMMA CrashCode ==
  ASSUME IInv, CodeInv, NEW w \in Worker, RunCrashes(w)
  PROVE  CodeInv'
<1> USE DEF IInv
<1>1. /\ UNCHANGED <<params, item, per_worker_requests, todo, entitled, version>>
      /\ cpc' = [cpc EXCEPT ![w] = IF w \in alive' THEN "copy" ELSE "answer"]
      /\ code' = [code EXCEPT ![w] = {}]
  BY Zenon DEF RunCrashes, Restart, queue_vars, invoke_vars
<1>2. alive' \in {alive \cup {w}, alive \ {w}}  BY Zenon DEF RunCrashes, Restart
<1>3. /\ \A u \in Worker \ {w} : /\ cpc'[u] = cpc[u] /\ code'[u] = code[u]
                                 /\ u \in alive' <=> u \in alive
      /\ w \in alive' => cpc'[w] = "copy"
      /\ cpc'[w] # "run"
  BY <1>1, <1>2, Zenon DEF Types
<1>4. LoadedBeforeRun'  BY <1>1, <1>3, Zenon DEF CodeInv, LoadedBeforeRun
<1>5. ASSUME NEW u \in alive', NEW v \in Version, In(v, params')
      PROVE  v \in code'[u] \/ Coming(u, v)'
  <2>1. CASE u = w  BY <1>3, <2>1, Zenon DEF Coming
  <2>2. CASE u # w
    <3>1. u \in alive /\ u \in Worker /\ In(v, params)
      BY <1>1, <1>2, <1>3, <1>5, <2>2 DEF Types
    <3>2. v \in code[u] \/ Coming(u, v)  BY <3>1, Zenon DEF CodeInv
    <3> QED  BY <1>1, <1>3, <2>2, <3>1, <3>2, Zenon DEF Coming
  <2> QED  BY <2>1, <2>2, Zenon
<1> QED  BY <1>4, <1>5, Zenon DEF CodeInv

\* The copy has all code that was accepted before; later code is queued.
LEMMA CopyCode ==
  ASSUME IInv, CodeInv, NEW w \in Worker, CopyParams(w)
  PROVE  CodeInv'
<1> USE DEF IInv
<1>1. /\ UNCHANGED <<alive, params, code, item, per_worker_requests, entitled, version>>
      /\ cpc' = [cpc EXCEPT ![w] = "reload"] /\ todo' = [todo EXCEPT ![w] = params]
      /\ cpc[w] = "copy"
  BY Zenon DEF CopyParams, queue_vars, invoke_vars, sandbox_vars
<1>2. /\ \A u \in Worker \ {w} : cpc'[u] = cpc[u] /\ todo'[u] = todo[u]
      /\ cpc'[w] = "reload" /\ todo'[w] = params
  BY <1>1, Zenon DEF Types
<1>3. LoadedBeforeRun'  BY <1>1, <1>2, Zenon DEF CodeInv, LoadedBeforeRun
<1>4. ASSUME NEW u \in alive', NEW v \in Version, In(v, params')
      PROVE  v \in code'[u] \/ Coming(u, v)'
  <2>1. u \in alive /\ u \in Worker /\ In(v, params)  BY <1>1, <1>4, Zenon DEF Types
  <2>2. v \in code[u] \/ Coming(u, v)  BY <2>1, Zenon DEF CodeInv
  <2> QED  BY <1>1, <1>2, <2>1, <2>2, Zenon DEF Coming
<1> QED  BY <1>3, <1>4, Zenon DEF CodeInv

\* What is taken from the copy is in the sandbox.
LEMMA ReloadCode ==
  ASSUME IInv, CodeInv, NEW w \in Worker, Reload(w)
  PROVE  CodeInv'
<1> USE DEF IInv
<1>1. /\ UNCHANGED <<alive, params, cpc, item, per_worker_requests, entitled, version>>
      /\ code' = [code EXCEPT ![w] = @ \cup {Head(todo[w])}]
      /\ todo' = [todo EXCEPT ![w] = Tail(@)]
      /\ cpc[w] = "reload" /\ todo[w] # <<>>
  BY Zenon DEF Reload, queue_vars, invoke_vars
<1>2. \A x : In(x, todo[w]) <=> x = Head(todo[w]) \/ In(x, Tail(todo[w]))
  BY <1>1, InTail, Zenon DEF Types
<1>3. /\ \A u \in Worker \ {w} : code'[u] = code[u] /\ todo'[u] = todo[u]
      /\ code'[w] = code[w] \cup {Head(todo[w])} /\ todo'[w] = Tail(todo[w])
  BY <1>1, Zenon DEF Types
<1>4. LoadedBeforeRun'  BY <1>1, <1>3, Zenon DEF CodeInv, LoadedBeforeRun
<1>5. ASSUME NEW u \in alive', NEW v \in Version, In(v, params')
      PROVE  v \in code'[u] \/ Coming(u, v)'
  <2>1. u \in alive /\ u \in Worker /\ In(v, params)  BY <1>1, <1>5, Zenon DEF Types
  <2>2. v \in code[u] \/ Coming(u, v)  BY <2>1, Zenon DEF CodeInv
  <2> QED  BY <1>1, <1>2, <1>3, <2>1, <2>2, Zenon DEF Coming
<1> QED  BY <1>4, <1>5, Zenon DEF CodeInv

\* Without a failure the reload ends when nothing is left of the copy.
LEMMA ReloadEndsCode ==
  ASSUME IInv, CodeInv, CodeAssumption, NEW w \in Worker, ReloadEnds(w)
  PROVE  CodeInv'
<1> USE DEF IInv
<1>1. /\ UNCHANGED <<alive, code, params, item, per_worker_requests, entitled, version>>
      /\ todo[w] = <<>> /\ todo' = [todo EXCEPT ![w] = <<>>]
      /\ cpc' = [cpc EXCEPT ![w] = "answer"] /\ cpc[w] = "reload"
  BY Zenon DEF ReloadEnds, CodeAssumption, queue_vars, invoke_vars, sandbox_vars
<1>2. \A x : ~In(x, todo[w])  BY <1>1 DEF In
<1>3. /\ \A u \in Worker \ {w} : cpc'[u] = cpc[u] /\ todo'[u] = todo[u]
      /\ cpc'[w] = "answer"
  BY <1>1, Zenon DEF Types
<1>4. LoadedBeforeRun'  BY <1>1, <1>3, Zenon DEF CodeInv, LoadedBeforeRun
<1>5. ASSUME NEW u \in alive', NEW v \in Version, In(v, params')
      PROVE  v \in code'[u] \/ Coming(u, v)'
  <2>1. u \in alive /\ u \in Worker /\ In(v, params)  BY <1>1, <1>5, Zenon DEF Types
  <2>2. v \in code[u] \/ Coming(u, v)  BY <2>1, Zenon DEF CodeInv
  <2> QED  BY <1>1, <1>2, <1>3, <2>1, <2>2, Zenon DEF Coming
<1> QED  BY <1>4, <1>5, Zenon DEF CodeInv

\* Every step keeps the code coming.
LEMMA NextCodeInv ==
  ASSUME IInv, CodeInv, CodeAssumption, [Next]_vars PROVE CodeInv'
<1> USE DEF queue_vars, load_vars, invoke_vars, consumer_vars, sandbox_vars, dtor_vars
<1>1. ASSUME NEW v \in Version, LoadCodeObj(v) \/ LoadRefused(v) PROVE CodeInv'
  BY <1>1, CodeFrame, Zenon DEF LoadCodeObj, LoadRefused
<1>2. ASSUME NEW r \in Request, Invoke(r) \/ InvokeRefused(r) \/ Cancel(r) PROVE CodeInv'
  BY <1>2, CodeFrame, Zenon DEF Invoke, InvokeRefused, Cancel
<1>3. CASE Stop \/ KillConsumers \/ Join \/ UNCHANGED vars
  BY <1>3, CodeFrame, Zenon DEF Stop, KillConsumers, Join, vars
<1>4. ASSUME NEW w \in Worker,
             ConsumerExits(w) \/ AnswerLoad(w) \/ AnswerInvoke(w) \/ DeleteMetadata(w)
      PROVE  CodeInv'
  <2>1. /\ cpc[w] \in {"wait", "answer", "cleanup"}
        /\ \E p \in {"wait", "exit", "cleanup"} : cpc' = [cpc EXCEPT ![w] = p]
        /\ \E x \in {NULL, item[w]} : item' = [item EXCEPT ![w] = x]
        /\ UNCHANGED <<alive, params, code, per_worker_requests, todo, entitled, version>>
    BY <1>4, Zenon
       DEF ConsumerExits, AnswerLoad, AnswerInvoke, DeleteMetadata, IInv, Types
  <2> QED  BY <2>1, ConsumerCode, Zenon
<1>5. ASSUME NEW w \in Worker, Consume(w) PROVE CodeInv'
  BY <1>4, <1>5, TakeLoadCode, TakeInvokeCode, ReturnCode, CrashCode, CopyCode,
     ReloadCode, ReloadEndsCode, Zenon DEF Consume
<1>6. ASSUME NEW v \in Version, Load(v) PROVE CodeInv'  BY <1>6, LoadCode, Zenon
<1>7. ASSUME NEW r \in Request, NEW v \in Version, Execute(r, v) PROVE CodeInv'
  BY <1>7, ExecuteCode, Zenon
<1> QED  BY <1>1, <1>2, <1>3, <1>5, <1>6, <1>7, Zenon DEF Next, Call

\* When all code compiles and no sandbox crashes in the middle of a reload, the
\* report of the first worker can be relied on: no worker runs an invocation
\* submitted after it without the code, however often the sandboxes crash.
THEOREM LoadedBeforeRunAlways == CodeAssumption /\ Spec => []LoadedBeforeRun
<1>1. CodeAssumption /\ Spec => []CodeInv
  <2> SUFFICES ASSUME CodeAssumption PROVE Spec => []CodeInv  BY Zenon
  <2>1. IInv /\ CodeInv /\ [Next]_vars => CodeInv'  BY NextCodeInv, Zenon
  <2> QED  BY <2>1, Invariance, InitCodeInv, PTL DEF Spec
<1>2. CodeInv => LoadedBeforeRun  BY Zenon DEF CodeInv
<1> QED  BY <1>1, <1>2, PTL
=============================================================================

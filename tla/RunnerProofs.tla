---------------------------- MODULE RunnerProofs ----------------------------
(***************************************************************************)
(* Proofs about WorkerRunner for any number of binaries, reloaders and     *)
(* deaths: no process of a pool escapes the table of reloaders, and none   *)
(* is left when its binary is deleted or the runner is destroyed, unless   *)
(* it was killed before it had a process group; and only a failure leaves  *)
(* a directory.                                                            *)
(***************************************************************************)
EXTENDS WorkerRunner, TLAPS

\* p has its ReloaderMetadata.
In(p) == p[1] \in known /\ p[2] <= metadatas[p[1]]

\* p is cloned, and CreateWorkerPool has yet to add its ReloaderMetadata.
Pushing(p) == load[p[1]] = "push" /\ p[2] = metadatas[p[1]] + 1

\* Nothing of p is left but what is in leftover, or it was killed too early.
Gone(p) == \/ /\ reloader[p] \in {"none", "dead"}
              /\ p \in pivot_root => p \in leftover
           \/ p \in early

Deleted(t) == load[t] = "ok" /\ t \notin known
AtVictim == kpc \in {"wait", "remove"}
InScope(p) == killing = p[1] \/ killing = Everything

ProcessInv ==
  \A p \in Reloader : /\ worker[p] # "none" => reloader[p] = "up"
                      /\ p \in pivot_root \ leftover => reloader[p] # "none"

LoadInv ==
  \A t \in Token :
    /\ load[t] \in {"pool", "push"} => t \in known /\ metadatas[t] < NumWorkers[t]
    /\ load[t] = "idle" => metadatas[t] = 0

\* Every process that was ever cloned is accounted for.
Accounted ==
  \A p \in Reloader :
    reloader[p] # "none" => In(p) \/ Pushing(p) \/ Deleted(p[1])

GoneInv ==
  \A p \in Reloader : stopped \/ Deleted(p[1]) => Gone(p)

\* Where Delete and the destructor are, and what they have done so far.
KillState ==
  /\ kpc = "idle" <=> killing = NULL
  /\ killing \in Token => load[killing] = "ok" /\ killing \in known
  /\ killing = Everything \/ stopped =>
       \A t \in Token : load[t] \notin {"pool", "push"}
  /\ stopped => killing = NULL
  /\ AtVictim => /\ victim \in Reloader
                 /\ reloader[victim] = "dead" \/ victim \in early

KillDone ==
  \A p \in Reloader :
    /\ killing # NULL /\ p \in todo => In(p)
    /\ InScope(p) /\ In(p) /\ p \notin todo /\ ~(AtVictim /\ p = victim) => Gone(p)

IInv == /\ TypeOK /\ ProcessInv /\ LoadInv /\ Accounted /\ GoneInv
        /\ KillState /\ KillDone

-----------------------------------------------------------------------------
(* Reloaders are pairs *)

\* A reloader is a token and a number within the pool asked for.
LEMMA ReloaderPair ==
  ASSUME NEW p \in Reloader
  PROVE  /\ p[1] \in Token /\ p[2] \in Nat /\ p[2] >= 1
         /\ p[2] <= NumWorkers[p[1]] /\ p = <<p[1], p[2]>>
BY RunnerAssumption DEF Reloader

\* The pairs with a number within the pool are reloaders.
LEMMA PairReloader ==
  ASSUME NEW t \in Token, NEW n \in Nat, n >= 1, n <= NumWorkers[t]
  PROVE  <<t, n>> \in Reloader
BY RunnerAssumption DEF Reloader

\* Registered, the range of the loop over it->second, is In.
LEMMA RegisteredIn ==
  ASSUME TypeOK, NEW p \in Reloader, NEW t \in Token
  PROVE  p \in Registered(t) <=> p[1] = t /\ p[2] <= metadatas[t]
<1>1. p[1] \in Token /\ p[2] \in Nat /\ p[2] >= 1 /\ p = <<p[1], p[2]>>
  BY ReloaderPair, Zenon
<1>2. metadatas[t] \in Nat  BY Zenon DEF TypeOK
<1>3. ASSUME p \in Registered(t) PROVE p[1] = t /\ p[2] <= metadatas[t]
  <2>1. PICK n \in 1..metadatas[t] : p = <<t, n>>  BY <1>3, Zenon DEF Registered
  <2> QED  BY <2>1, <1>2
<1>4. ASSUME p[1] = t, p[2] <= metadatas[t] PROVE p \in Registered(t)
  <2>1. p[2] \in 1..metadatas[t]  BY <1>1, <1>2, <1>4
  <2> QED  BY <2>1, <1>1, <1>4, Zenon DEF Registered
<1> QED  BY <1>3, <1>4, Zenon

\* The reloader that is cloned next is one of the pool asked for.
LEMMA NextIsReloader ==
  ASSUME TypeOK, LoadInv, NEW t \in Token, load[t] \in {"pool", "push"}
  PROVE  /\ NextReloader(t) \in Reloader
         /\ NextReloader(t)[1] = t /\ NextReloader(t)[2] = metadatas[t] + 1
<1>1. metadatas[t] \in Nat /\ metadatas[t] < NumWorkers[t]
  BY Zenon DEF TypeOK, LoadInv
<1>2. NumWorkers[t] \in Nat  BY RunnerAssumption, Zenon
<1> QED  BY <1>1, <1>2, PairReloader DEF NextReloader

\* Initially there is no process.
LEMMA InitIInv == Init => IInv
<1> SUFFICES ASSUME Init PROVE IInv  BY Zenon
<1> USE DEF Init
<1>0. MaxDeaths \in Nat /\ \A t \in Token : NumWorkers[t] \in Nat
  BY RunnerAssumption, Zenon
<1>1. TypeOK
  <2>1. /\ load \in [Token -> {"idle", "pool", "push", "ok", "failed"}]
        /\ metadatas \in [Token -> Nat]
        /\ \A t \in Token : metadatas[t] <= NumWorkers[t]
    BY <1>0
  <2>2. /\ reloader \in [Reloader -> {"none", "cloned", "grouped", "up", "dead"}]
        /\ worker \in [Reloader -> {"none", "starting", "binary"}]
    BY Zenon
  <2>3. deaths \in 0..MaxDeaths  BY <1>0
  <2>4. stopped \in BOOLEAN  BY Zenon
  <2> QED  BY <2>1, <2>2, <2>3, <2>4, Zenon DEF TypeOK
<1>2. ProcessInv /\ LoadInv /\ Accounted  BY Zenon DEF ProcessInv, LoadInv, Accounted
<1>3. GoneInv  BY ReloaderPair, Zenon DEF GoneInv, Deleted
<1>4. KillState  BY RunnerAssumption, Zenon DEF KillState, AtVictim
<1>5. KillDone
  BY RunnerAssumption, ReloaderPair, Zenon DEF KillDone, InScope, Everything
<1> QED  BY <1>1, <1>2, <1>3, <1>4, <1>5, Zenon DEF IInv

-----------------------------------------------------------------------------
(* Steps *)

\* What the proofs of the steps use of reloaders.
LEMMA Pairs ==
  /\ \A p \in Reloader : p[1] \in Token /\ p[2] \in Nat /\ p[2] >= 1
  /\ \A p, q \in Reloader : p[1] = q[1] /\ p[2] = q[2] => p = q
BY ReloaderPair, Zenon

\* A pool has at least one reloader, and the destructor's mark is no token.
LEMMA Constants ==
  /\ \A t \in Token : NumWorkers[t] \in Nat /\ NumWorkers[t] >= 1
  /\ MaxDeaths \in Nat
  /\ NULL \notin Token /\ Everything \notin Token /\ NULL # Everything
BY RunnerAssumption DEF Everything

\* What Delete goes through are reloaders.
LEMMA RegisteredReloaders ==
  ASSUME TypeOK, NEW t \in Token PROVE Registered(t) \subseteq Reloader
<1> SUFFICES ASSUME NEW n \in 1..metadatas[t] PROVE <<t, n>> \in Reloader
  BY Zenon DEF Registered
<1>1. metadatas[t] \in Nat /\ metadatas[t] <= NumWorkers[t]  BY Zenon DEF TypeOK
<1>2. n \in Nat /\ n >= 1 /\ n <= NumWorkers[t]  BY <1>1, Constants
<1> QED  BY <1>2, PairReloader, Zenon

\* CreateWorkerPool makes the entry of the pool, which is empty.
LEMMA BeginLoadStep ==
  ASSUME IInv, NEW t \in Token, BeginLoad(t) PROVE IInv'
<1> USE Constants, Pairs
    DEF IInv, BeginLoad, Unlocked, pool_vars, process_vars, dir_vars,
        kill_vars, aux_vars
<1>1. TypeOK'  BY Zenon DEF TypeOK
<1>2. ProcessInv'  BY Zenon DEF TypeOK, ProcessInv
<1>3. LoadInv'  BY DEF TypeOK, LoadInv
<1>4. Accounted'  BY Zenon DEF TypeOK, Accounted, In, Pushing, Deleted
<1>5. GoneInv'  BY Zenon DEF TypeOK, GoneInv, Gone, Deleted
<1>6. KillState'  BY Zenon DEF TypeOK, KillState, AtVictim
<1>7. KillDone'  BY Zenon DEF TypeOK, KillDone, InScope, In, AtVictim, Gone
<1> QED  BY <1>1, <1>2, <1>3, <1>4, <1>5, <1>6, <1>7, Zenon

\* CreateWorkerPool finds no binary.
LEMMA LoadRefusedStep ==
  ASSUME IInv, NEW t \in Token, LoadRefused(t) PROVE IInv'
<1> USE Constants, Pairs
    DEF IInv, LoadRefused, pool_vars, process_vars, dir_vars,
        kill_vars, aux_vars
<1>1. TypeOK'  BY Zenon DEF TypeOK
<1>2. ProcessInv'  BY Zenon DEF TypeOK, ProcessInv
<1>3. LoadInv'  BY Zenon DEF TypeOK, LoadInv
<1>4. Accounted'  BY Zenon DEF TypeOK, Accounted, In, Pushing, Deleted
<1>5. GoneInv'  BY Zenon DEF TypeOK, GoneInv, Gone, Deleted
<1>6. KillState'  BY Zenon DEF TypeOK, KillState, AtVictim
<1>7. KillDone'  BY Zenon DEF TypeOK, KillDone, InScope, In, AtVictim, Gone
<1> QED  BY <1>1, <1>2, <1>3, <1>4, <1>5, <1>6, <1>7, Zenon

\* A reloader is cloned, which CreateWorkerPool will add to the table.
LEMMA CloneReloaderStep ==
  ASSUME IInv, NEW t \in Token, CloneReloader(t) PROVE IInv'
<1> USE Constants, Pairs
    DEF IInv, CloneReloader, pool_vars, process_vars, dir_vars,
        kill_vars, aux_vars
<1> DEFINE q == NextReloader(t)
<1>a. q \in Reloader /\ q[1] = t /\ q[2] = metadatas[t] + 1
  BY NextIsReloader, Zenon
<1>b. /\ load[t] = "pool" /\ load' = [load EXCEPT ![t] = "push"]
      /\ pivot_root' = pivot_root \cup {q}
      /\ reloader' = [reloader EXCEPT ![q] = "cloned"]
  BY Zenon
<1>c. reloader[q] = "none" /\ ~stopped /\ killing # Everything /\ killing # t
  BY <1>a DEF TypeOK, Accounted, In, Pushing, Deleted, KillState
<1> HIDE DEF q
<1>1. TypeOK'  BY <1>a, <1>b DEF TypeOK
<1>2. ProcessInv'  BY <1>b, <1>c DEF TypeOK, ProcessInv
<1>3. LoadInv'  BY Zenon DEF TypeOK, LoadInv
<1>4. Accounted'  BY <1>a, <1>b DEF TypeOK, Accounted, In, Pushing, Deleted
<1>5. GoneInv'  BY <1>a, <1>b, <1>c DEF TypeOK, GoneInv, Gone, Deleted
<1>6. KillState'  BY <1>b, <1>c, Zenon DEF TypeOK, KillState, AtVictim
<1>7. KillDone'  BY <1>a, <1>b DEF TypeOK, KillDone, InScope, In, AtVictim, Gone
<1> QED  BY <1>1, <1>2, <1>3, <1>4, <1>5, <1>6, <1>7, Zenon

\* CreatePivotRootDir fails; what was cloned before is in the table.
LEMMA PivotRootDirFailsStep ==
  ASSUME IInv, NEW t \in Token, PivotRootDirFails(t) PROVE IInv'
<1> USE Constants, Pairs
    DEF IInv, PivotRootDirFails, pool_vars, process_vars, dir_vars,
        kill_vars, aux_vars
<1>1. TypeOK'  BY Zenon DEF TypeOK
<1>2. ProcessInv'  BY Zenon DEF TypeOK, ProcessInv
<1>3. LoadInv'  BY Zenon DEF TypeOK, LoadInv
<1>4. Accounted'  BY Zenon DEF TypeOK, Accounted, In, Pushing, Deleted
<1>5. GoneInv'  BY Zenon DEF TypeOK, GoneInv, Gone, Deleted
<1>6. KillState'  BY Zenon DEF TypeOK, KillState, AtVictim
<1>7. KillDone'  BY Zenon DEF TypeOK, KillDone, InScope, In, AtVictim, Gone
<1> QED  BY <1>1, <1>2, <1>3, <1>4, <1>5, <1>6, <1>7, Zenon

\* clone fails and leaves the directory made for it.
LEMMA CloneFailsStep ==
  ASSUME IInv, NEW t \in Token, CloneFails(t) PROVE IInv'
<1> USE Constants, Pairs
    DEF IInv, CloneFails, pool_vars, process_vars, dir_vars, kill_vars, aux_vars
<1>a. NextReloader(t) \in Reloader  BY NextIsReloader, Zenon
<1>1. TypeOK'  BY <1>a, Zenon DEF TypeOK
<1>2. ProcessInv'  BY Zenon DEF TypeOK, ProcessInv
<1>3. LoadInv'  BY Zenon DEF TypeOK, LoadInv
<1>4. Accounted'  BY Zenon DEF TypeOK, Accounted, In, Pushing, Deleted
<1>5. GoneInv'  BY Zenon DEF TypeOK, GoneInv, Gone, Deleted
<1>6. KillState'  BY Zenon DEF TypeOK, KillState, AtVictim
<1>7. KillDone'  BY Zenon DEF TypeOK, KillDone, InScope, In, AtVictim, Gone
<1> QED  BY <1>1, <1>2, <1>3, <1>4, <1>5, <1>6, <1>7, Zenon

\* The reloader is added to the table.
LEMMA PushBackStep ==
  ASSUME IInv, NEW t \in Token, PushBack(t) PROVE IInv'
<1> USE Constants, Pairs
    DEF IInv, PushBack, Unlocked, pool_vars, process_vars, dir_vars,
        kill_vars, aux_vars
<1>a. /\ metadatas'[t] = metadatas[t] + 1
      /\ \A u \in Token : u # t =>
           metadatas'[u] = metadatas[u] /\ load'[u] = load[u]
      /\ metadatas \in [Token -> Nat] /\ t \in known /\ load'[t] \in {"ok", "pool"}
      /\ metadatas[t] < NumWorkers[t]
      /\ load'[t] = "pool" => metadatas[t] + 1 # NumWorkers[t]
  BY Zenon DEF TypeOK, LoadInv
<1>b. \A u \in Token : /\ metadatas[u] \in Nat /\ NumWorkers[u] \in Nat
                         /\ metadatas[u] <= NumWorkers[u]
  BY Constants, Zenon DEF TypeOK
<1>1. TypeOK'  BY <1>a DEF TypeOK
<1>2. ProcessInv'  BY Zenon DEF TypeOK, ProcessInv
<1>3. LoadInv'  BY DEF TypeOK, LoadInv
<1>4. Accounted'  BY <1>a DEF TypeOK, Accounted, In, Pushing, Deleted
<1>5. GoneInv'  BY <1>a, Zenon DEF TypeOK, GoneInv, Gone, Deleted
<1>6. KillState'  BY Zenon DEF TypeOK, KillState, AtVictim
<1>7. KillDone'  BY Zenon DEF TypeOK, KillDone, InScope, In, AtVictim, Gone
<1> QED  BY <1>1, <1>2, <1>3, <1>4, <1>5, <1>6, <1>7, Zenon

\* Delete begins with all reloaders of its token to kill.
LEMMA BeginDeleteStep ==
  ASSUME IInv, NEW t \in Token, BeginDelete(t) PROVE IInv'
<1> USE Constants, Pairs
    DEF IInv, BeginDelete, Unlocked, pool_vars, process_vars, dir_vars,
        kill_vars, aux_vars
<1>a. \A p \in Reloader : p \in todo' <=> p[1] = t /\ p[2] <= metadatas[t]
  BY RegisteredIn, Zenon
<1>b. todo' \subseteq Reloader  BY RegisteredReloaders, Zenon
<1>1. TypeOK'  BY <1>b, Zenon DEF TypeOK
<1>2. ProcessInv'  BY Zenon DEF TypeOK, ProcessInv
<1>3. LoadInv'  BY Zenon DEF TypeOK, LoadInv
<1>4. Accounted'  BY Zenon DEF TypeOK, Accounted, In, Pushing, Deleted
<1>5. GoneInv'  BY Zenon DEF TypeOK, GoneInv, Gone, Deleted
<1>6. KillState'  BY Zenon DEF TypeOK, KillState, AtVictim
<1>7. KillDone'  BY <1>a, Zenon DEF TypeOK, KillDone, InScope, In, AtVictim, Gone
<1> QED  BY <1>1, <1>2, <1>3, <1>4, <1>5, <1>6, <1>7, Zenon

\* A reloader makes its group.
LEMMA SetPgidStep ==
  ASSUME IInv, NEW p \in Reloader, SetPgid(p) PROVE IInv'
<1> USE Constants, Pairs
    DEF IInv, SetPgid, pool_vars, process_vars, dir_vars, kill_vars, aux_vars
<1>1. TypeOK'  BY Zenon DEF TypeOK
<1>2. ProcessInv'  BY Zenon DEF TypeOK, ProcessInv
<1>3. LoadInv'  BY Zenon DEF TypeOK, LoadInv
<1>4. Accounted'  BY Zenon DEF TypeOK, Accounted, In, Pushing, Deleted
<1>5. GoneInv'  BY Zenon DEF TypeOK, GoneInv, Gone, Deleted
<1>6. KillState'  BY Zenon DEF TypeOK, KillState, AtVictim
<1>7. KillDone'  BY Zenon DEF TypeOK, KillDone, InScope, In, AtVictim, Gone
<1> QED  BY <1>1, <1>2, <1>3, <1>4, <1>5, <1>6, <1>7, Zenon

\* A reloader mounts the binary or dies.
LEMMA SetupPivotRootStep ==
  ASSUME IInv, NEW p \in Reloader, SetupPivotRoot(p) PROVE IInv'
<1> USE Constants, Pairs
    DEF IInv, SetupPivotRoot, pool_vars, process_vars, dir_vars,
        kill_vars, aux_vars
<1>1. TypeOK'  BY Zenon DEF TypeOK
<1>2. ProcessInv'  BY Zenon DEF TypeOK, ProcessInv
<1>3. LoadInv'  BY Zenon DEF TypeOK, LoadInv
<1>4. Accounted'  BY Zenon DEF TypeOK, Accounted, In, Pushing, Deleted
<1>5. GoneInv'  BY Zenon DEF TypeOK, GoneInv, Gone, Deleted
<1>6. KillState'  BY Zenon DEF TypeOK, KillState, AtVictim
<1>7. KillDone'  BY Zenon DEF TypeOK, KillDone, InScope, In, AtVictim, Gone
<1> QED  BY <1>1, <1>2, <1>3, <1>4, <1>5, <1>6, <1>7, Zenon

\* A reloader starts a worker.
LEMMA StartWorkerStep ==
  ASSUME IInv, NEW p \in Reloader, StartWorker(p) PROVE IInv'
<1> USE Constants, Pairs
    DEF IInv, StartWorker, pool_vars, process_vars, dir_vars,
        kill_vars, aux_vars
<1>1. TypeOK'  BY Zenon DEF TypeOK
<1>2. ProcessInv'  BY Zenon DEF TypeOK, ProcessInv
<1>3. LoadInv'  BY Zenon DEF TypeOK, LoadInv
<1>4. Accounted'  BY Zenon DEF TypeOK, Accounted, In, Pushing, Deleted
<1>5. GoneInv'  BY Zenon DEF TypeOK, GoneInv, Gone, Deleted
<1>6. KillState'  BY Zenon DEF TypeOK, KillState, AtVictim
<1>7. KillDone'  BY Zenon DEF TypeOK, KillDone, InScope, In, AtVictim, Gone
<1> QED  BY <1>1, <1>2, <1>3, <1>4, <1>5, <1>6, <1>7, Zenon

\* A reloader without a worker ends.
LEMMA StartFailsStep ==
  ASSUME IInv, NEW p \in Reloader, StartFails(p) PROVE IInv'
<1> USE Constants, Pairs
    DEF IInv, StartFails, pool_vars, process_vars, dir_vars, kill_vars, aux_vars
<1>1. TypeOK'  BY Zenon DEF TypeOK
<1>2. ProcessInv'  BY Zenon DEF TypeOK, ProcessInv
<1>3. LoadInv'  BY Zenon DEF TypeOK, LoadInv
<1>4. Accounted'  BY Zenon DEF TypeOK, Accounted, In, Pushing, Deleted
<1>5. GoneInv'  BY Zenon DEF TypeOK, GoneInv, Gone, Deleted
<1>6. KillState'  BY Zenon DEF TypeOK, KillState, AtVictim
<1>7. KillDone'  BY Zenon DEF TypeOK, KillDone, InScope, In, AtVictim, Gone
<1> QED  BY <1>1, <1>2, <1>3, <1>4, <1>5, <1>6, <1>7, Zenon

\* A worker becomes the binary.
LEMMA WorkerExecStep ==
  ASSUME IInv, NEW p \in Reloader, WorkerExec(p) PROVE IInv'
<1> USE Constants, Pairs
    DEF IInv, WorkerExec, pool_vars, process_vars, dir_vars, kill_vars, aux_vars
<1>1. TypeOK'  BY Zenon DEF TypeOK
<1>2. ProcessInv'  BY Zenon DEF TypeOK, ProcessInv
<1>3. LoadInv'  BY Zenon DEF TypeOK, LoadInv
<1>4. Accounted'  BY Zenon DEF TypeOK, Accounted, In, Pushing, Deleted
<1>5. GoneInv'  BY Zenon DEF TypeOK, GoneInv, Gone, Deleted
<1>6. KillState'  BY Zenon DEF TypeOK, KillState, AtVictim
<1>7. KillDone'  BY Zenon DEF TypeOK, KillDone, InScope, In, AtVictim, Gone
<1> QED  BY <1>1, <1>2, <1>3, <1>4, <1>5, <1>6, <1>7, Zenon

\* A worker ends.
LEMMA WorkerEndsStep ==
  ASSUME IInv, NEW p \in Reloader, WorkerEnds(p) PROVE IInv'
<1> USE Constants, Pairs
    DEF IInv, WorkerEnds, pool_vars, process_vars, dir_vars, kill_vars, aux_vars
<1>1. TypeOK'  BY DEF TypeOK
<1>2. ProcessInv'  BY Zenon DEF TypeOK, ProcessInv
<1>3. LoadInv'  BY Zenon DEF TypeOK, LoadInv
<1>4. Accounted'  BY Zenon DEF TypeOK, Accounted, In, Pushing, Deleted
<1>5. GoneInv'  BY Zenon DEF TypeOK, GoneInv, Gone, Deleted
<1>6. KillState'  BY Zenon DEF TypeOK, KillState, AtVictim
<1>7. KillDone'  BY Zenon DEF TypeOK, KillDone, InScope, In, AtVictim, Gone
<1> QED  BY <1>1, <1>2, <1>3, <1>4, <1>5, <1>6, <1>7, Zenon

\* A worker is killed by Cancel.
LEMMA CancelStep ==
  ASSUME IInv, NEW p \in Reloader, Cancel(p) PROVE IInv'
<1> USE Constants, Pairs
    DEF IInv, Cancel, pool_vars, process_vars, dir_vars, kill_vars, aux_vars
<1>1. TypeOK'  BY DEF TypeOK
<1>2. ProcessInv'  BY Zenon DEF TypeOK, ProcessInv
<1>3. LoadInv'  BY Zenon DEF TypeOK, LoadInv
<1>4. Accounted'  BY Zenon DEF TypeOK, Accounted, In, Pushing, Deleted
<1>5. GoneInv'  BY Zenon DEF TypeOK, GoneInv, Gone, Deleted
<1>6. KillState'  BY Zenon DEF TypeOK, KillState, AtVictim
<1>7. KillDone'  BY Zenon DEF TypeOK, KillDone, InScope, In, AtVictim, Gone
<1> QED  BY <1>1, <1>2, <1>3, <1>4, <1>5, <1>6, <1>7, Zenon

\* A group is killed with all in it, or was not there yet.
LEMMA KillGroupStep ==
  ASSUME IInv, NEW p \in Reloader, KillGroup(p) PROVE IInv'
<1> USE Constants, Pairs
    DEF IInv, KillGroup, pool_vars, process_vars, dir_vars, kill_vars, aux_vars
<1>1. TypeOK'  BY Zenon DEF TypeOK
<1>2. ProcessInv'  BY DEF TypeOK, ProcessInv
<1>3. LoadInv'  BY Zenon DEF TypeOK, LoadInv
<1>4. Accounted'  BY Zenon
    DEF TypeOK, Accounted, In, Pushing, Deleted, KillDone, KillState
<1>5. GoneInv'  BY Zenon DEF TypeOK, GoneInv, Gone, Deleted
<1>6. KillState'  BY Zenon DEF TypeOK, KillState, AtVictim
<1>7. KillDone'  BY DEF TypeOK, KillDone, InScope, In, AtVictim, Gone
<1> QED  BY <1>1, <1>2, <1>3, <1>4, <1>5, <1>6, <1>7, Zenon

\* The destructor begins with all reloaders to kill.
LEMMA BeginDestructorStep ==
  ASSUME IInv, BeginDestructor PROVE IInv'
<1> USE Constants, Pairs
    DEF IInv, BeginDestructor, Unlocked, pool_vars,
        process_vars, dir_vars, kill_vars, aux_vars
<1>a. \A p \in Reloader : p \in todo' <=> In(p)
  BY RegisteredIn DEF In, TypeOK
<1>b. todo' \subseteq Reloader  BY RegisteredReloaders DEF TypeOK
<1>1. TypeOK'  BY <1>b, Zenon DEF TypeOK
<1>2. ProcessInv'  BY Zenon DEF TypeOK, ProcessInv
<1>3. LoadInv'  BY Zenon DEF TypeOK, LoadInv
<1>4. Accounted'  BY Zenon DEF TypeOK, Accounted, In, Pushing, Deleted
<1>5. GoneInv'  BY Zenon DEF TypeOK, GoneInv, Gone, Deleted
<1>6. KillState'  BY Zenon DEF TypeOK, KillState, AtVictim
<1>7. KillDone'  BY <1>a, Zenon DEF TypeOK, KillDone, InScope, In, AtVictim, Gone
<1> QED  BY <1>1, <1>2, <1>3, <1>4, <1>5, <1>6, <1>7, Zenon

\* The group has been reaped.
LEMMA WaitGroupStep ==
  ASSUME IInv, WaitGroup PROVE IInv'
<1> USE Constants, Pairs
    DEF IInv, WaitGroup, pool_vars, process_vars, dir_vars, kill_vars, aux_vars
<1>1. TypeOK'  BY Zenon DEF TypeOK
<1>2. ProcessInv'  BY Zenon DEF TypeOK, ProcessInv
<1>3. LoadInv'  BY Zenon DEF TypeOK, LoadInv
<1>4. Accounted'  BY Zenon DEF TypeOK, Accounted, In, Pushing, Deleted
<1>5. GoneInv'  BY Zenon DEF TypeOK, GoneInv, Gone, Deleted
<1>6. KillState'  BY Zenon DEF TypeOK, KillState, AtVictim
<1>7. KillDone'  BY Zenon DEF TypeOK, KillDone, InScope, In, AtVictim, Gone
<1> QED  BY <1>1, <1>2, <1>3, <1>4, <1>5, <1>6, <1>7, Zenon

\* What is left of a reloader is its directory, which is removed.
LEMMA RemoveDirectoriesStep ==
  ASSUME IInv, RemoveDirectories PROVE IInv'
<1> USE Constants, Pairs
    DEF IInv, RemoveDirectories, pool_vars, process_vars, dir_vars,
        kill_vars, aux_vars
<1>a. victim \in Reloader /\ (reloader[victim] = "dead" \/ victim \in early)
  BY Zenon DEF KillState, AtVictim
<1>1. TypeOK'  BY Zenon DEF TypeOK
<1>2. ProcessInv'  BY Zenon DEF TypeOK, ProcessInv
<1>3. LoadInv'  BY Zenon DEF TypeOK, LoadInv
<1>4. Accounted'  BY Zenon DEF TypeOK, Accounted, In, Pushing, Deleted
<1>5. GoneInv'  BY Zenon DEF TypeOK, GoneInv, Gone, Deleted
<1>6. KillState'  BY Zenon DEF TypeOK, KillState, AtVictim
<1>7. KillDone'  BY <1>a, Zenon DEF TypeOK, KillDone, InScope, In, AtVictim, Gone
<1> QED  BY <1>1, <1>2, <1>3, <1>4, <1>5, <1>6, <1>7, Zenon

\* The directory cannot be removed, and is left.
LEMMA RemoveFailsStep ==
  ASSUME IInv, RemoveFails PROVE IInv'
<1> USE Constants, Pairs
    DEF IInv, RemoveFails, pool_vars, process_vars, dir_vars,
        kill_vars, aux_vars
<1>a. victim \in Reloader /\ (reloader[victim] = "dead" \/ victim \in early)
  BY Zenon DEF KillState, AtVictim
<1>1. TypeOK'  BY <1>a, Zenon DEF TypeOK
<1>2. ProcessInv'  BY Zenon DEF TypeOK, ProcessInv
<1>3. LoadInv'  BY Zenon DEF TypeOK, LoadInv
<1>4. Accounted'  BY Zenon DEF TypeOK, Accounted, In, Pushing, Deleted
<1>5. GoneInv'  BY Zenon DEF TypeOK, GoneInv, Gone, Deleted
<1>6. KillState'  BY Zenon DEF TypeOK, KillState, AtVictim
<1>7. KillDone'  BY <1>a, Zenon DEF TypeOK, KillDone, InScope, In, AtVictim, Gone
<1> QED  BY <1>1, <1>2, <1>3, <1>4, <1>5, <1>6, <1>7, Zenon

\* All reloaders of the token are gone when Delete forgets it.
LEMMA EndDeleteStep ==
  ASSUME IInv, EndDelete PROVE IInv'
<1> USE Constants, Pairs
    DEF IInv, EndDelete, pool_vars, process_vars, dir_vars, kill_vars, aux_vars
<1> DEFINE t == killing
<1>a. t \in Token /\ t \in known /\ load[t] = "ok" /\ stopped = stopped'
  BY Zenon DEF KillState
<1>b. /\ metadatas'[t] = 0 /\ known' = known \ {t}
      /\ \A u \in Token : u # t => metadatas'[u] = metadatas[u]
      /\ \A u \in Token : metadatas[u] \in Nat
  BY Zenon DEF TypeOK
<1>c. \A p \in Reloader : p[1] = t => Gone(p)
  BY <1>a, Zenon
     DEF KillDone, InScope, AtVictim, Accounted, Pushing, Deleted, ProcessInv, Gone
<1>d. killing' = NULL /\ kpc' = "idle" /\ load' = load  BY Zenon
<1>1. TypeOK'  BY DEF TypeOK
<1>2. ProcessInv'  BY Zenon DEF TypeOK, ProcessInv
<1>3. LoadInv'  BY <1>a, Zenon DEF TypeOK, LoadInv
<1>4. Accounted'  BY <1>a, Zenon DEF TypeOK, Accounted, In, Pushing, Deleted
<1>5. GoneInv'  BY <1>c, Zenon DEF TypeOK, GoneInv, Gone, Deleted, Gone
<1>6. KillState'  BY Zenon DEF TypeOK, KillState, AtVictim
<1>7. KillDone'  BY Zenon DEF TypeOK, KillDone, InScope, In, AtVictim, Gone
<1> QED  BY <1>1, <1>2, <1>3, <1>4, <1>5, <1>6, <1>7, Zenon

\* Everything that was ever cloned is gone when the destructor returns.
LEMMA EndDestructorStep ==
  ASSUME IInv, EndDestructor PROVE IInv'
<1> USE Constants, Pairs
    DEF IInv, EndDestructor, pool_vars, process_vars, dir_vars,
        kill_vars, aux_vars
<1>a. \A p \in Reloader : Gone(p)
  BY Zenon
     DEF KillDone, InScope, AtVictim, Accounted, Pushing, KillState, GoneInv, Gone,
         ProcessInv
<1>1. TypeOK'  BY Zenon DEF TypeOK
<1>2. ProcessInv'  BY Zenon DEF TypeOK, ProcessInv
<1>3. LoadInv'  BY Zenon DEF TypeOK, LoadInv
<1>4. Accounted'  BY Zenon DEF TypeOK, Accounted, In, Pushing, Deleted
<1>5. GoneInv'  BY <1>a, Zenon DEF TypeOK, GoneInv, Gone, Deleted
<1>6. KillState'  BY Zenon DEF TypeOK, KillState, AtVictim
<1>7. KillDone'  BY Zenon DEF TypeOK, KillDone, InScope, In, AtVictim, Gone
<1> QED  BY <1>1, <1>2, <1>3, <1>4, <1>5, <1>6, <1>7, Zenon

-----------------------------------------------------------------------------
(* Theorems *)

\* A step that changes nothing keeps the invariant.
LEMMA Stutter ==
  ASSUME IInv, UNCHANGED vars PROVE IInv'
BY Zenon DEF vars, pool_vars, process_vars, dir_vars, kill_vars, aux_vars, IInv,
       TypeOK, ProcessInv, LoadInv, Accounted, GoneInv, KillState, KillDone, In, Pushing,
       Gone, Deleted, AtVictim, InScope

\* Every step of the runner, of its processes and of the host keeps it.
LEMMA NextIInv ==
  ASSUME IInv, [Next]_vars PROVE IInv'
<1>1. ASSUME NEW t \in Token, BeginLoad(t) \/ LoadRefused(t) \/ Loading(t)
      PROVE IInv'
  BY <1>1, BeginLoadStep, LoadRefusedStep, CloneReloaderStep, PushBackStep,
     PivotRootDirFailsStep, CloneFailsStep, Zenon DEF Loading
<1>2. ASSUME NEW p \in Reloader,
             Running(p) \/ StartFails(p) \/ WorkerEnds(p) \/ Cancel(p)
      PROVE IInv'
  BY <1>2, SetPgidStep, SetupPivotRootStep, StartWorkerStep, StartFailsStep,
     WorkerExecStep, WorkerEndsStep, CancelStep, Zenon DEF Running
<1>3. ASSUME NEW t \in Token, BeginDelete(t) PROVE IInv'
  BY <1>3, BeginDeleteStep, Zenon
<1>4. CASE BeginDestructor  BY <1>4, BeginDestructorStep, Zenon
<1>5. CASE Killing
  BY <1>5, KillGroupStep, WaitGroupStep, RemoveDirectoriesStep, RemoveFailsStep,
     EndDeleteStep, EndDestructorStep, Zenon DEF Killing
<1>6. CASE UNCHANGED vars  BY <1>6, Stutter, Zenon
<1> QED  BY <1>1, <1>2, <1>3, <1>4, <1>5, <1>6, Zenon DEF Next

\* The inductive invariant always holds.
LEMMA Invariance == Spec => []IInv
BY InitIInv, NextIInv, PTL DEF Spec

\* Type correctness: in particular a pool is never larger than LoadBinary asked
\* for, whatever else runs.
THEOREM TypeCorrect == Spec => []TypeOK
<1>1. IInv => TypeOK  BY Zenon DEF IInv
<1> QED  BY <1>1, Invariance, PTL

\* Every reloader and worker of the runner stays within reach of Delete and the
\* destructor, unless it was killed before it had a group.
THEOREM NoProcessEscapes == Spec => []NoOrphans
<1>1. ASSUME IInv PROVE NoOrphans
  <2> SUFFICES ASSUME NEW p \in Reloader, Alive(p)
               PROVE  \/ p[1] \in known /\ p \in Registered(p[1])
                      \/ load[p[1]] = "push" /\ p = NextReloader(p[1])
                      \/ p \in early
    BY Zenon DEF NoOrphans
  <2>1. reloader[p] \in {"cloned", "grouped", "up"}
    BY <1>1, Zenon DEF IInv, ProcessInv, Alive
  <2>2. CASE In(p)  BY <1>1, <2>2, RegisteredIn, Pairs, Zenon DEF IInv, In
  <2>3. CASE Pushing(p)
    BY <2>3, ReloaderPair, Zenon DEF Pushing, NextReloader
  <2>4. CASE Deleted(p[1])
    BY <1>1, <2>1, <2>4, Zenon DEF IInv, GoneInv, Gone
  <2> QED  BY <1>1, <2>1, <2>2, <2>3, <2>4, Zenon DEF IInv, Accounted
<1> QED  BY <1>1, Invariance, PTL

\* Once a binary is deleted, or the runner destroyed, no reloader or worker of
\* it is left, unless it was killed before it had a group; and no directory of
\* one either, unless RemoveDirectories failed or clone did.
THEOREM NothingLeftBehind == Spec => []DeletedMeansGone
<1>1. ASSUME IInv PROVE DeletedMeansGone
  BY <1>1, Zenon DEF IInv, DeletedMeansGone, GoneInv, Deleted, Gone, ProcessInv, Alive
<1> QED  BY <1>1, Invariance, PTL
=============================================================================

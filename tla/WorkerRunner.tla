---------------------------- MODULE WorkerRunner ----------------------------
(***************************************************************************)
(* The BYOB worker runner: a gRPC service that keeps, for every binary, a  *)
(* pool of reloader processes, each of which starts a worker, waits for it *)
(* to end and starts the next one.  A reloader makes itself the leader of  *)
(* a process group with its worker in it; Delete and the destructor kill   *)
(* these groups, reap them and remove their directories.  A system call,   *)
(* or a section under mu_, is one step.  The host loads every code token   *)
(* once, and deletes it only after LoadBinary has succeeded.               *)
(***************************************************************************)
EXTENDS Naturals, FiniteSets

CONSTANTS
  Token,
  NumWorkers,     \* [Token -> num_workers of its LoadBinaryRequest]
  MaxDeaths,      \* bound on the workers that end by themselves or by Cancel
  NULL

ASSUME RunnerAssumption == /\ NumWorkers \in [Token -> Nat \ {0}]
                           /\ MaxDeaths \in Nat
                           /\ NULL \notin Token /\ NULL # "everything"
                           /\ "everything" \notin Token

Reloader == UNION {{<<t, n>> : n \in 1..NumWorkers[t]} : t \in Token}
Everything == "everything"       \* what the destructor kills

VARIABLES
  load,          \* [Token -> state of CreateWorkerPool]
  known,         \* the keys of code_token_to_reloader_metadatas_
  metadatas,     \* [Token -> number of ReloaderMetadatas]
  reloader,      \* [Reloader -> state of the process]
  worker,        \* [Reloader -> state of the worker it waits for]
  pivot_root,    \* reloaders whose pivot_root_dir exists
  binary,        \* tokens whose directory of the binary exists
  killing,       \* token being deleted, or Everything, or NULL
  kpc, victim,   \* state of that loop and the group it is at
  todo,          \* groups that are still to be killed
  early,         \* reloaders whose group did not exist when it was killed
  leftover,      \* pivot_root_dirs whose clone, or whose removal, failed
  deaths,
  stopped

pool_vars == <<load, known, metadatas>>
process_vars == <<reloader, worker>>
dir_vars == <<pivot_root, binary>>
kill_vars == <<killing, kpc, victim, todo, stopped>>
aux_vars == <<early, leftover, deaths>>
vars == <<pool_vars, process_vars, dir_vars, kill_vars, aux_vars>>

Init ==
  /\ load = [t \in Token |-> "idle"] /\ known = {}
  /\ metadatas = [t \in Token |-> 0]
  /\ reloader = [p \in Reloader |-> "none"]
  /\ worker = [p \in Reloader |-> "none"]
  /\ pivot_root = {} /\ binary = Token
  /\ killing = NULL /\ kpc = "idle" /\ victim = NULL /\ todo = {}
  /\ early = {} /\ leftover = {} /\ deaths = 0 /\ stopped = FALSE

-----------------------------------------------------------------------------
(* LoadBinary: CreateWorkerPool *)

\* Delete holds mu_ all along, and no call is left during the destructor.
Unlocked == killing = NULL

BeginLoad(t) ==
  /\ load[t] = "idle" /\ Unlocked /\ ~stopped
  /\ load' = [load EXCEPT ![t] = "pool"]
  /\ known' = known \cup {t}
  /\ UNCHANGED <<metadatas, process_vars, dir_vars, kill_vars, aux_vars>>

\* There is no such file.
LoadRefused(t) ==
  /\ load[t] = "idle" /\ killing # Everything /\ ~stopped
  /\ load' = [load EXCEPT ![t] = "failed"]
  /\ UNCHANGED <<known, metadatas, process_vars, dir_vars, kill_vars,
                 aux_vars>>

NextReloader(t) == <<t, metadatas[t] + 1>>

CloneReloader(t) ==
  /\ load[t] = "pool"
  /\ load' = [load EXCEPT ![t] = "push"]
  /\ pivot_root' = pivot_root \cup {NextReloader(t)}
  /\ reloader' = [reloader EXCEPT ![NextReloader(t)] = "cloned"]
  /\ UNCHANGED <<known, metadatas, worker, binary, kill_vars, aux_vars>>

PivotRootDirFails(t) ==
  /\ load[t] = "pool"
  /\ load' = [load EXCEPT ![t] = "failed"]
  /\ UNCHANGED <<known, metadatas, process_vars, dir_vars, kill_vars,
                 aux_vars>>

CloneFails_Forgets(t) ==
  /\ load[t] = "pool"
  /\ load' = [load EXCEPT ![t] = "failed"]
  /\ known' = known \ {t} /\ metadatas' = [metadatas EXCEPT ![t] = 0]
  /\ pivot_root' = pivot_root \cup {NextReloader(t)}
  /\ leftover' = leftover \cup {NextReloader(t)}
  /\ UNCHANGED <<process_vars, binary, kill_vars, early, deaths>>
\* clone fails after CreatePivotRootDir: the directory is in no table.  What
\* was cloned before remains.
CloneFails(t) ==
  /\ load[t] = "pool"
  /\ load' = [load EXCEPT ![t] = "failed"]
  /\ pivot_root' = pivot_root \cup {NextReloader(t)}
  /\ leftover' = leftover \cup {NextReloader(t)}
  /\ UNCHANGED <<known, metadatas, process_vars, binary, kill_vars, early,
                 deaths>>

PushBack(t) ==
  /\ load[t] = "push" /\ Unlocked
  /\ metadatas' = [metadatas EXCEPT ![t] = @ + 1]
  /\ load' = [load EXCEPT ![t] = IF metadatas[t] + 1 = NumWorkers[t]
                                 THEN "ok" ELSE "pool"]
  /\ UNCHANGED <<known, process_vars, dir_vars, kill_vars, aux_vars>>

-----------------------------------------------------------------------------
(* ReloaderImpl and WorkerImpl *)

SetPgid(p) ==
  /\ reloader[p] = "cloned"
  /\ reloader' = [reloader EXCEPT ![p] = "grouped"]
  /\ UNCHANGED <<pool_vars, worker, dir_vars, kill_vars, aux_vars>>

\* It makes its directory anew, mounts the binary's in it, and dies in a CHECK
\* when that is gone.
SetupPivotRoot(p) ==
  /\ reloader[p] = "grouped"
  /\ reloader' = [reloader EXCEPT ![p] =
                    IF p[1] \in binary THEN "up" ELSE "dead"]
  /\ pivot_root' = pivot_root \cup {p}
  /\ UNCHANGED <<pool_vars, worker, binary, kill_vars, aux_vars>>

StartWorker_Once(p) ==
  /\ reloader[p] = "up" /\ worker[p] = "none" /\ deaths = 0
  /\ worker' = [worker EXCEPT ![p] = "starting"]
  /\ UNCHANGED <<pool_vars, reloader, dir_vars, kill_vars, aux_vars>>
StartWorker(p) ==
  /\ reloader[p] = "up" /\ worker[p] = "none"
  /\ worker' = [worker EXCEPT ![p] = "starting"]
  /\ UNCHANGED <<pool_vars, reloader, dir_vars, kill_vars, aux_vars>>

\* clone fails: the reloader leaves its loop.
StartFails(p) ==
  /\ reloader[p] = "up" /\ worker[p] = "none"
  /\ reloader' = [reloader EXCEPT ![p] = "dead"]
  /\ UNCHANGED <<pool_vars, worker, dir_vars, kill_vars, aux_vars>>

\* The worker connects to the host, enters its sandbox and becomes the binary.
WorkerExec(p) ==
  /\ worker[p] = "starting"
  /\ worker' = [worker EXCEPT ![p] = "binary"]
  /\ UNCHANGED <<pool_vars, reloader, dir_vars, kill_vars, aux_vars>>

\* The worker ends, and waitpid returns in its reloader.
WorkerEnds(p) ==
  /\ worker[p] \in {"starting", "binary"} /\ deaths < MaxDeaths
  /\ worker' = [worker EXCEPT ![p] = "none"]
  /\ deaths' = deaths + 1
  /\ UNCHANGED <<pool_vars, reloader, dir_vars, kill_vars, early, leftover>>

\* KillByCmdline finds a worker only once it is the binary.
Cancel(p) ==
  /\ worker[p] = "binary" /\ deaths < MaxDeaths
  /\ worker' = [worker EXCEPT ![p] = "none"]
  /\ deaths' = deaths + 1
  /\ UNCHANGED <<pool_vars, reloader, dir_vars, kill_vars, early, leftover>>

-----------------------------------------------------------------------------
(* Delete and ~WorkerRunner *)

Registered(t) == {<<t, n>> : n \in 1..metadatas[t]}

BeginDelete(t) ==
  /\ load[t] = "ok" /\ t \in known /\ Unlocked /\ ~stopped
  /\ killing' = t /\ kpc' = "kill" /\ todo' = Registered(t)
  /\ UNCHANGED <<pool_vars, process_vars, dir_vars, victim, aux_vars, stopped>>

\* The server has shut down: no call is in progress.
BeginDestructor ==
  /\ Unlocked /\ ~stopped
  /\ \A t \in Token : load[t] \notin {"pool", "push"}
  /\ killing' = Everything /\ kpc' = "kill"
  /\ todo' = UNION {Registered(t) : t \in known}
  /\ UNCHANGED <<pool_vars, process_vars, dir_vars, victim, aux_vars, stopped>>

KillGroup_LeaderOnly(p) ==
  /\ kpc = "kill" /\ p \in todo
  /\ \A q \in todo : q[1] = p[1] => p[2] <= q[2]
  /\ victim' = p /\ todo' = todo \ {p} /\ kpc' = "wait"
  /\ reloader' = [reloader EXCEPT ![p] = "dead"]
  /\ UNCHANGED <<pool_vars, worker, dir_vars, killing, aux_vars, stopped>>
KillGroup_Sigterm(p) ==
  /\ kpc = "kill" /\ p \in todo
  /\ \A q \in todo : q[1] = p[1] => p[2] <= q[2]
  /\ victim' = p /\ todo' = todo \ {p} /\ kpc' = "wait"
  /\ early' = IF reloader[p] = "cloned" THEN early \cup {p} ELSE early
  /\ UNCHANGED <<pool_vars, process_vars, dir_vars, killing, leftover, deaths,
                 stopped>>
\* killpg kills the reloader and its worker, but fails with ESRCH when the
\* reloader has not come to its setpgid.
KillGroup(p) ==
  /\ kpc = "kill" /\ p \in todo
  /\ \A q \in todo : q[1] = p[1] => p[2] <= q[2]
  /\ victim' = p /\ todo' = todo \ {p} /\ kpc' = "wait"
  /\ IF reloader[p] = "cloned"
     THEN /\ early' = early \cup {p}
          /\ UNCHANGED process_vars
     ELSE /\ reloader' = [reloader EXCEPT ![p] = "dead"]
          /\ worker' = [worker EXCEPT ![p] = "none"]
          /\ UNCHANGED early
  /\ UNCHANGED <<pool_vars, dir_vars, killing, leftover, deaths, stopped>>

\* waitpid returns when no child is left in the group.
WaitGroup ==
  /\ kpc = "wait" /\ reloader[victim] \notin {"grouped", "up"}
  /\ kpc' = "remove"
  /\ UNCHANGED <<pool_vars, process_vars, dir_vars, killing, victim, todo,
                 aux_vars, stopped>>

RemoveDirectories ==
  /\ kpc = "remove"
  /\ pivot_root' = pivot_root \ {victim}
  /\ victim' = NULL /\ kpc' = "kill"
  /\ UNCHANGED <<pool_vars, process_vars, binary, killing, todo, aux_vars,
                 stopped>>

\* The failure is logged, and the loop goes on.
RemoveFails ==
  /\ kpc = "remove"
  /\ leftover' = leftover \cup {victim}
  /\ victim' = NULL /\ kpc' = "kill"
  /\ UNCHANGED <<pool_vars, process_vars, dir_vars, killing, todo, early,
                 deaths, stopped>>

\* A directory of the binary that cannot be removed is logged.
EndDelete ==
  /\ kpc = "kill" /\ todo = {} /\ killing \in Token
  /\ known' = known \ {killing}
  /\ metadatas' = [metadatas EXCEPT ![killing] = 0]
  /\ \E failed \in BOOLEAN :
       binary' = IF failed THEN binary ELSE binary \ {killing}
  /\ killing' = NULL /\ kpc' = "idle"
  /\ UNCHANGED <<load, process_vars, pivot_root, victim, todo, aux_vars,
                 stopped>>

EndDestructor ==
  /\ kpc = "kill" /\ todo = {} /\ killing = Everything
  /\ killing' = NULL /\ kpc' = "idle" /\ stopped' = TRUE
  /\ UNCHANGED <<pool_vars, process_vars, dir_vars, victim, todo, aux_vars>>

-----------------------------------------------------------------------------

Loading(t) == \/ CloneReloader(t) \/ PushBack(t)
              \/ PivotRootDirFails(t) \/ CloneFails(t)
Killing == \/ \E p \in Reloader : KillGroup(p)
           \/ WaitGroup \/ RemoveDirectories \/ RemoveFails
           \/ EndDelete \/ EndDestructor
Running(p) == \/ SetPgid(p) \/ SetupPivotRoot(p)
              \/ StartWorker(p) \/ WorkerExec(p)

Next ==
  \/ \E t \in Token : BeginLoad(t) \/ LoadRefused(t) \/ Loading(t)
  \/ \E p \in Reloader : \/ Running(p) \/ StartFails(p)
                         \/ WorkerEnds(p) \/ Cancel(p)
  \/ \E t \in Token : BeginDelete(t)
  \/ BeginDestructor \/ Killing

Spec == Init /\ [][Next]_vars

\* Calls of the service and processes go on.  Nothing need fail, and no
\* worker need end.
FairSpec ==
  /\ Spec
  /\ \A t \in Token : WF_vars(Loading(t))
  /\ \A p \in Reloader : WF_vars(Running(p))
  /\ WF_vars(Killing)

-----------------------------------------------------------------------------
(* Properties *)

\* The variables have the types the code declares, and a pool is never larger
\* than asked for.
TypeOK ==
  /\ load \in [Token -> {"idle", "pool", "push", "ok", "failed"}]
  /\ known \subseteq Token /\ metadatas \in [Token -> Nat]
  /\ \A t \in Token : metadatas[t] <= NumWorkers[t]
  /\ reloader \in [Reloader -> {"none", "cloned", "grouped", "up", "dead"}]
  /\ worker \in [Reloader -> {"none", "starting", "binary"}]
  /\ pivot_root \subseteq Reloader /\ binary \subseteq Token
  /\ killing \in Token \cup {Everything, NULL}
  /\ kpc \in {"idle", "kill", "wait", "remove"}
  /\ victim \in Reloader \cup {NULL} /\ todo \subseteq Reloader
  /\ early \subseteq Reloader /\ leftover \subseteq Reloader
  /\ deaths \in 0..MaxDeaths /\ stopped \in BOOLEAN

Alive(p) == reloader[p] \in {"cloned", "grouped", "up"} \/ worker[p] # "none"

\* Every process of a pool is in the table that Delete and the destructor go
\* through, unless it is being added, or was killed too early to die.
NoOrphans ==
  \A p \in Reloader : Alive(p) =>
    \/ p[1] \in known /\ p \in Registered(p[1])
    \/ load[p[1]] = "push" /\ p = NextReloader(p[1])
    \/ p \in early

\* When Delete has forgotten a binary, or the destructor has returned, no
\* reloader and no worker of it is left, however far a restart of the worker
\* had come; except those that had no group when it was killed.  A pivot_root
\* directory is left only of these, where its removal failed and was logged,
\* and where the clone it was made for failed, since no table has that one.
DeletedMeansGone ==
  \A p \in Reloader :
    stopped \/ (load[p[1]] = "ok" /\ p[1] \notin known) =>
      /\ Alive(p) => p \in early
      /\ p \in pivot_root => p \in early \cup leftover

\* A reloader starts a new worker whenever one has ended, as long as it lives.
PoolRefilled ==
  \A p \in Reloader : reloader[p] = "up" /\ worker[p] = "none"
                        ~> worker[p] = "binary" \/ reloader[p] = "dead"

\* Delete and the destructor return, and with them mu_, unless a reloader had
\* no group when it was killed: waitpid then waits for one that lives on.
KillTerminates == killing # NULL ~> killing = NULL \/ victim \in early
=============================================================================

--------------------------- MODULE MCWorkerRunner ---------------------------
(* Small instances of WorkerRunner for TLC. *)
EXTENDS WorkerRunner, TLC

CONSTANTS t1, t2
MCNumWorkers == t1 :> 2 @@ t2 :> 1
=============================================================================

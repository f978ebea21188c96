------------------------ MODULE MCOperationDispatcher ------------------------
(* Small instances of OperationDispatcher and AsyncExecutor for TLC. *)
EXTENDS OperationDispatcher

MCTask == Plain \cup Retries
=============================================================================

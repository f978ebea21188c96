-------------------------- MODULE MCV8Dispatcher --------------------------
(* Instances of V8Dispatcher for TLC.  Invalid calls are told apart by name, so
   only the valid ones are interchangeable. *)
EXTENDS V8Dispatcher, TLC

Interchangeable == Permutations(Worker) \cup Permutations(Request \ Invalid)
                   \cup Permutations(Version \ (Invalid \cup BadVersion))
=============================================================================

-------------------------- MODULE MCByobDispatcher --------------------------
EXTENDS ByobDispatcher, TLC

CONSTANTS t1, t2
OneWorkerEach == t1 :> 1 @@ t2 :> 1
TwoWorkers == t1 :> 2
SymmetryNoRequest == Permutations(Acceptor) \cup Permutations(Conn)
Symmetry == SymmetryNoRequest \cup Permutations(Request)
=============================================================================

-------------------------- MODULE RequestContract --------------------------
(***************************************************************************)
(* What a caller of an asynchronous execution API of Roma may rely on: a   *)
(* call is refused, and then its callback never runs, or it is accepted,   *)
(* and then its callback runs exactly once.                                *)
(***************************************************************************)
EXTENDS Naturals

CONSTANT Request
VARIABLES status, calls   \* calls: how often the callback of a call has run

vars == <<status, calls>>

Init == /\ status = [r \in Request |-> "idle"]
        /\ calls = [r \in Request |-> 0]

Submit(r) == /\ status[r] = "idle"
             /\ status' = [status EXCEPT ![r] = "pending"]
             /\ UNCHANGED calls

Decide(r) == /\ status[r] = "pending"
             /\ \E s \in {"refused", "accepted"} :
                  status' = [status EXCEPT ![r] = s]
             /\ UNCHANGED calls

Answer(r) == /\ status[r] = "accepted"
             /\ status' = [status EXCEPT ![r] = "answered"]
             /\ calls' = [calls EXCEPT ![r] = @ + 1]

Next == \E r \in Request : Submit(r) \/ Decide(r) \/ Answer(r)

SafetySpec == Init /\ [][Next]_vars
Spec == SafetySpec /\ \A r \in Request : WF_vars(Decide(r)) /\ WF_vars(Answer(r))
=============================================================================

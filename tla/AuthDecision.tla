----------------------------- MODULE AuthDecision -----------------------------
(***************************************************************************)
(* What the authorisation of a remote device promises: a request that was  *)
(* made is decided exactly once, granted or denied, and it is decided      *)
(* eventually.  AccessControl implements it.                               *)
(***************************************************************************)
CONSTANT Requests

VARIABLE decision     \* request -> none, pending, granted, denied

Init == decision = [r \in Requests |-> "none"]

Ask(r) == decision[r] = "none" /\ decision' = [decision EXCEPT ![r] = "pending"]

Decide(r) ==
    /\ decision[r] = "pending"
    /\ \E d \in {"granted", "denied"} : decision' = [decision EXCEPT ![r] = d]

Next == \E r \in Requests : Ask(r) \/ Decide(r)

Spec == Init /\ [][Next]_decision /\ \A r \in Requests : WF_decision(Decide(r))
=============================================================================

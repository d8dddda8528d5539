---------------------------- MODULE CallbackPromise ----------------------------
(***************************************************************************)
(* What GetDistributedHardware promises an application: a request is       *)
(* refused at once or accepted, a refused one is never called back, and an *)
(* accepted one is called back at most once, alone or together with others.*)
(***************************************************************************)
EXTENDS Naturals

CONSTANT Requests

VARIABLES
    owed,    \* requests that were accepted and not called back
    over,    \* requests that were refused or called back
    calls    \* number of calls of each callback

promiseVars == <<owed, over, calls>>

Init == owed = {} /\ over = {} /\ calls = [r \in Requests |-> 0]

New(r) == r \notin owed \cup over

Accept(r) == New(r) /\ owed' = owed \cup {r} /\ UNCHANGED <<over, calls>>

Refuse(r) == New(r) /\ over' = over \cup {r} /\ UNCHANGED <<owed, calls>>

CallBack(R) ==
    /\ owed' = owed \ R
    /\ over' = over \cup R
    /\ calls' = [r \in Requests |-> IF r \in R THEN calls[r] + 1 ELSE calls[r]]

Next ==
    \/ \E r \in Requests : Accept(r) \/ Refuse(r)
    \/ \E R \in SUBSET owed : CallBack(R)

Spec == Init /\ [][Next]_promiseVars
=============================================================================

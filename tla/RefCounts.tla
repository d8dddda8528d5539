----------------------------- MODULE RefCounts ------------------------------
(***************************************************************************)
(* What the two reference counts of ComponentManager are meant to count.   *)
(* S is the set of <<id, key>> pairs that hold a component: refEnable of   *)
(* an id is the number of its pairs in S and refLoad is the size of S.     *)
(***************************************************************************)
EXTENDS Integers, FiniteSets

HoldersOf(S, id) == {p \in S : p[1] = id}

ExactCounts(S, Ids, refE, refL) ==
    /\ \A id \in Ids : refE[id] = Cardinality(HoldersOf(S, id))
    /\ refL = Cardinality(S)

=============================================================================

-------------------------- MODULE RefCountsProofs ---------------------------
(***************************************************************************)
(* How the counts of RefCounts follow the set of holders: one lemma for    *)
(* each way the enable and disable handlers of ComponentManager change it. *)
(***************************************************************************)
EXTENDS RefCounts, FiniteSetTheorems, TLAPS

\* Any set of pairs over finite ids and keys is finite, and so is the set of
\* one id's pairs.
LEMMA PairsFinite ==
    ASSUME NEW Ids, NEW Keys, IsFiniteSet(Ids), IsFiniteSet(Keys),
           NEW S \in SUBSET (Ids \X Keys)
    PROVE  /\ IsFiniteSet(S)
           /\ Cardinality(S) \in Nat
           /\ \A id : /\ IsFiniteSet(HoldersOf(S, id))
                      /\ Cardinality(HoldersOf(S, id)) \in Nat
                      /\ Cardinality(HoldersOf(S, id)) <= Cardinality(S)
PROOF
<1>1. IsFiniteSet(Ids \X Keys)
  BY FS_Product
<1>2. IsFiniteSet(S)
  BY <1>1, FS_Subset
<1>3. ASSUME NEW id
      PROVE  /\ IsFiniteSet(HoldersOf(S, id))
             /\ Cardinality(HoldersOf(S, id)) <= Cardinality(S)
  <2>1. HoldersOf(S, id) \in SUBSET S
    BY DEF HoldersOf
  <2> QED BY <1>2, <2>1, FS_Subset
<1> QED BY <1>2, <1>3, FS_CardinalityType

\* With no holder both counts are zero: the state after Init and after the
\* reset of a recovery.
LEMMA ExactEmpty ==
    ASSUME NEW Ids
    PROVE  ExactCounts({}, Ids, [i \in Ids |-> 0], 0)
PROOF
<1>1. \A id : HoldersOf({}, id) = {}
  BY DEF HoldersOf
<1> QED BY <1>1, FS_EmptySet DEF ExactCounts

\* A new holder adds one to both counts (EnableSinkInternal,
\* EnableSourceInternal).
LEMMA ExactAdd ==
    ASSUME NEW Ids, NEW Keys, IsFiniteSet(Ids), IsFiniteSet(Keys),
           NEW S \in SUBSET (Ids \X Keys), NEW p \in (Ids \X Keys), p \notin S,
           NEW refE \in [Ids -> Int], NEW refL \in Int,
           ExactCounts(S, Ids, refE, refL)
    PROVE  ExactCounts(S \cup {p}, Ids, [refE EXCEPT ![p[1]] = refE[p[1]] + 1], refL + 1)
PROOF
<1>1. IsFiniteSet(S) /\ \A id : IsFiniteSet(HoldersOf(S, id))
  BY PairsFinite
<1>2. p[1] \in Ids
  OBVIOUS
<1>3. Cardinality(S \cup {p}) = Cardinality(S) + 1
  BY <1>1, FS_AddElement
<1>4. ASSUME NEW id \in Ids
      PROVE  [refE EXCEPT ![p[1]] = refE[p[1]] + 1][id] = Cardinality(HoldersOf(S \cup {p}, id))
  <2>1. CASE id = p[1]
    <3>1. HoldersOf(S \cup {p}, id) = HoldersOf(S, id) \cup {p}
      BY <2>1 DEF HoldersOf
    <3>2. p \notin HoldersOf(S, id)
      BY DEF HoldersOf
    <3>3. Cardinality(HoldersOf(S \cup {p}, id)) = Cardinality(HoldersOf(S, id)) + 1
      BY <1>1, <3>1, <3>2, FS_AddElement
    <3> QED BY <1>2, <2>1, <3>3 DEF ExactCounts
  <2>2. CASE id # p[1]
    <3>1. HoldersOf(S \cup {p}, id) = HoldersOf(S, id)
      BY <2>2 DEF HoldersOf
    <3> QED BY <1>2, <2>2, <3>1 DEF ExactCounts
  <2> QED BY <2>1, <2>2
<1> QED BY <1>3, <1>4 DEF ExactCounts

\* A holder that leaves takes one from both counts (DisableSinkInternal,
\* DisableSourceInternal, DisableMetaSource).
LEMMA ExactRemove ==
    ASSUME NEW Ids, NEW Keys, IsFiniteSet(Ids), IsFiniteSet(Keys),
           NEW S \in SUBSET (Ids \X Keys), NEW p \in S,
           NEW refE \in [Ids -> Int], NEW refL \in Int,
           ExactCounts(S, Ids, refE, refL)
    PROVE  ExactCounts(S \ {p}, Ids, [refE EXCEPT ![p[1]] = refE[p[1]] - 1], refL - 1)
PROOF
<1>1. IsFiniteSet(S) /\ \A id : IsFiniteSet(HoldersOf(S, id))
  BY PairsFinite
<1>2. p[1] \in Ids
  OBVIOUS
<1>3. Cardinality(S \ {p}) = Cardinality(S) - 1
  BY <1>1, FS_RemoveElement
<1>4. ASSUME NEW id \in Ids
      PROVE  [refE EXCEPT ![p[1]] = refE[p[1]] - 1][id] = Cardinality(HoldersOf(S \ {p}, id))
  <2>1. CASE id = p[1]
    <3>1. HoldersOf(S \ {p}, id) = HoldersOf(S, id) \ {p}
      BY <2>1 DEF HoldersOf
    <3>2. p \in HoldersOf(S, id)
      BY <2>1 DEF HoldersOf
    <3>3. Cardinality(HoldersOf(S \ {p}, id)) = Cardinality(HoldersOf(S, id)) - 1
      BY <1>1, <3>1, <3>2, FS_RemoveElement
    <3> QED BY <1>2, <2>1, <3>3 DEF ExactCounts
  <2>2. CASE id # p[1]
    <3>1. HoldersOf(S \ {p}, id) = HoldersOf(S, id)
      BY <2>2 DEF HoldersOf
    <3> QED BY <1>2, <2>2, <3>1 DEF ExactCounts
  <2> QED BY <2>1, <2>2
<1> QED BY <1>3, <1>4 DEF ExactCounts

\* A holder whose counts are at most one is the only one: the handlers' test
\* for the last reference is right.
LEMMA ExactLast ==
    ASSUME NEW Ids, NEW Keys, IsFiniteSet(Ids), IsFiniteSet(Keys),
           NEW S \in SUBSET (Ids \X Keys), NEW p \in S,
           NEW refE \in [Ids -> Int], NEW refL \in Int,
           ExactCounts(S, Ids, refE, refL), refL <= 1
    PROVE  refL = 1 /\ refE[p[1]] = 1 /\ S \ {p} = {}
PROOF
<1>1. /\ IsFiniteSet(S) /\ Cardinality(S) \in Nat
      /\ \A id : /\ IsFiniteSet(HoldersOf(S, id))
                 /\ Cardinality(HoldersOf(S, id)) \in Nat
                 /\ Cardinality(HoldersOf(S, id)) <= Cardinality(S)
  BY PairsFinite
<1>2. p[1] \in Ids
  OBVIOUS
<1>3. Cardinality(S) # 0
  BY <1>1, FS_EmptySet
<1>4. Cardinality(S) = 1
  BY <1>1, <1>3 DEF ExactCounts
<1>5. HoldersOf(S, p[1]) # {}
  BY DEF HoldersOf
<1>6. Cardinality(HoldersOf(S, p[1])) # 0
  BY <1>1, <1>5, FS_EmptySet
<1>7. Cardinality(HoldersOf(S, p[1])) = 1
  BY <1>1, <1>4, <1>6
<1>8. Cardinality(S \ {p}) = 0 /\ IsFiniteSet(S \ {p})
  BY <1>1, <1>4, FS_RemoveElement
<1>9. S \ {p} = {}
  BY <1>8, FS_EmptySet
<1> QED BY <1>2, <1>4, <1>7, <1>9 DEF ExactCounts

\* Dropping an id takes its refEnable from refLoad (ForceDisableSinkInternal,
\* ForceDisableSourceInternal).
LEMMA ExactDropId ==
    ASSUME NEW Ids, NEW Keys, IsFiniteSet(Ids), IsFiniteSet(Keys),
           NEW S \in SUBSET (Ids \X Keys), NEW d \in Ids,
           NEW refE \in [Ids -> Int], NEW refL \in Int,
           ExactCounts(S, Ids, refE, refL)
    PROVE  ExactCounts({p \in S : p[1] # d}, Ids, [refE EXCEPT ![d] = 0], refL - refE[d])
PROOF
<1> DEFINE T == {p \in S : p[1] # d}
           H == HoldersOf(S, d)
<1>1. /\ IsFiniteSet(S) /\ Cardinality(S) \in Nat
      /\ IsFiniteSet(H) /\ Cardinality(H) \in Nat
  BY PairsFinite
<1>2. T \in SUBSET S
  OBVIOUS
<1>3. IsFiniteSet(T) /\ Cardinality(T) \in Nat
  BY <1>1, <1>2, FS_Subset, FS_CardinalityType
<1>4. T \cup H = S /\ T \cap H = {}
  BY DEF HoldersOf
<1>5. Cardinality(S) = Cardinality(T) + Cardinality(H)
  <2> HIDE DEF T, H
  <2>1. Cardinality(T \cup H) = Cardinality(T) + Cardinality(H) - Cardinality(T \cap H)
    BY <1>1, <1>3, FS_Union
  <2>2. Cardinality(T \cap H) = 0
    BY <1>4, FS_EmptySet
  <2>3. Cardinality(T \cup H) = Cardinality(T) + Cardinality(H)
    BY <1>1, <1>3, <2>1, <2>2
  <2> QED BY <1>4, <2>3, Zenon
<1>6. refL - refE[d] = Cardinality(T)
  BY <1>1, <1>3, <1>5 DEF ExactCounts
<1>7. ASSUME NEW id \in Ids
      PROVE  [refE EXCEPT ![d] = 0][id] = Cardinality(HoldersOf(T, id))
  <2>1. CASE id = d
    <3>1. HoldersOf(T, id) = {}
      BY <2>1 DEF HoldersOf
    <3> QED BY <2>1, <3>1, FS_EmptySet
  <2>2. CASE id # d
    <3>1. HoldersOf(T, id) = HoldersOf(S, id)
      BY <2>2 DEF HoldersOf
    <3> QED BY <2>2, <3>1 DEF ExactCounts
  <2> QED BY <2>1, <2>2
<1> QED BY <1>6, <1>7 DEF ExactCounts

\* The counts are zero exactly when nobody holds the component: a handler that
\* sees zero has to start it, one that does not may share it.
LEMMA ExactZero ==
    ASSUME NEW Ids, NEW Keys, IsFiniteSet(Ids), IsFiniteSet(Keys),
           NEW S \in SUBSET (Ids \X Keys), NEW refE, NEW refL,
           ExactCounts(S, Ids, refE, refL)
    PROVE  /\ refL \in Nat /\ (refL <= 0 => S = {})
           /\ S = {} => refL = 0 /\ \A id \in Ids : refE[id] = 0
PROOF
<1>1. IsFiniteSet(S) /\ Cardinality(S) \in Nat /\ refL = Cardinality(S)
  BY PairsFinite DEF ExactCounts
<1>2. ASSUME refL <= 0 PROVE S = {}
  <2>1. Cardinality(S) = 0
    BY <1>1, <1>2
  <2> QED BY <1>1, <2>1, FS_EmptySet
<1>3. ASSUME S = {} PROVE refL = 0 /\ \A id \in Ids : refE[id] = 0
  <2>1. \A id : HoldersOf(S, id) = {}
    BY <1>3 DEF HoldersOf
  <2>2. Cardinality({}) = 0
    BY FS_EmptySet
  <2> QED BY <1>3, <2>1, <2>2 DEF ExactCounts
<1> QED BY <1>1, <1>2, <1>3

\* The count of an id says whether the id has a holder, and refLoad is never below it.
CountsHolders(S, Ids, refE, refL) ==
    \A id \in Ids : /\ refE[id] \in Nat /\ refE[id] <= refL
                    /\ refE[id] # 0 <=> \E p \in S : p[1] = id

LEMMA ExactHolders ==
    ASSUME NEW Ids, NEW Keys, IsFiniteSet(Ids), IsFiniteSet(Keys),
           NEW S \in SUBSET (Ids \X Keys), NEW refE, NEW refL,
           ExactCounts(S, Ids, refE, refL)
    PROVE  CountsHolders(S, Ids, refE, refL)
PROOF
<1> SUFFICES ASSUME NEW id \in Ids
             PROVE  /\ refE[id] \in Nat /\ refE[id] <= refL
                    /\ refE[id] # 0 <=> \E p \in S : p[1] = id
  BY DEF CountsHolders
<1>1. /\ IsFiniteSet(HoldersOf(S, id)) /\ Cardinality(HoldersOf(S, id)) \in Nat
      /\ Cardinality(HoldersOf(S, id)) <= Cardinality(S) /\ Cardinality(S) \in Nat
  BY PairsFinite
<1>2. refE[id] = Cardinality(HoldersOf(S, id)) /\ refL = Cardinality(S)
  BY DEF ExactCounts
<1>3. Cardinality(HoldersOf(S, id)) = 0 <=> HoldersOf(S, id) = {}
  BY <1>1, FS_EmptySet
<1>4. HoldersOf(S, id) # {} <=> \E p \in S : p[1] = id
  BY DEF HoldersOf
<1> QED BY <1>1, <1>2, <1>3, <1>4

=============================================================================

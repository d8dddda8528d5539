-------------------------- MODULE SinkStatusProofs --------------------------
(***************************************************************************)
(* The reference counts of the sink are exact in every reachable state, for *)
(* any ids, callers and driver failures and any number of recoveries.      *)
(***************************************************************************)
EXTENDS SinkStatus, RefCountsProofs

\* The inductive invariant: the counts are exact over Counted, the pairs that
\* the counts include (inside a recovery window, the framework's own).
CountsInv == TypeOK /\ CountsExact

\* Starting the component leaves the driver's flags Boolean.
LEMMA StartTyped ==
    ASSUME TypeOK, NEW ok \in BOOLEAN, StartSinkAndWait(ok)
    PROVE  /\ compSink' \in BOOLEAN /\ running' \in BOOLEAN
           /\ monitored' \in BOOLEAN /\ faulted' \in BOOLEAN
PROOF
<1>1. compSink \in BOOLEAN /\ running \in BOOLEAN /\ monitored \in BOOLEAN /\ faulted \in BOOLEAN
  BY DEF TypeOK
<1>2. (IF "unload" \in Faults THEN BOOLEAN ELSE {FALSE}) \subseteq BOOLEAN
  OBVIOUS
<1>3. compSink' \in BOOLEAN
  BY <1>1, <1>2, Zenon DEF StartSinkAndWait, driver
<1>4. running' \in BOOLEAN
  BY <1>1, Zenon DEF StartSinkAndWait, driver
<1>5. monitored' \in BOOLEAN
  BY <1>1, Zenon DEF StartSinkAndWait, driver
<1>6. faulted' \in BOOLEAN
  BY <1>1, Zenon DEF StartSinkAndWait
<1> QED BY <1>3, <1>4, <1>5, <1>6

\* Stopping it does too.
LEMMA StopTyped ==
    ASSUME TypeOK, NEW ok \in BOOLEAN, StopSinkAndUninit(ok)
    PROVE  /\ compSink' \in BOOLEAN /\ running' \in BOOLEAN
           /\ monitored' \in BOOLEAN /\ faulted' \in BOOLEAN
PROOF
<1>1. compSink \in BOOLEAN /\ running \in BOOLEAN /\ monitored \in BOOLEAN /\ faulted \in BOOLEAN
  BY DEF TypeOK
<1>2. compSink' \in BOOLEAN
  BY <1>1, Zenon DEF StopSinkAndUninit, driver
<1>3. running' \in BOOLEAN
  BY <1>1, Zenon DEF StopSinkAndUninit, driver
<1>4. monitored' \in BOOLEAN
  BY <1>1, Zenon DEF StopSinkAndUninit, driver
<1>5. faulted' \in BOOLEAN
  BY <1>1, Zenon DEF StopSinkAndUninit
<1> QED BY <1>2, <1>3, <1>4, <1>5

\* Type correctness is inductive on its own.
LEMMA TypeStep ==
    TypeOK /\ [Next]_vars => TypeOK'
PROOF
<1> SUFFICES ASSUME TypeOK, [Next]_vars PROVE TypeOK'
  OBVIOUS
<1> USE SinkConstants DEF TypeOK, Pair, Active
<1>1. ASSUME NEW p \in Pair, EnableSinkInternal(p)
      PROVE  /\ enableInfos' \subseteq DhId /\ refEnable' \in [DhId -> Int]
             /\ refLoad' \in Int /\ enabled' \subseteq Pair
             /\ compSink' \in BOOLEAN /\ running' \in BOOLEAN /\ monitored' \in BOOLEAN
             /\ raced' \in BOOLEAN /\ faulted' \in BOOLEAN
  <2>0. enableInfos' \subseteq DhId
    BY <1>1 DEF EnableSinkInternal
  <2>1. CASE UNCHANGED <<enabled, refEnable, refLoad, driver, raced, faulted>>
    BY <2>0, <2>1 DEF driver
  <2>2. CASE ShareSink(p) /\ raced' = Races(p)
    <3>1. raced' \in BOOLEAN
      BY <2>2, Zenon DEF Races
    <3>2. p[1] \in DhId /\ p \in Pair
      OBVIOUS
    <3> QED BY <2>0, <2>2, <3>1, <3>2 DEF ShareSink, driver
  <2>3. CASE /\ StartSinkAndWait(TRUE) /\ enabled' = enabled \cup {p}
             /\ refEnable' = [refEnable EXCEPT ![p[1]] = 1] /\ refLoad' = 1
             /\ raced' = Races(p)
    <3>1. raced' \in BOOLEAN
      BY <2>3, Zenon DEF Races
    <3>2. p[1] \in DhId /\ p \in Pair
      OBVIOUS
    <3>3. /\ compSink' \in BOOLEAN /\ running' \in BOOLEAN
          /\ monitored' \in BOOLEAN /\ faulted' \in BOOLEAN
      BY <2>3, StartTyped
    <3> QED BY <2>0, <2>3, <3>1, <3>2, <3>3
  <2>4. CASE StartSinkAndWait(FALSE) /\ UNCHANGED <<enabled, refEnable, refLoad, raced>>
    BY <2>0, <2>4, StartTyped
  <2> QED BY <1>1, <2>1, <2>2, <2>3, <2>4 DEF EnableSinkInternal, TakeSink
<1>2. ASSUME NEW p \in Pair, EnableSink(p) PROVE TypeOK'
  BY <1>1, <1>2 DEF EnableSink, recovery
<1>3. ASSUME NEW p \in Pair, DisableSinkInternal(p) PROVE TypeOK'
  <2>0. enableInfos' \subseteq DhId /\ UNCHANGED <<recover, window, tasks>>
    BY <1>3 DEF DisableSinkInternal, recovery
  <2>1. CASE UNCHANGED <<enabled, refEnable, refLoad, driver, raced, faulted>> /\ want' = want \ {p}
    BY <2>0, <2>1 DEF driver
  <2>2. CASE DropSink(p) /\ enabled' = enabled \ {p} /\ want' = want \ {p} /\ raced' = Races(p)
    <3>1. raced' \in BOOLEAN
      BY <2>2, Zenon DEF Races
    <3>2. p[1] \in DhId /\ p \in Pair
      OBVIOUS
    <3> QED BY <2>0, <2>2, <3>1, <3>2 DEF DropSink, driver
  <2>3. CASE /\ StopSinkAndUninit(TRUE) /\ refEnable' = [refEnable EXCEPT ![p[1]] = 0]
             /\ refLoad' = 0 /\ enabled' = enabled \ {p}
             /\ want' = want \ {p} /\ raced' = Races(p)
    <3>1. raced' \in BOOLEAN
      BY <2>3, Zenon DEF Races
    <3>2. p[1] \in DhId /\ p \in Pair
      OBVIOUS
    <3>3. /\ compSink' \in BOOLEAN /\ running' \in BOOLEAN
          /\ monitored' \in BOOLEAN /\ faulted' \in BOOLEAN
      BY <2>3, StopTyped
    <3> QED BY <2>0, <2>3, <3>1, <3>2, <3>3
  <2>4. CASE StopSinkAndUninit(FALSE) /\ UNCHANGED <<enabled, refEnable, refLoad, raced, want>>
    BY <2>0, <2>4, StopTyped
  <2> QED BY <1>3, <2>1, <2>2, <2>3, <2>4 DEF DisableSinkInternal
<1>4. ASSUME NEW id \in DhId, ForceDisableSinkInternal(id) PROVE TypeOK'
  <2>1. compSink' \in BOOLEAN /\ running' \in BOOLEAN /\ monitored' \in BOOLEAN
        /\ faulted' \in BOOLEAN
    BY <1>4, StopTyped DEF ForceDisableSinkInternal, driver
  <2> QED BY <1>4, <2>1 DEF ForceDisableSinkInternal, recovery
<1>5. CASE SinkDies
  <2>1. running' \in BOOLEAN
    BY <1>5, Zenon DEF SinkDies
  <2>2. recover' \in Nat
    BY <1>5 DEF SinkDies
  <2> QED BY <1>5, <2>1, <2>2 DEF SinkDies, status, history
<1>6. CASE SourceDies
  BY <1>6 DEF SourceDies, status, history, driver
<1>7. CASE ResetSinkEnableStatus
  <2>1. compSink' \in BOOLEAN /\ faulted' \in BOOLEAN /\ raced' \in BOOLEAN
    BY <1>7, Zenon DEF ResetSinkEnableStatus
  <2>2. tasks' \subseteq Pair
    BY <1>7 DEF ResetSinkEnableStatus
  <2>3. recover' \in Nat /\ window' \in Nat /\ refEnable' \in [DhId -> Int] /\ refLoad' \in Int
    BY <1>7 DEF ResetSinkEnableStatus
  <2> QED BY <1>7, <2>1, <2>2, <2>3 DEF ResetSinkEnableStatus
<1>8. CASE RecoverActiveEnableSink
  <2>1. faulted' \in BOOLEAN
    BY <1>8, Zenon DEF RecoverActiveEnableSink
  <2>2. tasks' \subseteq Pair
    BY <1>8 DEF RecoverActiveEnableSink
  <2>3. window' \in Nat /\ enabled' \subseteq Pair
    BY <1>8 DEF RecoverActiveEnableSink
  <2> QED BY <1>8, <2>1, <2>2, <2>3 DEF RecoverActiveEnableSink, driver
<1>9. ASSUME NEW p \in tasks, RunRecoverTask(p) PROVE TypeOK'
  <2>1. p \in Pair
    OBVIOUS
  <2> QED BY <1>1, <1>9, <2>1 DEF RunRecoverTask
<1>10. CASE UNCHANGED vars
  BY <1>10 DEF vars, status, driver, recovery, history
<1> QED BY <1>2, <1>3, <1>4, <1>5, <1>6, <1>7, <1>8, <1>9, <1>10 DEF Next

\* EnableSinkInternal keeps the counts exact, called by a business, by the
\* framework, or by the ENABLE task of a recovery.
LEMMA EnableKeepsCounts ==
    ASSUME TypeOK, CountsExact, NEW p \in Pair, EnableSinkInternal(p), window' = window
    PROVE  CountsExact'
PROOF
<1> SUFFICES ASSUME ~raced' PROVE ExactCounts(Counted', DhId, refEnable', refLoad')
  BY DEF CountsExact
<1>1. CASE UNCHANGED <<enabled, refEnable, refLoad, raced>>
  BY <1>1 DEF CountsExact, Counted
<1>2. CASE /\ p \notin enabled /\ enabled' = enabled \cup {p} /\ raced' = Races(p)
           /\ refEnable' = [refEnable EXCEPT ![p[1]] = refEnable[p[1]] + 1]
           /\ refLoad' = refLoad + 1
  <2>1. ~raced /\ ExactCounts(Counted, DhId, refEnable, refLoad)
    BY <1>2 DEF Races, CountsExact
  <2>2. Counted' = Counted \cup {p} /\ p \notin Counted
    BY <1>2 DEF Counted, Races, TypeOK
  <2>3. Counted \in SUBSET (DhId \X Key)
    BY DEF Counted, TypeOK, Pair
  <2> QED BY <1>2, <2>1, <2>2, <2>3, ExactAdd, SinkConstants DEF TypeOK, Pair
<1>3. CASE p \notin enabled /\ TakeSink(p)
  <2>1. CASE ShareSink(p) /\ raced' = Races(p)
    BY <1>2, <1>3, <2>1 DEF ShareSink
  <2>2. CASE /\ refEnable[p[1]] = 0 /\ refLoad = 0 /\ enabled' = enabled \cup {p}
             /\ refEnable' = [refEnable EXCEPT ![p[1]] = 1] /\ refLoad' = 1
             /\ raced' = Races(p)
    BY <1>2, <1>3, <2>2
  <2>3. CASE UNCHANGED <<enabled, refEnable, refLoad, raced>>
    BY <1>1, <2>3
  <2> QED BY <1>3, <2>1, <2>2, <2>3, Zenon DEF TakeSink
<1> QED BY <1>1, <1>3 DEF EnableSinkInternal

\* DisableSinkInternal keeps the counts exact.
LEMMA DisableKeepsCounts ==
    ASSUME TypeOK, CountsExact, NEW p \in Pair, DisableSinkInternal(p)
    PROVE  CountsExact'
PROOF
<1> SUFFICES ASSUME ~raced' PROVE ExactCounts(Counted', DhId, refEnable', refLoad')
  BY DEF CountsExact
<1>1. window' = window
  BY DEF DisableSinkInternal, recovery
<1>2. CASE UNCHANGED <<enabled, refEnable, refLoad, raced>>
  BY <1>1, <1>2 DEF CountsExact, Counted
<1>3. CASE p \in enabled /\ enabled' = enabled \ {p} /\ raced' = Races(p)
  <2>1. ~raced /\ ExactCounts(Counted, DhId, refEnable, refLoad)
    BY <1>3 DEF Races, CountsExact
  <2>2. Counted' = Counted \ {p} /\ p \in Counted
    BY <1>1, <1>3 DEF Counted, Races, TypeOK
  <2>3. Counted \in SUBSET (DhId \X Key)
    BY DEF Counted, TypeOK, Pair
  <2>4. CASE /\ refEnable' = [refEnable EXCEPT ![p[1]] = refEnable[p[1]] - 1]
             /\ refLoad' = refLoad - 1
    BY <2>1, <2>2, <2>3, <2>4, ExactRemove, SinkConstants DEF TypeOK
  <2>5. CASE /\ refLoad <= 1 /\ refLoad' = 0
             /\ refEnable' = [refEnable EXCEPT ![p[1]] = 0]
    <3>1. refLoad = 1 /\ refEnable[p[1]] = 1
      BY <2>1, <2>2, <2>3, <2>5, ExactLast, SinkConstants DEF TypeOK
    <3>2. /\ refEnable' = [refEnable EXCEPT ![p[1]] = refEnable[p[1]] - 1]
          /\ refLoad' = refLoad - 1
      BY <2>5, <3>1
    <3> QED BY <2>1, <2>2, <2>3, <3>2, ExactRemove, SinkConstants DEF TypeOK
  <2>6. CASE DropSink(p)
    BY <2>4, <2>6 DEF DropSink
  <2>7. CASE /\ ~StillShared(p) /\ refLoad' = 0
             /\ refEnable' = [refEnable EXCEPT ![p[1]] = 0]
    <3>1. refLoad <= 1
      BY <2>7 DEF TypeOK, StillShared
    <3> QED BY <2>5, <2>7, <3>1
  <2>8. enabled' # enabled
    BY <1>3
  <2> QED BY <1>3, <2>6, <2>7, <2>8, Zenon DEF DisableSinkInternal
<1> QED BY <1>2, <1>3, Zenon DEF DisableSinkInternal

\* ForceDisableSinkInternal keeps the counts exact, in a window too.
LEMMA ForceDisableKeepsCounts ==
    ASSUME TypeOK, CountsExact, NEW id \in DhId, ForceDisableSinkInternal(id)
    PROVE  CountsExact'
PROOF
<1> SUFFICES ASSUME ~raced' PROVE ExactCounts(Counted', DhId, refEnable', refLoad')
  BY DEF CountsExact
<1>1. ExactCounts(Counted, DhId, refEnable, refLoad)
  BY DEF ForceDisableSinkInternal, CountsExact
<1>2. Counted' = {p \in Counted : p[1] # id}
  BY DEF ForceDisableSinkInternal, Counted, recovery
<1>3. Counted \in SUBSET (DhId \X Key)
  BY DEF Counted, TypeOK, Pair
<1> QED
  BY <1>1, <1>2, <1>3, ExactDropId, SinkConstants DEF ForceDisableSinkInternal, TypeOK

LEMMA CountsStep ==
    CountsInv /\ [Next]_vars => CountsInv'
PROOF
<1> SUFFICES ASSUME TypeOK, CountsExact, [Next]_vars PROVE CountsExact'
  BY TypeStep DEF CountsInv
<1>1. ASSUME NEW p \in Pair, EnableSink(p) PROVE CountsExact'
  BY <1>1, EnableKeepsCounts DEF EnableSink, recovery
<1>2. ASSUME NEW p \in Pair, DisableSinkInternal(p) PROVE CountsExact'
  BY <1>2, DisableKeepsCounts
<1>3. ASSUME NEW id \in DhId, ForceDisableSinkInternal(id) PROVE CountsExact'
  BY <1>3, ForceDisableKeepsCounts
<1>4. CASE SinkDies
  BY <1>4 DEF SinkDies, CountsExact, Counted, status, history
<1>5. CASE SourceDies
  BY <1>5 DEF SourceDies, CountsExact, Counted, status, history
<1>6. CASE ResetSinkEnableStatus
  <2>1. Counted' = {}
    BY <1>6 DEF ResetSinkEnableStatus, Counted, TypeOK
  <2> QED BY <1>6, <2>1, ExactEmpty DEF ResetSinkEnableStatus, CountsExact
<1>7. CASE RecoverActiveEnableSink
  <2>1. Counted' = Counted
    BY <1>7 DEF RecoverActiveEnableSink, Counted
  <2> QED BY <1>7, <2>1 DEF RecoverActiveEnableSink, CountsExact
<1>8. ASSUME NEW p \in tasks, RunRecoverTask(p) PROVE CountsExact'
  <2>1. p \in Pair
    BY DEF TypeOK
  <2> QED BY <1>8, <2>1, EnableKeepsCounts DEF RunRecoverTask
<1>9. CASE UNCHANGED vars
  BY <1>9 DEF vars, status, recovery, history, CountsExact, Counted
<1> QED BY <1>1, <1>2, <1>3, <1>4, <1>5, <1>6, <1>7, <1>8, <1>9 DEF Next

LEMMA CountsInit == Init => CountsInv
PROOF
<1> SUFFICES ASSUME Init PROVE CountsInv
  OBVIOUS
<1>1. TypeOK
  <2>1. compSink \in BOOLEAN /\ running \in BOOLEAN /\ monitored \in BOOLEAN
        /\ raced \in BOOLEAN /\ faulted \in BOOLEAN
    BY Zenon DEF Init
  <2> QED BY <2>1 DEF Init, TypeOK
<1>2. Counted = {}
  BY DEF Init, Counted
<1> QED BY <1>1, <1>2, ExactEmpty DEF Init, CountsInv, CountsExact

\* Every variable of the sink status keeps its type.
THEOREM SinkTypeCorrect == Spec => []TypeOK
PROOF
<1>1. Init => TypeOK
  BY CountsInit DEF CountsInv
<1> QED BY <1>1, TypeStep, PTL DEF Spec

\* EnableSink, DisableSink, ForceDisableSink and the recovery keep refEnable and
\* refLoad equal to the number of ENABLED callers, whatever fails, unless a
\* business changes its own state inside a recovery window.
THEOREM SinkCountsExact == Spec => []CountsExact
PROOF
<1>1. CountsInv => CountsExact
  BY DEF CountsInv
<1> QED BY <1>1, CountsInit, CountsStep, PTL DEF Spec

\* The component is unloaded only when no counted caller is left.
THEOREM SinkUnloadOnlyWhenUnheld == Spec => UnloadOnlyWhenUnheld
PROOF
<1>1. CountsInv /\ CountsInv' /\ [Next]_vars =>
        [(compSink /\ ~compSink' /\ ~raced') => Counted' = {}]_vars
  <2> SUFFICES ASSUME CountsInv, CountsInv', Next, compSink, ~compSink', ~raced'
               PROVE  Counted' = {}
    OBVIOUS
  <2> USE DEF CountsInv
  <2>1. Counted' \in SUBSET (DhId \X Key)
    BY DEF Counted, TypeOK, Pair
  <2>2. ASSUME refLoad' <= 0 PROVE Counted' = {}
    <3>1. Cardinality(Counted') = refLoad'
      BY DEF CountsExact, ExactCounts
    <3>2. IsFiniteSet(Counted') /\ Cardinality(Counted') \in Nat
      BY <2>1, PairsFinite, SinkConstants
    <3>3. Cardinality(Counted') = 0
      BY <2>2, <3>1, <3>2
    <3> QED BY <3>2, <3>3, FS_EmptySet
  <2>3. ASSUME NEW p \in Pair, EnableSinkInternal(p) PROVE Counted' = {}
    <3>1. StartSinkAndWait(FALSE) /\ refLoad = 0 /\ UNCHANGED refLoad
      BY <2>3, Zenon DEF EnableSinkInternal, TakeSink, ShareSink, StartSinkAndWait, driver
    <3> QED BY <2>2, <3>1
  <2>4. ASSUME NEW p \in Pair, DisableSinkInternal(p) PROVE Counted' = {}
    <3>1. refLoad' = 0
      BY <2>4, Zenon DEF DisableSinkInternal, DropSink, StopSinkAndUninit, driver
    <3> QED BY <2>2, <3>1
  <2>5. ASSUME NEW id \in DhId, ForceDisableSinkInternal(id) PROVE Counted' = {}
    <3>1. refLoad' <= 0
      BY <2>5 DEF ForceDisableSinkInternal, driver
    <3> QED BY <2>2, <3>1
  <2>6. CASE ResetSinkEnableStatus
    <3>1. refLoad' <= 0
      BY <2>6 DEF ResetSinkEnableStatus
    <3> QED BY <2>2, <3>1
  <2>7. CASE SinkDies \/ SourceDies \/ RecoverActiveEnableSink
    BY <2>7 DEF SinkDies, SourceDies, RecoverActiveEnableSink, driver
  <2>8. tasks \subseteq Pair
    BY DEF TypeOK
  <2> QED BY <2>3, <2>4, <2>5, <2>6, <2>7, <2>8 DEF Next, EnableSink, RunRecoverTask
<1> QED BY <1>1, CountsInit, CountsStep, PTL DEF Spec, UnloadOnlyWhenUnheld

\* The counts are zero exactly when nobody is counted.
LEMMA ZeroMeansUnheld ==
    ASSUME CountsInv, ~raced
    PROVE  /\ refLoad <= 0 => Counted = {}
           /\ Counted = {} => refLoad = 0 /\ \A id \in DhId : refEnable[id] = 0
PROOF
<1>1. ExactCounts(Counted, DhId, refEnable, refLoad) /\ Counted \in SUBSET (DhId \X Key)
  BY DEF CountsInv, CountsExact, Counted, TypeOK, Pair
<1> QED BY <1>1, ExactZero, SinkConstants

LEMMA ZeroMeansUnheldNext ==
    ASSUME CountsInv', ~raced', refLoad' <= 0
    PROVE  Counted' = {}
PROOF
<1>1. ExactCounts(Counted', DhId, refEnable', refLoad') /\ Counted' \in SUBSET (DhId \X Key)
  BY DEF CountsInv, CountsExact, Counted, TypeOK, Pair
<1> QED BY <1>1, ExactZero, SinkConstants

\* A business that was told "enabled" is ENABLED or has a task of the recovery that
\* makes it so; and the component is there for whoever is counted, from the moment
\* in which no reset is outstanding any more.
WantsServed == ~faulted => want \subseteq enabled \cup tasks
Ready == compSink /\ running /\ monitored
CountedServed == (~faulted /\ ~raced /\ recover = 0 /\ Counted # {}) => Ready

ServeInv == CountsInv /\ WantsServed /\ CountedServed

\* EnableSinkInternal shares a component only when somebody is counted, who then
\* has it running, and starts one otherwise.
LEMMA EnableServes ==
    ASSUME CountsInv, CountedServed, NEW p \in Pair, EnableSinkInternal(p), UNCHANGED <<recover, window>>
    PROVE  /\ CountedServed'
           /\ ~faulted' => ~faulted /\ p \in enabled' /\ enabled \subseteq enabled'
PROOF
<1>1. CASE p \in enabled /\ UNCHANGED <<enabled, refEnable, refLoad, driver, raced, faulted>>
  <2>1. Counted' = Counted
    BY <1>1 DEF Counted
  <2> QED BY <1>1, <2>1, Zenon DEF CountedServed, Ready, driver
<1>2. CASE /\ p \notin enabled /\ (refEnable[p[1]] # 0 \/ refLoad # 0)
           /\ ShareSink(p) /\ raced' = Races(p)
  <2>1. UNCHANGED <<driver, faulted>> /\ enabled' = enabled \cup {p}
    BY <1>2 DEF ShareSink
  <2>2. ~raced' => ~raced
    BY <1>2, Zenon DEF Races
  <2>3. ~raced => Counted # {}
    <3>1. p[1] \in DhId
      BY DEF Pair
    <3> QED BY <1>2, <3>1, ZeroMeansUnheld
  <2>4. CountedServed'
    BY <2>1, <2>2, <2>3, Zenon DEF CountedServed, Ready, driver
  <2> QED BY <2>1, <2>4
<1>3. CASE p \notin enabled /\ StartSinkAndWait(TRUE) /\ enabled' = enabled \cup {p}
  <2>1. ~faulted' => Ready' /\ ~faulted
    BY <1>3, Zenon DEF StartSinkAndWait, Ready
  <2> QED BY <1>3, <2>1 DEF CountedServed
<1>4. CASE StartSinkAndWait(FALSE)
  <2>1. faulted' = TRUE
    BY <1>4, Zenon DEF StartSinkAndWait
  <2> QED BY <2>1 DEF CountedServed
<1> QED BY <1>1, <1>2, <1>3, <1>4, Zenon DEF EnableSinkInternal, TakeSink

\* What stops the component: a fault, or nothing, or it is stopped altogether.
LEMMA StopLeaves ==
    ASSUME NEW ok \in BOOLEAN, StopSinkAndUninit(ok), ~faulted'
    PROVE  ~faulted
PROOF
  BY Zenon DEF StopSinkAndUninit

LEMMA ServeStep ==
    ServeInv /\ [Next]_vars => ServeInv'
PROOF
<1> SUFFICES ASSUME CountsInv, CountsInv', WantsServed, CountedServed, [Next]_vars
             PROVE  WantsServed' /\ CountedServed'
  BY CountsStep DEF ServeInv
<1>0. want \subseteq Active /\ tasks \subseteq Pair /\ recover \in Nat /\ window \in Nat
  BY DEF CountsInv, TypeOK
<1>1. ASSUME NEW p \in Pair, EnableSink(p) PROVE WantsServed' /\ CountedServed'
  <2>1. EnableSinkInternal(p) /\ UNCHANGED <<recover, window, tasks>>
        /\ want' = (IF p \in enabled' THEN want \cup {p} ELSE want \ {p}) \cap Active
    BY <1>1 DEF EnableSink, recovery
  <2>2. CountedServed' /\ (~faulted' => ~faulted /\ p \in enabled' /\ enabled \subseteq enabled')
    BY <2>1, EnableServes
  <2> QED BY <2>1, <2>2 DEF WantsServed
<1>2. ASSUME NEW p \in Pair, DisableSinkInternal(p) PROVE WantsServed' /\ CountedServed'
  <2>0. UNCHANGED <<recover, window, tasks>>
    BY <1>2 DEF DisableSinkInternal, recovery
  <2>1. CASE want' = want \ {p} /\ UNCHANGED <<enabled, refEnable, refLoad, driver, raced, faulted>>
    <3>1. Counted' = Counted
      BY <2>0, <2>1 DEF Counted
    <3>2. WantsServed'
      BY <2>0, <2>1 DEF WantsServed
    <3> QED BY <2>0, <2>1, <3>1, <3>2, Zenon DEF CountedServed, Ready, driver
  <2>2. CASE /\ DropSink(p) /\ enabled' = enabled \ {p} /\ want' = want \ {p} /\ raced' = Races(p)
    <3>1. Counted' \subseteq Counted
      BY <2>0, <2>2 DEF Counted
    <3>2. ~raced' => ~raced
      BY <2>2, Zenon DEF Races
    <3>3. UNCHANGED <<driver, faulted>>
      BY <2>2 DEF DropSink
    <3>4. WantsServed'
      BY <2>0, <2>2, <3>3 DEF WantsServed
    <3>5. Counted' # {} => Counted # {}
      BY <3>1
    <3> QED BY <2>0, <3>2, <3>3, <3>4, <3>5, Zenon DEF CountedServed, Ready, driver
  <2>3. CASE /\ StopSinkAndUninit(TRUE) /\ refLoad' = 0 /\ enabled' = enabled \ {p} /\ want' = want \ {p}
    <3>1. ~faulted' => ~faulted
      BY <2>3, StopLeaves
    <3>2. ~raced' => Counted' = {}
      BY <2>3, ZeroMeansUnheldNext
    <3> QED BY <2>0, <2>3, <3>1, <3>2 DEF WantsServed, CountedServed
  <2>4. CASE StopSinkAndUninit(FALSE) /\ UNCHANGED <<enabled, refEnable, refLoad, raced, want>>
    <3>1. ~faulted' => UNCHANGED <<driver, faulted>>
      BY <2>4, Zenon DEF StopSinkAndUninit
    <3>2. Counted' = Counted
      BY <2>0, <2>4 DEF Counted
    <3>3. WantsServed'
      BY <2>0, <2>4, <3>1 DEF WantsServed
    <3> QED BY <2>0, <2>4, <3>1, <3>2, <3>3, Zenon DEF CountedServed, Ready, driver
  <2> QED BY <1>2, <2>1, <2>2, <2>3, <2>4, Zenon DEF DisableSinkInternal
<1>3. ASSUME NEW id \in DhId, ForceDisableSinkInternal(id) PROVE WantsServed' /\ CountedServed'
  <2>1. /\ UNCHANGED <<recover, window, tasks, raced>>
        /\ enabled' = {p \in enabled : p[1] # id} /\ want' = {p \in want : p[1] # id}
    BY <1>3 DEF ForceDisableSinkInternal, recovery
  <2>2. Counted' \subseteq Counted
    BY <2>1 DEF Counted
  <2>3. CASE UNCHANGED <<driver, faulted>>
    <3>1. WantsServed'
      BY <2>1, <2>3 DEF WantsServed
    <3>2. Counted' # {} => Counted # {}
      BY <2>2
    <3> QED BY <2>1, <2>3, <3>1, <3>2, Zenon DEF CountedServed, Ready, driver
  <2>4. CASE refLoad' <= 0 /\ \E ok \in BOOLEAN : StopSinkAndUninit(ok)
    <3>1. ~faulted' => ~faulted
      BY <2>4, StopLeaves
    <3>2. ~raced' => Counted' = {}
      BY <2>4, ZeroMeansUnheldNext
    <3>3. WantsServed'
      BY <2>1, <3>1 DEF WantsServed
    <3> QED BY <3>2, <3>3 DEF CountedServed
  <2> QED BY <1>3, <2>3, <2>4 DEF ForceDisableSinkInternal
<1>4. CASE SinkDies
  <2>1. UNCHANGED <<enabled, tasks, want, raced, window, compSink, monitored>>
    BY <1>4 DEF SinkDies, status
  <2>2. ~faulted' => ~faulted
    BY <1>4, Zenon DEF SinkDies
  <2>3. WantsServed' /\ Counted' = Counted
    BY <2>1, <2>2 DEF WantsServed, Counted
  <2>4. ~faulted' /\ monitored => recover' # 0
    BY <1>0, <1>4 DEF SinkDies
  <2>5. ~faulted' /\ ~monitored => recover' = recover
    BY <1>4, Zenon DEF SinkDies
  <2> QED BY <2>1, <2>2, <2>3, <2>4, <2>5, Zenon DEF CountedServed, Ready
<1>5. CASE SourceDies
  <2>1. UNCHANGED <<enabled, tasks, want, faulted>> /\ recover' # 0
    BY <1>0, <1>5 DEF SourceDies, status, history
  <2> QED BY <2>1 DEF WantsServed, CountedServed
<1>6. CASE ResetSinkEnableStatus
  <2>1. Counted' = {}
    BY <1>0, <1>6 DEF ResetSinkEnableStatus, Counted
  <2>2. enabled' = enabled \cap Active /\ tasks \subseteq tasks' /\ UNCHANGED want
    BY <1>6 DEF ResetSinkEnableStatus
  <2>3. ~faulted' => ~faulted
    BY <1>6, Zenon DEF ResetSinkEnableStatus
  <2> QED BY <1>0, <2>1, <2>2, <2>3 DEF WantsServed, CountedServed
<1>7. CASE RecoverActiveEnableSink
  <2>1. Counted' = Counted
    BY <1>7 DEF RecoverActiveEnableSink, Counted
  <2>2. UNCHANGED <<recover, raced, want, driver>> /\ enabled' = enabled \ Active
    BY <1>7 DEF RecoverActiveEnableSink
  <2>3. ~faulted' => ~faulted /\ tasks' = tasks \cup (enabled \cap Active)
    BY <1>7, Zenon DEF RecoverActiveEnableSink
  <2>4. WantsServed'
    BY <2>2, <2>3 DEF WantsServed
  <2> QED BY <2>1, <2>2, <2>3, <2>4, Zenon DEF CountedServed, Ready, driver
<1>8. ASSUME NEW p \in tasks, RunRecoverTask(p) PROVE WantsServed' /\ CountedServed'
  <2>1. EnableSinkInternal(p) /\ UNCHANGED <<recover, window, want>> /\ tasks' = tasks \ {p} /\ p \in Pair
    BY <1>0, <1>8 DEF RunRecoverTask
  <2>2. CountedServed' /\ (~faulted' => ~faulted /\ p \in enabled' /\ enabled \subseteq enabled')
    BY <2>1, EnableServes
  <2> QED BY <2>1, <2>2 DEF WantsServed
<1>9. CASE UNCHANGED vars
  <2>1. UNCHANGED <<enabled, tasks, want, faulted, raced, window, recover, compSink, running, monitored>>
    BY <1>9 DEF vars, status, driver, recovery, history
  <2>2. WantsServed' /\ Counted' = Counted
    BY <2>1 DEF WantsServed, Counted
  <2> QED BY <2>1, <2>2, Zenon DEF CountedServed, Ready
<1> QED BY <1>1, <1>2, <1>3, <1>4, <1>5, <1>6, <1>7, <1>8, <1>9 DEF Next

\* As long as the driver fails only by dying, a settled sink serves its holders:
\* every business that was told "enabled" is ENABLED, and the component of the
\* holders is loaded, initialised and watched.
THEOREM SinkServesHolders == Spec => []SettledSinkServesHolders
PROOF
<1>1. Init => ServeInv
  <2>1. Init => WantsServed /\ CountedServed
    BY DEF Init, WantsServed, CountedServed, Counted
  <2> QED BY <2>1, CountsInit DEF ServeInv
<1>2. ServeInv => SettledSinkServesHolders
  <2> SUFFICES ASSUME WantsServed, CountedServed, Settled, ~faulted
               PROVE  /\ want \subseteq enabled
                      /\ (~raced /\ enabled # {}) => compSink /\ running /\ monitored
    BY DEF ServeInv, SettledSinkServesHolders
  <2>1. want \subseteq enabled
    BY DEF WantsServed, Settled
  <2>2. Counted = enabled /\ recover = 0
    BY DEF Settled, Counted
  <2> QED BY <2>1, <2>2, Zenon DEF CountedServed, Ready
<1> QED BY <1>1, <1>2, ServeStep, PTL DEF Spec
-----------------------------------------------------------------------------
(* The other direction.                                                    *)

\* The component is loaded only while somebody is counted.
LoadedOnlyWhileHeld == (compSink /\ ~faulted /\ ~raced) => Counted # {}

\* A stop that meets no fault leaves no component behind.
LEMMA StopUnloads ==
    ASSUME NEW ok \in BOOLEAN, StopSinkAndUninit(ok), ~faulted'
    PROVE  ~compSink'
PROOF
  BY Zenon DEF StopSinkAndUninit, driver

LEMMA EnableHeld ==
    ASSUME CountsInv, LoadedOnlyWhileHeld, NEW p \in Pair, EnableSinkInternal(p), UNCHANGED window
    PROVE  LoadedOnlyWhileHeld'
PROOF
<1>1. CASE p \in enabled /\ UNCHANGED <<enabled, refEnable, refLoad, driver, raced, faulted>>
  <2>1. Counted' = Counted
    BY <1>1 DEF Counted
  <2> QED BY <1>1, <2>1, Zenon DEF LoadedOnlyWhileHeld, driver
<1>2. CASE enabled' = enabled \cup {p} /\ raced' = Races(p)
  <2>1. ~raced' => p \in Counted'
    BY <1>2 DEF Races, Counted, CountsInv, TypeOK
  <2> QED BY <2>1 DEF LoadedOnlyWhileHeld
<1>3. CASE StartSinkAndWait(FALSE)
  <2>1. faulted' = TRUE
    BY <1>3, Zenon DEF StartSinkAndWait
  <2> QED BY <2>1 DEF LoadedOnlyWhileHeld
<1>4. CASE p \notin enabled /\ TakeSink(p)
  BY <1>2, <1>3, <1>4, Zenon DEF TakeSink, ShareSink
<1> QED BY <1>1, <1>4, Zenon DEF EnableSinkInternal

LEMMA DisableHeld ==
    ASSUME CountsInv, CountsInv', LoadedOnlyWhileHeld, NEW p \in Pair, DisableSinkInternal(p)
    PROVE  LoadedOnlyWhileHeld'
PROOF
<1>0. UNCHANGED window
  BY DEF DisableSinkInternal, recovery
<1>1. CASE UNCHANGED <<enabled, refEnable, refLoad, driver, raced, faulted>>
  <2>1. Counted' = Counted
    BY <1>0, <1>1 DEF Counted
  <2> QED BY <1>1, <2>1, Zenon DEF LoadedOnlyWhileHeld, driver
<1>2. CASE /\ p \in enabled /\ StillShared(p) /\ DropSink(p) /\ enabled' = enabled \ {p} /\ raced' = Races(p)
  <2> SUFFICES ASSUME ~raced' PROVE Counted' # {}
    BY DEF LoadedOnlyWhileHeld
  <2>1. ~raced /\ p \in Counted /\ Counted' = Counted \ {p}
    BY <1>0, <1>2 DEF Races, Counted, CountsInv, TypeOK
  <2>2. ExactCounts(Counted, DhId, refEnable, refLoad) /\ Counted \in SUBSET (DhId \X Key)
    BY <2>1 DEF CountsInv, CountsExact, Counted, TypeOK, Pair
  <2>3. ASSUME Counted' = {} PROVE FALSE
    <3>1. Counted = {p}
      BY <2>1, <2>3
    <3>2. HoldersOf(Counted, p[1]) \subseteq {p}
      BY <3>1 DEF HoldersOf
    <3>3. Cardinality(Counted) = 1 /\ Cardinality(HoldersOf(Counted, p[1])) <= 1
      <4>1. IsFiniteSet({p}) /\ Cardinality({p}) = 1
        BY FS_Singleton
      <4> QED BY <3>1, <3>2, <4>1, FS_Subset
    <3>4. refLoad = 1 /\ refEnable[p[1]] <= 1
      BY <2>2, <3>3 DEF ExactCounts, Pair
    <3>5. refEnable[p[1]] \in Int
      BY DEF CountsInv, TypeOK, Pair
    <3> QED BY <1>2, <3>4, <3>5 DEF StillShared
  <2> QED BY <2>3
<1>3. CASE StopSinkAndUninit(TRUE)
  <2>1. compSink' = FALSE
    BY <1>3, Zenon DEF StopSinkAndUninit
  <2> QED BY <2>1 DEF LoadedOnlyWhileHeld
<1>4. CASE StopSinkAndUninit(FALSE) /\ UNCHANGED <<enabled, refEnable, refLoad, raced, want>>
  <2>1. ~faulted' => UNCHANGED <<driver, faulted>>
    BY <1>4, Zenon DEF StopSinkAndUninit
  <2>2. Counted' = Counted
    BY <1>0, <1>4 DEF Counted
  <2> QED BY <1>4, <2>1, <2>2, Zenon DEF LoadedOnlyWhileHeld, driver
<1> QED BY <1>1, <1>2, <1>3, <1>4, Zenon DEF DisableSinkInternal

LEMMA ForceDisableHeld ==
    ASSUME CountsInv, CountsInv', LoadedOnlyWhileHeld, NEW id \in DhId, ForceDisableSinkInternal(id)
    PROVE  LoadedOnlyWhileHeld'
PROOF
<1>1. CASE refLoad' > 0 /\ UNCHANGED <<driver, faulted>>
  <2> SUFFICES ASSUME ~raced' PROVE Counted' # {}
    BY DEF LoadedOnlyWhileHeld
  <2>1. ExactCounts(Counted', DhId, refEnable', refLoad')
    BY DEF CountsInv, CountsExact
  <2>2. ASSUME Counted' = {} PROVE FALSE
    <3>1. refLoad' = 0
      BY <2>1, <2>2, FS_EmptySet DEF ExactCounts
    <3> QED BY <1>1, <3>1
  <2> QED BY <2>2
<1>2. CASE \E ok \in BOOLEAN : StopSinkAndUninit(ok)
  <2>1. ~faulted' => ~compSink'
    BY <1>2, StopUnloads
  <2> QED BY <2>1 DEF LoadedOnlyWhileHeld
<1> QED BY <1>1, <1>2 DEF ForceDisableSinkInternal

LEMMA HeldStep == CountsInv /\ LoadedOnlyWhileHeld /\ [Next]_vars => LoadedOnlyWhileHeld'
PROOF
<1> SUFFICES ASSUME CountsInv, CountsInv', LoadedOnlyWhileHeld, [Next]_vars PROVE LoadedOnlyWhileHeld'
  BY CountsStep
<1>1. ASSUME NEW p \in Pair, EnableSink(p) PROVE LoadedOnlyWhileHeld'
  BY <1>1, EnableHeld DEF EnableSink, recovery
<1>2. ASSUME NEW p \in Pair, DisableSinkInternal(p) PROVE LoadedOnlyWhileHeld'
  BY <1>2, DisableHeld
<1>3. ASSUME NEW id \in DhId, ForceDisableSinkInternal(id) PROVE LoadedOnlyWhileHeld'
  BY <1>3, ForceDisableHeld
<1>4. CASE SinkDies \/ SourceDies \/ UNCHANGED vars
  <2>1. UNCHANGED <<enabled, raced, window, compSink>>
    BY <1>4 DEF SinkDies, SourceDies, vars, status, driver, recovery, history
  <2>2. Counted' = Counted
    BY <2>1 DEF Counted
  <2>3. ~faulted' => ~faulted
    BY <1>4, Zenon DEF SinkDies, SourceDies, vars, history
  <2> QED BY <2>1, <2>2, <2>3, Zenon DEF LoadedOnlyWhileHeld
<1>5. CASE ResetSinkEnableStatus
  <2>1. ~faulted' => compSink' = FALSE
    BY <1>5, Zenon DEF ResetSinkEnableStatus
  <2> QED BY <2>1 DEF LoadedOnlyWhileHeld
<1>6. CASE RecoverActiveEnableSink
  <2>1. Counted' = Counted
    BY <1>6 DEF RecoverActiveEnableSink, Counted
  <2>2. UNCHANGED <<raced, driver>>
    BY <1>6 DEF RecoverActiveEnableSink
  <2>3. ~faulted' => ~faulted
    BY <1>6, Zenon DEF RecoverActiveEnableSink
  <2> QED BY <2>1, <2>2, <2>3, Zenon DEF LoadedOnlyWhileHeld, driver
<1>7. ASSUME NEW p \in tasks, RunRecoverTask(p) PROVE LoadedOnlyWhileHeld'
  <2>1. p \in Pair
    BY DEF CountsInv, TypeOK
  <2> QED BY <1>7, <2>1, EnableHeld DEF RunRecoverTask
<1> QED BY <1>1, <1>2, <1>3, <1>4, <1>5, <1>6, <1>7 DEF Next

\* No order of enables, disables, forced disables, deaths and resets leaves the component
\* of the sink loaded without a holder, as long as the driver does nothing worse than
\* dying: the last to leave finds the counts at one and unloads it.
THEOREM SinkLoadedOnlyWhileHeld == Spec => []LoadedOnlyWhileHeld
PROOF
<1>1. Init => LoadedOnlyWhileHeld
  BY DEF Init, LoadedOnlyWhileHeld
<1> QED BY <1>1, CountsInit, CountsStep, HeldStep, PTL DEF Spec

=============================================================================

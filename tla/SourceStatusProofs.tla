------------------------- MODULE SourceStatusProofs -------------------------
(***************************************************************************)
(* The reference counts of the source are exact in every reachable state,  *)
(* for any ids, callers and driver failures and any number of recoveries.  *)
(***************************************************************************)
EXTENDS SourceStatus, RefCountsProofs

\* The inductive invariant: the counts are exact over Counted, the pairs that
\* the counts include (inside a recovery window, the framework's own).
CountsInv == TypeOK /\ CountsExact

-----------------------------------------------------------------------------
(* The outcomes of the calls to the driver have their types.               *)

Outcomes == [ok: BOOLEAN, fault: BOOLEAN, d: Driver]

LEMMA NowTyped == TypeOK => Now \in Driver
PROOF BY DEF TypeOK, Now, Driver

LEMMA UnloadedTyped == Unloaded \in Driver /\ [Unloaded EXCEPT !.comp = TRUE] \in Driver
PROOF BY DEF Unloaded, Driver

LEMMA OutcomeTyped ==
    ASSUME NEW ok \in BOOLEAN, NEW fault \in BOOLEAN, NEW d \in Driver
    PROVE  Outcome(ok, fault, d) \in Outcomes
PROOF BY DEF Outcome, Outcomes

LEMMA RegisterTyped ==
    ASSUME NEW id \in Id, NEW d \in Driver
    PROVE  Register(id, d) \subseteq Outcomes
PROOF
<1> DEFINE on == [d EXCEPT !.hw = @ \cup {id}]
<1>1. on \in Driver
  BY DEF Driver
<1>2. /\ Outcome(TRUE, FALSE, on) \in Outcomes /\ Outcome(FALSE, TRUE, d) \in Outcomes
      /\ Outcome(FALSE, TRUE, on) \in Outcomes
  BY <1>1, OutcomeTyped
<1> HIDE DEF on
<1>3. If("enable", {Outcome(FALSE, TRUE, d), Outcome(FALSE, TRUE, on)}) \subseteq Outcomes
  BY <1>2 DEF If
<1>4. Register(id, d) =
        IF ~(d.comp /\ d.run) THEN {Outcome(FALSE, TRUE, d)}
        ELSE {Outcome(TRUE, FALSE, on)} \cup
             If("enable", {Outcome(FALSE, TRUE, d), Outcome(FALSE, TRUE, on)})
  BY Zenon DEF Register, on
<1> QED BY <1>2, <1>3, <1>4

LEMMA UnregisterTyped ==
    ASSUME NEW id \in Id, NEW d \in Driver
    PROVE  Unregister(id, d) \subseteq Outcomes
PROOF
<1> DEFINE off == [d EXCEPT !.hw = @ \ {id}]
<1>1. off \in Driver
  BY DEF Driver
<1>2. /\ Outcome(TRUE, FALSE, off) \in Outcomes /\ Outcome(FALSE, FALSE, d) \in Outcomes
      /\ Outcome(FALSE, TRUE, d) \in Outcomes /\ Outcome(FALSE, TRUE, off) \in Outcomes
  BY <1>1, OutcomeTyped
<1> HIDE DEF off
<1>3. If("disable", {Outcome(FALSE, TRUE, d), Outcome(FALSE, TRUE, off)}) \subseteq Outcomes
  BY <1>2 DEF If
<1>4. Unregister(id, d) =
        IF ~(d.comp /\ d.run) THEN {Outcome(FALSE, FALSE, d)}
        ELSE {Outcome(TRUE, FALSE, off)} \cup
             If("disable", {Outcome(FALSE, TRUE, d), Outcome(FALSE, TRUE, off)})
  BY Zenon DEF Unregister, off
<1> QED BY <1>2, <1>3, <1>4

LEMMA StartTyped ==
    TypeOK => StartSourceAndWait \subseteq Outcomes
PROOF
<1> SUFFICES ASSUME TypeOK PROVE StartSourceAndWait \subseteq Outcomes
  OBVIOUS
<1> DEFINE up(r) == [Now EXCEPT !.comp = TRUE, !.mon = TRUE, !.run = r]
<1>0. Now \in Driver
  BY NowTyped
<1>1. ASSUME NEW r \in BOOLEAN PROVE up(r) \in Driver
  BY <1>0 DEF Driver
<1> HIDE DEF up
<1>2. /\ Outcome(TRUE, FALSE, up(TRUE)) \in Outcomes
      /\ Outcome(FALSE, TRUE, Now) \in Outcomes
      /\ Outcome(FALSE, TRUE, Unloaded) \in Outcomes
      /\ Outcome(FALSE, TRUE, [Unloaded EXCEPT !.comp = TRUE]) \in Outcomes
  BY <1>0, <1>1, UnloadedTyped, OutcomeTyped
<1>3. {Outcome(TRUE, TRUE, up(r)) : r \in BOOLEAN} \subseteq Outcomes
  BY <1>1, OutcomeTyped
<1>4. If("timeout", {Outcome(TRUE, TRUE, up(r)) : r \in BOOLEAN}) \subseteq Outcomes
  BY <1>3 DEF If
<1>5. If("load", {Outcome(FALSE, TRUE, Now)}) \subseteq Outcomes
  BY <1>2 DEF If
<1>6. If("unload", {Outcome(FALSE, TRUE, [Unloaded EXCEPT !.comp = TRUE])}) \subseteq Outcomes
  BY <1>2 DEF If
<1>7. If("init", {Outcome(FALSE, TRUE, Unloaded)} \cup
        If("unload", {Outcome(FALSE, TRUE, [Unloaded EXCEPT !.comp = TRUE])})) \subseteq Outcomes
  BY <1>2, <1>6 DEF If
<1>8. If("watch", {Outcome(TRUE, TRUE, [up(TRUE) EXCEPT !.mon = FALSE])}) \subseteq Outcomes
  <2>1. [up(TRUE) EXCEPT !.mon = FALSE] \in Driver
    BY <1>1 DEF Driver
  <2> QED BY <2>1, OutcomeTyped DEF If
<1>9. StartSourceAndWait =
        {Outcome(TRUE, FALSE, up(TRUE))} \cup
        If("timeout", {Outcome(TRUE, TRUE, up(r)) : r \in BOOLEAN}) \cup
        If("watch", {Outcome(TRUE, TRUE, [up(TRUE) EXCEPT !.mon = FALSE])}) \cup
        If("load", {Outcome(FALSE, TRUE, Now)}) \cup
        If("init", {Outcome(FALSE, TRUE, Unloaded)} \cup
                   If("unload", {Outcome(FALSE, TRUE, [Unloaded EXCEPT !.comp = TRUE])}))
  BY Zenon DEF StartSourceAndWait, up
<1> QED BY <1>2, <1>4, <1>5, <1>7, <1>8, <1>9

LEMMA StopTyped ==
    ASSUME NEW d \in Driver
    PROVE  StopSourceAndUninit(d) \subseteq Outcomes
PROOF
<1>1. [d EXCEPT !.comp = FALSE, !.mon = FALSE] \in Driver
  BY DEF Driver
<1>2. /\ Outcome(FALSE, FALSE, d) \in Outcomes /\ Outcome(FALSE, TRUE, d) \in Outcomes
      /\ Outcome(TRUE, FALSE, Unloaded) \in Outcomes
      /\ Outcome(TRUE, TRUE, [d EXCEPT !.comp = FALSE, !.mon = FALSE]) \in Outcomes
      /\ Outcome(FALSE, TRUE, [Unloaded EXCEPT !.comp = TRUE]) \in Outcomes
  BY <1>1, UnloadedTyped, OutcomeTyped
<1>3. /\ If("timeout", {Outcome(TRUE, TRUE, [d EXCEPT !.comp = FALSE, !.mon = FALSE])}) \subseteq Outcomes
      /\ If("release", {Outcome(FALSE, TRUE, d)}) \subseteq Outcomes
      /\ If("unload", {Outcome(FALSE, TRUE, [Unloaded EXCEPT !.comp = TRUE])}) \subseteq Outcomes
  BY <1>2 DEF If
<1> QED BY <1>2, <1>3 DEF StopSourceAndUninit

LEMMA AbandonTyped ==
    ASSUME NEW d \in Driver
    PROVE  AbandonSource(d) \subseteq Driver
PROOF
<1>1. [d EXCEPT !.comp = FALSE, !.mon = FALSE] \in Driver
  BY DEF Driver
<1>2. /\ If("timeout", {[d EXCEPT !.comp = FALSE, !.mon = FALSE]}) \subseteq Driver
      /\ If("unload", {[Unloaded EXCEPT !.comp = TRUE]}) \subseteq Driver
  BY <1>1, UnloadedTyped DEF If
<1> QED BY <1>2, UnloadedTyped DEF AbandonSource

LEMMA RealEnableTyped ==
    ASSUME TypeOK, NEW id \in Id
    PROVE  RealEnableSource(id) \subseteq Outcomes
PROOF
<1> SUFFICES ASSUME NEW o \in RealEnableSource(id) PROVE o \in Outcomes
  OBVIOUS
<1>1. PICK s \in StartSourceAndWait :
        o \in IF ~s.ok THEN {s}
              ELSE UNION {IF r.ok THEN {Outcome(TRUE, s.fault \/ r.fault, r.d)}
                          ELSE {Outcome(FALSE, TRUE, d) : d \in AbandonSource(r.d)}
                          : r \in Register(id, s.d)}
  BY Zenon DEF RealEnableSource
<1>2. s \in Outcomes
  BY StartTyped
<1>3. CASE ~s.ok
  BY <1>1, <1>2, <1>3
<1>4. CASE s.ok
  <2>1. PICK r \in Register(id, s.d) :
          o \in IF r.ok THEN {Outcome(TRUE, s.fault \/ r.fault, r.d)}
                ELSE {Outcome(FALSE, TRUE, d) : d \in AbandonSource(r.d)}
    BY <1>1, <1>4, Zenon
  <2>2. s.d \in Driver
    BY <1>2 DEF Outcomes
  <2>3. r \in Outcomes
    BY <2>2, RegisterTyped
  <2>4. r.d \in Driver
    BY <2>3 DEF Outcomes
  <2>5. (s.fault \/ r.fault) \in BOOLEAN
    BY Zenon
  <2>6. CASE r.ok
    <3>1. o = Outcome(TRUE, s.fault \/ r.fault, r.d)
      BY <2>1, <2>6, Zenon
    <3> QED BY <2>4, <2>5, <3>1, OutcomeTyped, Zenon
  <2>7. CASE ~r.ok
    <3>1. PICK d \in AbandonSource(r.d) : o = Outcome(FALSE, TRUE, d)
      BY <2>1, <2>7, Zenon
    <3> QED BY <2>4, <3>1, AbandonTyped, OutcomeTyped
  <2> QED BY <2>6, <2>7
<1> QED BY <1>3, <1>4

\* Stopping after a call u of the driver, as the disables do.
LEMMA StopAfterTyped ==
    ASSUME NEW u \in Outcomes
    PROVE  {Outcome(s.ok, u.fault \/ s.fault, s.d) : s \in StopSourceAndUninit(u.d)} \subseteq Outcomes
PROOF
<1> SUFFICES ASSUME NEW s \in StopSourceAndUninit(u.d)
             PROVE  Outcome(s.ok, u.fault \/ s.fault, s.d) \in Outcomes
  BY Zenon
<1>1. u.d \in Driver
  BY DEF Outcomes
<1>2. s \in Outcomes
  BY <1>1, StopTyped
<1>3. s.ok \in BOOLEAN /\ s.d \in Driver
  BY <1>2 DEF Outcomes
<1>4. (u.fault \/ s.fault) \in BOOLEAN
  BY Zenon
<1> QED BY <1>3, <1>4, OutcomeTyped, Zenon

LEMMA RealDisableTyped ==
    ASSUME TypeOK, NEW id \in Id
    PROVE  /\ RealDisableSource(id) \subseteq Outcomes
           /\ DisableMetaSourceInternal(id) \subseteq Outcomes
PROOF
<1>1. Unregister(id, Now) \subseteq Outcomes
  BY NowTyped, UnregisterTyped
<1>2. ASSUME NEW u \in Unregister(id, Now)
      PROVE  /\ (IF ~u.ok THEN {u}
                 ELSE {Outcome(s.ok, u.fault \/ s.fault, s.d) : s \in StopSourceAndUninit(u.d)})
                   \subseteq Outcomes
             /\ {Outcome(s.ok, u.fault \/ s.fault, s.d) : s \in StopSourceAndUninit(u.d)}
                   \subseteq Outcomes
  <2>1. u \in Outcomes
    BY <1>1
  <2>2. {Outcome(s.ok, u.fault \/ s.fault, s.d) : s \in StopSourceAndUninit(u.d)} \subseteq Outcomes
    BY <2>1, StopAfterTyped
  <2> QED BY <2>1, <2>2, Zenon
<1>3. RealDisableSource(id) \subseteq Outcomes
  BY <1>2, Zenon DEF RealDisableSource
<1>4. DisableMetaSourceInternal(id) \subseteq Outcomes
  BY <1>2, Zenon DEF DisableMetaSourceInternal
<1> QED BY <1>3, <1>4

-----------------------------------------------------------------------------
(* Type correctness.                                                       *)

\* The driver's flags after an outcome.
DriverTyped ==
    /\ compSource \in BOOLEAN /\ running \in BOOLEAN /\ monitored \in BOOLEAN
    /\ hw \subseteq Id /\ faulted \in BOOLEAN

LEMMA SetDriverTyped ==
    ASSUME NEW o \in Outcomes, SetDriver(o.d), NEW f \in BOOLEAN, faulted' = f
    PROVE  DriverTyped'
PROOF
<1>1. o.d \in Driver
  BY DEF Outcomes
<1>2. o.d.comp \in BOOLEAN /\ o.d.run \in BOOLEAN /\ o.d.mon \in BOOLEAN /\ o.d.hw \subseteq Id
  BY <1>1 DEF Driver
<1> QED BY <1>2 DEF SetDriver, DriverTyped

\* A step that enables, disables or does neither leaves the counts and the
\* driver well typed.
CountsTyped ==
    /\ refEnable \in [Id -> Int] /\ refLoad \in Int /\ enabled \subseteq Pair
    /\ raced \in BOOLEAN

LEMMA GrantedTyped ==
    ASSUME TypeOK, NEW p \in Pair, NEW o \in Outcomes, NEW e \in Int, NEW l \in Int,
           Granted(p, o, e, l)
    PROVE  CountsTyped' /\ DriverTyped'
PROOF
<1>1. raced' \in BOOLEAN /\ (faulted \/ o.fault) \in BOOLEAN
  BY Zenon DEF Granted, Races
<1>2. DriverTyped'
  BY <1>1, SetDriverTyped DEF Granted
<1>3. refEnable' \in [Id -> Int] /\ refLoad' \in Int /\ enabled' \subseteq Pair
  BY DEF Granted, TypeOK
<1> QED BY <1>1, <1>2, <1>3 DEF CountsTyped

LEMMA DroppedTyped ==
    ASSUME TypeOK, NEW p \in Pair, NEW o \in Outcomes, NEW e \in Int, NEW l \in Int,
           Dropped(p, o, e, l)
    PROVE  CountsTyped' /\ DriverTyped' /\ want' \subseteq Active
PROOF
<1>1. raced' \in BOOLEAN /\ (faulted \/ o.fault) \in BOOLEAN
  BY Zenon DEF Dropped, Races
<1>2. DriverTyped'
  BY <1>1, SetDriverTyped DEF Dropped
<1>3. /\ refEnable' \in [Id -> Int] /\ refLoad' \in Int /\ enabled' \subseteq Pair
      /\ want' \subseteq Active
  BY DEF Dropped, TypeOK
<1> QED BY <1>1, <1>2, <1>3 DEF CountsTyped

LEMMA FailedTyped ==
    ASSUME TypeOK, NEW o \in Outcomes, Failed(o)
    PROVE  CountsTyped' /\ DriverTyped'
PROOF
<1>1. (faulted \/ o.fault) \in BOOLEAN
  BY Zenon
<1>2. DriverTyped'
  BY <1>1, SetDriverTyped DEF Failed
<1> QED BY <1>2 DEF CountsTyped, Failed, counts, TypeOK

LEMMA UnchangedTyped ==
    ASSUME TypeOK, UNCHANGED <<counts, driver, raced, faulted>>
    PROVE  CountsTyped' /\ DriverTyped'
PROOF BY DEF CountsTyped, DriverTyped, counts, driver, TypeOK

\* The outcome of a call that does not reach the driver.
LEMMA NowOutcome == TypeOK => Outcome(TRUE, FALSE, Now) \in Outcomes
PROOF BY NowTyped, OutcomeTyped

LEMMA PairId == \A p \in Pair : p[1] \in Id
PROOF BY DEF Pair

LEMMA TakeTyped ==
    ASSUME TypeOK, NEW p \in Pair, NEW isShared, NEW isLoaded, TakeSource(p, isShared, isLoaded)
    PROVE  CountsTyped' /\ DriverTyped'
PROOF
<1>1. p[1] \in Id
  BY PairId
<1>2. refEnable[p[1]] + 1 \in Int /\ refLoad + 1 \in Int /\ 1 \in Int
  BY <1>1 DEF TypeOK
<1>3. /\ Outcome(TRUE, FALSE, Now) \in Outcomes
      /\ Register(p[1], Now) \subseteq Outcomes
      /\ RealEnableSource(p[1]) \subseteq Outcomes
  BY <1>1, NowOutcome, NowTyped, RegisterTyped, RealEnableTyped
<1>4. \E o \in Outcomes : \/ Granted(p, o, refEnable[p[1]] + 1, refLoad + 1)
                          \/ Granted(p, o, 1, 1)
                          \/ Failed(o)
  BY <1>3, Zenon DEF TakeSource
<1> QED BY <1>2, <1>4, GrantedTyped, FailedTyped, Zenon

LEMMA EnableTyped ==
    ASSUME TypeOK, NEW p \in Pair, EnableSourceInternal(p)
    PROVE  /\ CountsTyped' /\ DriverTyped'
           /\ enableInfos' \subseteq Id /\ abandoned' \in BOOLEAN
PROOF
<1>1. enableInfos' \subseteq Id /\ abandoned' \in BOOLEAN
  BY PairId DEF EnableSourceInternal, TypeOK
<1>2. CountsTyped' /\ DriverTyped'
  BY UnchangedTyped, TakeTyped, Zenon DEF EnableSourceInternal
<1> QED BY <1>1, <1>2

\* The disables: what the disjuncts of both have in common.
LEMMA DropTyped ==
    ASSUME TypeOK, NEW p \in Pair,
           \/ UNCHANGED <<counts, driver, raced, faulted>> /\ want' \subseteq Active
           \/ \E o \in Outcomes :
                \/ Dropped(p, o, refEnable[p[1]] - 1, refLoad - 1)
                \/ Dropped(p, o, 0, 0)
                \/ Failed(o) /\ UNCHANGED want
    PROVE  CountsTyped' /\ DriverTyped' /\ want' \subseteq Active
PROOF
<1>1. refEnable[p[1]] - 1 \in Int /\ refLoad - 1 \in Int /\ 0 \in Int
  BY PairId DEF TypeOK
<1>2. want \subseteq Active
  BY DEF TypeOK
<1>3. CASE UNCHANGED <<counts, driver, raced, faulted>> /\ want' \subseteq Active
  BY <1>3, UnchangedTyped
<1>4. ASSUME NEW o \in Outcomes,
             \/ Dropped(p, o, refEnable[p[1]] - 1, refLoad - 1)
             \/ Dropped(p, o, 0, 0)
             \/ Failed(o) /\ UNCHANGED want
      PROVE  CountsTyped' /\ DriverTyped' /\ want' \subseteq Active
  <2>1. CASE Dropped(p, o, refEnable[p[1]] - 1, refLoad - 1)
    BY <1>1, <2>1, DroppedTyped
  <2>2. CASE Dropped(p, o, 0, 0)
    BY <1>1, <2>2, DroppedTyped
  <2>3. CASE Failed(o) /\ UNCHANGED want
    BY <1>2, <2>3, FailedTyped
  <2> QED BY <1>4, <2>1, <2>2, <2>3
<1> QED BY <1>3, <1>4, Zenon

LEMMA TypeStep ==
    TypeOK /\ [Next]_vars => TypeOK'
PROOF
<1> SUFFICES ASSUME TypeOK, [Next]_vars PROVE TypeOK'
  OBVIOUS
<1> DEFINE RecoveryTyped == recover \in Nat /\ window \in Nat /\ tasks \subseteq Pair
           Rest == enableInfos \subseteq Id /\ want \subseteq Active /\ abandoned \in BOOLEAN
<1>0. ASSUME CountsTyped', DriverTyped', RecoveryTyped', Rest' PROVE TypeOK'
  BY <1>0 DEF CountsTyped, DriverTyped, TypeOK
<1>a. UNCHANGED recovery => RecoveryTyped'
  BY DEF TypeOK, recovery
<1>1. ASSUME NEW p \in Pair, EnableSource(p) PROVE TypeOK'
  <2>1. want' \subseteq Active
    BY <1>1 DEF EnableSource
  <2> QED BY <1>0, <1>1, <1>a, <2>1, EnableTyped DEF EnableSource
<1>2. ASSUME NEW p \in Pair, DisableSourceInternal(p) PROVE TypeOK'
  <2>1. /\ Outcome(TRUE, FALSE, Now) \in Outcomes
        /\ Unregister(p[1], Now) \subseteq Outcomes
        /\ RealDisableSource(p[1]) \subseteq Outcomes
    BY PairId, NowOutcome, NowTyped, UnregisterTyped, RealDisableTyped
  <2>2. want \ {p} \subseteq Active /\ want \subseteq Active
    BY DEF TypeOK
  <2>3. \/ UNCHANGED <<counts, driver, raced, faulted>> /\ want' \subseteq Active
        \/ \E o \in Outcomes :
             \/ Dropped(p, o, refEnable[p[1]] - 1, refLoad - 1)
             \/ Dropped(p, o, 0, 0)
             \/ Failed(o) /\ UNCHANGED want
    BY <1>2, <2>1, <2>2, Zenon DEF DisableSourceInternal
  <2>4. CountsTyped' /\ DriverTyped' /\ want' \subseteq Active
    BY <2>3, DropTyped
  <2>5. enableInfos' \subseteq Id /\ abandoned' \in BOOLEAN
    BY <1>2, PairId DEF DisableSourceInternal, TypeOK
  <2> QED BY <1>0, <1>2, <1>a, <2>4, <2>5 DEF DisableSourceInternal
<1>3. ASSUME NEW id \in Id, EnableMetaSource(id) PROVE TypeOK'
  <2>1. <<id, AutoKey>> \in Pair
    BY SourceConstants DEF Pair
  <2>2. CountsTyped' /\ DriverTyped'
    BY <1>3, <2>1, UnchangedTyped, TakeTyped, Zenon DEF EnableMetaSource
  <2>3. Rest'
    BY <1>3 DEF EnableMetaSource, TypeOK
  <2> QED BY <1>0, <1>3, <1>a, <2>2, <2>3 DEF EnableMetaSource
<1>4. ASSUME NEW id \in Id, DisableMetaSource(id) PROVE TypeOK'
  <2> DEFINE p == <<id, AutoKey>>
  <2>0. p \in Pair /\ p[1] = id
    BY SourceConstants DEF Pair
  <2>1. /\ Outcome(TRUE, FALSE, Now) \in Outcomes
        /\ Unregister(id, Now) \subseteq Outcomes
        /\ DisableMetaSourceInternal(id) \subseteq Outcomes
    BY NowOutcome, NowTyped, UnregisterTyped, RealDisableTyped
  <2>2. want \subseteq Active
    BY DEF TypeOK
  <2>3. \/ UNCHANGED <<counts, driver, raced, faulted>> /\ want' \subseteq Active
        \/ \E o \in Outcomes :
             \/ Dropped(p, o, refEnable[id] - 1, refLoad - 1)
             \/ Dropped(p, o, 0, 0)
             \/ Failed(o) /\ UNCHANGED want
    BY <1>4, <2>1, <2>2, Zenon DEF DisableMetaSource
  <2>4. CountsTyped' /\ DriverTyped' /\ want' \subseteq Active
    <3> HIDE DEF p
    <3> QED BY <2>0, <2>3, DropTyped
  <2>5. enableInfos' \subseteq Id /\ abandoned' \in BOOLEAN
    BY <1>4 DEF DisableMetaSource, TypeOK
  <2> QED BY <1>0, <1>4, <1>a, <2>4, <2>5 DEF DisableMetaSource
<1>5. ASSUME NEW id \in Id, ForceDisableSourceInternal(id) PROVE TypeOK'
  <2>1. PICK u \in Unregister(id, Now) :
          IF ~u.ok
          THEN Failed(u) /\ UNCHANGED <<enableInfos, want>>
          ELSE /\ refLoad' = refLoad - refEnable[id]
               /\ refEnable' = [refEnable EXCEPT ![id] = 0]
               /\ enableInfos' = enableInfos \ {id}
               /\ enabled' = {p \in enabled : p[1] # id}
               /\ want' = {p \in want : p[1] # id}
               /\ \E o \in IF refLoad' > 0 THEN {u} ELSE StopSourceAndUninit(u.d) :
                     SetDriver(o.d) /\ faulted' = (faulted \/ u.fault \/ o.fault)
               /\ UNCHANGED raced
    BY <1>5, Zenon DEF ForceDisableSourceInternal
  <2>2. u \in Outcomes
    BY NowTyped, UnregisterTyped
  <2>3. RecoveryTyped' /\ abandoned' \in BOOLEAN
    BY <1>5, <1>a DEF ForceDisableSourceInternal, TypeOK
  <2>4. CASE ~u.ok
    <3>1. Failed(u) /\ UNCHANGED <<enableInfos, want>>
      BY <2>1, <2>4, Zenon
    <3>2. Rest'
      BY <2>3, <3>1 DEF TypeOK
    <3> QED BY <1>0, <2>2, <2>3, <3>1, <3>2, FailedTyped
  <2>5. CASE u.ok
    <3>1. /\ refLoad' = refLoad - refEnable[id]
          /\ refEnable' = [refEnable EXCEPT ![id] = 0]
          /\ enableInfos' = enableInfos \ {id}
          /\ enabled' = {p \in enabled : p[1] # id}
          /\ want' = {p \in want : p[1] # id}
          /\ UNCHANGED raced
      BY <2>1, <2>5, Zenon
    <3>2. PICK o \in (IF refLoad' > 0 THEN {u} ELSE StopSourceAndUninit(u.d)) :
             SetDriver(o.d) /\ faulted' = (faulted \/ u.fault \/ o.fault)
      BY <2>1, <2>5, Zenon
    <3>3. u.d \in Driver
      BY <2>2 DEF Outcomes
    <3>4. o \in Outcomes
      BY <2>2, <3>2, <3>3, StopTyped
    <3>5. (faulted \/ u.fault \/ o.fault) \in BOOLEAN
      BY Zenon
    <3>6. DriverTyped'
      BY <3>2, <3>4, <3>5, SetDriverTyped
    <3>7. CountsTyped' /\ Rest'
      BY <2>3, <3>1 DEF CountsTyped, TypeOK
    <3> QED BY <1>0, <2>3, <3>6, <3>7
  <2> QED BY <2>4, <2>5
<1>6. CASE SourceDies
  <2>1. running' \in BOOLEAN
    BY <1>6, Zenon DEF SourceDies
  <2>2. recover' \in Nat
    BY <1>6 DEF SourceDies, TypeOK
  <2> QED BY <1>6, <2>1, <2>2 DEF SourceDies, TypeOK, counts
<1>7. CASE SinkDies
  BY <1>7 DEF SinkDies, TypeOK, counts, driver
<1>8. CASE ResetSourceEnableStatus
  <2>1. /\ compSource' \in BOOLEAN /\ faulted' \in BOOLEAN /\ raced' \in BOOLEAN
        /\ abandoned' \in BOOLEAN
    BY <1>8, Zenon DEF ResetSourceEnableStatus, TypeOK
  <2>2. tasks' \subseteq Pair
    BY <1>8, SourceConstants DEF ResetSourceEnableStatus, TypeOK, Pair
  <2>3. recover' \in Nat /\ window' \in Nat /\ refEnable' \in [Id -> Int] /\ refLoad' \in Int
    BY <1>8 DEF ResetSourceEnableStatus, TypeOK
  <2>4. enabled' \subseteq Pair
    BY <1>8 DEF ResetSourceEnableStatus, TypeOK
  <2> QED BY <1>8, <2>1, <2>2, <2>3, <2>4 DEF ResetSourceEnableStatus, TypeOK
<1>9. CASE RecoverActiveEnableSource
  <2>1. faulted' \in BOOLEAN
    BY <1>9, Zenon DEF RecoverActiveEnableSource, TypeOK
  <2>2. tasks' \subseteq Pair
    BY <1>9 DEF RecoverActiveEnableSource, TypeOK
  <2>3. window' \in Nat /\ enabled' \subseteq Pair
    BY <1>9 DEF RecoverActiveEnableSource, TypeOK
  <2> QED BY <1>9, <2>1, <2>2, <2>3 DEF RecoverActiveEnableSource, driver, TypeOK
<1>10. ASSUME NEW p \in tasks, RunRecoverTask(p) PROVE TypeOK'
  <2>1. p \in Pair
    BY DEF TypeOK
  <2>2. RecoveryTyped' /\ want' \subseteq Active
    BY <1>10 DEF RunRecoverTask, TypeOK
  <2> QED BY <1>0, <1>10, <2>1, <2>2, EnableTyped DEF RunRecoverTask
<1>11. CASE UNCHANGED vars
  BY <1>11 DEF vars, counts, driver, recovery, TypeOK
<1> QED BY <1>1, <1>2, <1>3, <1>4, <1>5, <1>6, <1>7, <1>8, <1>9, <1>10, <1>11 DEF Next

-----------------------------------------------------------------------------
(* Exactness of the counts.                                                *)

\* Granting adds one counted pair; the branch that loads the component writes
\* 1 and 1, which is the same because both counts are zero there.
LEMMA GrantKeepsCounts ==
    ASSUME TypeOK, CountsExact, window' = window, NEW p \in Pair, p \notin enabled,
           NEW o, NEW e, NEW l, Granted(p, o, e, l),
           ~raced' => e = refEnable[p[1]] + 1 /\ l = refLoad + 1
    PROVE  CountsExact'
PROOF
<1> SUFFICES ASSUME ~raced' PROVE ExactCounts(Counted', Id, refEnable', refLoad')
  BY DEF CountsExact
<1>1. ~raced /\ ExactCounts(Counted, Id, refEnable, refLoad)
  BY DEF Granted, Races, CountsExact
<1>2. Counted' = Counted \cup {p} /\ p \notin Counted
  BY DEF Counted, Granted, Races, TypeOK
<1>3. Counted \in SUBSET (Id \X Key)
  BY DEF Counted, TypeOK, Pair
<1>4. refEnable' = [refEnable EXCEPT ![p[1]] = refEnable[p[1]] + 1] /\ refLoad' = refLoad + 1
  BY DEF Granted
<1> QED BY <1>1, <1>2, <1>3, <1>4, ExactAdd, SourceConstants DEF TypeOK, Pair

\* Dropping removes one counted pair; the branch that unloads the component
\* writes 0 and 0, which is the same because the pair is the last one.
LEMMA DropKeepsCounts ==
    ASSUME TypeOK, CountsExact, window' = window, NEW p \in Pair, p \in enabled, NEW o,
           \/ Dropped(p, o, refEnable[p[1]] - 1, refLoad - 1)
           \/ Dropped(p, o, 0, 0) /\ refLoad <= 1
    PROVE  CountsExact'
PROOF
<1> SUFFICES ASSUME ~raced' PROVE ExactCounts(Counted', Id, refEnable', refLoad')
  BY DEF CountsExact
<1>1. /\ enabled' = enabled \ {p} /\ raced' = Races(p)
      /\ \/ /\ refEnable' = [refEnable EXCEPT ![p[1]] = refEnable[p[1]] - 1]
            /\ refLoad' = refLoad - 1
         \/ /\ refEnable' = [refEnable EXCEPT ![p[1]] = 0]
            /\ refLoad' = 0 /\ refLoad <= 1
  BY DEF Dropped
<1>2. ~raced /\ ExactCounts(Counted, Id, refEnable, refLoad)
  BY <1>1 DEF Races, CountsExact
<1>3. Counted' = Counted \ {p} /\ p \in Counted
  BY <1>1 DEF Counted, Races, TypeOK
<1>4. Counted \in SUBSET (Id \X Key)
  BY DEF Counted, TypeOK, Pair
<1>5. CASE /\ refEnable' = [refEnable EXCEPT ![p[1]] = refEnable[p[1]] - 1]
           /\ refLoad' = refLoad - 1
  BY <1>2, <1>3, <1>4, <1>5, ExactRemove, SourceConstants DEF TypeOK
<1>6. CASE /\ refEnable' = [refEnable EXCEPT ![p[1]] = 0]
           /\ refLoad' = 0 /\ refLoad <= 1
  <2>1. refLoad = 1 /\ refEnable[p[1]] = 1
    BY <1>2, <1>3, <1>4, <1>6, ExactLast, SourceConstants DEF TypeOK
  <2>2. /\ refEnable' = [refEnable EXCEPT ![p[1]] = refEnable[p[1]] - 1]
        /\ refLoad' = refLoad - 1
    BY <1>6, <2>1
  <2> QED BY <1>5, <2>2
<1> QED BY <1>1, <1>5, <1>6

\* A step that leaves the counts, the pairs and the window alone.
LEMMA SameCounts ==
    ASSUME CountsExact, UNCHANGED <<counts, raced, window>>
    PROVE  CountsExact'
PROOF BY DEF CountsExact, Counted, counts

\* Outside a race, an id that is not shared has a zero count, however the code
\* tests it (# 0 for the ENABLE tasks and the applications, > 0 for META).
LEMMA NotNegative ==
    ASSUME TypeOK, CountsExact, ~raced, NEW id \in Id
    PROVE  refEnable[id] \in Nat /\ refLoad \in Nat
PROOF
<1>1. Counted \in SUBSET (Id \X Key)
  BY DEF Counted, TypeOK, Pair
<1>2. /\ Cardinality(Counted) \in Nat
      /\ \A i : Cardinality(HoldersOf(Counted, i)) \in Nat
  BY <1>1, PairsFinite, SourceConstants
<1> QED BY <1>2 DEF CountsExact, ExactCounts

LEMMA TakeKeepsCounts ==
    ASSUME TypeOK, CountsExact, window' = window, NEW p \in Pair, p \notin enabled,
           NEW isShared \in BOOLEAN, NEW isLoaded \in BOOLEAN,
           TakeSource(p, isShared, isLoaded),
           refEnable[p[1]] \in Nat /\ ~isShared => refEnable[p[1]] = 0,
           refLoad \in Nat /\ ~isLoaded => refLoad = 0
    PROVE  CountsExact'
PROOF
<1>1. ASSUME NEW o, Granted(p, o, refEnable[p[1]] + 1, refLoad + 1) PROVE CountsExact'
  BY <1>1, GrantKeepsCounts
<1>2. ASSUME NEW o, Failed(o) PROVE CountsExact'
  BY <1>2, SameCounts DEF Failed
<1>3. ASSUME NEW o, ~isShared, ~isLoaded, Granted(p, o, 1, 1) PROVE CountsExact'
  <2>1. ASSUME ~raced' PROVE 1 = refEnable[p[1]] + 1 /\ 1 = refLoad + 1
    <3>1. ~raced
      BY <1>3, <2>1 DEF Granted, Races
    <3>2. refEnable[p[1]] \in Nat /\ refLoad \in Nat
      BY <3>1, PairId, NotNegative
    <3> QED BY <1>3, <3>2
  <2> QED BY <1>3, <2>1, GrantKeepsCounts
<1> QED BY <1>1, <1>2, <1>3, Zenon DEF TakeSource

LEMMA EnableKeepsCounts ==
    ASSUME TypeOK, CountsExact, window' = window, NEW p \in Pair, EnableSourceInternal(p)
    PROVE  CountsExact'
PROOF
<1>1. CASE UNCHANGED <<counts, driver, raced, faulted>>
  BY <1>1, SameCounts
<1>2. CASE p \notin enabled /\ TakeSource(p, refEnable[p[1]] # 0, refLoad # 0)
  BY <1>2, TakeKeepsCounts
<1> QED BY <1>1, <1>2, Zenon DEF EnableSourceInternal

\* ForceDisableSourceInternal keeps the counts exact, in a window too: it drops
\* the pairs of one id together with their count.
LEMMA ForceDisableKeepsCounts ==
    ASSUME TypeOK, CountsExact, NEW id \in Id, ForceDisableSourceInternal(id)
    PROVE  CountsExact'
PROOF
<1>1. window' = window
  BY DEF ForceDisableSourceInternal, recovery
<1>2. \/ \E u : Failed(u)
      \/ /\ refLoad' = refLoad - refEnable[id]
         /\ refEnable' = [refEnable EXCEPT ![id] = 0]
         /\ enabled' = {p \in enabled : p[1] # id}
         /\ UNCHANGED raced
  BY Zenon DEF ForceDisableSourceInternal
<1>3. CASE \E u : Failed(u)
  BY <1>1, <1>3, SameCounts DEF Failed
<1>4. CASE /\ refLoad' = refLoad - refEnable[id]
           /\ refEnable' = [refEnable EXCEPT ![id] = 0]
           /\ enabled' = {p \in enabled : p[1] # id}
           /\ UNCHANGED raced
  <2> SUFFICES ASSUME ~raced' PROVE ExactCounts(Counted', Id, refEnable', refLoad')
    BY DEF CountsExact
  <2>1. ExactCounts(Counted, Id, refEnable, refLoad)
    BY <1>4 DEF CountsExact
  <2>2. Counted' = {p \in Counted : p[1] # id}
    BY <1>1, <1>4 DEF Counted
  <2>3. Counted \in SUBSET (Id \X Key)
    BY DEF Counted, TypeOK, Pair
  <2> QED BY <1>4, <2>1, <2>2, <2>3, ExactDropId, SourceConstants DEF TypeOK
<1> QED BY <1>2, <1>3, <1>4

LEMMA CountsStep ==
    CountsInv /\ [Next]_vars => CountsInv'
PROOF
<1> SUFFICES ASSUME TypeOK, CountsExact, [Next]_vars PROVE CountsExact'
  BY TypeStep DEF CountsInv
<1>0. UNCHANGED recovery => window' = window
  BY DEF recovery
<1>1. ASSUME NEW p \in Pair, EnableSource(p) PROVE CountsExact'
  BY <1>0, <1>1, EnableKeepsCounts DEF EnableSource
<1>2. ASSUME NEW p \in Pair, DisableSourceInternal(p) PROVE CountsExact'
  <2>1. window' = window
    BY <1>0, <1>2 DEF DisableSourceInternal
  <2>2. \/ UNCHANGED <<counts, raced>>
        \/ p \in enabled /\ \E o : Dropped(p, o, refEnable[p[1]] - 1, refLoad - 1)
        \/ p \in enabled /\ \E o : Dropped(p, o, 0, 0) /\ refLoad <= 1
    BY <1>2, Zenon DEF DisableSourceInternal, Failed
  <2> QED BY <2>1, <2>2, SameCounts, DropKeepsCounts
<1>3. ASSUME NEW id \in Id, EnableMetaSource(id) PROVE CountsExact'
  <2> DEFINE p == <<id, AutoKey>>
  <2>1. window' = window
    BY <1>0, <1>3 DEF EnableMetaSource
  <2>2. p \in Pair /\ p[1] = id
    BY SourceConstants DEF Pair
  <2>3. CASE UNCHANGED <<counts, driver, raced, faulted>>
    BY <2>1, <2>3, SameCounts
  <2>4. CASE p \notin enabled /\ TakeSource(p, refEnable[id] > 0, refLoad > 0)
    <3>1. /\ refEnable[p[1]] \in Nat /\ ~(refEnable[id] > 0) => refEnable[p[1]] = 0
          /\ refLoad \in Nat /\ ~(refLoad > 0) => refLoad = 0
          /\ (refEnable[id] > 0) \in BOOLEAN /\ (refLoad > 0) \in BOOLEAN
      BY <2>2
    <3> HIDE DEF p
    <3> QED BY <2>1, <2>2, <2>4, <3>1, TakeKeepsCounts
  <2> QED BY <1>3, <2>3, <2>4, Zenon DEF EnableMetaSource
<1>4. ASSUME NEW id \in Id, DisableMetaSource(id) PROVE CountsExact'
  <2> DEFINE p == <<id, AutoKey>>
  <2>1. window' = window
    BY <1>0, <1>4 DEF DisableMetaSource
  <2>2. p \in Pair /\ p[1] = id
    BY SourceConstants DEF Pair
  <2>3. \/ UNCHANGED <<counts, raced>>
        \/ p \in enabled /\ \E o : Dropped(p, o, refEnable[id] - 1, refLoad - 1)
        \/ p \in enabled /\ \E o : Dropped(p, o, 0, 0) /\ refLoad <= 1
    BY <1>4, Zenon DEF DisableMetaSource, Failed
  <2> HIDE DEF p
  <2> QED BY <2>1, <2>2, <2>3, SameCounts, DropKeepsCounts
<1>5. ASSUME NEW id \in Id, ForceDisableSourceInternal(id) PROVE CountsExact'
  BY <1>5, ForceDisableKeepsCounts
<1>6. CASE SourceDies
  BY <1>6, SameCounts DEF SourceDies
<1>7. CASE SinkDies
  BY <1>7, SameCounts DEF SinkDies
<1>8. CASE ResetSourceEnableStatus
  <2>1. Counted' = {}
    BY <1>8 DEF ResetSourceEnableStatus, Counted, TypeOK
  <2> QED BY <1>8, <2>1, ExactEmpty DEF ResetSourceEnableStatus, CountsExact
<1>9. CASE RecoverActiveEnableSource
  <2>1. Counted' = Counted
    BY <1>9 DEF RecoverActiveEnableSource, Counted
  <2> QED BY <1>9, <2>1 DEF RecoverActiveEnableSource, CountsExact
<1>10. ASSUME NEW p \in tasks, RunRecoverTask(p) PROVE CountsExact'
  <2>1. p \in Pair
    BY DEF TypeOK
  <2> QED BY <1>10, <2>1, EnableKeepsCounts DEF RunRecoverTask
<1>11. CASE UNCHANGED vars
  BY <1>11, SameCounts DEF vars, recovery
<1> QED BY <1>1, <1>2, <1>3, <1>4, <1>5, <1>6, <1>7, <1>8, <1>9, <1>10, <1>11 DEF Next

LEMMA CountsInit == Init => CountsInv
PROOF
<1> SUFFICES ASSUME Init PROVE CountsInv
  OBVIOUS
<1>1. TypeOK
  <2>1. /\ compSource \in BOOLEAN /\ running \in BOOLEAN /\ monitored \in BOOLEAN
        /\ raced \in BOOLEAN /\ faulted \in BOOLEAN /\ abandoned \in BOOLEAN
    BY Zenon DEF Init
  <2> QED BY <2>1 DEF Init, TypeOK
<1>2. Counted = {}
  BY DEF Init, Counted
<1> QED BY <1>1, <1>2, ExactEmpty DEF Init, CountsInv, CountsExact

\* Every variable of the source status keeps its type.
THEOREM SourceTypeCorrect == Spec => []TypeOK
PROOF
<1>1. Init => TypeOK
  BY CountsInit DEF CountsInv
<1> QED BY <1>1, TypeStep, PTL DEF Spec

\* EnableSource, DisableSource, the META calls, ForceDisableSource and the
\* recovery keep refEnable and refLoad equal to the number of ENABLED callers,
\* whatever the driver answers, unless a business changes its own state inside
\* a recovery window.
THEOREM SourceCountsExact == Spec => []CountsExact
PROOF
<1>1. CountsInv => CountsExact
  BY DEF CountsInv
<1> QED BY <1>1, CountsInit, CountsStep, PTL DEF Spec

-----------------------------------------------------------------------------
(* What the calls to the driver do when nothing fails.                     *)

\* The driver ends in o as it was, but for the registered hardware.
Stays(o, h) == o.d.comp = compSource /\ o.d.run = running /\ o.d.mon = monitored /\ o.d.hw = h
Stops(o) == o.d.comp = FALSE /\ o.d.run = FALSE /\ o.d.mon = FALSE /\ o.d.hw = {}

LEMMA NowFields == Now.comp = compSource /\ Now.run = running /\ Now.mon = monitored /\ Now.hw = hw
PROOF BY DEF Now

LEMMA OutcomeFields ==
    ASSUME NEW d
    PROVE  /\ Outcome(TRUE, FALSE, d).ok = TRUE /\ Outcome(TRUE, FALSE, d).fault = FALSE
           /\ Outcome(FALSE, FALSE, d).ok = FALSE /\ Outcome(FALSE, FALSE, d).fault = FALSE
           /\ Outcome(FALSE, TRUE, d).ok = FALSE /\ Outcome(FALSE, TRUE, d).fault = TRUE
           /\ Outcome(TRUE, TRUE, d).ok = TRUE /\ Outcome(TRUE, TRUE, d).fault = TRUE
           /\ Outcome(TRUE, FALSE, d).d = d /\ Outcome(FALSE, FALSE, d).d = d
PROOF BY DEF Outcome

LEMMA RegisterQuiet ==
    ASSUME TypeOK, NEW id \in Id, NEW o \in Register(id, Now), o.fault = FALSE
    PROVE  o.ok = TRUE /\ compSource /\ running /\ Stays(o, hw \cup {id})
PROOF
<1> DEFINE on == [Now EXCEPT !.hw = @ \cup {id}]
<1>1. on.comp = compSource /\ on.run = running /\ on.mon = monitored /\ on.hw = hw \cup {id}
  BY DEF Now
<1>2. CASE ~(Now.comp /\ Now.run)
  BY <1>2, OutcomeFields DEF Register
<1>3. CASE Now.comp /\ Now.run
  <2>1. o = Outcome(TRUE, FALSE, on)
    <3>1. o \in {Outcome(TRUE, FALSE, on)} \cup If("enable", {Outcome(FALSE, TRUE, Now), Outcome(FALSE, TRUE, on)})
      BY <1>3 DEF Register
    <3> HIDE DEF on
    <3> QED BY <3>1, OutcomeFields DEF If
  <2> HIDE DEF on
  <2>2. o.ok = TRUE /\ o.d = on
    BY <2>1, OutcomeFields
  <2> QED BY <1>1, <1>3, <2>2, NowFields DEF Stays
<1> QED BY <1>2, <1>3

LEMMA UnregisterQuiet ==
    ASSUME TypeOK, NEW id \in Id, NEW o \in Unregister(id, Now), o.fault = FALSE
    PROVE  \/ o.ok = TRUE /\ compSource /\ running /\ Stays(o, hw \ {id})
           \/ o.ok = FALSE /\ ~(compSource /\ running) /\ Stays(o, hw)
PROOF
<1> DEFINE off == [Now EXCEPT !.hw = @ \ {id}]
<1>1. off.comp = compSource /\ off.run = running /\ off.mon = monitored /\ off.hw = hw \ {id}
  BY DEF Now
<1>2. CASE ~(Now.comp /\ Now.run)
  <2>1. o = Outcome(FALSE, FALSE, Now)
    BY <1>2 DEF Unregister
  <2>2. o.ok = FALSE /\ o.d = Now
    BY <2>1, OutcomeFields
  <2> QED BY <1>2, <2>2, NowFields DEF Stays
<1>3. CASE Now.comp /\ Now.run
  <2>1. o = Outcome(TRUE, FALSE, off)
    <3>1. o \in {Outcome(TRUE, FALSE, off)} \cup If("disable", {Outcome(FALSE, TRUE, Now), Outcome(FALSE, TRUE, off)})
      BY <1>3 DEF Unregister
    <3> HIDE DEF off
    <3> QED BY <3>1, OutcomeFields DEF If
  <2> HIDE DEF off
  <2>2. o.ok = TRUE /\ o.d = off
    BY <2>1, OutcomeFields
  <2> QED BY <1>1, <1>3, <2>2, NowFields DEF Stays
<1> QED BY <1>2, <1>3

LEMMA StopQuiet ==
    ASSUME NEW d \in Driver, NEW s \in StopSourceAndUninit(d), s.fault = FALSE
    PROVE  \/ s.ok = TRUE /\ d.comp /\ Stops(s)
           \/ s.ok = FALSE /\ ~d.comp /\ s.d = d
PROOF
<1>1. CASE ~d.comp
  BY <1>1, OutcomeFields DEF StopSourceAndUninit
<1>2. CASE d.comp
  <2>1. s = Outcome(TRUE, FALSE, Unloaded)
    BY <1>2, OutcomeFields DEF StopSourceAndUninit, If
  <2>2. s.ok = TRUE /\ s.d = Unloaded
    BY <2>1, OutcomeFields
  <2> QED BY <1>2, <2>2 DEF Stops, Unloaded
<1> QED BY <1>1, <1>2

LEMMA RealEnableQuiet ==
    ASSUME TypeOK, NEW id \in Id, NEW o \in RealEnableSource(id), o.fault = FALSE
    PROVE  o.ok = TRUE /\ o.d.comp = TRUE /\ o.d.run = TRUE /\ o.d.mon = TRUE /\ o.d.hw = hw \cup {id}
PROOF
<1>1. PICK s \in StartSourceAndWait :
        o \in IF ~s.ok THEN {s}
              ELSE UNION {IF r.ok THEN {Outcome(TRUE, s.fault \/ r.fault, r.d)}
                          ELSE {Outcome(FALSE, TRUE, d) : d \in AbandonSource(r.d)}
                          : r \in Register(id, s.d)}
  BY DEF RealEnableSource
<1> DEFINE up(r) == [Now EXCEPT !.comp = TRUE, !.mon = TRUE, !.run = r]
<1>2. s \in Outcomes /\ (s.ok = FALSE => s.fault = TRUE)
  <2>1. \/ s.ok = TRUE
        \/ s.fault = TRUE
    BY OutcomeFields DEF StartSourceAndWait, If
  <2> QED BY <2>1, StartTyped
<1>3. s.ok = TRUE /\ s.d \in Driver /\ s.fault \in BOOLEAN
  BY <1>1, <1>2 DEF Outcomes
<1>4. PICK r \in Register(id, s.d) :
        o \in IF r.ok THEN {Outcome(TRUE, s.fault \/ r.fault, r.d)}
              ELSE {Outcome(FALSE, TRUE, d) : d \in AbandonSource(r.d)}
  BY <1>1, <1>3
<1>5. r \in Outcomes /\ r.ok = TRUE
  <2>1. r \in Outcomes
    BY <1>3, RegisterTyped
  <2>2. r.ok # TRUE => o.fault = TRUE
    BY <1>4, <2>1, OutcomeFields DEF Outcomes
  <2> QED BY <2>1, <2>2
<1>6. o = Outcome(TRUE, s.fault \/ r.fault, r.d)
  BY <1>4, <1>5
<1>7. o.ok = TRUE /\ s.fault = FALSE /\ o.d = r.d
  <2>1. o.ok = TRUE /\ o.d = r.d /\ o.fault = (s.fault \/ r.fault)
    BY <1>6 DEF Outcome
  <2>2. ~s.fault
    BY <2>1, Zenon
  <2> QED BY <1>3, <2>1, <2>2
<1>8. s = Outcome(TRUE, FALSE, up(TRUE))
  <2>1. s \in {Outcome(TRUE, FALSE, up(TRUE))} \cup If("timeout", {Outcome(TRUE, TRUE, up(q)) : q \in BOOLEAN}) \cup
              If("watch", {Outcome(TRUE, TRUE, [up(TRUE) EXCEPT !.mon = FALSE])}) \cup
              If("load", {Outcome(FALSE, TRUE, Now)}) \cup
              If("init", {Outcome(FALSE, TRUE, Unloaded)} \cup
                         If("unload", {Outcome(FALSE, TRUE, [Unloaded EXCEPT !.comp = TRUE])}))
    BY DEF StartSourceAndWait
  <2> HIDE DEF up
  <2> QED BY <1>7, <2>1, OutcomeFields DEF If
<1>9. up(TRUE).comp = TRUE /\ up(TRUE).run = TRUE /\ up(TRUE).mon = TRUE /\ up(TRUE).hw = hw
  BY DEF Now
<1>10. s.d = up(TRUE) /\ up(TRUE) \in Driver
  <2>1. Now \in Driver
    BY NowTyped
  <2>2. up(TRUE) \in Driver
    BY <2>1 DEF Driver
  <2> HIDE DEF up
  <2> QED BY <1>8, <2>2, OutcomeFields
<1> DEFINE u == up(TRUE)
           on == [u EXCEPT !.hw = @ \cup {id}]
<1>11. u \in Driver /\ u.comp = TRUE /\ u.run = TRUE /\ u.mon = TRUE /\ u.hw = hw /\ r \in Register(id, u)
  BY <1>9, <1>10
<1> HIDE DEF u
<1>12. on.comp = TRUE /\ on.run = TRUE /\ on.mon = TRUE /\ on.hw = hw \cup {id}
  BY <1>11 DEF Driver
<1>13. r.d = on
  <2>1. r \in {Outcome(TRUE, FALSE, on)} \cup If("enable", {Outcome(FALSE, TRUE, u), Outcome(FALSE, TRUE, on)})
    BY <1>11 DEF Register
  <2> HIDE DEF on
  <2> QED BY <1>5, <2>1, OutcomeFields DEF If
<1> HIDE DEF on
<1> QED BY <1>7, <1>12, <1>13

\* Disabling the last holder unloads the component, or leaves all as it was.
LEMMA RealDisableQuiet ==
    ASSUME TypeOK, NEW id \in Id, NEW o \in RealDisableSource(id) \cup DisableMetaSourceInternal(id), o.fault = FALSE
    PROVE  \/ o.ok = TRUE /\ Stops(o)
           \/ o.ok = FALSE /\ Stays(o, hw)
PROOF
<1>1. PICK u \in Unregister(id, Now) :
        \/ ~u.ok /\ o = u
        \/ \E s \in StopSourceAndUninit(u.d) : o = Outcome(s.ok, u.fault \/ s.fault, s.d)
  BY DEF RealDisableSource, DisableMetaSourceInternal
<1>2. u \in Outcomes /\ u.d \in Driver /\ u.ok \in BOOLEAN
  <2>1. u \in Outcomes
    BY NowTyped, UnregisterTyped
  <2> QED BY <2>1 DEF Outcomes
<1>3. CASE ~u.ok /\ o = u
  BY <1>2, <1>3, UnregisterQuiet
<1>4. ASSUME NEW s \in StopSourceAndUninit(u.d), o = Outcome(s.ok, u.fault \/ s.fault, s.d)
      PROVE  \/ o.ok = TRUE /\ Stops(o)
             \/ o.ok = FALSE /\ Stays(o, hw)
  <2>1. u.fault = FALSE /\ s.fault = FALSE /\ o.ok = s.ok /\ o.d = s.d
    <3>1. s \in Outcomes
      BY <1>2, StopTyped
    <3>2. o.ok = s.ok /\ o.d = s.d /\ o.fault = (u.fault \/ s.fault)
      BY <1>4 DEF Outcome
    <3>3. ~u.fault /\ ~s.fault
      BY <3>2, Zenon
    <3> QED BY <1>2, <3>1, <3>2, <3>3 DEF Outcomes
  <2>2. \/ s.ok = TRUE /\ Stops(s)
        \/ s.ok = FALSE /\ ~u.d.comp /\ s.d = u.d
    BY <1>2, <2>1, StopQuiet
  <2>3. CASE s.ok = TRUE /\ Stops(s)
    BY <2>1, <2>3 DEF Stops
  <2>4. CASE s.ok = FALSE /\ ~u.d.comp /\ s.d = u.d
    <3>1. \/ u.ok = TRUE /\ compSource /\ running /\ Stays(u, hw \ {id})
          \/ u.ok = FALSE /\ ~(compSource /\ running) /\ Stays(u, hw)
      BY <2>1, UnregisterQuiet
    <3>2. Stays(u, hw)
      BY <2>4, <3>1 DEF Stays
    <3> QED BY <2>1, <2>4, <3>2 DEF Stays
  <2> QED BY <2>2, <2>3, <2>4
<1> QED BY <1>1, <1>3, <1>4

-----------------------------------------------------------------------------
(* Holders are served, and nothing stays registered without one.           *)

\* A business that was told "enabled" is ENABLED or has a task of the recovery that
\* makes it so; the hardware of whoever is counted is registered as soon as no reset
\* is outstanding; and a driver that does not run has nothing registered, while one
\* that runs is the component's unless a reset dropped it.
WantsServed == ~faulted => want \subseteq enabled \cup tasks
CountedServed ==
    (~faulted /\ ~raced /\ recover = 0) =>
        \A p \in Counted : p[1] \in hw /\ compSource = TRUE /\ running = TRUE /\ monitored = TRUE
DriverSound ==
    ~faulted => /\ running = FALSE => hw = {}
                /\ running = TRUE /\ ~abandoned => compSource = TRUE

ServeInv == CountsInv /\ WantsServed /\ CountedServed /\ DriverSound /\ HardwareOnlyWhileHeld

LEMMA CountsNow ==
    ASSUME CountsInv, ~raced
    PROVE  /\ refLoad \in Nat /\ (refLoad = 0 <=> Counted = {})
           /\ \A id \in Id : /\ refEnable[id] \in Nat /\ refEnable[id] <= refLoad
                             /\ refEnable[id] # 0 <=> \E q \in Counted : q[1] = id
PROOF
<1>1. ExactCounts(Counted, Id, refEnable, refLoad) /\ Counted \in SUBSET (Id \X Key)
  BY DEF CountsInv, CountsExact, Counted, TypeOK, Pair
<1>0. IsFiniteSet(Id) /\ IsFiniteSet(Key)
  BY SourceConstants
<1>2. /\ refLoad \in Nat /\ (refLoad <= 0 => Counted = {})
      /\ Counted = {} => refLoad = 0 /\ \A id \in Id : refEnable[id] = 0
  BY <1>0, <1>1, ExactZero, Zenon
<1>3. \A id \in Id : /\ refEnable[id] \in Nat /\ refEnable[id] <= refLoad
                     /\ refEnable[id] # 0 <=> \E q \in Counted : q[1] = id
  <2>1. CountsHolders(Counted, Id, refEnable, refLoad)
    BY <1>0, <1>1, ExactHolders, Zenon
  <2> QED BY <2>1 DEF CountsHolders
<1>4. refLoad = 0 <=> Counted = {}
  BY <1>2
<1> QED BY <1>2, <1>3, <1>4

LEMMA CountsThen ==
    ASSUME CountsInv', ~raced'
    PROVE  /\ refLoad' \in Nat /\ (refLoad' = 0 <=> Counted' = {})
           /\ \A id \in Id : /\ refEnable'[id] \in Nat /\ refEnable'[id] <= refLoad'
                             /\ refEnable'[id] # 0 <=> \E q \in Counted' : q[1] = id
PROOF
<1>1. ExactCounts(Counted', Id, refEnable', refLoad') /\ Counted' \in SUBSET (Id \X Key)
  BY DEF CountsInv, CountsExact, Counted, TypeOK, Pair
<1>0. IsFiniteSet(Id) /\ IsFiniteSet(Key)
  BY SourceConstants
<1>2. /\ refLoad' \in Nat /\ (refLoad' <= 0 => Counted' = {})
      /\ Counted' = {} => refLoad' = 0 /\ \A id \in Id : refEnable'[id] = 0
  BY <1>0, <1>1, ExactZero, Zenon
<1>3. \A id \in Id : /\ refEnable'[id] \in Nat /\ refEnable'[id] <= refLoad'
                     /\ refEnable'[id] # 0 <=> \E q \in Counted' : q[1] = id
  <2>1. CountsHolders(Counted', Id, refEnable', refLoad')
    BY <1>0, <1>1, ExactHolders, Zenon
  <2> QED BY <2>1 DEF CountsHolders
<1>4. refLoad' = 0 <=> Counted' = {}
  BY <1>2
<1> QED BY <1>2, <1>3, <1>4

\* A call that changes nothing, or only what no part of the invariant looks at.
LEMMA SameServes ==
    ASSUME TypeOK, CountedServed, DriverSound, HardwareOnlyWhileHeld,
           UNCHANGED <<refEnable, refLoad, enabled, compSource, running, hw, monitored, recover, window,
                       raced, faulted, abandoned>>
    PROVE  CountedServed' /\ DriverSound' /\ HardwareOnlyWhileHeld'
PROOF
<1>1. Counted' = Counted
  BY DEF Counted
<1>2. CountedServed'
  BY <1>1 DEF CountedServed
<1>3. DriverSound'
  BY DEF DriverSound
<1>4. HardwareOnlyWhileHeld'
  BY DEF HardwareOnlyWhileHeld
<1> QED BY <1>2, <1>3, <1>4

\* What TakeSource does when nothing fails: it shares, registers, or loads and registers.
LEMMA TakeQuiet ==
    ASSUME TypeOK, NEW p \in Pair, NEW isShared \in BOOLEAN, NEW isLoaded \in BOOLEAN,
           TakeSource(p, isShared, isLoaded), ~faulted'
    PROVE  /\ faulted = FALSE /\ enabled' = enabled \cup {p} /\ raced' = Races(p)
           /\ \/ /\ isShared
                 /\ refEnable' = [refEnable EXCEPT ![p[1]] = refEnable[p[1]] + 1] /\ refLoad' = refLoad + 1
                 /\ UNCHANGED <<compSource, running, hw, monitored>>
              \/ /\ ~isShared /\ isLoaded
                 /\ refEnable' = [refEnable EXCEPT ![p[1]] = refEnable[p[1]] + 1] /\ refLoad' = refLoad + 1
                 /\ compSource = TRUE /\ running = TRUE /\ UNCHANGED <<compSource, running, monitored>>
                 /\ hw' = hw \cup {p[1]}
              \/ /\ refEnable' = [refEnable EXCEPT ![p[1]] = 1] /\ refLoad' = 1
                 /\ compSource' = TRUE /\ running' = TRUE /\ monitored' = TRUE
                 /\ hw' = hw \cup {p[1]}
PROOF
<1>0. p[1] \in Id /\ faulted \in BOOLEAN /\ compSource \in BOOLEAN /\ running \in BOOLEAN
  BY PairId DEF TypeOK
<1>1. ASSUME NEW o \in Outcomes, faulted' = (faulted \/ o.fault)
      PROVE  faulted = FALSE /\ o.fault = FALSE
  <2>1. ~faulted /\ ~o.fault
    BY <1>1, Zenon
  <2> QED BY <1>0, <1>1, <2>1 DEF Outcomes
<1>2. CASE isShared /\ Granted(p, Outcome(TRUE, FALSE, Now), refEnable[p[1]] + 1, refLoad + 1)
  <2>1. faulted = FALSE
    BY <1>1, <1>2, NowOutcome DEF Granted
  <2>2. SetDriver(Now)
    <3>1. Outcome(TRUE, FALSE, Now).d = Now
      BY OutcomeFields
    <3> QED BY <1>2, <3>1 DEF Granted
  <2>3. UNCHANGED <<compSource, running, hw, monitored>>
    BY <2>2, NowFields DEF SetDriver
  <2> QED BY <1>2, <2>1, <2>3 DEF Granted
<1>3. ASSUME ~isShared, isLoaded, NEW o \in Register(p[1], Now),
             IF o.ok THEN Granted(p, o, refEnable[p[1]] + 1, refLoad + 1) ELSE Failed(o)
      PROVE  /\ faulted = FALSE /\ enabled' = enabled \cup {p} /\ raced' = Races(p)
             /\ refEnable' = [refEnable EXCEPT ![p[1]] = refEnable[p[1]] + 1] /\ refLoad' = refLoad + 1
             /\ compSource = TRUE /\ running = TRUE /\ UNCHANGED <<compSource, running, monitored>>
             /\ hw' = hw \cup {p[1]}
  <2>1. o \in Outcomes
    BY <1>0, NowTyped, RegisterTyped
  <2>2. faulted = FALSE /\ o.fault = FALSE
    <3>1. faulted' = (faulted \/ o.fault)
      BY <1>3, Zenon DEF Granted, Failed
    <3> QED BY <1>1, <2>1, <3>1
  <2>3. o.ok = TRUE /\ compSource /\ running /\ Stays(o, hw \cup {p[1]})
    BY <1>0, <2>2, RegisterQuiet
  <2>4. Granted(p, o, refEnable[p[1]] + 1, refLoad + 1)
    BY <1>3, <2>3
  <2> QED BY <1>0, <2>2, <2>3, <2>4 DEF Granted, SetDriver, Stays
<1>4. ASSUME NEW o \in RealEnableSource(p[1]), IF o.ok THEN Granted(p, o, 1, 1) ELSE Failed(o)
      PROVE  /\ faulted = FALSE /\ enabled' = enabled \cup {p} /\ raced' = Races(p)
             /\ refEnable' = [refEnable EXCEPT ![p[1]] = 1] /\ refLoad' = 1
             /\ compSource' = TRUE /\ running' = TRUE /\ monitored' = TRUE
             /\ hw' = hw \cup {p[1]}
  <2>1. o \in Outcomes
    BY <1>0, RealEnableTyped
  <2>2. faulted = FALSE /\ o.fault = FALSE
    <3>1. faulted' = (faulted \/ o.fault)
      BY <1>4, Zenon DEF Granted, Failed
    <3> QED BY <1>1, <2>1, <3>1
  <2>3. o.ok = TRUE /\ o.d.comp = TRUE /\ o.d.run = TRUE /\ o.d.mon = TRUE /\ o.d.hw = hw \cup {p[1]}
    BY <1>0, <2>2, RealEnableQuiet
  <2>4. Granted(p, o, 1, 1)
    BY <1>4, <2>3
  <2> QED BY <2>2, <2>3, <2>4 DEF Granted, SetDriver
<1>5. \/ isShared /\ Granted(p, Outcome(TRUE, FALSE, Now), refEnable[p[1]] + 1, refLoad + 1)
      \/ /\ ~isShared /\ isLoaded
         /\ \E o \in Register(p[1], Now) :
              IF o.ok THEN Granted(p, o, refEnable[p[1]] + 1, refLoad + 1) ELSE Failed(o)
      \/ \E o \in RealEnableSource(p[1]) : IF o.ok THEN Granted(p, o, 1, 1) ELSE Failed(o)
  BY Zenon DEF TakeSource
<1> QED BY <1>2, <1>3, <1>4, <1>5

\* An enable that goes well registers the hardware of the new holder: whoever shares
\* relies on a registration that a counted holder has, whoever relies on the loaded
\* component finds it running and watched.
LEMMA TakeServes ==
    ASSUME ServeInv, CountsInv', NEW p \in Pair, p \notin enabled,
           NEW isShared \in BOOLEAN, NEW isLoaded \in BOOLEAN, TakeSource(p, isShared, isLoaded),
           refEnable[p[1]] \in Nat => (isShared <=> refEnable[p[1]] # 0),
           refLoad \in Nat => (isLoaded <=> refLoad # 0),
           UNCHANGED <<window, recover, abandoned>>
    PROVE  CountedServed' /\ DriverSound' /\ HardwareOnlyWhileHeld'
PROOF
<1> SUFFICES ASSUME ~faulted' PROVE CountedServed' /\ DriverSound' /\ HardwareOnlyWhileHeld'
  BY DEF CountedServed, DriverSound, HardwareOnlyWhileHeld
<1>0. TypeOK /\ CountsInv /\ CountedServed /\ DriverSound /\ HardwareOnlyWhileHeld /\ p[1] \in Id
  BY PairId DEF ServeInv, CountsInv
<1>1. /\ faulted = FALSE /\ enabled' = enabled \cup {p} /\ raced' = Races(p)
      /\ \/ /\ isShared
            /\ refEnable' = [refEnable EXCEPT ![p[1]] = refEnable[p[1]] + 1] /\ refLoad' = refLoad + 1
            /\ UNCHANGED <<compSource, running, hw, monitored>>
         \/ /\ ~isShared /\ isLoaded
            /\ refEnable' = [refEnable EXCEPT ![p[1]] = refEnable[p[1]] + 1] /\ refLoad' = refLoad + 1
            /\ compSource = TRUE /\ running = TRUE /\ UNCHANGED <<compSource, running, monitored>>
            /\ hw' = hw \cup {p[1]}
         \/ /\ refEnable' = [refEnable EXCEPT ![p[1]] = 1] /\ refLoad' = 1
            /\ compSource' = TRUE /\ running' = TRUE /\ monitored' = TRUE
            /\ hw' = hw \cup {p[1]}
  BY <1>0, TakeQuiet
<1>2. DriverSound'
  BY <1>0, <1>1 DEF DriverSound
<1>3. ASSUME ~raced', recover' = 0
      PROVE  /\ \A q \in Counted' : q[1] \in hw' /\ compSource' = TRUE /\ running' = TRUE /\ monitored' = TRUE
             /\ ~abandoned' => (\A id \in hw' : refEnable'[id] > 0) /\ refLoad' > 0
  <2>1. ~raced /\ recover = 0
    BY <1>1, <1>3 DEF Races
  <2>2. Counted' = Counted \cup {p}
    BY <1>0, <1>1, <1>3 DEF Counted, Races, TypeOK
  <2>3. /\ refLoad \in Nat /\ (refLoad = 0 <=> Counted = {})
        /\ \A id \in Id : /\ refEnable[id] \in Nat /\ refEnable[id] <= refLoad
                          /\ refEnable[id] # 0 <=> \E q \in Counted : q[1] = id
    BY <1>0, <2>1, CountsNow
  <2>4. \A q \in Counted : q[1] \in hw /\ compSource = TRUE /\ running = TRUE /\ monitored = TRUE
    BY <1>0, <1>1, <2>1 DEF CountedServed
  <2>5. ~abandoned => \A id \in hw : refEnable[id] > 0
    BY <1>0, <1>1, <2>1 DEF HardwareOnlyWhileHeld
  <2>6. refEnable \in [Id -> Int] /\ hw \subseteq Id
    BY <1>0 DEF TypeOK
  <2>7. CASE /\ isShared
             /\ refEnable' = [refEnable EXCEPT ![p[1]] = refEnable[p[1]] + 1] /\ refLoad' = refLoad + 1
             /\ UNCHANGED <<compSource, running, hw, monitored>>
    <3>1. \E q \in Counted : q[1] = p[1]
      BY <1>0, <2>3, <2>7
    <3> QED BY <1>0, <2>2, <2>3, <2>4, <2>5, <2>6, <2>7, <3>1
  <2>8. CASE /\ ~isShared /\ isLoaded
             /\ refEnable' = [refEnable EXCEPT ![p[1]] = refEnable[p[1]] + 1] /\ refLoad' = refLoad + 1
             /\ compSource = TRUE /\ running = TRUE /\ UNCHANGED <<compSource, running, monitored>>
             /\ hw' = hw \cup {p[1]}
    <3>1. monitored = TRUE
      BY <2>3, <2>4, <2>8
    <3> QED BY <1>0, <2>2, <2>3, <2>4, <2>5, <2>6, <2>8, <3>1
  <2>9. CASE /\ refEnable' = [refEnable EXCEPT ![p[1]] = 1] /\ refLoad' = 1
             /\ compSource' = TRUE /\ running' = TRUE /\ monitored' = TRUE
             /\ hw' = hw \cup {p[1]}
    BY <1>0, <2>2, <2>4, <2>5, <2>6, <2>9
  <2> QED BY <1>1, <2>7, <2>8, <2>9
<1>4. CountedServed' /\ HardwareOnlyWhileHeld'
  BY <1>3 DEF CountedServed, HardwareOnlyWhileHeld
<1> QED BY <1>2, <1>4

\* What a disable that is answered with success does to the driver: nothing while the id
\* has another holder, unregister while others use the component, else stop it.  A META
\* disable of a dead component is answered with success all the same.
DropOutcome(p, o) ==
    \/ refEnable[p[1]] > 1 /\ Dropped(p, o, refEnable[p[1]] - 1, refLoad - 1) /\ Stays(o, hw)
    \/ /\ refEnable[p[1]] <= 1 /\ refLoad > 1 /\ Dropped(p, o, refEnable[p[1]] - 1, refLoad - 1)
       /\ Stays(o, hw \ {p[1]}) \/ (~(compSource /\ running) /\ Stays(o, hw))
    \/ Dropped(p, o, 0, 0) /\ Stops(o)

LEMMA DropServes ==
    ASSUME ServeInv, CountsInv', NEW p \in Pair, p \in enabled, NEW o, DropOutcome(p, o),
           faulted = FALSE, UNCHANGED <<window, recover, abandoned>>
    PROVE  CountedServed' /\ DriverSound' /\ HardwareOnlyWhileHeld'
PROOF
<1>0. TypeOK /\ CountsInv /\ CountedServed /\ DriverSound /\ HardwareOnlyWhileHeld /\ p[1] \in Id
  BY PairId DEF ServeInv, CountsInv
<1>1. /\ enabled' = enabled \ {p} /\ raced' = Races(p)
      /\ \/ /\ refEnable[p[1]] > 1 /\ UNCHANGED <<compSource, running, hw, monitored>>
            /\ refEnable' = [refEnable EXCEPT ![p[1]] = refEnable[p[1]] - 1] /\ refLoad' = refLoad - 1
         \/ /\ refEnable[p[1]] <= 1 /\ refLoad > 1 /\ UNCHANGED <<compSource, running, monitored>>
            /\ hw' = hw \ {p[1]} \/ (~(compSource /\ running) /\ hw' = hw)
            /\ refEnable' = [refEnable EXCEPT ![p[1]] = refEnable[p[1]] - 1] /\ refLoad' = refLoad - 1
         \/ /\ compSource' = FALSE /\ running' = FALSE /\ monitored' = FALSE /\ hw' = {}
            /\ refLoad' = 0
  BY DEF DropOutcome, Dropped, SetDriver, Stays, Stops
<1>2. DriverSound'
  BY <1>0, <1>1 DEF DriverSound
<1>3. ASSUME ~raced', recover' = 0
      PROVE  /\ \A q \in Counted' : q[1] \in hw' /\ compSource' = TRUE /\ running' = TRUE /\ monitored' = TRUE
             /\ ~abandoned' => (\A id \in hw' : refEnable'[id] > 0) /\ (running' => refLoad' > 0)
  <2>1. ~raced /\ recover = 0
    BY <1>1, <1>3 DEF Races
  <2>2. Counted' = Counted \ {p} /\ p \in Counted
    BY <1>0, <1>1, <1>3 DEF Counted, Races, TypeOK
  <2>3. /\ refLoad' \in Nat /\ (refLoad' = 0 <=> Counted' = {})
        /\ \A id \in Id : /\ refEnable'[id] \in Nat /\ refEnable'[id] <= refLoad'
                          /\ refEnable'[id] # 0 <=> \E q \in Counted' : q[1] = id
    BY <1>3, CountsThen
  <2>4. \A q \in Counted : q[1] \in hw /\ compSource = TRUE /\ running = TRUE /\ monitored = TRUE
    BY <1>0, <2>1 DEF CountedServed
  <2>5. ~abandoned => \A id \in hw : refEnable[id] > 0
    BY <1>0, <2>1 DEF HardwareOnlyWhileHeld
  <2>6. refEnable \in [Id -> Int] /\ hw \subseteq Id /\ refLoad \in Int
    BY <1>0 DEF TypeOK
  <2>7. CASE /\ refEnable[p[1]] > 1 /\ UNCHANGED <<compSource, running, hw, monitored>>
             /\ refEnable' = [refEnable EXCEPT ![p[1]] = refEnable[p[1]] - 1] /\ refLoad' = refLoad - 1
    <3>1. refEnable'[p[1]] > 0 /\ refLoad' > 0
      BY <1>0, <2>3, <2>6, <2>7
    <3> QED BY <1>0, <2>2, <2>4, <2>5, <2>6, <2>7, <3>1
  <2>8. CASE /\ refEnable[p[1]] <= 1 /\ refLoad > 1 /\ UNCHANGED <<compSource, running, monitored>>
             /\ hw' = hw \ {p[1]} \/ (~(compSource /\ running) /\ hw' = hw)
             /\ refEnable' = [refEnable EXCEPT ![p[1]] = refEnable[p[1]] - 1] /\ refLoad' = refLoad - 1
    <3>1. compSource = TRUE /\ running = TRUE /\ hw' = hw \ {p[1]}
      BY <2>2, <2>4, <2>8
    <3>2. \A q \in Counted' : q[1] # p[1]
      <4>1. refEnable'[p[1]] = 0
        BY <1>0, <2>3, <2>6, <2>8
      <4> QED BY <1>0, <2>3, <4>1
    <3>3. \A q \in Counted' : q[1] \in hw' /\ compSource' = TRUE /\ running' = TRUE /\ monitored' = TRUE
      BY <2>2, <2>4, <2>8, <3>1, <3>2
    <3> QED BY <1>0, <2>5, <2>6, <2>8, <3>1, <3>3
  <2>9. CASE /\ compSource' = FALSE /\ running' = FALSE /\ monitored' = FALSE /\ hw' = {}
             /\ refLoad' = 0
    BY <2>3, <2>9
  <2> QED BY <1>1, <2>7, <2>8, <2>9
<1>4. CountedServed' /\ HardwareOnlyWhileHeld'
  BY <1>3 DEF CountedServed, HardwareOnlyWhileHeld
<1> QED BY <1>2, <1>4

\* A disable that fails leaves the counts alone, and the driver too if that did not fail.
LEMMA FailedServes ==
    ASSUME ServeInv, UNCHANGED <<window, recover, tasks, abandoned, want>>,
           NEW o \in Outcomes, Failed(o), o.fault = FALSE => Stays(o, hw)
    PROVE  WantsServed' /\ CountedServed' /\ DriverSound' /\ HardwareOnlyWhileHeld'
PROOF
<1>0. TypeOK /\ WantsServed /\ CountedServed /\ DriverSound /\ HardwareOnlyWhileHeld /\ faulted \in BOOLEAN
  BY DEF ServeInv, CountsInv, TypeOK
<1>1. faulted' = (faulted \/ o.fault) /\ o.fault \in BOOLEAN
  BY DEF Failed, Outcomes
<1>2. WantsServed'
  BY <1>0, <1>1 DEF WantsServed, Failed, counts
<1>3. CASE ~faulted'
  <2>1. ~faulted /\ ~o.fault
    BY <1>1, <1>3, Zenon
  <2>2. faulted = FALSE /\ faulted' = FALSE /\ Stays(o, hw)
    BY <1>0, <1>1, <2>1
  <2>3. UNCHANGED <<refEnable, refLoad, enabled, compSource, running, hw, monitored, raced, faulted>>
    BY <2>2 DEF Failed, counts, SetDriver, Stays
  <2>4. CountedServed' /\ DriverSound' /\ HardwareOnlyWhileHeld'
    BY <1>0, <2>3, SameServes
  <2> QED BY <1>2, <2>4
<1>4. CASE ~~faulted'
  BY <1>2, <1>4 DEF CountedServed, DriverSound, HardwareOnlyWhileHeld
<1> QED BY <1>3, <1>4

\* DisableSourceInternal and DisableMetaSource, whose branches have the same shape.
LEMMA DisableServes ==
    ASSUME ServeInv, CountsInv', NEW p \in Pair, UNCHANGED <<window, recover, tasks, abandoned>>,
           \/ UNCHANGED <<counts, driver, raced, faulted>> /\ want' \subseteq want
           \/ /\ p \in enabled /\ refEnable[p[1]] > 1
              /\ Dropped(p, Outcome(TRUE, FALSE, Now), refEnable[p[1]] - 1, refLoad - 1)
           \/ /\ p \in enabled /\ refEnable[p[1]] <= 1 /\ refLoad > 1
              /\ \E o \in Unregister(p[1], Now) :
                    \/ Dropped(p, o, refEnable[p[1]] - 1, refLoad - 1)
                    \/ ~o.ok /\ Failed(o) /\ UNCHANGED want
           \/ /\ p \in enabled
              /\ \E o \in RealDisableSource(p[1]) \cup DisableMetaSourceInternal(p[1]) :
                    \/ o.ok /\ Dropped(p, o, 0, 0)
                    \/ ~o.ok /\ Failed(o) /\ UNCHANGED want
    PROVE  WantsServed' /\ CountedServed' /\ DriverSound' /\ HardwareOnlyWhileHeld'
PROOF
<1>0. /\ TypeOK /\ WantsServed /\ CountedServed /\ DriverSound /\ HardwareOnlyWhileHeld
      /\ p[1] \in Id /\ faulted \in BOOLEAN
  BY PairId DEF ServeInv, CountsInv, TypeOK
<1> DEFINE Served == CountedServed' /\ DriverSound' /\ HardwareOnlyWhileHeld'
<1>1. CASE UNCHANGED <<counts, driver, raced, faulted>> /\ want' \subseteq want
  <2>1. Served
    BY <1>0, <1>1, SameServes DEF counts, driver
  <2>2. WantsServed'
    BY <1>0, <1>1 DEF WantsServed, counts
  <2> QED BY <2>1, <2>2
<1>2. ASSUME NEW o \in Outcomes, p \in enabled, NEW e, NEW l, Dropped(p, o, e, l),
             o.fault = FALSE => DropOutcome(p, o)
      PROVE  WantsServed' /\ Served
  <2>1. faulted' = (faulted \/ o.fault) /\ o.fault \in BOOLEAN
    BY <1>2 DEF Dropped, Outcomes
  <2>2. WantsServed'
    BY <1>0, <1>2, <2>1 DEF WantsServed, Dropped
  <2>3. CASE ~faulted'
    <3>1. ~faulted /\ ~o.fault
      BY <2>1, <2>3, Zenon
    <3>2. faulted = FALSE /\ o.fault = FALSE
      BY <1>0, <2>1, <3>1
    <3>3. DropOutcome(p, o)
      BY <1>2, <3>2
    <3> QED BY <1>2, <2>2, <3>2, <3>3, DropServes
  <2>4. CASE ~~faulted'
    BY <2>2, <2>4 DEF CountedServed, DriverSound, HardwareOnlyWhileHeld
  <2> QED BY <2>3, <2>4
<1>3. ASSUME NEW o \in Outcomes, Failed(o), UNCHANGED want, o.fault = FALSE => Stays(o, hw)
      PROVE  WantsServed' /\ Served
  BY <1>3, FailedServes
<1> HIDE DEF Served
<1>4. CASE /\ p \in enabled /\ refEnable[p[1]] > 1
           /\ Dropped(p, Outcome(TRUE, FALSE, Now), refEnable[p[1]] - 1, refLoad - 1)
  <2> DEFINE o == Outcome(TRUE, FALSE, Now)
  <2>1. o \in Outcomes
    BY <1>0, NowOutcome
  <2>2. o.d = Now
    BY OutcomeFields
  <2> HIDE DEF o
  <2>3. Stays(o, hw)
    BY <2>2, NowFields DEF Stays
  <2>4. Dropped(p, o, refEnable[p[1]] - 1, refLoad - 1)
    BY <1>4 DEF o
  <2>5. DropOutcome(p, o)
    BY <1>4, <2>3, <2>4 DEF DropOutcome
  <2>6. WantsServed' /\ Served
    BY <1>2, <1>4, <2>1, <2>4, <2>5
  <2> QED BY <2>6 DEF Served
<1>5. ASSUME NEW o \in Unregister(p[1], Now), p \in enabled, refEnable[p[1]] <= 1, refLoad > 1,
             \/ Dropped(p, o, refEnable[p[1]] - 1, refLoad - 1)
             \/ ~o.ok /\ Failed(o) /\ UNCHANGED want
      PROVE  WantsServed' /\ Served
  <2>1. o \in Outcomes
    BY <1>0, NowTyped, UnregisterTyped
  <2>2. o.fault = FALSE => \/ o.ok = TRUE /\ compSource /\ running /\ Stays(o, hw \ {p[1]})
                           \/ o.ok = FALSE /\ ~(compSource /\ running) /\ Stays(o, hw)
    BY <1>0, UnregisterQuiet
  <2>3. CASE Dropped(p, o, refEnable[p[1]] - 1, refLoad - 1)
    <3>1. o.fault = FALSE => DropOutcome(p, o)
      BY <1>5, <2>2, <2>3 DEF DropOutcome
    <3> QED BY <1>2, <1>5, <2>1, <2>3, <3>1
  <2>4. CASE ~o.ok /\ Failed(o) /\ UNCHANGED want
    <3>1. o.fault = FALSE => Stays(o, hw)
      BY <2>2, <2>4
    <3> QED BY <1>3, <2>1, <2>4, <3>1
  <2> QED BY <1>5, <2>3, <2>4
<1>6. ASSUME NEW o \in RealDisableSource(p[1]) \cup DisableMetaSourceInternal(p[1]), p \in enabled,
             \/ o.ok /\ Dropped(p, o, 0, 0)
             \/ ~o.ok /\ Failed(o) /\ UNCHANGED want
      PROVE  WantsServed' /\ Served
  <2>1. o \in Outcomes
    BY <1>0, RealDisableTyped
  <2>2. o.fault = FALSE => \/ o.ok = TRUE /\ Stops(o)
                           \/ o.ok = FALSE /\ Stays(o, hw)
    BY <1>0, RealDisableQuiet
  <2>3. CASE o.ok /\ Dropped(p, o, 0, 0)
    <3>1. o.fault = FALSE => DropOutcome(p, o)
      BY <2>2, <2>3 DEF DropOutcome
    <3> QED BY <1>2, <1>6, <2>1, <2>3, <3>1
  <2>4. CASE ~o.ok /\ Failed(o) /\ UNCHANGED want
    <3>1. o.fault = FALSE => Stays(o, hw)
      BY <2>2, <2>4
    <3> QED BY <1>3, <2>1, <2>4, <3>1
  <2> QED BY <1>6, <2>3, <2>4
<1> QED BY <1>1, <1>4, <1>5, <1>6, Zenon DEF Served

\* ForceDisableSourceInternal takes the hardware away from all its holders at once.
LEMMA ForceServes ==
    ASSUME ServeInv, CountsInv', NEW id \in Id, ForceDisableSourceInternal(id)
    PROVE  WantsServed' /\ CountedServed' /\ DriverSound' /\ HardwareOnlyWhileHeld'
PROOF
<1>0. TypeOK /\ WantsServed /\ CountedServed /\ DriverSound /\ HardwareOnlyWhileHeld /\ faulted \in BOOLEAN
  BY DEF ServeInv, CountsInv, TypeOK
<1>1. UNCHANGED <<window, recover, tasks, abandoned>>
  BY DEF ForceDisableSourceInternal, recovery
<1>2. PICK u \in Unregister(id, Now) :
         \/ ~u.ok /\ Failed(u) /\ UNCHANGED want
         \/ /\ u.ok
            /\ refLoad' = refLoad - refEnable[id] /\ refEnable' = [refEnable EXCEPT ![id] = 0]
            /\ enabled' = {p \in enabled : p[1] # id} /\ want' = {p \in want : p[1] # id}
            /\ \E o \in IF refLoad' > 0 THEN {u} ELSE StopSourceAndUninit(u.d) :
                  SetDriver(o.d) /\ faulted' = (faulted \/ u.fault \/ o.fault)
            /\ UNCHANGED raced
  BY Zenon DEF ForceDisableSourceInternal
<1>3. u \in Outcomes
  BY <1>0, NowTyped, UnregisterTyped
<1>4. u.fault = FALSE => \/ u.ok = TRUE /\ compSource /\ running /\ Stays(u, hw \ {id})
                         \/ u.ok = FALSE /\ ~(compSource /\ running) /\ Stays(u, hw)
  BY <1>0, UnregisterQuiet
<1>5. CASE ~u.ok /\ Failed(u) /\ UNCHANGED want
  <2>1. u.fault = FALSE => Stays(u, hw)
    BY <1>4, <1>5
  <2> QED BY <1>1, <1>3, <1>5, <2>1, FailedServes
<1>6. CASE /\ u.ok
           /\ refLoad' = refLoad - refEnable[id] /\ refEnable' = [refEnable EXCEPT ![id] = 0]
           /\ enabled' = {p \in enabled : p[1] # id} /\ want' = {p \in want : p[1] # id}
           /\ \E o \in IF refLoad' > 0 THEN {u} ELSE StopSourceAndUninit(u.d) :
                 SetDriver(o.d) /\ faulted' = (faulted \/ u.fault \/ o.fault)
           /\ UNCHANGED raced
  <2>1. PICK o \in IF refLoad' > 0 THEN {u} ELSE StopSourceAndUninit(u.d) :
           SetDriver(o.d) /\ faulted' = (faulted \/ u.fault \/ o.fault)
    BY <1>6
  <2>2. u.d \in Driver /\ u.fault \in BOOLEAN
    BY <1>3 DEF Outcomes
  <2>3. o \in Outcomes /\ o.fault \in BOOLEAN
    <3>1. StopSourceAndUninit(u.d) \subseteq Outcomes
      BY <2>2, StopTyped
    <3>2. o \in Outcomes
      BY <1>3, <2>1, <3>1
    <3> QED BY <3>2 DEF Outcomes
  <2>4. WantsServed'
    BY <1>0, <1>1, <1>6, <2>1, <2>2, <2>3 DEF WantsServed
  <2>5. CASE ~faulted'
    <3>1. ~faulted /\ ~u.fault /\ ~o.fault
      BY <2>1, <2>5, Zenon
    <3>2. faulted = FALSE /\ u.fault = FALSE /\ o.fault = FALSE
      BY <1>0, <2>2, <2>3, <3>1
    <3>3. compSource = TRUE /\ running = TRUE /\ Stays(u, hw \ {id})
      BY <1>0, <1>4, <1>6, <3>2 DEF TypeOK
    <3>4. \/ refLoad' > 0 /\ UNCHANGED <<compSource, running, monitored>> /\ hw' = hw \ {id}
          \/ /\ ~(refLoad' > 0) /\ compSource' = FALSE /\ running' = FALSE /\ monitored' = FALSE
             /\ hw' = {}
      <4>1. CASE refLoad' > 0
        BY <2>1, <3>3, <4>1 DEF SetDriver, Stays
      <4>2. CASE ~(refLoad' > 0)
        <5>1. u.d.comp = TRUE /\ o \in StopSourceAndUninit(u.d)
          BY <2>1, <3>3, <4>2 DEF Stays
        <5>2. Stops(o)
          BY <2>2, <3>2, <5>1, StopQuiet
        <5> QED BY <2>1, <4>2, <5>2 DEF SetDriver, Stops
      <4> QED BY <4>1, <4>2
    <3>5. DriverSound'
      BY <1>0, <1>1, <3>2, <3>4 DEF DriverSound
    <3>6. ASSUME ~raced', recover' = 0
          PROVE  /\ \A q \in Counted' : q[1] \in hw' /\ compSource' = TRUE /\ running' = TRUE /\ monitored' = TRUE
                 /\ ~abandoned' => (\A i \in hw' : refEnable'[i] > 0) /\ (running' => refLoad' > 0)
      <4>1. Counted' = {q \in Counted : q[1] # id}
        BY <1>1, <1>6 DEF Counted
      <4>2. refLoad' \in Nat /\ (refLoad' = 0 <=> Counted' = {})
        BY <3>6, CountsThen
      <4>3. \A q \in Counted : q[1] \in hw /\ compSource = TRUE /\ running = TRUE /\ monitored = TRUE
        BY <1>0, <1>1, <1>6, <3>2, <3>6 DEF CountedServed
      <4>4. ~abandoned => \A i \in hw : refEnable[i] > 0
        BY <1>0, <1>1, <1>6, <3>2, <3>6 DEF HardwareOnlyWhileHeld
      <4>5. refEnable \in [Id -> Int] /\ hw \subseteq Id
        BY <1>0 DEF TypeOK
      <4>6. CASE refLoad' > 0 /\ UNCHANGED <<compSource, running, monitored>> /\ hw' = hw \ {id}
        BY <1>1, <1>6, <4>1, <4>3, <4>4, <4>5, <4>6
      <4>7. CASE /\ ~(refLoad' > 0) /\ compSource' = FALSE /\ running' = FALSE /\ monitored' = FALSE
                 /\ hw' = {}
        BY <4>2, <4>7
      <4> QED BY <3>4, <4>6, <4>7
    <3>7. CountedServed' /\ HardwareOnlyWhileHeld'
      BY <3>6 DEF CountedServed, HardwareOnlyWhileHeld
    <3> QED BY <2>4, <3>5, <3>7
  <2>6. CASE ~~faulted'
    BY <2>4, <2>6 DEF CountedServed, DriverSound, HardwareOnlyWhileHeld
  <2> QED BY <2>5, <2>6
<1> QED BY <1>2, <1>5, <1>6

\* EnableSourceInternal, called by an application, by an ENABLE task or by a recovery's task.
LEMMA EnableInternalServes ==
    ASSUME ServeInv, CountsInv', NEW p \in Pair, EnableSourceInternal(p), UNCHANGED <<window, recover>>
    PROVE  /\ CountedServed' /\ DriverSound' /\ HardwareOnlyWhileHeld'
           /\ ~faulted' => ~faulted /\ enabled' = enabled \cup {p}
PROOF
<1>0. TypeOK /\ CountedServed /\ DriverSound /\ HardwareOnlyWhileHeld /\ abandoned' = abandoned
  BY DEF ServeInv, CountsInv, EnableSourceInternal
<1>1. CASE p \in enabled /\ UNCHANGED <<counts, driver, raced, faulted>>
  <2>1. CountedServed' /\ DriverSound' /\ HardwareOnlyWhileHeld'
    BY <1>0, <1>1, SameServes DEF counts, driver
  <2> QED BY <1>1, <2>1 DEF counts
<1>2. CASE p \notin enabled /\ TakeSource(p, refEnable[p[1]] # 0, refLoad # 0)
  <2>1. CountedServed' /\ DriverSound' /\ HardwareOnlyWhileHeld'
    BY <1>0, <1>2, TakeServes
  <2>2. ~faulted' => faulted = FALSE /\ enabled' = enabled \cup {p}
    BY <1>0, <1>2, TakeQuiet
  <2> QED BY <2>1, <2>2
<1> QED BY <1>1, <1>2, Zenon DEF EnableSourceInternal

LEMMA ServeStep == ServeInv /\ [Next]_vars => ServeInv'
PROOF
<1> SUFFICES ASSUME ServeInv, [Next]_vars
             PROVE  WantsServed' /\ CountedServed' /\ DriverSound' /\ HardwareOnlyWhileHeld'
  BY CountsStep DEF ServeInv
<1>0. /\ CountsInv' /\ TypeOK /\ CountsInv
      /\ WantsServed /\ CountedServed /\ DriverSound /\ HardwareOnlyWhileHeld
  BY CountsStep DEF ServeInv, CountsInv
<1>1. ASSUME NEW p \in Pair, EnableSource(p)
      PROVE  WantsServed' /\ CountedServed' /\ DriverSound' /\ HardwareOnlyWhileHeld'
  <2>1. EnableSourceInternal(p) /\ UNCHANGED <<window, recover, tasks>> /\ want' \subseteq want \cup {p}
    BY <1>1 DEF EnableSource, recovery
  <2>2. /\ CountedServed' /\ DriverSound' /\ HardwareOnlyWhileHeld'
        /\ ~faulted' => ~faulted /\ enabled' = enabled \cup {p}
    BY <1>0, <2>1, EnableInternalServes
  <2>3. WantsServed'
    BY <1>0, <2>1, <2>2 DEF WantsServed
  <2> QED BY <2>2, <2>3
<1>2. ASSUME NEW p \in Pair, DisableSourceInternal(p)
      PROVE  WantsServed' /\ CountedServed' /\ DriverSound' /\ HardwareOnlyWhileHeld'
  <2>1. UNCHANGED <<window, recover, tasks, abandoned>>
    BY <1>2 DEF DisableSourceInternal, recovery
  <2>2. \/ UNCHANGED <<counts, driver, raced, faulted>> /\ want' = want \ {p}
        \/ /\ p \in enabled /\ refEnable[p[1]] > 1
           /\ Dropped(p, Outcome(TRUE, FALSE, Now), refEnable[p[1]] - 1, refLoad - 1)
        \/ /\ p \in enabled /\ refEnable[p[1]] <= 1 /\ refLoad > 1
           /\ \E o \in Unregister(p[1], Now) :
                 \/ Dropped(p, o, refEnable[p[1]] - 1, refLoad - 1)
                 \/ ~o.ok /\ Failed(o) /\ UNCHANGED want
        \/ /\ p \in enabled
           /\ \E o \in RealDisableSource(p[1]) :
                 \/ o.ok /\ Dropped(p, o, 0, 0)
                 \/ ~o.ok /\ Failed(o) /\ UNCHANGED want
    BY <1>2, Zenon DEF DisableSourceInternal
  <2> QED BY <1>0, <2>1, <2>2, DisableServes
<1>3. ASSUME NEW id \in Id, EnableMetaSource(id)
      PROVE  WantsServed' /\ CountedServed' /\ DriverSound' /\ HardwareOnlyWhileHeld'
  <2> DEFINE p == <<id, AutoKey>>
  <2>1. UNCHANGED <<window, recover, tasks, abandoned, want>>
    BY <1>3 DEF EnableMetaSource, recovery
  <2>2. p \in Pair /\ p[1] = id
    BY SourceConstants DEF Pair
  <2>3. CASE UNCHANGED <<counts, driver, raced, faulted>>
    <3>1. CountedServed' /\ DriverSound' /\ HardwareOnlyWhileHeld'
      BY <1>0, <2>1, <2>3, SameServes DEF counts, driver
    <3>2. WantsServed'
      BY <1>0, <2>1, <2>3 DEF WantsServed, counts
    <3> QED BY <3>1, <3>2
  <2>4. CASE p \notin enabled /\ TakeSource(p, refEnable[id] > 0, refLoad > 0)
    <3>1. /\ refEnable[p[1]] \in Nat => ((refEnable[id] > 0) <=> refEnable[p[1]] # 0)
          /\ refLoad \in Nat => ((refLoad > 0) <=> refLoad # 0)
          /\ (refEnable[id] > 0) \in BOOLEAN /\ (refLoad > 0) \in BOOLEAN
      BY <2>2
    <3> HIDE DEF p
    <3>2. CountedServed' /\ DriverSound' /\ HardwareOnlyWhileHeld'
      BY <1>0, <2>1, <2>2, <2>4, <3>1, TakeServes
    <3>3. ~faulted' => faulted = FALSE /\ enabled' = enabled \cup {p}
      BY <1>0, <2>2, <2>4, <3>1, TakeQuiet
    <3>4. WantsServed'
      BY <1>0, <2>1, <3>3 DEF WantsServed
    <3> QED BY <3>2, <3>4
  <2> QED BY <1>3, <2>3, <2>4, Zenon DEF EnableMetaSource
<1>4. ASSUME NEW id \in Id, DisableMetaSource(id)
      PROVE  WantsServed' /\ CountedServed' /\ DriverSound' /\ HardwareOnlyWhileHeld'
  <2> DEFINE p == <<id, AutoKey>>
  <2>1. UNCHANGED <<window, recover, tasks, abandoned>>
    BY <1>4 DEF DisableMetaSource, recovery
  <2>2. p \in Pair /\ p[1] = id
    BY SourceConstants DEF Pair
  <2>3. \/ UNCHANGED <<counts, driver, raced, faulted>> /\ want' = want
        \/ /\ p \in enabled /\ refEnable[id] > 1
           /\ Dropped(p, Outcome(TRUE, FALSE, Now), refEnable[id] - 1, refLoad - 1)
        \/ /\ p \in enabled /\ refEnable[id] <= 1 /\ refLoad > 1
           /\ \E o \in Unregister(id, Now) : Dropped(p, o, refEnable[id] - 1, refLoad - 1)
        \/ /\ p \in enabled
           /\ \E o \in DisableMetaSourceInternal(id) :
                 \/ o.ok /\ Dropped(p, o, 0, 0)
                 \/ ~o.ok /\ Failed(o) /\ UNCHANGED want
    BY <1>4, Zenon DEF DisableMetaSource
  <2> HIDE DEF p
  <2> QED BY <1>0, <2>1, <2>2, <2>3, DisableServes
<1>5. ASSUME NEW id \in Id, ForceDisableSourceInternal(id)
      PROVE  WantsServed' /\ CountedServed' /\ DriverSound' /\ HardwareOnlyWhileHeld'
  BY <1>0, <1>5, ForceServes
<1>6. CASE SourceDies
  <2>1. WantsServed' /\ DriverSound' /\ HardwareOnlyWhileHeld'
    BY <1>0, <1>6 DEF SourceDies, WantsServed, DriverSound, HardwareOnlyWhileHeld, counts
  <2>2. CountedServed'
    <3> SUFFICES ASSUME ~faulted', ~raced', recover' = 0, NEW q \in Counted' PROVE FALSE
      BY DEF CountedServed
    <3>1. Counted' = Counted /\ monitored \in BOOLEAN /\ recover \in Nat
      BY <1>0, <1>6 DEF SourceDies, Counted, counts, TypeOK
    <3>2. monitored = FALSE /\ recover = 0
      BY <1>6, <3>1 DEF SourceDies
    <3> QED BY <1>0, <1>6, <3>1, <3>2 DEF SourceDies, CountedServed
  <2> QED BY <2>1, <2>2
<1>7. CASE SinkDies
  <2>1. WantsServed' /\ DriverSound'
    BY <1>0, <1>7 DEF SinkDies, WantsServed, DriverSound, counts, driver
  <2>2. recover' # 0
    BY <1>0, <1>7 DEF SinkDies, TypeOK
  <2> QED BY <2>1, <2>2 DEF CountedServed, HardwareOnlyWhileHeld
<1>8. CASE ResetSourceEnableStatus
  <2>1. Counted' = {}
    BY <1>0, <1>8 DEF ResetSourceEnableStatus, Counted, TypeOK
  <2>2. CountedServed'
    BY <2>1 DEF CountedServed
  <2>3. ~faulted' => ~faulted
    BY <1>8, Zenon DEF ResetSourceEnableStatus
  <2>4. want \subseteq Active /\ want' = want /\ enabled' = enabled \cap Active /\ tasks \subseteq tasks'
    BY <1>0, <1>8 DEF ResetSourceEnableStatus, TypeOK
  <2>5. WantsServed'
    BY <1>0, <2>3, <2>4 DEF WantsServed
  <2>6. running' = running /\ hw' = hw /\ running \in BOOLEAN /\ (~abandoned' => running = FALSE)
    <3>1. ~abandoned' => ~running
      BY <1>8, Zenon DEF ResetSourceEnableStatus
    <3> QED BY <1>0, <1>8, <3>1 DEF ResetSourceEnableStatus, TypeOK
  <2>7. DriverSound'
    BY <1>0, <2>3, <2>6 DEF DriverSound
  <2>8. HardwareOnlyWhileHeld'
    BY <1>0, <2>3, <2>6 DEF DriverSound, HardwareOnlyWhileHeld
  <2> QED BY <2>2, <2>5, <2>7, <2>8
<1>9. CASE RecoverActiveEnableSource
  <2>1. Counted' = Counted
    BY <1>9 DEF RecoverActiveEnableSource, Counted
  <2>2. CountedServed' /\ DriverSound' /\ HardwareOnlyWhileHeld'
    BY <1>0, <1>9, <2>1 DEF RecoverActiveEnableSource, CountedServed, DriverSound, HardwareOnlyWhileHeld, driver
  <2>3. WantsServed'
    BY <1>0, <1>9 DEF RecoverActiveEnableSource, WantsServed
  <2> QED BY <2>2, <2>3
<1>10. ASSUME NEW p \in tasks, RunRecoverTask(p)
       PROVE  WantsServed' /\ CountedServed' /\ DriverSound' /\ HardwareOnlyWhileHeld'
  <2>1. /\ p \in Pair /\ EnableSourceInternal(p) /\ UNCHANGED <<window, recover, want>>
        /\ tasks' = tasks \ {p}
    BY <1>0, <1>10 DEF RunRecoverTask, TypeOK
  <2>2. /\ CountedServed' /\ DriverSound' /\ HardwareOnlyWhileHeld'
        /\ ~faulted' => ~faulted /\ enabled' = enabled \cup {p}
    BY <1>0, <2>1, EnableInternalServes
  <2>3. WantsServed'
    BY <1>0, <2>1, <2>2 DEF WantsServed
  <2> QED BY <2>2, <2>3
<1>11. CASE UNCHANGED vars
  <2>1. CountedServed' /\ DriverSound' /\ HardwareOnlyWhileHeld'
    BY <1>0, <1>11, SameServes DEF vars, counts, driver, recovery
  <2>2. WantsServed'
    BY <1>0, <1>11 DEF vars, counts, recovery, WantsServed
  <2> QED BY <2>1, <2>2
<1> QED BY <1>1, <1>2, <1>3, <1>4, <1>5, <1>6, <1>7, <1>8, <1>9, <1>10, <1>11 DEF Next

LEMMA ServeInit == Init => ServeInv
PROOF
<1> SUFFICES ASSUME Init PROVE ServeInv
  OBVIOUS
<1>1. CountsInv
  BY CountsInit
<1>2. Counted = {}
  BY DEF Init, Counted
<1> QED BY <1>1, <1>2 DEF Init, ServeInv, WantsServed, CountedServed, DriverSound, HardwareOnlyWhileHeld

\* While the driver fails in no other way than by dying, every business that EnableSource
\* told "enabled" is ENABLED again once recovery has settled, and every remote hardware
\* with a holder is registered with a running, watched driver: no order of enable,
\* disable, META, offline and recovery steps leaves a holder without its hardware.
THEOREM SourceServesHolders == Spec => []SettledSourceServesHolders
PROOF
<1>1. ServeInv => SettledSourceServesHolders
  <2> SUFFICES ASSUME ServeInv, Settled, ~faulted
               PROVE  /\ want \subseteq enabled
                      /\ ~raced => \A p \in enabled : p[1] \in hw /\ compSource /\ running /\ monitored
    BY DEF SettledSourceServesHolders
  <2>1. want \subseteq enabled
    BY DEF ServeInv, WantsServed, Settled
  <2>2. Counted = enabled
    BY DEF Counted, Settled
  <2> QED BY <2>1, <2>2 DEF ServeInv, CountedServed, Settled
<1> QED BY <1>1, ServeInit, ServeStep, PTL DEF Spec

\* While the driver does not fail and no reset dropped a live component, DisableSource,
\* the META disable and ForceDisableSource leave nothing registered that has no holder,
\* and no driver running without one.
THEOREM SourceHardwareHeld == Spec => []HardwareOnlyWhileHeld
PROOF
<1>1. ServeInv => HardwareOnlyWhileHeld
  BY DEF ServeInv
<1> QED BY <1>1, ServeInit, ServeStep, PTL DEF Spec

=============================================================================

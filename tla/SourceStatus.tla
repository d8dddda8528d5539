---------------------------- MODULE SourceStatus ----------------------------
(***************************************************************************)
(* The source side of ComponentManager for one dhType: the reference       *)
(* counts of dhSourceStatus_[dhType], the component compSource_[dhType],   *)
(* its system ability (SA) and the remote hardware registered with it.     *)
(*                                                                         *)
(* An id stands for a DHStatusSourceEnableInfoKey (networkId, dhId).  Each *)
(* handler that runs under dhSourceStatusMtx_ is one action; the calls to  *)
(* the driver inside it (see ComponentEnable) have the outcomes that       *)
(* Register and Unregister list.                                           *)
(***************************************************************************)
EXTENDS Integers, FiniteSets, RefCounts

CONSTANTS
    Id,         \* the (networkId, dhId) of the remote hardware of this dhType
    Key,        \* DHStatusCtrlKey: the (uid, pid) of a caller
    AutoKey,    \* the key (0, 0) of the framework itself
    IsModem,    \* TRUE for DHType::MODEM, which the META tasks enable
    Faults,     \* the driver failures that may happen, see FaultKinds
    MaxRecover  \* bound: DoRecover calls under way at the same time

FaultKinds ==
    {"load",     \* dlopen of the component fails in InitCompSource
     "init",     \* InitSource returns an error
     "release",  \* ReleaseSource of the driver returns an error
     "unload",   \* ComponentLoader::ReleaseSource returns an error
     "timeout",  \* InitSource or ReleaseSource outlives WaitForResult
     "enable",   \* ComponentManager::Enable fails
     "disable",  \* ComponentManager::Disable fails
     "peer",     \* the sink SA of the same dhType may die
     "watch",    \* ComponentMonitor cannot subscribe to the SA, or finds no
                 \* dhType or process name for the one that died
     "queue"}    \* the queue of TaskExecutor is full and PushTask drops a task

ASSUME SourceConstants ==
    /\ IsFiniteSet(Id) /\ IsFiniteSet(Key)
    /\ AutoKey \in Key
    /\ IsModem \in BOOLEAN
    /\ Faults \subseteq FaultKinds
    /\ MaxRecover \in Nat

VARIABLES
    enableInfos,  \* ids with an entry in status.enableInfos
    refEnable,    \* enableInfo.refEnable of each id, 0 where there is no entry
    refLoad,      \* status.refLoad
    enabled,      \* the <<id, key>> whose enableState is ENABLED
    compSource,   \* compSource_ has the component
    running,      \* the driver SA is initialised
    hw,           \* ids registered with the driver
    monitored,    \* ComponentMonitor is subscribed to the SA
    recover,      \* DoRecover calls that have not reset the source status yet
    window,       \* DoRecover calls between their two locked sections
    tasks,        \* ENABLE tasks that a recovery pushed and nobody ran yet
    raced,        \* history: a business changed its own state in a window
                  \* and the counts were not reset since
    faulted,      \* history: the driver failed in another way than by dying,
                  \* or was dead when an enable reached it, or its death or
                  \* a task of its recovery was lost
    abandoned,    \* history: a reset dropped a component whose SA was alive
    want          \* history: businesses whose last call was answered "enabled"

counts == <<refEnable, refLoad, enabled>>
driver == <<compSource, running, hw, monitored>>
recovery == <<recover, window, tasks>>
vars == <<enableInfos, counts, driver, recovery,
          raced, faulted, abandoned, want>>

Pair == Id \X Key
Active == {p \in Pair : p[2] # AutoKey}

TypeOK ==
    /\ enableInfos \subseteq Id
    /\ refEnable \in [Id -> Int]
    /\ refLoad \in Int
    /\ enabled \subseteq Pair
    /\ compSource \in BOOLEAN /\ running \in BOOLEAN /\ monitored \in BOOLEAN
    /\ hw \subseteq Id
    /\ recover \in Nat /\ window \in Nat
    /\ tasks \subseteq Pair
    /\ want \subseteq Active
    /\ raced \in BOOLEAN /\ faulted \in BOOLEAN /\ abandoned \in BOOLEAN

Init ==
    /\ enableInfos = {} /\ refEnable = [i \in Id |-> 0] /\ refLoad = 0
    /\ enabled = {}
    /\ compSource = FALSE /\ running = FALSE /\ hw = {} /\ monitored = FALSE
    /\ recover = 0 /\ window = 0 /\ tasks = {}
    /\ raced = FALSE /\ faulted = FALSE /\ abandoned = FALSE
    /\ want = {}

-----------------------------------------------------------------------------
(* The component and its driver.  The operators below give the new value d *)
(* of the driver, as a record, and whether the outcome is a fault.         *)

Driver == [comp: BOOLEAN, run: BOOLEAN, hw: SUBSET Id, mon: BOOLEAN]
Now == [comp |-> compSource, run |-> running, hw |-> hw, mon |-> monitored]
SetDriver(d) ==
    /\ compSource' = d.comp /\ running' = d.run
    /\ hw' = d.hw /\ monitored' = d.mon

Unloaded == [comp |-> FALSE, run |-> FALSE, hw |-> {}, mon |-> FALSE]
Outcome(ok, fault, d) == [ok |-> ok, fault |-> fault, d |-> d]
If(kind, outcomes) == IF kind \in Faults THEN outcomes ELSE {}

\* Enable of ComponentManager on driver d: the retries of ComponentEnable are
\* spent, or it has succeeded.  A failure may have come too late to matter to
\* the driver, which then has the hardware registered all the same.  Without a
\* component, or with a dead SA, the call fails.
Register(id, d) ==
    LET on == [d EXCEPT !.hw = @ \cup {id}] IN
    IF ~(d.comp /\ d.run)
    THEN {Outcome(FALSE, TRUE, d)}
    ELSE {Outcome(TRUE, FALSE, on)} \cup
         If("enable", {Outcome(FALSE, TRUE, d), Outcome(FALSE, TRUE, on)})

\* Faulty variant for mutation testing: the driver is not called.
UnregisterSkipped(id, d) == {Outcome(TRUE, FALSE, d)}

\* Disable of ComponentManager on driver d.
Unregister(id, d) ==
    LET off == [d EXCEPT !.hw = @ \ {id}] IN
    IF ~(d.comp /\ d.run)
    THEN {Outcome(FALSE, FALSE, d)}
    ELSE {Outcome(TRUE, FALSE, off)} \cup
         If("disable", {Outcome(FALSE, TRUE, d), Outcome(FALSE, TRUE, off)})

\* InitCompSource, StartSource and WaitForResult.
StartSourceAndWait ==
    LET up(r) == [Now EXCEPT !.comp = TRUE, !.mon = TRUE, !.run = r] IN
    {Outcome(TRUE, FALSE, up(TRUE))} \cup
    If("timeout", {Outcome(TRUE, TRUE, up(r)) : r \in BOOLEAN}) \cup
    If("watch", {Outcome(TRUE, TRUE, [up(TRUE) EXCEPT !.mon = FALSE])}) \cup
    If("load", {Outcome(FALSE, TRUE, Now)}) \cup
    If("init", {Outcome(FALSE, TRUE, Unloaded)} \cup
               If("unload", {Outcome(FALSE, TRUE, [Unloaded EXCEPT !.comp = TRUE])}))

\* StopSource, WaitForResult and UninitCompSource.
StopSourceAndUninit(d) ==
    IF ~d.comp
    THEN {Outcome(FALSE, FALSE, d)}
    ELSE {Outcome(TRUE, FALSE, Unloaded)} \cup
         If("timeout", {Outcome(TRUE, TRUE, [d EXCEPT !.comp = FALSE, !.mon = FALSE])}) \cup
         If("release", {Outcome(FALSE, TRUE, d)}) \cup
         If("unload", {Outcome(FALSE, TRUE, [Unloaded EXCEPT !.comp = TRUE])})

\* StopSource and UninitCompSource on the error path of an enable: nobody waits
\* for the first and the result of the second is ignored.
AbandonSource(d) ==
    {Unloaded} \cup
    If("timeout", {[d EXCEPT !.comp = FALSE, !.mon = FALSE]}) \cup
    If("unload", {[Unloaded EXCEPT !.comp = TRUE]})

\* RealEnableSource and EnableMetaSourceInternal: start the component, then
\* register the hardware; if that fails, give the component up again.
RealEnableSource(id) ==
    UNION {IF ~s.ok THEN {s}
           ELSE UNION {IF r.ok THEN {Outcome(TRUE, s.fault \/ r.fault, r.d)}
                       ELSE {Outcome(FALSE, TRUE, d) : d \in AbandonSource(r.d)}
                       : r \in Register(id, s.d)}
           : s \in StartSourceAndWait}

\* RealDisableSource: unregister the hardware, then stop and unload.  A failure
\* of the second part is returned after the first has taken effect.
RealDisableSource(id) ==
    UNION {IF ~u.ok THEN {u}
           ELSE {Outcome(s.ok, u.fault \/ s.fault, s.d) : s \in StopSourceAndUninit(u.d)}
           : u \in Unregister(id, Now)}

\* DisableMetaSourceInternal: as above, but a failure to disable is ignored.
DisableMetaSourceInternal(id) ==
    UNION {{Outcome(s.ok, u.fault \/ s.fault, s.d) : s \in StopSourceAndUninit(u.d)}
           : u \in Unregister(id, Now)}

-----------------------------------------------------------------------------
(* Enable and disable.                                                     *)

Races(p) == raced \/ (window > 0 /\ p \in Active)

\* The caller p is told "enabled" and the driver ends in o.
Granted(p, o, e, l) ==
    /\ enabled' = enabled \cup {p}
    /\ refEnable' = [refEnable EXCEPT ![p[1]] = e]
    /\ refLoad' = l
    /\ raced' = Races(p)
    /\ SetDriver(o.d) /\ faulted' = (faulted \/ o.fault)

\* Faulty variant for mutation testing: refLoad keeps its old value.
DroppedUncounted(p, o, e, l) ==
    /\ enabled' = enabled \ {p}
    /\ refEnable' = [refEnable EXCEPT ![p[1]] = e]
    /\ want' = want \ {p} /\ raced' = Races(p)
    /\ SetDriver(o.d) /\ faulted' = (faulted \/ o.fault)
    /\ UNCHANGED refLoad

\* The caller p is told "disabled" and the driver ends in o.
Dropped(p, o, e, l) ==
    /\ enabled' = enabled \ {p}
    /\ refEnable' = [refEnable EXCEPT ![p[1]] = e]
    /\ refLoad' = l
    /\ want' = want \ {p} /\ raced' = Races(p)
    /\ SetDriver(o.d) /\ faulted' = (faulted \/ o.fault)

\* The call fails; only the driver and the entry may have changed.
Failed(o) ==
    /\ SetDriver(o.d) /\ faulted' = (faulted \/ o.fault)
    /\ UNCHANGED <<counts, raced>>

\* Faulty variant for mutation testing: a loaded component is shared without
\* registering the hardware, as on the sink side.
TakeSourceUnregistered(p, isShared, isLoaded) ==
    \/ /\ isShared \/ isLoaded
       /\ Granted(p, Outcome(TRUE, FALSE, Now), refEnable[p[1]] + 1, refLoad + 1)
    \/ /\ ~isShared /\ ~isLoaded
       /\ \E o \in RealEnableSource(p[1]) :
            IF o.ok THEN Granted(p, o, 1, 1) ELSE Failed(o)

\* The three ways to enable: share the registration, register with a loaded
\* component, or load the component first.
TakeSource(p, isShared, isLoaded) ==
    LET id == p[1] IN
    \/ /\ isShared
       /\ Granted(p, Outcome(TRUE, FALSE, Now), refEnable[id] + 1, refLoad + 1)
    \/ /\ ~isShared /\ isLoaded
       /\ \E o \in Register(id, Now) :
            IF o.ok THEN Granted(p, o, refEnable[id] + 1, refLoad + 1) ELSE Failed(o)
    \/ /\ ~isShared /\ ~isLoaded
       /\ \E o \in RealEnableSource(id) :
            IF o.ok THEN Granted(p, o, 1, 1) ELSE Failed(o)

EnableSourceInternal(p) ==
    /\ enableInfos' = enableInfos \cup {p[1]}
    /\ UNCHANGED abandoned
    /\ \/ /\ p \in enabled
          /\ UNCHANGED <<counts, driver, raced, faulted>>
       \/ /\ p \notin enabled
          /\ TakeSource(p, refEnable[p[1]] # 0, refLoad # 0)

\* EnableSource by an application or by the ENABLE task of an online device.
EnableSource(p) ==
    /\ EnableSourceInternal(p)
    /\ want' = (IF p \in enabled' THEN want \cup {p} ELSE want \ {p}) \cap Active
    /\ UNCHANGED recovery

DisableSourceInternal(p) ==
    LET id == p[1] IN
    /\ enableInfos' = enableInfos \cup {id}
    /\ UNCHANGED <<recovery, abandoned>>
    /\ \/ /\ p \notin enabled
          /\ want' = want \ {p}
          /\ UNCHANGED <<counts, driver, raced, faulted>>
       \/ /\ p \in enabled /\ refEnable[id] > 1
          /\ Dropped(p, Outcome(TRUE, FALSE, Now), refEnable[id] - 1, refLoad - 1)
       \/ /\ p \in enabled /\ refEnable[id] <= 1 /\ refLoad > 1
          /\ \E o \in Unregister(id, Now) :
               IF o.ok THEN Dropped(p, o, refEnable[id] - 1, refLoad - 1)
               ELSE Failed(o) /\ UNCHANGED want
       \/ /\ p \in enabled /\ refEnable[id] <= 1 /\ refLoad <= 1
          /\ \E o \in RealDisableSource(id) :
               IF o.ok THEN Dropped(p, o, 0, 0) ELSE Failed(o) /\ UNCHANGED want

\* The META tasks of DHType::MODEM, with the key (0, 0).  A repeated call is an
\* error, and a failure of the driver to disable is ignored.
EnableMetaSource(id) ==
    LET p == <<id, AutoKey>> IN
    /\ IsModem
    /\ enableInfos' = enableInfos \cup {id}
    /\ UNCHANGED <<recovery, abandoned, want>>
    /\ \/ /\ p \in enabled
          /\ UNCHANGED <<counts, driver, raced, faulted>>
       \/ /\ p \notin enabled
          /\ TakeSource(p, refEnable[id] > 0, refLoad > 0)

DisableMetaSource(id) ==
    LET p == <<id, AutoKey>> IN
    /\ IsModem
    /\ enableInfos' = enableInfos \cup {id}
    /\ UNCHANGED <<recovery, abandoned>>
    /\ \/ /\ p \notin enabled
          /\ UNCHANGED <<counts, driver, raced, faulted, want>>
       \/ /\ p \in enabled /\ refEnable[id] > 1
          /\ Dropped(p, Outcome(TRUE, FALSE, Now), refEnable[id] - 1, refLoad - 1)
       \/ /\ p \in enabled /\ refEnable[id] <= 1 /\ refLoad > 1
          /\ \E o \in Unregister(id, Now) :
               Dropped(p, o, refEnable[id] - 1, refLoad - 1)
       \/ /\ p \in enabled /\ refEnable[id] <= 1 /\ refLoad <= 1
          /\ \E o \in DisableMetaSourceInternal(id) :
               IF o.ok THEN Dropped(p, o, 0, 0) ELSE Failed(o) /\ UNCHANGED want

\* The auto disable of an offline device's hardware.  The driver must agree
\* before the entry goes; a failed unload is returned after it has gone.
ForceDisableSourceInternal(id) ==
    /\ id \in enableInfos
    /\ \E u \in Unregister(id, Now) :
         IF ~u.ok
         THEN Failed(u) /\ UNCHANGED <<enableInfos, want>>
         ELSE /\ refLoad' = refLoad - refEnable[id]
              /\ refEnable' = [refEnable EXCEPT ![id] = 0]
              /\ enableInfos' = enableInfos \ {id}
              /\ enabled' = {p \in enabled : p[1] # id}
              /\ want' = {p \in want : p[1] # id}
              /\ \E o \in IF refLoad' > 0 THEN {u} ELSE StopSourceAndUninit(u.d) :
                    SetDriver(o.d) /\ faulted' = (faulted \/ u.fault \/ o.fault)
              /\ UNCHANGED raced
    /\ UNCHANGED <<recovery, abandoned>>

-----------------------------------------------------------------------------
(* Recovery.                                                               *)

\* The source SA dies with all it had registered; OnRemoveSystemAbility submits
\* DoRecover if the monitor is subscribed and finds the dhType and the process.
SourceDies ==
    /\ running
    /\ recover + window < MaxRecover
    /\ running' = FALSE /\ hw' = {}
    /\ \/ monitored /\ recover' = recover + 1 /\ UNCHANGED faulted
       \/ ~monitored /\ UNCHANGED <<recover, faulted>>
       \/ monitored /\ "watch" \in Faults /\ faulted' = TRUE /\ UNCHANGED recover
    /\ UNCHANGED <<compSource, monitored, window, tasks, enableInfos, counts,
                   raced, abandoned, want>>

\* The sink SA of the same dhType dies: DoRecover resets both sides.
SinkDies ==
    /\ "peer" \in Faults
    /\ recover + window < MaxRecover
    /\ recover' = recover + 1
    /\ UNCHANGED <<window, tasks, enableInfos, counts, driver,
                   raced, faulted, abandoned, want>>

\* ResetSourceEnableStatus, then RecoverAutoEnableSource, which pushes an
\* ENABLE task for each id with meta data whose device it still knows; the
\* queue may drop it.
ResetSourceEnableStatus ==
    /\ recover > 0
    /\ recover' = recover - 1 /\ window' = window + 1
    /\ refLoad' = 0 /\ refEnable' = [i \in Id |-> 0]
    /\ enabled' = enabled \cap Active
    /\ \/ compSource' = FALSE /\ UNCHANGED faulted
       \/ "unload" \in Faults /\ faulted' = TRUE /\ UNCHANGED compSource
    /\ \E ids \in SUBSET Id : tasks' = tasks \cup {<<i, AutoKey>> : i \in ids}
    /\ raced' = FALSE
    /\ abandoned' = (abandoned \/ running)
    /\ UNCHANGED <<enableInfos, running, hw, monitored, want>>

\* RecoverActiveEnableSource: each active pair that is ENABLED is marked
\* DISABLED and gets an ENABLE task.  A push that the queue refuses is not
\* noticed: the pair stays DISABLED.
RecoverActiveEnableSource ==
    /\ window > 0
    /\ window' = window - 1
    /\ \/ tasks' = tasks \cup (enabled \cap Active) /\ UNCHANGED faulted
       \/ /\ "queue" \in Faults
          /\ \E kept \in SUBSET (enabled \cap Active) : tasks' = tasks \cup kept
          /\ faulted' = TRUE
    /\ enabled' = enabled \ Active
    /\ UNCHANGED <<enableInfos, refEnable, refLoad, driver, recover,
                   raced, abandoned, want>>

\* An ENABLE task of the recovery runs.
RunRecoverTask(p) ==
    /\ p \in tasks
    /\ tasks' = tasks \ {p}
    /\ EnableSourceInternal(p)
    /\ UNCHANGED <<recover, window, want>>

-----------------------------------------------------------------------------
Next ==
    \/ \E p \in Pair : EnableSource(p)
    \/ \E p \in Pair : DisableSourceInternal(p)
    \/ \E id \in Id : EnableMetaSource(id)
    \/ \E id \in Id : DisableMetaSource(id)
    \/ \E id \in Id : ForceDisableSourceInternal(id)
    \/ SourceDies
    \/ SinkDies
    \/ ResetSourceEnableStatus
    \/ RecoverActiveEnableSource
    \/ \E p \in tasks : RunRecoverTask(p)

Spec == Init /\ [][Next]_vars

-----------------------------------------------------------------------------
(* Properties.                                                             *)

\* Between the two steps of a recovery the active pairs are still ENABLED but
\* the counts no longer include them.
Counted == IF window > 0 THEN enabled \ Active ELSE enabled

\* Whatever the driver does, and through any number of recoveries, refEnable
\* of an id is the number of callers it is ENABLED for and refLoad is the sum,
\* as long as no business changed its own state inside a recovery window.
CountsExact == ~raced => ExactCounts(Counted, Id, refEnable, refLoad)

\* No recovery is under way and no task of one is left.
Settled == recover = 0 /\ window = 0 /\ tasks = {}

\* While the driver fails in no other way than by dying, no enable meets a dead
\* driver, and its deaths and the tasks of the recoveries are not lost: once recovery has settled, every business that was told
\* "enabled" is still ENABLED, and every hardware that has a holder is
\* registered with a running, watched driver.
SettledSourceServesHolders ==
    (Settled /\ ~faulted) =>
        /\ want \subseteq enabled
        /\ ~raced => \A p \in enabled :
                        p[1] \in hw /\ compSource /\ running /\ monitored

\* While the driver never fails, no hardware stays registered that nobody
\* holds, unless a recovery dropped a component whose SA had not died.
HardwareOnlyWhileHeld ==
    (~faulted /\ ~raced /\ ~abandoned /\ recover = 0) =>
        /\ \A id \in hw : refEnable[id] > 0
        /\ running => refLoad > 0

=============================================================================

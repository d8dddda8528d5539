----------------------------- MODULE SinkStatus -----------------------------
(***************************************************************************)
(* The sink side of ComponentManager for one dhType: the reference counts  *)
(* of dhSinkStatus_[dhType], the loaded component compSink_[dhType] and    *)
(* the system ability (SA) that runs the driver, with the recovery that    *)
(* ComponentMonitor starts when the SA dies.                               *)
(*                                                                         *)
(* Entries of different dhTypes never meet, so one dhType is modelled.     *)
(* Each handler that runs under dhSinkStatusMtx_ is one action; DoRecover  *)
(* takes the lock twice and so is two actions, between which every other   *)
(* handler may run.                                                        *)
(***************************************************************************)
EXTENDS Integers, FiniteSets, RefCounts

CONSTANTS
    DhId,       \* hardware ids of this dhType
    Key,        \* DHStatusCtrlKey: the (uid, pid) of a caller
    AutoKey,    \* the key (0, 0) of the framework itself
    Faults,     \* the driver failures that may happen, see FaultKinds
    MaxRecover  \* bound: DoRecover calls under way at the same time

FaultKinds ==
    {"load",     \* dlopen of the component fails in InitCompSink
     "init",     \* InitSink returns an error
     "release",  \* ReleaseSink of the driver returns an error
     "unload",   \* ComponentLoader::ReleaseSink returns an error
     "timeout",  \* InitSink or ReleaseSink outlives WaitForResult
     "peer",     \* the source SA of the same dhType may die
     "watch",    \* ComponentMonitor cannot subscribe to the SA, or finds no
                 \* dhType or process name for the one that died
     "queue"}    \* the queue of TaskExecutor is full and PushTask drops a task

ASSUME SinkConstants ==
    /\ IsFiniteSet(DhId) /\ IsFiniteSet(Key)
    /\ AutoKey \in Key
    /\ Faults \subseteq FaultKinds
    /\ MaxRecover \in Nat

VARIABLES
    enableInfos,  \* ids with an entry in status.enableInfos
    refEnable,    \* enableInfo.refEnable of each id, 0 where there is no entry
    refLoad,      \* status.refLoad
    enabled,      \* the <<id, key>> whose enableState is ENABLED
    compSink,     \* compSink_ has the component
    running,      \* the driver SA is initialised
    monitored,    \* ComponentMonitor is subscribed to the SA
    recover,      \* DoRecover calls that have not reset the sink status yet
    window,       \* DoRecover calls between their two locked sections
    tasks,        \* ENABLE tasks that a recovery pushed and nobody ran yet
    raced,        \* history: a business changed its own state in a window
                  \* and the counts were not reset since
    faulted,      \* history: the driver failed in another way than by dying,
                  \* or its death or a task of its recovery was lost
    want          \* history: businesses whose last call was answered "enabled"

status == <<enableInfos, refEnable, refLoad, enabled>>
driver == <<compSink, running, monitored>>
recovery == <<recover, window, tasks>>
history == <<raced, faulted, want>>
vars == <<status, driver, recovery, history>>

Pair == DhId \X Key
Active == {p \in Pair : p[2] # AutoKey}

TypeOK ==
    /\ enableInfos \subseteq DhId
    /\ refEnable \in [DhId -> Int]
    /\ refLoad \in Int
    /\ enabled \subseteq Pair
    /\ compSink \in BOOLEAN /\ running \in BOOLEAN /\ monitored \in BOOLEAN
    /\ recover \in Nat /\ window \in Nat
    /\ tasks \subseteq Pair
    /\ raced \in BOOLEAN /\ faulted \in BOOLEAN
    /\ want \subseteq Active

Init ==
    /\ enableInfos = {} /\ refEnable = [i \in DhId |-> 0] /\ refLoad = 0
    /\ enabled = {}
    /\ compSink = FALSE /\ running = FALSE /\ monitored = FALSE
    /\ recover = 0 /\ window = 0 /\ tasks = {}
    /\ raced = FALSE /\ faulted = FALSE /\ want = {}

-----------------------------------------------------------------------------
(* The component and its driver.                                           *)

\* InitCompSink, StartSink and WaitForResult.  A timeout counts as success,
\* whatever InitSink does in the end.
StartSinkAndWait(ok) ==
    \/ /\ ok = TRUE
       /\ compSink' = TRUE /\ running' = TRUE /\ monitored' = TRUE
       /\ UNCHANGED faulted
    \/ /\ ok = TRUE /\ "timeout" \in Faults
       /\ compSink' = TRUE /\ monitored' = TRUE /\ running' \in BOOLEAN
       /\ faulted' = TRUE
    \/ /\ ok = TRUE /\ "watch" \in Faults
       /\ compSink' = TRUE /\ running' = TRUE /\ monitored' = FALSE
       /\ faulted' = TRUE
    \/ /\ ok = FALSE /\ "load" \in Faults
       /\ faulted' = TRUE
       /\ UNCHANGED driver
    \/ /\ ok = FALSE /\ "init" \in Faults
       /\ compSink' \in (IF "unload" \in Faults THEN BOOLEAN ELSE {FALSE})
       /\ running' = FALSE /\ monitored' = FALSE
       /\ faulted' = TRUE

\* StopSink, WaitForResult and UninitCompSink.  A timeout counts as success,
\* whatever ReleaseSink does in the end.
StopSinkAndUninit(ok) ==
    \/ /\ ok = TRUE /\ compSink
       /\ compSink' = FALSE /\ running' = FALSE /\ monitored' = FALSE
       /\ UNCHANGED faulted
    \/ /\ ok = TRUE /\ compSink /\ "timeout" \in Faults
       /\ compSink' = FALSE /\ monitored' = FALSE /\ running' \in BOOLEAN
       /\ faulted' = TRUE
    \/ /\ ok = FALSE /\ ~compSink
       /\ UNCHANGED <<driver, faulted>>
    \/ /\ ok = FALSE /\ compSink /\ "release" \in Faults
       /\ faulted' = TRUE
       /\ UNCHANGED driver
    \/ /\ ok = FALSE /\ compSink /\ "unload" \in Faults
       /\ running' = FALSE /\ monitored' = FALSE
       /\ faulted' = TRUE
       /\ UNCHANGED compSink

-----------------------------------------------------------------------------
(* Enable and disable.                                                     *)

\* An ACTIVE caller that takes or drops a reference in a recovery window.
Races(p) == raced \/ (window > 0 /\ p \in Active)

\* Faulty variant for mutation testing: refLoad is not counted.
ShareSinkUncounted(p) ==
    /\ enabled' = enabled \cup {p}
    /\ refEnable' = [refEnable EXCEPT ![p[1]] = @ + 1]
    /\ UNCHANGED <<refLoad, driver, faulted>>

\* One more holder of a component that is already loaded.
ShareSink(p) ==
    /\ enabled' = enabled \cup {p}
    /\ refEnable' = [refEnable EXCEPT ![p[1]] = @ + 1]
    /\ refLoad' = refLoad + 1
    /\ UNCHANGED <<driver, faulted>>

\* EnableSinkInternal for a caller that is not ENABLED yet.
TakeSink(p) ==
    \/ /\ refEnable[p[1]] # 0 \/ refLoad # 0
       /\ ShareSink(p)
       /\ raced' = Races(p)
    \/ /\ refEnable[p[1]] = 0 /\ refLoad = 0
       /\ StartSinkAndWait(TRUE)
       /\ enabled' = enabled \cup {p}
       /\ refEnable' = [refEnable EXCEPT ![p[1]] = 1]
       /\ refLoad' = 1
       /\ raced' = Races(p)
    \/ /\ refEnable[p[1]] = 0 /\ refLoad = 0
       /\ StartSinkAndWait(FALSE)
       /\ UNCHANGED <<enabled, refEnable, refLoad, raced>>

EnableSinkInternal(p) ==
    /\ enableInfos' = enableInfos \cup {p[1]}
    /\ \/ /\ p \in enabled
          /\ UNCHANGED <<enabled, refEnable, refLoad, driver, raced, faulted>>
       \/ /\ p \notin enabled
          /\ TakeSink(p)

\* A call of EnableSink by an application or by the ENABLE task of a device
\* that came online.
EnableSink(p) ==
    /\ EnableSinkInternal(p)
    /\ want' = (IF p \in enabled' THEN want \cup {p} ELSE want \ {p}) \cap Active
    /\ UNCHANGED recovery

\* One holder fewer, the component stays loaded.
DropSink(p) ==
    /\ refEnable' = [refEnable EXCEPT ![p[1]] = @ - 1]
    /\ refLoad' = refLoad - 1
    /\ UNCHANGED <<driver, faulted>>

\* Faulty variant for mutation testing: the other ids are forgotten.
StillSharedById(p) == refEnable[p[1]] > 1

\* Somebody else still needs the component.
StillShared(p) == refEnable[p[1]] > 1 \/ refLoad > 1

DisableSinkInternal(p) ==
    /\ enableInfos' = enableInfos \cup {p[1]}
    /\ UNCHANGED recovery
    /\ \/ /\ p \notin enabled
          /\ want' = want \ {p}
          /\ UNCHANGED <<enabled, refEnable, refLoad, driver, raced, faulted>>
       \/ /\ p \in enabled
          /\ StillShared(p)
          /\ DropSink(p)
          /\ enabled' = enabled \ {p}
          /\ want' = want \ {p} /\ raced' = Races(p)
       \/ /\ p \in enabled
          /\ ~StillShared(p)
          /\ StopSinkAndUninit(TRUE)
          /\ refEnable' = [refEnable EXCEPT ![p[1]] = 0]
          /\ refLoad' = 0
          /\ enabled' = enabled \ {p}
          /\ want' = want \ {p} /\ raced' = Races(p)
       \/ /\ p \in enabled
          /\ ~StillShared(p)
          /\ StopSinkAndUninit(FALSE)
          /\ UNCHANGED <<enabled, refEnable, refLoad, raced, want>>

\* The auto disable of a local sink when the last device has gone.  The entry
\* goes first: a failed unload leaves the component loaded with no holder.
ForceDisableSinkInternal(id) ==
    /\ id \in enableInfos
    /\ refLoad' = refLoad - refEnable[id]
    /\ refEnable' = [refEnable EXCEPT ![id] = 0]
    /\ enableInfos' = enableInfos \ {id}
    /\ enabled' = {p \in enabled : p[1] # id}
    /\ want' = {p \in want : p[1] # id}
    /\ \/ refLoad' > 0 /\ UNCHANGED <<driver, faulted>>
       \/ refLoad' <= 0 /\ \E ok \in BOOLEAN : StopSinkAndUninit(ok)
    /\ UNCHANGED <<recovery, raced>>

-----------------------------------------------------------------------------
(* Recovery.                                                               *)

\* The sink SA dies; OnRemoveSystemAbility submits DoRecover if the monitor
\* is subscribed and finds the dhType and the process of the SA.
SinkDies ==
    /\ running
    /\ recover + window < MaxRecover
    /\ running' = FALSE
    /\ \/ monitored /\ recover' = recover + 1 /\ UNCHANGED faulted
       \/ ~monitored /\ UNCHANGED <<recover, faulted>>
       \/ monitored /\ "watch" \in Faults /\ faulted' = TRUE /\ UNCHANGED recover
    /\ UNCHANGED <<compSink, monitored, window, tasks, status, raced, want>>

\* The source SA of the same dhType dies: DoRecover resets both sides.  That
\* its recovery is not started is a death this side does not see.
SourceDies ==
    /\ "peer" \in Faults
    /\ recover + window < MaxRecover
    /\ recover' = recover + 1
    /\ UNCHANGED <<window, tasks, status, driver, history>>

\* ResetSinkEnableStatus: the counts restart at zero and the framework's own
\* pairs are disabled, but an active pair stays ENABLED.  RecoverAutoEnableSink
\* then pushes an ENABLE task for each id of the local meta data; the queue may
\* drop it.
ResetSinkEnableStatus ==
    /\ recover > 0
    /\ recover' = recover - 1 /\ window' = window + 1
    /\ refLoad' = 0 /\ refEnable' = [i \in DhId |-> 0]
    /\ enabled' = enabled \cap Active
    /\ \/ compSink' = FALSE /\ UNCHANGED faulted
       \/ "unload" \in Faults /\ faulted' = TRUE /\ UNCHANGED compSink
    /\ \E ids \in SUBSET DhId : tasks' = tasks \cup {<<i, AutoKey>> : i \in ids}
    /\ raced' = FALSE
    /\ UNCHANGED <<enableInfos, running, monitored, want>>

RecoverActiveNoTask ==
    /\ window > 0
    /\ window' = window - 1
    /\ enabled' = enabled \ Active
    /\ UNCHANGED <<enableInfos, refEnable, refLoad, driver, recover, tasks, raced, faulted, want>>

\* RecoverActiveEnableSink: each active pair that is ENABLED is marked
\* DISABLED and gets an ENABLE task.  A push that the queue refuses is not
\* noticed: the pair stays DISABLED.
RecoverActiveEnableSink ==
    /\ window > 0
    /\ window' = window - 1
    /\ \/ tasks' = tasks \cup (enabled \cap Active) /\ UNCHANGED faulted
       \/ /\ "queue" \in Faults
          /\ \E kept \in SUBSET (enabled \cap Active) : tasks' = tasks \cup kept
          /\ faulted' = TRUE
    /\ enabled' = enabled \ Active
    /\ UNCHANGED <<enableInfos, refEnable, refLoad, driver, recover, raced, want>>

\* An ENABLE task of the recovery runs.
RunRecoverTask(p) ==
    /\ p \in tasks
    /\ tasks' = tasks \ {p}
    /\ EnableSinkInternal(p)
    /\ UNCHANGED <<recover, window, want>>

-----------------------------------------------------------------------------
Next ==
    \/ \E p \in Pair : EnableSink(p)
    \/ \E p \in Pair : DisableSinkInternal(p)
    \/ \E id \in DhId : ForceDisableSinkInternal(id)
    \/ SinkDies
    \/ SourceDies
    \/ ResetSinkEnableStatus
    \/ RecoverActiveEnableSink
    \/ \E p \in tasks : RunRecoverTask(p)

Spec == Init /\ [][Next]_vars

-----------------------------------------------------------------------------
(* Properties.                                                             *)

\* Between the two steps of a recovery the active pairs are still ENABLED but
\* the counts no longer include them.
Counted == IF window > 0 THEN enabled \ Active ELSE enabled

\* Whatever the driver does, and through any number of recoveries, refEnable
\* of an id is the number of callers it is ENABLED for and refLoad is the sum,
\* as long as no business changed its own state inside a recovery window.
CountsExact == ~raced => ExactCounts(Counted, DhId, refEnable, refLoad)

\* No recovery is under way and no task of one is left.
Settled == recover = 0 /\ window = 0 /\ tasks = {}

\* While the driver fails in no other way than by dying, and its deaths and the
\* tasks of the recoveries are not lost: once recovery has settled, every business that was told "enabled" is still ENABLED, and while
\* there is a holder the component is loaded, its SA initialised and watched.
SettledSinkServesHolders ==
    (Settled /\ ~faulted) =>
        /\ want \subseteq enabled
        /\ (~raced /\ enabled # {}) => compSink /\ running /\ monitored

\* The component is unloaded only by a step after which nobody counts on it:
\* the last holder's disable, a forced disable, or the reset of a recovery.
UnloadOnlyWhenUnheld ==
    [][(compSink /\ ~compSink' /\ ~raced') => Counted' = {}]_vars

=============================================================================

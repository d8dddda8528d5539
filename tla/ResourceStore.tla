----------------------------- MODULE ResourceStore -----------------------------
(***************************************************************************)
(* The resource managers: capability, meta, version and local capability   *)
(* information. Each keeps a map in memory in front of a key-value store   *)
(* of the distributed data service, reached through a DBAdapter of its     *)
(* own. A behaviour follows one of the four (rsStore); they share nothing  *)
(* but the name of the task that recovers a store (OtherStoreUnInits).     *)
(*                                                                         *)
(* Threads: the data service's notifications, the event handler that runs  *)
(* the recovery tasks, the managers' own event handler, the tasks of       *)
(* devices that come and go, initialisation and release. A section under   *)
(* the manager's mutex that first looks at DHContext and then writes its   *)
(* map is two steps with rsLock held, since DHContext is not under it.     *)
(***************************************************************************)
EXTENDS Naturals, Sequences, FiniteSets

CONSTANTS
    RsOwn,         \* keys of the hardware of this device
    RsPeers,       \* keys of the hardware of the peers, one for each
    RsValues,      \* contents of a record
    RsMaxChanges,  \* bound: notifications under way
    RsMaxTries,    \* bound: DIED_CHECK_MAX_TIMES
    RsMaxEvents    \* bound: things that happen to the managers from outside

ASSUME RsKeysDistinct == RsOwn \cap RsPeers = {}

RsKeys == RsOwn \cup RsPeers
RsStoreNames == {"cap", "meta", "version", "local"}

VARIABLES
    rsStore,     \* the manager this behaviour is about
    rsKv,        \* the data service runs
    rsAdapter,   \* dbAdapterPtr_ and its kvStoragePtr_: "none", "null", "stale", "open"
    rsOld,       \* a released adapter that is still referred to: "none", "null", "open"
    rsListens,   \* the data service notifies the manager of changes
    rsPosted,    \* the adapters, "current" and "old", with a reInitTask in the queue
    rsRunning,   \* the adapter whose reInitTask runs, or "none"
    rsTries,     \* times
    rsRecover,   \* an EVENT_..._DB_RECOVER waits
    rsSync,      \* the devices SyncRemote... found online
    rsLock,      \* who holds the manager's mutex
    rsDb,        \* the store
    rsCache,     \* globalCapInfoMap_, globalMetaInfoMap_, dhVersions_
    rsChanges,   \* notifications under way, in order
    rsHand,      \* what the notification thread is about to write
    rsOnline,    \* DHContext: peers with an online entry
    rsSyncing,   \* peers whose ON_LINE task has not run
    rsClearing,  \* per peer, offline tasks between RemoveOnlineDeviceIdEntry and ClearOffLineInfo
    rsEnabled,   \* TaskBoard: keys of enabled hardware
    rsTasks,     \* ENABLE and DISABLE tasks pushed and not run
    rsUniniting, \* flagUnInit_
    rsItems,     \* localDHItemsMap_
    rsEvents,    \* events from outside so far
    rsPhase      \* LocalHardwareManager::Init: 4, 3, 2 while three, two, one queries are left, then 1, then 0

kvVars == <<rsStore, rsKv, rsAdapter, rsOld, rsListens>>
recVars == <<rsPosted, rsRunning, rsTries, rsRecover, rsSync>>
dataVars == <<rsDb, rsCache>>
noteVars == <<rsChanges, rsHand>>
devVars == <<rsOnline, rsSyncing, rsClearing>>
taskVars == <<rsEnabled, rsTasks>>
initVars == <<rsUniniting, rsItems, rsPhase, rsEvents>>
rsVars == <<kvVars, recVars, rsLock, dataVars, noteVars, devVars, taskVars, initVars>>

Event == rsEvents < RsMaxEvents /\ rsEvents' = rsEvents + 1
initRest == <<rsUniniting, rsItems, rsPhase>>

Works == rsKv /\ rsAdapter = "open"
Free == rsLock = "free"

RsInit ==
    /\ rsStore \in RsStoreNames
    /\ rsKv = TRUE /\ rsAdapter = "none" /\ rsOld = "none" /\ rsListens = FALSE
    /\ rsPosted = {} /\ rsRunning = "none" /\ rsTries = 0 /\ rsRecover = FALSE /\ rsSync = {}
    /\ rsLock = "free"
    /\ \E v \in RsValues \cup {"none"} :
          rsDb = [k \in RsKeys |-> IF k \in RsOwn \/ rsStore = "cap" THEN v ELSE "none"]
    /\ rsCache = [k \in RsKeys |-> "none"]
    /\ rsChanges = <<>> /\ rsHand = <<>>
    /\ rsOnline = {} /\ rsSyncing = {} /\ rsClearing = [p \in RsPeers |-> 0]
    /\ rsEnabled = {} /\ rsTasks = {}
    /\ rsUniniting = FALSE /\ rsItems = {} /\ rsPhase = 0 /\ rsEvents = 0

(***************************************************************************)
(* Opening and closing a store                                             *)
(***************************************************************************)

\* SubscribeKvStore may fail, and nobody looks at what RegisterChangeListener returns
RegisterChangeListener == rsListens' \in {rsListens, TRUE}

\* MAX_INIT_RETRY_TIMES attempts; the managers' callers ignore a failure
DbInit ==
    \/ rsKv /\ rsAdapter' = "open" /\ RegisterChangeListener
    \/ rsAdapter' = "null" /\ UNCHANGED rsListens

DbInitLocal ==
    /\ \/ rsKv /\ rsAdapter' = "open"
       \/ rsAdapter' = "null"
    /\ UNCHANGED rsListens

\* DistributedHardwareManager::LocalInit: the stores, then the hardware of this device
LocalInitOpens(phase) ==
    /\ Free /\ ~rsUniniting /\ rsAdapter = "none"
    /\ rsPhase' = phase
    /\ UNCHANGED <<rsStore, rsKv, rsOld, recVars, rsLock, dataVars, noteVars, devVars, taskVars, rsUniniting, rsItems, rsEvents>>

CapInit == rsStore = "cap" /\ LocalInitOpens(4) /\ DbInit
MetaInit == rsStore = "meta" /\ LocalInitOpens(4) /\ DbInit
VersionInit == rsStore = "version" /\ LocalInitOpens(2) /\ DbInit
LocalCapInit == rsStore = "local" /\ LocalInitOpens(0) /\ DbInitLocal

\* the factory sets its flag and releases; LocalHardwareManager comes first, VersionManager drops what it knows
ReleaseBegins ==
    /\ Event
    /\ ~rsUniniting /\ rsAdapter # "none" /\ rsPhase = 0
    /\ rsUniniting' = TRUE /\ rsItems' = {}
    /\ rsCache' = IF rsStore = "version" THEN [k \in RsKeys |-> "none"] ELSE rsCache
    /\ UNCHANGED <<kvVars, recVars, rsLock, rsDb, noteVars, devVars, taskVars, rsPhase>>

\* RemoveTask drops every task of that name, before the adapter's mutex is taken
UnInitRemovesTask ==
    /\ rsUniniting /\ Free /\ rsAdapter # "none"
    /\ rsPosted' = {} /\ rsLock' = "uninit"
    /\ UNCHANGED <<kvVars, rsRunning, rsTries, rsRecover, rsSync, dataVars, noteVars, devVars, taskVars, initVars>>

\* a null storage returns early and leaves the death recipient registered, which keeps the adapter alive; a task that
\* runs keeps it alive as well, one that is only posted does not
UnInitCloses ==
    /\ rsLock = "uninit"
    /\ rsOld' = IF rsRunning = "current" \/ rsAdapter = "null" THEN "null" ELSE rsOld
    /\ rsRunning' = IF rsRunning = "current" THEN "old" ELSE rsRunning
    /\ rsPosted' = IF "current" \notin rsPosted THEN rsPosted
                   ELSE (rsPosted \ {"current"}) \cup (IF rsAdapter = "null" THEN {"old"} ELSE {})
    /\ rsAdapter' = "none" /\ rsLock' = "free"
    /\ UNCHANGED <<rsStore, rsKv, rsListens, rsTries, rsRecover, rsSync, dataVars, noteVars, devVars, taskVars, initVars>>

ReleaseEnds ==
    /\ rsUniniting /\ rsAdapter = "none"
    /\ rsUniniting' = FALSE
    /\ UNCHANGED <<kvVars, recVars, rsLock, dataVars, noteVars, devVars, taskVars, rsItems, rsPhase, rsEvents>>

\* another manager's UnInit removes this manager's posted recovery too
OtherStoreUnInits ==
    /\ rsPosted # {} /\ rsUniniting
    /\ rsPosted' = {}
    /\ UNCHANGED <<kvVars, rsRunning, rsTries, rsRecover, rsSync, rsLock, dataVars, noteVars, devVars, taskVars, initVars>>

(***************************************************************************)
(* The data service dies and comes back                                    *)
(***************************************************************************)

\* subscriptions are gone with it; every adapter that ever opened has a death recipient
KvDies ==
    /\ Event
    /\ rsKv /\ rsKv' = FALSE /\ rsListens' = FALSE
    /\ rsAdapter' = IF rsAdapter = "open" THEN "stale" ELSE rsAdapter
    /\ rsPosted' = rsPosted \cup (IF rsAdapter \in {"open", "null"} THEN {"current"} ELSE {})
                            \cup (IF rsOld = "null" /\ rsRunning # "old" THEN {"old"} ELSE {})
    /\ UNCHANGED <<rsStore, rsOld, rsRunning, rsTries, rsRecover, rsSync, rsLock, dataVars, noteVars, devVars, taskVars,
                   initRest>>

KvReturns ==
    /\ ~rsKv /\ rsKv' = TRUE
    /\ UNCHANGED <<rsStore, rsAdapter, rsOld, rsListens, recVars, rsLock, dataVars, noteVars, devVars, taskVars, initVars>>

\* the states ReInit may leave an adapter in; a null storage ends it, and a failure leaves one
ReInitUnchecked(a) == {"null"} \cup (IF rsKv THEN {"open"} ELSE {})

ReInit(a) == IF a = "null" THEN {"null"} ELSE {"null"} \cup (IF rsKv THEN {"open"} ELSE {})

\* the event handler of DHContext runs one task at a time
OnRemoteDied(a) ==
    /\ rsRunning = "none" /\ a \in rsPosted
    /\ rsPosted' = rsPosted \ {a} /\ rsRunning' = a /\ rsTries' = 0
    /\ UNCHANGED <<kvVars, rsRecover, rsSync, rsLock, dataVars, noteVars, devVars, taskVars, initVars>>

\* the task ends with a success, or after the last attempt. autoSync is false in every store, so no listener is registered
Tried(opened) ==
    /\ rsTries' = IF opened \/ rsTries + 1 = RsMaxTries THEN 0 ELSE rsTries + 1
    /\ rsRunning' = IF opened \/ rsTries + 1 = RsMaxTries THEN "none" ELSE rsRunning

\* an event for the manager of the store; the local manager has none
SyncDBForRecover == rsRecover' = (rsRecover \/ rsStore # "local")

DBDiedOpt ==
    \/ /\ rsRunning = "current"
       /\ rsAdapter' \in ReInit(rsAdapter)
       /\ Tried(rsAdapter' = "open")
       /\ IF rsAdapter' = "open" THEN SyncDBForRecover ELSE UNCHANGED rsRecover
       /\ UNCHANGED <<rsStore, rsKv, rsOld, rsListens, rsPosted, rsSync, rsLock, dataVars, noteVars, devVars, taskVars, initVars>>
    \/ /\ rsRunning = "old"
       /\ rsOld' \in ReInit(rsOld)
       /\ Tried(rsOld' = "open")
       /\ UNCHANGED <<rsStore, rsKv, rsAdapter, rsListens, rsPosted, rsRecover, rsSync, rsLock, dataVars, noteVars, devVars,
                      taskVars, initVars>>

\* the manager's event handler: the mutex, the adapter, the devices that are online
RecoverReads ==
    /\ rsRecover /\ Free
    /\ rsRecover' = FALSE
    /\ IF rsAdapter = "none" THEN UNCHANGED <<rsLock, rsSync>> ELSE rsLock' = "recover" /\ rsSync' = rsOnline
    /\ UNCHANGED <<kvVars, rsPosted, rsRunning, rsTries, dataVars, noteVars, devVars, taskVars, initVars>>

\* GetDataByKeyPrefix: the records of S that can be read
Readable(S) == IF Works THEN {k \in S : rsDb[k] # "none"} ELSE {}

\* devices whose records can be read replace what is known of them; records of this device are left alone
RecoverWrites(seen) ==
    /\ rsLock = "recover"
    /\ \E S \in SUBSET Readable(seen) : rsCache' = [k \in RsKeys |-> IF k \in S THEN rsDb[k] ELSE rsCache[k]]
    /\ rsLock' = "free" /\ rsSync' = {}
    /\ UNCHANGED <<kvVars, rsPosted, rsRunning, rsTries, rsRecover, rsDb, noteVars, devVars, taskVars, initVars>>

SyncRemoteCapabilityInfos == rsStore = "cap" /\ RecoverWrites(rsSync)
SyncRemoteMetaInfos == rsStore = "meta" /\ RecoverWrites(rsSync)

\* UpdateVersionCache looks the device up
UpdatesVersionCache(k) == k \in rsOnline

SyncRemoteVersionInfos == rsStore = "version" /\ RecoverWrites({k \in rsSync : UpdatesVersionCache(k)})

(***************************************************************************)
(* The hardware of this device                                             *)
(***************************************************************************)

\* writing to the store and removing from it may fail
PutDataBatch(S, v) ==
    \/ Works /\ rsDb' = [k \in RsKeys |-> IF k \in S THEN v ELSE rsDb[k]]
    \/ UNCHANGED rsDb

PutData(S, v) == PutDataBatch(S, v)

RemoveDataByKey(S) == PutDataBatch(S, "none")

InMap(S, v) == [k \in RsKeys |-> IF k \in S THEN v ELSE rsCache[k]]

\* the map is written first; when the store then fails the two differ
AddCapability(S, v) ==
    /\ rsStore = "cap" /\ Free /\ rsAdapter # "none"
    /\ rsCache' = InMap(S, v) /\ PutDataBatch(S, v)

AddMetaCapInfos(S, v) ==
    /\ rsStore = "meta" /\ Free /\ rsAdapter # "none"
    /\ rsCache' = InMap(S, v) /\ PutDataBatch(S, v)

AddLocalCapability(S, v) ==
    /\ rsStore = "local" /\ Free /\ rsAdapter # "none"
    /\ rsCache' = InMap(S, v) /\ PutDataBatch(S, v)

RemoveCapabilityInfoByKey(S) ==
    /\ Free /\ rsAdapter # "none"
    /\ rsCache' = InMap(S, "none") /\ RemoveDataByKey(S)

RestUnchanged == UNCHANGED <<kvVars, recVars, rsLock, noteVars, devVars, taskVars>>

\* CheckNonExistCapabilityInfo: records of this device whose hardware was not found
NonExist(S) == Readable(RsOwn \ S)

\* QUERY_RETRY_MAX_TIMES queries; the first that finds something also removes the records of what is no longer there
QueryLocalHardware ==
    /\ rsPhase > 1 /\ rsStore \in {"cap", "meta"} /\ RestUnchanged /\ UNCHANGED <<rsUniniting, rsEvents>>
    /\ \/ rsPhase' = rsPhase - 1 /\ UNCHANGED <<dataVars, rsItems>>
       \/ \E S \in SUBSET RsOwn \ {{}} :
             /\ rsItems' = S /\ rsPhase' = 1
             /\ IF rsStore = "cap" /\ NonExist(S) # {} THEN RemoveCapabilityInfoByKey(NonExist(S)) ELSE UNCHANGED dataVars

\* the end of LocalHardwareManager::Init; empty lists are refused
AddLocalCapabilityInfo ==
    /\ rsPhase = 1 /\ rsStore = "cap" /\ RestUnchanged /\ UNCHANGED <<rsUniniting, rsItems, rsEvents>>
    /\ rsPhase' = 0
    /\ IF rsItems = {} THEN UNCHANGED dataVars ELSE \E v \in RsValues : AddCapability(rsItems, v)

AddLocalMetaCapInfo ==
    /\ rsPhase = 1 /\ rsStore = "meta" /\ RestUnchanged /\ UNCHANGED <<rsUniniting, rsItems, rsEvents>>
    /\ rsPhase' = 0
    /\ IF rsItems = {} THEN UNCHANGED dataVars ELSE \E v \in RsValues : AddMetaCapInfos(rsItems, v)

\* ComponentLoader stores the versions of this device
AddVersion ==
    /\ rsPhase = 2 /\ rsStore = "version" /\ RestUnchanged /\ UNCHANGED <<rsCache, rsUniniting, rsItems, rsEvents>>
    /\ Free /\ rsPhase' = 1
    /\ \E v \in RsValues : PutData(RsOwn, v)

\* and VersionManager keeps them in memory
VersionManagerInit ==
    /\ rsPhase = 1 /\ rsStore = "version" /\ RestUnchanged /\ UNCHANGED <<rsDb, rsUniniting, rsItems, rsEvents>>
    /\ rsPhase' = 0
    /\ \E v \in RsValues : rsCache' \in {rsCache, InMap(RsOwn, v)}

PluginHardware(k, v) ==
    /\ Event /\ rsPhase = 0 /\ RestUnchanged /\ UNCHANGED initRest
    /\ AddCapability({k}, v)

UnPluginHardware(k) ==
    /\ Event /\ rsStore = "cap" /\ rsPhase = 0 /\ RestUnchanged /\ UNCHANGED initRest
    /\ rsCache[k] # "none"
    /\ RemoveCapabilityInfoByKey({k})

(***************************************************************************)
(* Devices come and go                                                     *)
(***************************************************************************)

DeviceOnline(p) ==
    /\ Event
    /\ p \notin rsOnline
    /\ rsOnline' = rsOnline \cup {p}
    /\ rsSyncing' = IF rsStore \in {"local", "meta"} THEN rsSyncing \cup {p} ELSE rsSyncing
    /\ UNCHANGED <<kvVars, recVars, rsLock, dataVars, noteVars, rsClearing, taskVars, initRest>>

SyncDeviceInfoFromDB(p) ==
    /\ rsStore = "local"
    /\ rsCache' \in {rsCache, [k \in RsKeys |-> IF k \in Readable({p}) THEN rsDb[k] ELSE rsCache[k]]}

SyncMetaInfoFromDB(p) ==
    /\ rsStore = "meta"
    /\ rsCache' \in {rsCache, [k \in RsKeys |-> IF k \in Readable({p}) THEN rsDb[k] ELSE rsCache[k]]}

\* OnLineTask: the local and the meta manager read the peer's records
DoSyncInfo(p) ==
    /\ p \in rsSyncing /\ Free
    /\ rsSyncing' = rsSyncing \ {p}
    /\ \/ SyncDeviceInfoFromDB(p)
       \/ SyncMetaInfoFromDB(p)
    /\ UNCHANGED <<kvVars, recVars, rsLock, rsDb, noteVars, rsOnline, rsClearing, taskVars, initVars>>

\* the response of a peer to a request for its hardware: only records of a peer that is online (IsSaveRemoteDHCaps)
AddCapabilityOfPeer(p, v) ==
    /\ Event /\ p \in rsOnline /\ RestUnchanged /\ UNCHANGED initRest
    /\ \/ AddLocalCapability({p}, v)
       \/ AddMetaCapInfos({p}, v)

\* ClearDataByPrefix: read the keys, delete them in one batch
ClearDataByPrefix(p) == PutDataBatch({p}, "none")

\* a device of the other system: RemoveDeviceData may fail and end the call before the map is cleared
ClearRemoteDeviceMetaInfoData(p) ==
    /\ Event /\ rsStore = "meta" /\ Free /\ rsAdapter # "none" /\ RestUnchanged /\ UNCHANGED initRest
    /\ ClearDataByPrefix(p)
    /\ \/ Works /\ rsCache' = InMap({p}, "none")
       \/ UNCHANGED rsCache

\* here the map is cleared whatever the store says
ClearRemoteDeviceLocalInfoData(p) ==
    /\ Event /\ rsStore = "local" /\ Free /\ rsAdapter # "none" /\ RestUnchanged /\ UNCHANGED initRest
    /\ ClearDataByPrefix(p) /\ rsCache' = InMap({p}, "none")

\* OffLineTask: the online entry goes when the disables are done, then the capabilities
RemoveOnlineEntry(p) ==
    /\ p \in rsOnline
    /\ rsOnline' = rsOnline \ {p}
    /\ rsClearing' = [rsClearing EXCEPT ![p] = @ + 1]
    /\ UNCHANGED <<kvVars, recVars, rsLock, dataVars, noteVars, rsSyncing, taskVars, initVars>>

\* for comparison: the map is cleared without waiting for the mutex
ClearUnlocked(p) ==
    /\ rsClearing[p] > 0
    /\ rsClearing' = [rsClearing EXCEPT ![p] = @ - 1]
    /\ rsCache' = IF rsStore = "cap" THEN InMap({p}, "none") ELSE rsCache
    /\ UNCHANGED <<kvVars, recVars, rsLock, rsDb, noteVars, rsOnline, rsSyncing, taskVars, initVars>>

ClearOffLineInfo(p) ==
    /\ rsClearing[p] > 0 /\ Free
    /\ rsClearing' = [rsClearing EXCEPT ![p] = @ - 1]
    /\ rsCache' = IF rsStore = "cap" THEN InMap({p}, "none") ELSE rsCache
    /\ UNCHANGED <<kvVars, recVars, rsLock, rsDb, noteVars, rsOnline, rsSyncing, taskVars, initVars>>

(***************************************************************************)
(* Changes that other devices, or the cloud, make in the store             *)
(***************************************************************************)

\* dynamic stores do not go to the cloud; a cloud notification carries keys only
RemoteChange(k, v, cloud) ==
    /\ Event
    /\ rsKv /\ rsStore # "local" /\ v # rsDb[k] /\ Len(rsChanges) < RsMaxChanges
    /\ cloud => rsStore = "meta"
    /\ rsDb' = [rsDb EXCEPT ![k] = v]
    /\ rsChanges' = IF ~rsListens THEN rsChanges
                    ELSE Append(rsChanges, [op |-> IF v = "none" THEN "delete" ELSE IF rsDb[k] = "none" THEN "insert" ELSE "update",
                                            key |-> k, val |-> IF v = "none" THEN rsDb[k] ELSE v, cloud |-> cloud])
    /\ UNCHANGED <<kvVars, recVars, rsLock, rsCache, rsHand, devVars, taskVars, initRest>>

\* GetEntriesByKeys: what the store holds by now
EntryOf(k) == IF Works THEN rsDb[k] ELSE "none"

\* a deletion in the cloud makes an entry without a value, which cannot be parsed
ValueOf(c) == IF ~c.cloud THEN c.val ELSE IF c.op = "delete" THEN "none" ELSE EntryOf(c.key)

Change == Head(rsChanges)
Known(k) == k \in rsOnline   \* GetUUIDByDeviceId and GetNetworkIdByUUID find an entry

\* OnChange hands a notification to a handler that looks the device up; with a mutex the write follows under it
Handle(store, op, locked, apply, val, task) ==
    /\ rsStore = store /\ rsChanges # <<>> /\ Change.op = op /\ rsHand = <<>>
    /\ locked => Free
    /\ rsChanges' = Tail(rsChanges)
    /\ IF apply THEN /\ rsHand' = <<[key |-> Change.key, val |-> val, task |-> task]>>
                     /\ rsLock' = IF locked THEN "notify" ELSE rsLock
                ELSE UNCHANGED <<rsHand, rsLock>>
    /\ UNCHANGED <<kvVars, recVars, dataVars, devVars, taskVars, initVars>>

CapAddChange == rsChanges # <<>> /\ Handle("cap", "insert", TRUE, Known(Change.key), Change.val, "ENABLE")

\* hardware that is enabled keeps the record it has
CapUpdateChange ==
    rsChanges # <<>> /\ Handle("cap", "update", TRUE, ~rsUniniting /\ Known(Change.key) /\ Change.key \notin rsEnabled,
                               Change.val, "ENABLE")

CapDeleteChange ==
    rsChanges # <<>> /\ Handle("cap", "delete", TRUE, ~rsUniniting /\ Known(Change.key), "none", "DISABLE")

MetaAddChange ==
    rsChanges # <<>> /\ Handle("meta", "insert", TRUE, Known(Change.key) /\ ValueOf(Change) # "none", ValueOf(Change), "ENABLE")

MetaUpdateChange ==
    rsChanges # <<>> /\ Handle("meta", "update", TRUE,
                               Known(Change.key) /\ Change.key \notin rsEnabled /\ ValueOf(Change) # "none",
                               ValueOf(Change), "ENABLE")

\* erased whether or not the device is online, and nothing is disabled
MetaDeleteChange == rsChanges # <<>> /\ Handle("meta", "delete", TRUE, ValueOf(Change) # "none", "none", "none")

VersionAddChange == rsChanges # <<>> /\ Handle("version", "insert", FALSE, UpdatesVersionCache(Change.key), Change.val, "none")
VersionUpdateChange == rsChanges # <<>> /\ Handle("version", "update", FALSE, UpdatesVersionCache(Change.key), Change.val, "none")
VersionDeleteChange == rsChanges # <<>> /\ Handle("version", "delete", FALSE, Known(Change.key), "none", "none")

ChangeApplies ==
    /\ rsHand # <<>>
    /\ rsCache' = [rsCache EXCEPT ![rsHand[1].key] = rsHand[1].val]
    /\ rsTasks' = IF rsHand[1].task = "none" THEN rsTasks ELSE rsTasks \cup {<<rsHand[1].task, rsHand[1].key>>}
    /\ rsHand' = <<>> /\ rsLock' = IF rsLock = "notify" THEN "free" ELSE rsLock
    /\ UNCHANGED <<kvVars, recVars, rsDb, rsChanges, devVars, rsEnabled, initVars>>

\* the task pipeline, as seen from here
RunTask(t) ==
    /\ t \in rsTasks /\ rsTasks' = rsTasks \ {t}
    /\ \/ rsEnabled' = IF t[1] = "ENABLE" THEN rsEnabled \cup {t[2]} ELSE rsEnabled \ {t[2]}
       \/ UNCHANGED rsEnabled
    /\ UNCHANGED <<kvVars, recVars, rsLock, dataVars, noteVars, devVars, initVars>>

RsNext ==
    \/ CapInit \/ MetaInit \/ VersionInit \/ LocalCapInit
    \/ ReleaseBegins \/ UnInitRemovesTask \/ UnInitCloses \/ ReleaseEnds \/ OtherStoreUnInits
    \/ KvDies \/ KvReturns \/ (\E a \in {"current", "old"} : OnRemoteDied(a)) \/ DBDiedOpt
    \/ RecoverReads \/ SyncRemoteCapabilityInfos \/ SyncRemoteMetaInfos \/ SyncRemoteVersionInfos
    \/ QueryLocalHardware \/ AddLocalCapabilityInfo \/ AddLocalMetaCapInfo \/ AddVersion \/ VersionManagerInit
    \/ \E k \in RsOwn, v \in RsValues : PluginHardware(k, v)
    \/ \E k \in RsOwn : UnPluginHardware(k)
    \/ \E p \in RsPeers : \/ DeviceOnline(p) \/ DoSyncInfo(p) \/ RemoveOnlineEntry(p) \/ ClearOffLineInfo(p)
                          \/ ClearRemoteDeviceMetaInfoData(p) \/ ClearRemoteDeviceLocalInfoData(p)
                          \/ \E v \in RsValues : AddCapabilityOfPeer(p, v)
    \/ \E k \in RsKeys, v \in RsValues \cup {"none"}, cloud \in BOOLEAN : RemoteChange(k, v, cloud)
    \/ CapAddChange \/ CapUpdateChange \/ CapDeleteChange
    \/ MetaAddChange \/ MetaUpdateChange \/ MetaDeleteChange
    \/ VersionAddChange \/ VersionUpdateChange \/ VersionDeleteChange \/ ChangeApplies
    \/ \E t \in rsTasks : RunTask(t)

RsSpec == RsInit /\ [][RsNext]_rsVars

(***************************************************************************)
(* Properties                                                              *)
(***************************************************************************)

\* No capability is remembered of a peer that has left: once ClearOffLineInfo of its last offline task has run, neither a
\* notification nor a recovery that saw the peer online can write its record again. The order of the offline task (the
\* online entry first, WaitDisableTaskFinish) and capInfoMgrMutex_ over look-up and write together see to it.
RsOfflineIsForgotten ==
    rsStore = "cap" => \A p \in RsPeers : p \in rsOnline \/ rsClearing[p] > 0 \/ rsCache[p] = "none"

\* A released adapter never holds a store: when the manager's UnInit overtakes the recovery of its store (OnRemoteDied),
\* the recovery goes on with the adapter it holds and must not open the store that nobody will close any more (ReInit).
RsReleasedStaysClosed == rsOld # "open"

===============================================================================

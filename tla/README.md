# TLA+ models of the distributed hardware framework

This directory holds TLA+ specifications of the distributed hardware framework
(`distributedhardware_distributed_hardware_fwk`), the TLC configurations that
model-check them and TLAPS proofs of the properties that matter most. Every
definition is a translation of the C++ sources; `PROJECT.json` maps each one to
the lines it stands for. Paths below are relative to
`services/distributedhardwarefwkservice/src` unless they start with `src/`.

## 1. The system

The framework is a system ability (SA). It learns from DeviceManager which
devices are online, keeps a database of the hardware each one has, and for each
piece of remote hardware loads a *component* (a driver library whose own SA does
the work) and registers the hardware with it. Applications enable and disable
hardware on their own account as well. When the last device leaves, the
framework releases everything and unloads itself.

| Component | State | Operations | Talks to |
| --- | --- | --- | --- |
| AccessManager | none (accessMutex_) | OnDeviceOnline, OnDeviceOffline | factory |
| DistributedHardwareManagerFactory | isInit_, flagUnInit_, releaseStatus_ | SendOnLineEvent, SendOffLineEvent, UnInit, CheckExitSAOrNot | DHContext, tasks, managers |
| DHContext | online entries, realtime ids, isomerism connections | add, remove, look up | everyone |
| Task pipeline | taskQueue_, TaskBoard, unfinished children | PushTask, TriggerTask, the DoTask of each task | ComponentManager |
| ComponentManager | dhSinkStatus_, dhSourceStatus_, compSink_, compSource_ | Enable/Disable/ForceDisable of Sink and Source, META calls, Recover | components, tasks |
| ComponentEnable, ComponentDisable | status_ | Enable, Disable, OnRegisterResult, OnUnregisterResult | the driver |
| ComponentMonitor | listeners | AddSAMonitor, OnRemoveSystemAbility | SA manager |
| ComponentLoader | compHandlerMap_, localDHVersion_ | Init, UnInit, Get and Release of hardware handler, source, sink | libraries, VersionManager |
| ResourceManager: capability, meta, version and local capability managers | a map in memory, a DBAdapter with its store | sync, add, remove, change callbacks, recovery | distributed data service |
| LocalHardwareManager | plugin listeners | what a device's own hardware writes to the stores | ResourceManager |
| HdfOperateManager | hdfOperateMap_, hdfLoadRef_, hdfInuseRefCount_ | LoadDistributedHDF, UnLoadDistributedHDF, client and host deaths | driver manager |
| Publisher, LowLatency, DHTimer | listeners, lowLatencySwitchSet_, the timer | PublishMessage, Add/RemoveListener, StartTimer, StopTimer | scheduler |
| DistributedHardwareService | pendingGetDHRequests_, cleanupRunning_, dhfwkInitTimes_ | GetDistributedHardware, the cleanup threads | ComponentManager |
| IPC proxies and stubs | none | one parcel and one reply per call | service, clients |
| Inner kits (DistributedHardwareFwkKit, DHFWKSAManager) | the proxy, cached listeners and callbacks | register, unregister, restore after a restart | SA manager, service |
| Device-info requests (in ComponentManager) | syncDeviceInfoMap_, timeout tasks | SyncRemoteDeviceInfoBySoftbus, OnGetDescriptors, HandleSyncDataTimeout, RegisterSyncDataRequest | DHCommTool |
| DHCommTool, DHTransport | remoteDevSocketIds_, events | request and response of capabilities, StartSocket, StopSocket, session callbacks | soft bus |
| Business states (in ComponentManager) | businessStateMaps_, syncSharedMem_ | UpdateBusinessState | components |
| ComponentPrivacy, HidumpHelper | nothing of protocol | see source | user interface |
| AV engines and providers | currentState_, channel, pipeline | Initialize, Start, PushData, Stop, Release, SetParameter, channel events | soft bus, control center |
| AV control center, sync manager | engine ids, devices, channels; streams | InitializeAVCenter, CreateControlChannel, NotifyAVCenter, Release | engines, peers |
| Softbus channel adapter | serverMap_, the socket table, listeners, pendingAuthRequests_ | session servers, OpenSoftbusChannel, CloseSoftbusChannel, socket events, authorisation | soft bus, application |
| Output controller | dataQueue_, status_, the clock | PushData, the control and the handler thread, Start, Stop, Release | output plugin |
| Codec filters | input queue, codec buffers, ptsMap_ | Start, Stop, Release, the codec's callbacks | codec |
| Audio pipelines | filters_ and the filters' states | Prepare, Start, Pause, Resume, Stop, frames | engines |
| Data plugins with AVInputFilter, AVOutputFilter | dataQueue_, the task, plugin state | Prepare, Start, Stop, Reset, frames | soft bus, callbacks |

What is hard here:

* **Threads.** DeviceManager's callbacks, the event handler that runs tasks, a
  thread per ENABLE, DISABLE and OFF_LINE task, binder threads of applications,
  the drivers' callback threads and the recovery threads all meet in
  ComponentManager and the factory.
* **Failure of components.** The SA of a component may die at any time; the
  monitor starts a recovery that resets the counts and enables everything again,
  in two separately locked steps.
* **Waits and retries.** Each call of a driver waits for a callback with a
  timeout and is retried; some timeouts count as success.
* **Unlocked state.** The AV engines, `syncSharedMem_` and parts of the channel
  adapter have no lock, or one that is released between a look-up and its use;
  channel events and received data come on detached threads.
* **Restarts around the framework.** The data service, driver hosts, client
  processes and the framework's own SA die and come back while others hold
  proxies, counts and caches of them.
* **Comings and goings.** A device may leave before its enables are done and
  come back before its disables are; the release of the framework races with
  both.

The hazards are listed, each at its line, in `PROJECT.json`.

## 2. Modules

| Module | Models | Checked by | Proved in |
| --- | --- | --- | --- |
| `RefCounts` | what refEnable and refLoad are meant to count | | `RefCountsProofs` |
| `SinkStatus` | the sink side of ComponentManager for one dhType, with recovery | `MCSink` | `SinkStatusProofs` |
| `SourceStatus` | the source side, with META calls, partial failures, recovery | `MCSource` | `SourceStatusProofs` |
| `ComponentEnable` | one Enable or Disable call: attempts, callbacks, timeouts | `MCComponentEnable` | `ServiceProofs` |
| `DeviceLifecycle` | online and offline, tasks, release and restart | `MCLifecycle` | `LifecycleProofs` |
| `PendingRequests` | the queue of GetDistributedHardware and its cleanup threads | `MCDeviceSync` | `DeviceSyncProofs` |
| `DeviceSync` | extends it with device-info requests and the transport | `MCDeviceSync` | `DeviceSyncProofs` |
| `CallbackPromise` | what GetDistributedHardware promises: refused at once, or called back at most once | `DeviceSync` implements it | `DeviceSyncProofs` |
| `AuthDecision` | what an authorisation promises: decided once, and eventually | `AccessControl` implements it | `AccessControlProofs` |
| `AccessControl` | authorisation of a remote device, its timer, late answers, the codec's wait | `AccessControl` | `AccessControlProofs` |
| `IpcWire` | every call of the proxies and stubs: parcel, checks, reply | `MCService` | `ServiceProofs` |
| `ClientKit` | the inner kit's proxy and caches across restarts of the service | `MCService` | `ServiceProofs` |
| `ResourceStore` | one of the four resource managers with its database | `MCService` | `ServiceProofs` |
| `HdfLoad` | HdfOperateManager and its client processes | `MCService` | `ServiceProofs` |
| `ComponentLoad` | ComponentLoader: profile, libraries, version record | `MCService` | `ServiceProofs` |
| `EnableParam` | how ComponentManager::Enable collects its parameters | `MCService` | `ServiceProofs` |
| `BusinessSync` | UpdateBusinessState and the shared memory | `MCService` | `ServiceProofs` |
| `LowLatency` | LowLatency, DHTimer, the publisher's item | `MCService` | `ServiceProofs` |
| `AvChannel` | SoftbusChannelAdapter: servers, sockets, listeners | `MCAv` | `AvProofs` |
| `AvEngine` | the four engine classes and their providers | `MCAv` | `AvProofs` |
| `AvSync` | AVSyncManager and the messages to the peers | `MCAv` | `AvProofs` |
| `AvCenter` | AVTransControlCenter | `MCAv` | `AvProofs` |
| `AvOutput` | OutputController and its plugin | `MCAv` | `AvProofs` |
| `LossyQueue` | what the output controller is: a queue that may lose frames, never reorders them | `AvOutput` implements it | `AvProofs` |
| `AvCoder` | the audio encoder and decoder filters | `MCAv` | `AvProofs` |
| `AvPipeline` | the chain of filters of an audio engine | `MCAv` | `AvProofs` |
| `AvPlugin` | the data plugins under AVInputFilter and AVOutputFilter | `MCAv` | `AvProofs` |

Operators whose comment says *Faulty variant for mutation testing* are not used
by the specifications. Each is a plausible mistake in the definition that
follows it; `PROJECT.json` lists which property finds it.

### SinkStatus and SourceStatus

Entries of different dhTypes never meet, so one dhType is modelled. A handler
that holds `dhSinkStatusMtx_` (or the source's) for its whole length is one
action, with every failure of the driver as an alternative; DoRecover takes the
lock twice and is two actions, between which everything else may run (`window`).

State: `enableInfos`, `refEnable`, `refLoad` as in the code; `enabled` is the
set of (id, caller) whose `enableState` is ENABLED; the caller (0, 0), `AutoKey`,
is the framework itself. `compSink`/`compSource` says whether the component is
in the map, `running` whether its SA is initialised, `hw` (source) what is
registered with it, `monitored` whether the monitor is subscribed. `recover`,
`window` and `tasks` are the recoveries under way and the ENABLE tasks they left.
`raced`, `faulted`, `abandoned` and `want` are history, used only in properties.

The constant `Faults` selects what may fail: loading, InitSink/InitSource,
ReleaseSink/ReleaseSource, unloading, a timeout, and on the source side Enable
and Disable (which fail with the hardware registered or not, see
ComponentEnable). With "watch" the death of the SA may start no recovery, because
ComponentMonitor could not subscribe to it or does not find its dhType or process
name; with "queue" TaskExecutor may drop an ENABLE task that a recovery pushes. Both
count as `faulted`. The death of the SA is always possible.

### ComponentEnable

The object lives for all attempts of one call, and so does `status_`. The driver
may accept or refuse each request, answer any accepted one at any time, also
after the call has returned, or never. Only Enable looks whether the device is
still online before a retry.

### DeviceLifecycle

Each remote device has one hardware; `Local` is the hardware of this device that
the sink side serves. The steps of a thread are actions wherever another thread
can come between: the checks of SendOnLineEvent and what follows them, the steps
of an OFF_LINE task, the parts of UnInit. ENABLE and DISABLE tasks run in
threads of their own and succeed or fail as one step (their inside is
SourceStatus and SinkStatus). `flaws` is history: it records which of the known
races happened, so that a property can say what holds without them. One of them is
"early": a device is announced while an OFF_LINE task has still to forget it, and is
refused as already online or, by the second of two announcements that both passed
the check (a callback's and that of a thread started after a release), recorded
again; the task then forgets a device that is online. Two more are not races: "unnamed",
a device without a uuid or udid, of whose announcement OnDeviceOnline makes nothing, and
"oversize", a list of devices longer than MAX_ONLINE_DEVICE_SIZE (`MaxOnline`): the
list of DeviceManager, which CheckExitSAOrNot then gives up, or the entries
(`EntriesFull`), to which no device is added then. Init of the manager is not among the
failures: DistributedHardwareManager::Initialize returns success on every path.

### PendingRequests and DeviceSync

A `Request` is one call of GetDistributedHardware and stands for its callback;
`st` says how far it has come and `answers` counts the OnSuccess and OnError
calls it got. `CallbackPromise` is what an application may rely on, whatever happens
in between: `PromiseKept` maps the requests that were accepted and not answered to
`owed`, the refused and the answered ones to `over`, and `answers` to `calls`. A cleanup thread is named after the request that started it, since
only the first request of an empty queue starts one. Both builds
(DHARDWARE_SINK_LOCAL_INIT) are in the model: `carBuild` is chosen initially.
What is between two accesses to `cleanupRunning_`, or outside
`pendingRequestsMutex_`, is a step of its own.

`entry` and `cbs` are `syncDeviceInfoMap_`, `timers` the timeout tasks posted
under a device's task name. Taking a task off the handler's queue and running it
under `syncDeviceInfoMapMutex_` are two steps (`TimeoutTaskStarts`,
`HandleSyncDataTimeout`): in between the response may be applied and a new entry
made, which the old task then times out. StartSocket and StopSocket are
split where they leave `rmtSocketIdMtx_` (`CheckSession`, `BindSocket`,
`SocketOpened`; `StopSocket`, `ClearDeviceSocketOpened`). The peer may open and
close sessions, ask, answer once for each request it received, with or without
usable capabilities, or be silent; any message may be lost. `open` and `closed` are the soft
bus's view of the sockets; `missed` and `untimed` are history.

Initialize makes new event handlers and a new transport at any time. The tasks that the
old handlers had queued are gone; the one event that an old handler is at goes on beside
the new ones (`late` and the actions `Late...`), with the state of the life in which it
began. TriggerReqFullDHCaps holds no reference to the transport it is in: what the rest
of a StartSocket does in a destroyed transport is undefined and left out, and `freed`
records that it happened.

Abstractions: the contents of a message are whether it is a response and whether
it brings capabilities; the threads' vectors are sets.

### AccessControl and AuthDecision

`AuthDecision` is the abstract specification: a request that was made is granted
or denied exactly once, and in the end it is. `AccessControl` is the code: the
thread that opens the channel registers the request in `pendingAuthRequests_`,
starts a timer thread and asks the application; IPC threads bring the
application's answers, also repeated ones and ones that come after the timeout.
Whoever takes the request out of `pendingAuthRequests_` under
`authRequestMutex_` decides it, and stores the result later. The refinement maps
a request to what the first taker decided.
`accOutcome` and `accFree` are history. The codec of an audio channel waits for
the result of its network id and looks at whatever is stored when it wakes.

### The service's parts (MCService)

`MCService` extends the eight modules that follow. They share no variable, so
checking them in one state space would multiply their states and show nothing
more; the initial state picks one (`part`) and only its steps are taken. Every
invariant is about one part, so it holds of the product exactly when it holds of
the sum.

* `IpcWire`: a parcel is a sequence of cells of a kind and a value. Tables say
  for each call what the proxy refuses and in which order it writes, in which
  order the stub reads, which permission it asks and which values it refuses. A
  read of the wrong kind or past the end gives a default, as MessageParcel does.
  Writes and SendRequest may fail and the serving process may die. The descriptors
  a call carries are the constant `IpcDescriptors`; no call carries two lists, so
  a parcel is single cells, a list, and single cells (`IpcEncode`, `IpcPos`).
* `ClientKit`: the service dies and is started again; SAMgr's notifications come
  late but in order, and a proxy of a dead service is stale. Calls of the kit
  that overlap a start, an end or a restore are recorded in `kitRaced`: these may
  lose a listener, which is listed as a hazard. Engine ids start again at
  BASE_ENGINE_ID in every run of the service, which refuses the callback of an id that
  it has not handed out yet: that of an engine of an earlier run, unless engines of this
  or of other clients have been given as many since (`SvcAdmits`, `kitKnown`). RestoreListener
  logs the refusal and goes on, so the callback is lost (`kitRefused`); the property
  excepts it and claims that nothing else is lost.
* `ResourceStore`: a behaviour is about one of the four managers. The data
  service may die; `OnRemoteDied` posts a recovery that tries for a bounded time.
  Sections under a manager's mutex that look at DHContext and then write are two
  steps. The text of a record is a value; the JSON conversion is left out.
* `HdfLoad`: calls are cut where they take or release the map's or an operator's
  mutex. Each client has a thread for its call and one for the notice of its
  death. `doubled` records the one known exception, a client that dies inside its
  own unload.
* `ComponentLoad`: the profile is what ParseConfig makes of it; the Release
  methods leave the mutex half way and are two steps. AddVersion may fail, which
  StoreLocalDHVersionInDB does not look at: a supported type is then without a record
  (`addFailed`), the one exception the property makes.
* `EnableParam`: the five stores are read under separate locks while
  notifications and the offline task change them; fields of an EnableParam
  survive a failed attempt and RetryGetEnableParam answers success after its last
  one.
* `BusinessSync`: `syncSharedMem_` is a pointer without a lock, so a use after
  another thread's clear ends the process (`crashed`); a subtype that was not
  found leaves an uninitialised value, modelled as a free choice (`guessed`).
* `LowLatency`: the timer's event runner is a thread. The state in which
  ReleaseTimer joins a runner that waits for `timerMutex_` is in the model; it is
  a listed hazard.

### The AV transport (MCAv)

`MCAv` is built the same way.

* `AvChannel`: opening and closing take several steps between which the soft bus
  reports sockets; OnSoftbusChannelOpened waits for the authorization without a lock
  and inserts afterwards, under whatever keys there are then. `chLate` records a socket
  that was closed while the thread that stores it had not done so yet (between the Bind
  and the insert of OpenSoftbusChannel, or during that wait), the one way for a closed
  socket to stay in the table.
* `AvEngine`: one engine of one of the four classes. Owner's calls are one
  thread, PushData and channel events others; without a lock they are cut between
  reading the state, NotifyStreamChange and writing the state. Pipeline calls may fail.
  A second CreateControlChannel gives the engine another peer: the listener and the streams
  of the peer before stay where they are, because Stop and Release look at the last one
  only. ENGINE_READY, ENGINE_PAUSE and ENGINE_RESUME answer success whatever the pipeline
  did. SetParameter of a value is taken once, while nothing else is under way (a bound:
  it changes no other state).
* `AvSync`: streams are added and removed one by one; each message is applied by
  a thread of its own at the peer, so messages overtake each other.
* `AvCenter`: ids are handed out by threads that run side by side and may be equal
  (`cenShared` remembers whose are). A release first takes its engine out and then
  closes the channel, under the session name of whichever event was the last; peers
  close channels at any time (`cenLeft`). `CenEngineKeepsPeer` is about the engines whose
  id nobody else was given: with a shared id the peer an engine was told about may be
  replaced or closed by the other's release.
* `AvOutput`: how long a frame waits is a choice; overflow, mode, balance, Stop
  and Release are as in the code. What holds `queueMutex_` is cut where it takes or
  leaves it and where it reads the queue; ClearQueue of StopControl and ReleaseControl
  holds no lock and lands between any two of these steps. It may come between the test
  for frames and `front`, or between the comparison and `pop`: on a queue that was
  just emptied both are undefined, and the process is "dead" (`TouchesEmptied`), as it is
  when the swap meets another thread inside the queue. `OcIsLossyQueue` and
  `OcFramesAccounted` hold nevertheless of everything up to there, also of a frame that was
  taken before the clearing and is handed on after it. The wait on the condition variable
  is two steps, so that a lost notification is in the model.
* `AvCoder`: with AAC the encoder's codec makes `CdCycle` outputs of `CdCycle + 1`
  inputs, whence the two indices that wrap at different counts. With OPUS, which the
  engine's parameters may choose, the codec makes an output of every input and the
  indices stay as they are, so time stamps drift: `CdOutputPts` says so and is about
  decoders and encoders of AAC only. A stopped filter is not started again, since
  Pipeline::Stop has emptied its list of filters. The codec, which is
  external, is assumed to have no more input buffers than a cycle has outputs
  (`CdAssumption`; 15 in the code, and two buffers against a cycle of 2 in the run).
  With more buffers it could be fed a whole cycle ahead and a time stamp be
  overwritten in `ptsMap_`: TLC shows this for three buffers and a cycle of 2.
* `AvPipeline`: an operation visits the filters one by one under the pipeline's
  mutex, in the code's order, while frames are pushed; a failure of the third
  filter is masked by WaitAllState, as in the code. The engines' guards are the code's
  (`EngineLets`): Pause and Resume in any state once there is a pipeline, Prepare also
  after a channel was opened. A frame passes each filter in two steps, the test and the
  push, without a lock between; the head tests its filter state, the codec's callback
  the coder's own flag (`isEncoderRunning_`, `isDecoderRunning_`), which pausing does not
  touch.
* `AvPlugin`: for each of the five plugins the order of the steps of start, stop
  and reset; the task thread and the soft bus run in between, and the peer may close
  the channel at any time while the plugin stays RUNNING (`PlgPeerCloses`).

## 3. Runs

| Run | Bounds | Shows |
| --- | --- | --- |
| `sink` | 2 ids, framework + 1 application, all faults, 2 recoveries at once | counts exact; after recovery everyone is served; unload only when unheld |
| `source` | 2 ids, framework + 1 application, all faults, META, 1 recovery at once | counts exact; after recovery every held hardware is registered; nothing registered without a holder |
| `component_enable` | the code's 3 retries | success is real; retries stop offline; the call returns |
| `lifecycle` | 2 devices, 4 network changes, queue limit 3 | a device is forgotten only after its disables; where nothing failed the state matches the network |
| `lifecycle_ends` | 1 device, 4 network changes, queue limit 2 | the OFF_LINE task ends unless a push was refused |
| `lifecycle_parallel` | 1 device, 2 changes | *violated*: ENABLE and DISABLE of one hardware in parallel |
| `lifecycle_release` | 1 device, 5 changes | *violated*: release while a device is online |
| `device_sync` | 2 requests, 1 device, 2 sockets, 1 sync trigger, 1 release | `DeviceSync` implements `CallbackPromise`: a request is refused at once and never called back, or called back at most once; a timed entry keeps its timer; no closed socket is kept |
| `pending` | 2 requests, all steps, both builds, retry limit 1, silent device, 1 release | a queued request is watched; requests are answered unless they joined an entry without a timer |
| `access` | 2 requests of 1 network, 1 answering thread per request | a codec starts only for a device that was let in; `AccessControl` implements `AuthDecision`, liveness included |
| `service` | one part at a time; per part see below | `IpcRoundTrip`, `KitListenersSurviveRestart`, `RsOfflineIsForgotten`, `RsReleasedStaysClosed`, `HdfHeldKeepsService`, `LdSupportedIsVersioned`, `EpEnabledComplete`, `BzIdleFreesMemory`, `LlOffWhenUnused` |
| `av` | one part at a time; per part see below | `ChClosedIsForgotten`, `EngStoppedHasNoStream`, `EngAcceptedIsSet`, `SyncStopsBelowTwo`, `CenEngineKeepsPeer`, `OcIsLossyQueue`, `OcFramesAccounted`, `CdOutputPts`, `CdNoPushAfterDestroy`, `PipeOkMeansFirstTwo`, `PipeLetOnToStarted`, `PlgTaskServesItsRun` |

Each property's comment in its module says what it states of which code.

Why the bounds are enough: two ids and two callers give every way of sharing a
component (same id, different id, framework and application); two recoveries
overlap in every order. Four network changes let one device go through two
whole rounds, or two devices through one each, with every interleaving of their
tasks; the queue limits are small so that a push is refused; `MaxOnline` is one, so that
two devices are a list that is too long. Two requests for
one device are a first one and one that joins it, or that makes the next entry
while a timeout task of the first is still about to run, in the new handlers or in
replaced ones; two sockets are the one being closed and its successor. Requests for different devices share only the
handlers' queues, so one device is enough; `PromiseKept` and `EntryHasTimer`
are proved for any number. Two queued requests start two cleanup threads
that overlap. `device_sync` uses requests that do not wait for the
initialisation and leaves the queue to `pending`. Deadlock is not
checked: the system may rest with nothing to do.

In `access` two requests of one device are one that times out and its successor,
whose result the same network id receives; requests of different devices share
only the listener. `AccGrantHasReason` and the safety part of the refinement are
proved for any number.

The bounds of `service`: descriptor lists up to one longer than the maximum of 2,
so that the proxy's and the stub's limits are met; a cache of one listener,
two engines and a service that runs, dies and runs again, so that its notifications come
late over two runs and an id of the first run is
refused in the second, or admitted after another client took an id; two own records and one
peer's, with one notification under way and two disturbances, enough for the
data service to die during a recovery and for a release to overtake it; two
clients with one driver host that dies once, so that an unload erases the
operator another load has fetched; three profiles (audio not named, audio off,
one subtype on); the code's three retries with data of two generations; one
microphone and one camera; two hardware types, six messages.

The bounds of `av`: two devices and two sockets for one session name, so that a
socket's successor exists while it is closed; two peers of an engine and one entry of its
stream for each; time synchronisation with one device; one opened event of a control
channel under way; three
streams on two peers (synchronisation needs two); two engines with two peers; a queue of one
and four frames, so that overflow meets every state of the control thread; an
encoder cycle of 2 outputs (15 in the code) and six frames, which is two whole
cycles; a buffer queue of one in the pipeline and of two in the plugins.

Symmetry is used where devices, ids or applications are interchangeable, never
in a run with a liveness property.

Fairness: in `ComponentEnable` the calling thread goes on and its timer fires
(`conVar_.wait_for`); no fairness for the driver. In `DeviceLifecycle` the
threads of the framework go on while they can (ffrt and the event handler run
every submitted task); the network need not change. A driver call inside an
ENABLE or DISABLE task ends because of `CallReturns`. In `DeviceSync` the cleanup
threads, the serving threads and both event handlers go on, and a posted timeout
task runs in the end although other events keep coming (a delayed task is due at
a fixed time); nothing is assumed of applications, drivers, the peer or the soft
bus, and Initialize need never come. In `AccessControl` the opening thread, the
timer thread and a thread that carries an answer go on; the application need not
answer, since the timer decides then.

### What the violated properties show

* `lifecycle_parallel`: the task documentation says TaskBoard blocks; it does
  not.
* `lifecycle_release`: OffLineTask reads the number of online devices once.
  When the release was not announced (`flagUnInit_` is not set because an
  isomerism connection existed at that moment) a device can register before
  UnInit and loses its components; its repeated announcement is refused.
Two behaviours that no document forbids are only excepted in properties. `status_`
is set in the constructor of ComponentEnable only, so after an error callback
every retry returns failure at once, and the driver may still complete the
request, which nobody then counts. RegisterSyncDataRequest makes an entry without
a timer; a request that finds it has left the queue and only adds its callback, so
it waits for ever if the device is silent. `AnsweredUnlessUntimed` shows that this
(and the entries that lose their timer when the framework is initialised again) is
the only way for a request to stay unanswered.

## 4. Proofs

All proofs are for every value of the constants, under the assumptions that the
modules name and TLC evaluates in the runs: finite sets of ids, callers, HDF
clients (`HdfClientsFinite`) and peers (`SyncAssumption`), `AutoKey` a caller, known
faults, natural bounds (`KitBounds`, `OcBounds`, `PlgBounds` and others), the codec's
few input buffers (`CdAssumption`), names of different things that
differ (`RsKeysDistinct`, `ChBounds`, `LifecycleConstants`). The bounds of a run
(numbers of events, restarts, frames) are constants too, so a theorem holds with any.

**Reference counts.** `RefCountsProofs`: adding a pair to a finite set, removing
one, removing all of one id keeps the two counts exact when they are changed as
the code changes them; if the sum is at most one, the pair is the only one; a
count is zero exactly if nobody is counted.

**ComponentManager.** `SinkStatusProofs` and `SourceStatusProofs`.

* `CountsExact`: the inductive invariant is `CountsInv == TypeOK /\ CountsExact`.
  CountsExact is stated over `Counted`: inside a recovery window the active pairs
  are still ENABLED but no longer counted, and without that distinction the
  invariant is not inductive (nor true). The branches that assign 1 or 0 instead of
  incrementing or decrementing are where the invariant is needed: they are right
  because the counts are exact before. `SinkUnloadOnlyWhenUnheld` follows from the
  invariant before and after the step.
* `SettledSinkServesHolders`, `SettledSourceServesHolders` and
  `HardwareOnlyWhileHeld`: a settled state says nothing about the steps before it,
  so `ServeInv` adds what holds all the time: whoever was told "enabled" is ENABLED
  or has a task of the recovery (`WantsServed`); whoever is counted is served as
  soon as no reset is outstanding (`CountedServed`); on the source side a driver
  that does not run has nothing registered (`DriverSound`). An enable that shares a
  component because the count is not zero relies on the exactness of the counts to
  know that somebody has it running.
* `SinkLoadedOnlyWhileHeld` is the other direction on the sink side: while the driver
  fails only by dying and no active caller changes its holding inside a recovery's
  window, the component is loaded only while somebody is counted. It needs the counts
  again: a disable that leaves the component loaded has seen a count above one, so the
  caller that leaves was not the only one; a stop that meets no fault unloads
  (`StopUnloads`).
* `SourceStatusProofs` first shows that every outcome of every driver call has its
  type (`Outcomes`) and what a driver that does not fail leaves, then does each
  action.

**Tasks.** `LifecycleProofs`: `ForgottenOnlyAfterDisable`. A child knows its father
only by a number, so `LifecycleInv` says that no number is ahead of the counter
(`Numbered`) and that a number belongs to one OFF_LINE task, queued or running, or
to its children, one for each hardware, for all of which a father in state "wait"
still waits (`Owned`). Refused pushes only shorten what is queued.
`SettledMatchesNetwork` is proved from `Clean => CleanInv`, where `Clean` says that
none of the known races happened. `CleanInv` follows a device from the network to its
hardware: where the DeviceManager's devices and the realtime set differ, a callback,
a call or a thread is on its way, or a release refuses it (`ToldInv`); the realtime
set and the entries differ only while the device leaves (`KnownInv`); an entry whose
hardware is not enabled has its ENABLE on the way (`EnableInv`); hardware enabled, or
to be enabled, of a device that leaves has a DISABLE behind it in the queue's order or
an OFF_LINE task that will make one (`DisableInv`), and every DISABLE still has the
OFF_LINE task that made it (`Fathered`). When everything is quiet nothing is on its way, and the sets are equal.
The proof covers more than the run: two announcements of one device that both
pass the check need five changes of the network, and the run has four.
The safety part of "OFF_LINE tasks end" is proved as well. `WaitsForSomebody`: while no
push was refused, the hardware an OFF_LINE task waits for has its DISABLE task queued
or running; a push appends and a task that starts moves from the queue to the running
ones, so what was on its way stays so until it reports. `TasksNeverStuck` follows: while an
OFF_LINE task has not ended, a guard of an OFF_LINE task holds or there is a task to
run; a release that waits for another is waiting for a task that can go on.

**Requests and sockets.** `DeviceSyncProofs`: `TypeOK` first for the requests, then
for the rest. `QueueIsWatched` and `NewQueueStartsAtZero` are inductive together
with it. `AnsweredOnce`, which `CallbackPromise` implies, needs `AnswerInv`: exactly
the answered requests have one answer, a callback in an entry still waits and for that device (so no callback is in
two entries, and an entry answers nobody for the second time), and a queued request
is pending. `EntryHasTimer` is inductive with the types: a task that fires takes its
entry away with it, and OnGetDescriptors stops the timer only of an entry it erases.
`ClosedSocketIsForgotten` needs `SockInv`: two devices never share a socket, and the
socket that StartSocket has bound and not yet registered is nobody's.
`PromiseKept` is proved from one lemma on all actions (`RequestStep`): a step leaves all
requests alone, moves one request a stage on, answers a set of unanswered requests
once each, or takes pending requests out of the queue for a cleanup thread. What the
replaced handlers do is one of these or touches sockets only (`LateEffect`). The refinement and `RequestsGoForward`, that no request returns to an
earlier stage, follow from it. `NobodyForgotten` is the safety part of "every request is
answered": a queued request has a running cleanup thread that will look at the queue
again, one taken out is in the batch of a thread that goes on with it, and one in
`syncDeviceInfoMap_` has a timeout task or the timeout just being handled, but for an
entry that was made without a timer.

**Authorisation.** `AccessControlProofs`: `AccGrantHasReason` and that every step of
`AccessControl` is a step of `AuthDecision` or a stutter. The inductive invariant
`AccInv` has the types, the requests (`RequestsInv`: exactly the undecided requests
are pending, so nobody takes one twice), the threads (`ThreadsInv`: a thread of a
request runs only once the channel has opened, and the request then has a network),
the answers (`AnswersInv`: what an answer is about to store is what it decided) and
the results (`GrantsInv`: a stored grant, and so a running codec, has a reason). A
grant is stored some steps after it was decided, so without the middle parts
`GrantsInv` is not inductive. The safety part of "every request is decided" is
`PendingIsDecided`: an undecided request has a timer that is about to be started, runs
or has run out, or the answer that cancelled it and has yet to look for the request
(`DecidersInv`).
`ResultsHaveReasons` says the same of what is stored as `GrantsInv` does of grants, for
denials too: a decision is never taken back (`DecisionsStay`), and a denial is stored
only when a request of that network was denied (`DenialStored`).

**The service's parts.** `ServiceProofs`, one inductive invariant each:

* ComponentEnable (`CallInv`): a success that waits in `status_` is done; no request
  is counted while the device is online or the next request is still to be made.
* LowLatency (`LlInv`): outside a release an empty set of switches means that
  nothing is posted, nothing runs and normal latency was told. The converse,
  `LlComesWhenUsed`, needs `LlUsedInv`: while a type is in the set no release runs, so
  low latency was told last, or the runner is about to tell it.
* EnableParam (`EpInv`): the subtype is set with or after every other field, so a
  set subtype, which is what Enable tests, means complete parameters.
* BusinessSync (`BzInv`): while there is memory, some device is in use or has an
  IDLE call that has not come past the test of the pointer.
* ComponentLoad (`LdInv`): what was parsed is the profile's, and is in the record
  unless the last AddVersion failed.
* HdfLoad (`HdfInv`): the uses that were counted and not given back (`HdfOwed`) are
  never more than hdfInuseRefCount_; every holder has one. The proof counts: each
  step moves at most one slot in or out of `HdfOwed`.
* IpcWire (`IpcInv`): a call that is under way was accepted by its proxy, its parcel
  is what the proxy wrote and its reply what the handler wrote. `RoundTrips` rests on
  two lemmas. `CallsArePaired`: for each of the calls, the code belongs to exactly one
  stub, and the tables of its proxy and its handler agree on the kinds and the
  places of all fields and of the result (compared table by table, `WellPaired`).
  `ParcelArrives`: fields that are well formed are read back as they were written,
  for lists of any admitted length: the list is found where it begins
  (`ListArrives`) and what follows it is found behind as many cells as it took.
* ResourceStore: an adapter that a release left behind has no storage
  (`RsOldInv`); what a notification or a recovery has in hand under the manager's
  mutex is of a peer that is online or has an offline task to come (`RsCapInv`).
* ClientKit (`KitInv`): the last notification says what the service is; a call that
  nothing overlapped is the only one on its item; and a kept item is registered, or
  was refused by this run of the service, or a restore or a call will see to it.

**The AV transport.** `AvProofs`:

* AvOutput (`OcInv`): the frames are numbers; what was handed out, what is posted,
  the frame of the control thread and the queue are increasing and one below the
  other, wherever a ClearQueue without the lock lands. `OcFramesAccounted` needs
  `OcAccInv`: a frame that is about to be popped is posted already, and a mutex is held
  by one thread (`OcLock`), so nothing but a clearing comes between a comparison and its
  `pop`. `OcIsLossyQueue` follows action by
  action: a frame that is handed on is the oldest of those on their way because of
  that order, and everything else that changes the queue only drops frames.
* AvCenter (`CenInv`): two engines have the same id only if both are in `cenShared`, and
  an engine alone with its id is mapped to its peer (`CenHeld`, `CenMapped`); for a peer
  that has closed nothing, its entries in `connectedDevIds_`, its opened events under way
  and a closing under way are together no more than its channels (`CenBacked`).
  `CenEngineKeepsPeer` needs the count: a release closes at most what its entry stood for,
  under whichever session name, and only when no id has the peer any more.
* AvSync (`SyncInv`): a peer that was told to start has a stream, or lost its last one
  meanwhile. A list that grows does not get shorter (`SizeGrows`), so below two streams
  an addition finds nothing synchronised.
* AvCoder (`CdInv`): an input thread that has not ended has a started codec.
  `CdOutputPts` needs `CdPtsInv`: of the frames fed since the current cycle of outputs
  began, those that no output has stood for are all in `ptsMap_`, each in a place of its
  own (`CdFlow`). A complete output stands for a frame that was fed (`CdReady`), and
  while the filter holds an input buffer the map has room for one more frame
  (`CdRoom`), because the codec asks for input only when no output is complete
  (`CdBounded`). Both are inequalities about products with the length of the cycle.
* AvChannel (`ChInv`): a closed socket that the table, a thread in
  OpenSoftbusChannel or one in OnSoftbusChannelOpened holds was closed before it was
  stored.
* AvEngine (`EngInv`): a stopped engine was initialised and is registered, and has no
  stream for the peer it had at its Stop; the tables of the switch statements are
  compared tag by tag (`SetterTables`).
* AvPipeline (`PipeInv`): where an operation is, which filters are linked, what the
  first two filters that it passed are, that the filter after a running one runs
  or has failed, and what the coder's flag says of its output. The action property
  `PipeLetOnToStarted` follows from the last two.
* AvPlugin (`PlgInv`): the plugin rests, is being started, serves, or is being
  stopped; each phase says which steps may still lie ahead, and the thread is in its
  handler only in the last two. The peer's close may come in each of them, so the channel of
  a thread that works is open or was closed by the peer.

The type invariants, `NewQueueStartsAtZero` and the invariants that no run names
(`WaitsForSomebody`, `NobodyForgotten`, `LoadedOnlyWhileHeld` and others above) are only
proved: a run would show nothing beyond the proof. `AnsweredOnce` and `OcInOrder` are
consequences of the refinements `PromiseKept` and `OcIsLossyQueue`, which the runs check.

Only model-checked:

* Liveness (`CallReturns`, `OffLineTaskEnds`, `AnsweredUnlessUntimed`, the liveness of
  `AuthDecision`), which is out of this prover's reach. What of it can be said of
  states is proved: nobody is forgotten and nobody waits for something that is not on
  its way (`WaitsForSomebody`, `TasksNeverStuck`, `NobodyForgotten`,
  `PendingIsDecided`); that the fair steps then come is TLC's part.

## 5. What is not modelled

See "components" in `PROJECT.json` for what each partly modelled component leaves
out. Not modelled at all:

* ComponentPrivacy and HidumpHelper: a page of the user interface and a report.
* The histreamer ability querier and the memory utilities: tables turned into JSON
  and wrappers of the media framework's buffers.
* The input plugins of the AV senders, which number frames and hand them on.
* The clock arithmetic and the statistics of the output controller: they decide
  how long a frame waits, which is a free choice in `AvOutput`.
* NAPI and Taihe bindings and the authorisation application.

Parsing of configuration files and JSON is represented by what it yields; dumps,
logging and tracing carry no protocol state. The status listeners of applications
are called outside the locks and change nothing. Parameters of hardware are data
that no property looks at.

Hazards without a property are noted in `PROJECT.json`: an enable task of a
recovery that runs after a disable, the notification of ReleaseControl that the
output's control thread may miss, and the join in DHTimer::ReleaseTimer that may
wait for a runner waiting for the same mutex.

## 6. Plan

1. The EXIT_DFWK task and the SA's critical state in `DeviceLifecycle`, composed
   with `HdfLoad`, which posts that task.

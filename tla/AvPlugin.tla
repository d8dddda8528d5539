------------------------------ MODULE AvPlugin ------------------------------
(***************************************************************************)
(* A filter of the media framework's pipelines and its data plugin:        *)
(* AVOutputFilter with DsoftbusOutputPlugin ("busOut"),                    *)
(* DsoftbusOutputAudioPlugin ("busOutAudio") or DaudioOutputPlugin         *)
(* ("audioOut"), AVInputFilter of a receiver with DsoftbusInputPlugin      *)
(* ("busIn") or DsoftbusInputAudioPlugin ("busInAudio").  A plugin has a   *)
(* queue and a task thread that empties it.  The pipeline runs one         *)
(* operation of the filter at a time (its own mutex); the task thread and  *)
(* the softbus thread run beside it, so an operation is cut where it       *)
(* touches what they read.                                                 *)
(*                                                                         *)
(* A frame is only told apart by when it was pushed: before Start was      *)
(* called ("old") or after ("new"); "null" is the buffer the audio input   *)
(* enqueues for a message it cannot read.  The parameters, the dump files, *)
(* the frame's meta data, the clock in shared memory and OnChannelEvent,   *)
(* which hands an event on and keeps nothing, are left out.  Receivers     *)
(* are never paused, and Pause of an output filter does nothing.           *)
(***************************************************************************)
EXTENDS Naturals, Sequences

CONSTANT PlgQueueMax   \* DATA_QUEUE_MAX_SIZE

ASSUME PlgBounds == PlgQueueMax \in Nat \ {0}

PlgKinds == {"busOut", "busOutAudio", "audioOut", "busIn", "busInAudio"}
PlgInputs == {"busIn", "busInAudio"}
BusSenders == {"busOut", "busOutAudio"}

VARIABLES
  plgKind,
  fltState, hasPlugin,        \* state_ and plugin_ # nullptr of the filter
  plgState, plgRunning,       \* state and isrunning_ of the plugin
  plgTask,                    \* the task: "none", "made", "started"
  plgThread,                  \* where the task thread is in the handler
  plgHeld,                    \* the frame it has taken from the queue
  plgQueue, plgStarted,       \* dataQueue_, and whether Start has been called
  plgDataCb,                  \* dataCb_ is set
  plgBus,                     \* softbus: "listener" registered, "server" made, "channel" open
                              \* or "lost", closed by the peer since it was opened
  plgTodo                     \* steps left of the operation under way

plgLife == <<plgKind, fltState, hasPlugin>>
plgWork == <<plgThread, plgHeld>>
plgVars == <<plgLife, plgState, plgRunning, plgTask, plgWork, plgQueue, plgStarted,
             plgDataCb, plgBus, plgTodo>>

PlgInit ==
  /\ plgKind \in PlgKinds
  /\ fltState = "INITIALIZED" /\ hasPlugin = FALSE
  /\ plgState = "INITIALIZED" /\ plgRunning = FALSE
  /\ plgTask = "none" /\ plgThread = "out" /\ plgHeld = "null"
  /\ plgQueue = <<>> /\ plgStarted = FALSE /\ plgDataCb = FALSE
  /\ plgBus = {} /\ plgTodo = <<>>

PlgIdle == plgTodo = <<>>

-----------------------------------------------------------------------------
\* What Start, Stop and Reset (which Deinit calls) of a plugin do, step by step,
\* as each class orders it.  Reset has its task steps only if there is a task.

DsoftbusOutputPlugin ==
  [start |-> <<"open", "clear", "startTask", "running">>,
   stop |-> <<"prepared", "stopTask", "join", "clear", "close">>,
   reset |-> [first |-> <<>>, task |-> <<"stopTask", "join", "dropTask">>,
              last |-> <<"clear", "unregister", "initialized">>]]

DsoftbusOutputAudioPlugin ==
  [start |-> <<"open", "clear", "startTask", "running">>,
   stop |-> <<"prepared", "stopTask", "join", "clear", "close">>,
   reset |-> [first |-> <<>>, task |-> <<"stopTask", "join", "dropTask">>,
              last |-> <<"clear", "removeServer", "unregister", "initialized">>]]

DaudioOutputPlugin ==
  [start |-> <<"clear", "isrunning", "startTask", "running">>,
   stop |-> <<"prepared", "notrunning", "stopTask", "join", "clear">>,
   reset |-> [first |-> <<>>, task |-> <<"notrunning", "stopTask", "join", "dropTask">>,
              last |-> <<"clear", "initialized">>]]

DsoftbusInputPlugin ==
  [start |-> <<"clear", "isrunning", "startTask", "running">>,
   stop |-> <<"prepared", "notrunning", "stopTask", "join", "clear">>,
   reset |-> [first |-> <<"nullCallback">>,
              task |-> <<"notrunning", "stopTask", "join", "dropTask">>,
              last |-> <<"clear", "removeServer", "unregister", "initialized">>]]

DsoftbusInputAudioPlugin ==
  [start |-> <<"clear", "isrunning", "startTask", "running">>,
   stop |-> <<"prepared", "notrunning", "clear", "stopTask", "join">>,
   reset |-> [first |-> <<"nullCallback">>,
              task |-> <<"notrunning", "stopTask", "join", "dropTask">>,
              last |-> <<"clear", "removeServer", "unregister", "initialized">>]]

Plugin(kind) ==
  CASE kind = "busOut" -> DsoftbusOutputPlugin
    [] kind = "busOutAudio" -> DsoftbusOutputAudioPlugin
    [] kind = "audioOut" -> DaudioOutputPlugin
    [] kind = "busIn" -> DsoftbusInputPlugin
    [] kind = "busInAudio" -> DsoftbusInputAudioPlugin

ResetSteps ==
  LET reset == Plugin(plgKind).reset
  IN  reset.first \o (IF plgTask = "none" THEN <<>> ELSE reset.task) \o reset.last

-----------------------------------------------------------------------------
\* Operations of the filter.

\* Prepare of an output filter: CreatePlugin makes the plugin or resets the one
\* of a Prepare that failed (whose task never ran), then Init and SetDataCallback.
\* The plugins of audio make their task before they may miss a parameter.
OutputPrepare(ok) ==
  /\ PlgIdle /\ fltState = "INITIALIZED" /\ plgKind \notin PlgInputs
  /\ ok \/ plgKind # "busOut"
  /\ hasPlugin' = TRUE /\ plgDataCb' = TRUE /\ plgQueue' = <<>>
  /\ plgBus' = {} /\ plgTask' = "made"
  /\ plgState' = IF ok THEN "PREPARED" ELSE "INITIALIZED"
  /\ fltState' = IF ok THEN "READY" ELSE fltState
  /\ UNCHANGED <<plgKind, plgRunning, plgWork, plgStarted, plgTodo>>

\* Prepare of an input filter: the plugin registers its listener and then creates
\* the channel server, which can fail.
InputPrepare(ok) ==
  /\ PlgIdle /\ fltState = "INITIALIZED" /\ plgKind \in PlgInputs
  /\ hasPlugin' = TRUE /\ plgDataCb' = TRUE /\ plgQueue' = <<>>
  /\ plgBus' = IF ok THEN {"listener", "server"} ELSE {"listener"}
  /\ plgTask' = IF ok THEN "made" ELSE "none"
  /\ plgState' = IF ok THEN "PREPARED" ELSE "INITIALIZED"
  /\ fltState' = IF ok THEN "READY" ELSE fltState
  /\ UNCHANGED <<plgKind, plgRunning, plgWork, plgStarted, plgTodo>>

\* DoConfigure of an input fails before the plugin is initialised: a new plugin
\* is kept, an old one has been reset.
ConfigureFails ==
  /\ PlgIdle /\ fltState = "INITIALIZED" /\ plgKind \in PlgInputs
  /\ hasPlugin' = TRUE /\ plgDataCb' = FALSE /\ plgQueue' = <<>>
  /\ plgBus' = {} /\ plgTask' = "none" /\ plgState' = "INITIALIZED"
  /\ UNCHANGED <<plgKind, fltState, plgRunning, plgWork, plgStarted, plgTodo>>

\* Start of a filter in another state, without a plugin or with one that is not
\* prepared is refused and changes nothing.
FilterStart ==
  /\ PlgIdle /\ fltState = "READY" /\ hasPlugin /\ plgState = "PREPARED"
  /\ plgTodo' = Plugin(plgKind).start /\ plgStarted' = TRUE
  /\ UNCHANGED <<plgLife, plgState, plgRunning, plgTask, plgWork, plgQueue, plgDataCb, plgBus>>

\* A plausible slip: Deinit of the plugin is taken to stop it.
StopByDeinit ==
  /\ PlgIdle /\ hasPlugin
  /\ plgTodo' = ResetSteps \o (IF fltState = "RUNNING" THEN <<"forget">> ELSE <<>>)
  /\ UNCHANGED <<plgLife, plgState, plgRunning, plgTask, plgWork, plgQueue, plgStarted,
                 plgDataCb, plgBus>>

\* Stop: a filter that does not run only deinitialises its plugin and keeps it;
\* a plugin that does not run refuses Stop, which is not looked at.
FilterStop ==
  /\ PlgIdle /\ hasPlugin
  /\ plgTodo' =
       IF fltState # "RUNNING" THEN ResetSteps
       ELSE (IF plgState = "RUNNING" THEN Plugin(plgKind).stop ELSE <<>>)
              \o ResetSteps \o <<"forget">>
  /\ UNCHANGED <<plgLife, plgState, plgRunning, plgTask, plgWork, plgQueue, plgStarted,
                 plgDataCb, plgBus>>

-----------------------------------------------------------------------------
\* One step of the operation under way.

AtStep(step) == ~PlgIdle /\ Head(plgTodo) = step

StateStep ==
  /\ \/ AtStep("prepared") /\ plgState' = "PREPARED" /\ UNCHANGED plgRunning
     \/ AtStep("initialized") /\ plgState' = "INITIALIZED" /\ UNCHANGED plgRunning
     \/ AtStep("isrunning") /\ plgRunning' = TRUE /\ UNCHANGED plgState
     \/ AtStep("notrunning") /\ plgRunning' = FALSE /\ UNCHANGED plgState
  /\ plgTodo' = Tail(plgTodo)
  /\ UNCHANGED <<plgLife, plgTask, plgWork, plgQueue, plgStarted, plgDataCb, plgBus>>

\* The last step of Start: the plugin runs, then the filter.
RunningStep ==
  /\ AtStep("running")
  /\ plgState' = "RUNNING" /\ fltState' = "RUNNING"
  /\ plgTodo' = Tail(plgTodo)
  /\ UNCHANGED <<plgKind, hasPlugin, plgRunning, plgTask, plgWork, plgQueue, plgStarted,
                 plgDataCb, plgBus>>

QueueStep ==
  /\ AtStep("clear")
  /\ plgQueue' = <<>>
  /\ plgTodo' = Tail(plgTodo)
  /\ UNCHANGED <<plgLife, plgState, plgRunning, plgTask, plgWork, plgStarted, plgDataCb, plgBus>>

\* OSAL::Task: a started task runs its handler again and again; Stop lets no new
\* run begin and waits for the one under way.
TaskStep ==
  /\ \/ AtStep("startTask") /\ plgTask' = "started"
     \/ AtStep("stopTask") /\ plgTask' = "made"
     \/ AtStep("join") /\ plgThread = "out" /\ UNCHANGED plgTask
     \/ AtStep("dropTask") /\ plgTask' = "none"
  /\ plgTodo' = Tail(plgTodo)
  /\ UNCHANGED <<plgLife, plgState, plgRunning, plgWork, plgQueue, plgStarted, plgDataCb,
                 plgBus>>

CallbackStep ==
  /\ AtStep("nullCallback")
  /\ plgDataCb' = FALSE
  /\ plgTodo' = Tail(plgTodo)
  /\ UNCHANGED <<plgLife, plgState, plgRunning, plgTask, plgWork, plgQueue, plgStarted,
                 plgBus>>

\* OpenSoftbusChannel registers the listener and opens the channel; a Start that
\* cannot open it ends there, with the listener left registered.  Closing it is
\* the same whether the peer has closed it before or not.
BusStep ==
  /\ \/ /\ AtStep("open")
        /\ \/ /\ plgBus' = (plgBus \ {"lost"}) \cup {"listener", "channel"}
              /\ plgTodo' = Tail(plgTodo) /\ UNCHANGED plgStarted
           \/ /\ plgBus' = plgBus \cup {"listener"}
              /\ plgTodo' = <<>> /\ plgStarted' = FALSE
     \/ /\ \/ AtStep("close") /\ plgBus' = plgBus \ {"channel", "lost"}
           \/ AtStep("removeServer") /\ plgBus' = plgBus \ {"server"}
           \/ AtStep("unregister") /\ plgBus' = plgBus \ {"listener"}
        /\ plgTodo' = Tail(plgTodo) /\ UNCHANGED plgStarted
  /\ UNCHANGED <<plgLife, plgState, plgRunning, plgTask, plgWork, plgQueue, plgDataCb>>

\* plugin_ = nullptr; the filter is READY without a plugin from now on.
ForgetStep ==
  /\ AtStep("forget")
  /\ hasPlugin' = FALSE /\ fltState' = "READY"
  /\ plgTodo' = Tail(plgTodo)
  /\ UNCHANGED <<plgKind, plgState, plgRunning, plgTask, plgWork, plgQueue, plgStarted,
                 plgDataCb, plgBus>>

-----------------------------------------------------------------------------
\* Frames come in.

\* The oldest frames make room for a new one.
Pushed(frame) ==
  IF Len(plgQueue) >= PlgQueueMax THEN Append(Tail(plgQueue), frame)
  ELSE Append(plgQueue, frame)

FrameNow == IF plgStarted THEN "new" ELSE "old"

\* PushData of an output filter, under the filter's mutex, whatever its state.
FilterPushData ==
  /\ plgKind \notin PlgInputs /\ PlgIdle /\ hasPlugin
  /\ plgQueue' = Pushed(FrameNow)
  /\ UNCHANGED <<plgLife, plgState, plgRunning, plgTask, plgWork, plgStarted, plgDataCb,
                 plgBus, plgTodo>>

\* OnStreamReceived, CreateBuffer and DataEnqueue of an input, on the softbus
\* thread, under the adapter's lock of the listeners: as long as the listener is
\* registered and the server is there.
InputReceives ==
  /\ plgKind = "busIn" /\ {"listener", "server"} \subseteq plgBus
  /\ plgQueue' = Pushed(FrameNow)
  /\ UNCHANGED <<plgLife, plgState, plgRunning, plgTask, plgWork, plgStarted, plgDataCb,
                 plgBus, plgTodo>>

\* The audio input does not look whether a buffer could be made.
InputAudioReceives ==
  /\ plgKind = "busInAudio" /\ {"listener", "server"} \subseteq plgBus
  /\ \E frame \in {FrameNow, "null"} : plgQueue' = Pushed(frame)
  /\ UNCHANGED <<plgLife, plgState, plgRunning, plgTask, plgWork, plgStarted, plgDataCb,
                 plgBus, plgTodo>>

\* OnSoftbusChannelClosed: the peer shuts its end down, at any time.  The socket
\* is forgotten; the plugin passes the event on and goes on running.
PlgPeerCloses ==
  /\ "channel" \in plgBus
  /\ plgBus' = (plgBus \ {"channel"}) \cup {"lost"}
  /\ UNCHANGED <<plgLife, plgState, plgRunning, plgTask, plgWork, plgQueue, plgStarted,
                 plgDataCb, plgTodo>>

-----------------------------------------------------------------------------
\* The task thread: FeedChannelData of the senders, HandleData of the others.

\* The condition of the handler's loop.
LoopOn == IF plgKind \in BusSenders THEN plgState = "RUNNING" ELSE plgRunning

HandlerBegins ==
  /\ plgTask = "started" /\ plgThread = "out" /\ LoopOn
  /\ plgThread' = "loop"
  /\ UNCHANGED <<plgLife, plgState, plgRunning, plgTask, plgHeld, plgQueue, plgStarted,
                 plgDataCb, plgBus, plgTodo>>

\* The top of the loop: leave it, or go and wait for a frame; HandleData comes
\* back here as long as the plugin does not run.
HandlerLoops ==
  /\ plgThread = "loop"
  /\ \/ ~LoopOn /\ plgThread' = "out"
     \/ LoopOn /\ plgState = "RUNNING" /\ plgThread' = "wait"
  /\ UNCHANGED <<plgLife, plgState, plgRunning, plgTask, plgHeld, plgQueue, plgStarted,
                 plgDataCb, plgBus, plgTodo>>

\* The wait ends with a frame or with PLUGIN_TASK_WAIT_TIME.  A null buffer is
\* skipped.
TakesFrame ==
  IF plgQueue = <<>>
  THEN plgThread' = "loop" /\ UNCHANGED <<plgHeld, plgQueue>>
  ELSE /\ plgQueue' = Tail(plgQueue)
       /\ plgHeld' = Head(plgQueue)
       /\ plgThread' = IF Head(plgQueue) = "null" THEN "loop" ELSE "deliver"

\* FeedChannelData looks at the state again when it has waited.
FeedChannelData ==
  /\ plgThread = "wait" /\ plgKind \in BusSenders
  /\ IF plgState = "RUNNING" THEN TakesFrame
     ELSE plgThread' = "out" /\ UNCHANGED <<plgHeld, plgQueue>>
  /\ UNCHANGED <<plgLife, plgState, plgRunning, plgTask, plgStarted, plgDataCb, plgBus,
                 plgTodo>>

HandleData ==
  /\ plgThread = "wait" /\ plgKind \notin BusSenders
  /\ TakesFrame
  /\ UNCHANGED <<plgLife, plgState, plgRunning, plgTask, plgStarted, plgDataCb, plgBus,
                 plgTodo>>

\* A frame that cannot be sent, for want of a socket or otherwise, or is of
\* another type, is gone as well.
SendDataToSoftbus ==
  /\ plgThread = "deliver" /\ plgKind \in BusSenders
  /\ plgThread' = "loop" /\ plgHeld' = "null"
  /\ UNCHANGED <<plgLife, plgState, plgRunning, plgTask, plgQueue, plgStarted, plgDataCb,
                 plgBus, plgTodo>>

\* The data callback: the next filter's port, or the engine's event.
OnDataCallback ==
  /\ plgThread = "deliver" /\ plgKind \notin BusSenders
  /\ plgThread' = "loop" /\ plgHeld' = "null"
  /\ UNCHANGED <<plgLife, plgState, plgRunning, plgTask, plgQueue, plgStarted, plgDataCb,
                 plgBus, plgTodo>>

PlgOperations ==
  \/ \E ok \in BOOLEAN : OutputPrepare(ok) \/ InputPrepare(ok)
  \/ ConfigureFails \/ FilterStart \/ FilterStop
  \/ StateStep \/ RunningStep \/ QueueStep \/ TaskStep \/ CallbackStep \/ BusStep \/ ForgetStep

PlgFrames ==
  \/ FilterPushData \/ InputReceives \/ InputAudioReceives
  \/ HandlerBegins \/ HandlerLoops \/ FeedChannelData \/ HandleData
  \/ SendDataToSoftbus \/ OnDataCallback

PlgNext == PlgOperations \/ PlgFrames \/ PlgPeerCloses

PlgSpec == PlgInit /\ [][PlgNext]_plgVars

-----------------------------------------------------------------------------
(* The task thread works for the run it was started for.  What it hands on  *)
(* was pushed after Start was called, goes to a callback that is still set, *)
(* by a plugin that still exists, and a sender's frame finds the channel    *)
(* its run opened, unless the peer has closed it: neither Start nor Stop    *)
(* has the task thread work without the channel, although frames reach the  *)
(* queue before Start and while Stop runs.  And stopping the task never     *)
(* waits for a loop that was not told to end: FeedChannelData ends by the   *)
(* plugin's state alone, which Reset leaves as it is until the task has     *)
(* ended, so Reset must not come before Stop.                               *)
PlgTaskServesItsRun ==
  /\ plgThread = "deliver" =>
       /\ plgHeld = "new" /\ hasPlugin /\ plgDataCb
       /\ plgKind \in BusSenders => "channel" \in plgBus \/ "lost" \in plgBus
  /\ AtStep("join") /\ plgThread # "out" => ~LoopOn
=============================================================================

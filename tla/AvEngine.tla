------------------------------- MODULE AvEngine -------------------------------
(***************************************************************************)
(* The four AV transport engines (AVSenderEngine, AVReceiverEngine and     *)
(* their audio counterparts) with their providers: one engine of one       *)
(* class, its owner's calls, the data path and the channel events.         *)
(*                                                                         *)
(* The owner's calls come from one thread.  PushData comes from another    *)
(* and channel events from detached threads of the channel adapter; the    *)
(* engines have no lock, so a push and an event are taken apart where they *)
(* read a state and where they write one.  Pipeline calls may fail.        *)
(***************************************************************************)
EXTENDS Naturals, FiniteSets

CONSTANTS
    EngPeers,       \* network ids of peers
    EngMaxStreams   \* bound: entries of this engine and one peer in AVSyncManager's list

EngClasses == {"sender", "receiver", "audio sender", "audio receiver"}
EngOwners == {"mic", "virtual modem mic"}    \* with and without a scene type
Senders == {"sender", "audio sender"}
Audio == {"audio sender", "audio receiver"}

VARIABLES
    engClass,     \* the class of the engine
    engOwner,     \* ownerName_
    engPeer,      \* peerDevId_
    engState,     \* currentState_
    engPipe,      \* pipeline_: none, ready, prepared, running, paused, stopped
    engInit,      \* isInitialized_
    engCallback,  \* senderCallback_ / receiverCallback_ set
    engCenter,    \* registered at the AV control center
    engListen,    \* the peers it is registered for as listener, with its session name
    engStreams,   \* entries of this engine in AVSyncManager's list, by peer
    engStopped,   \* history: the peer at the last Stop
    engPush,      \* the thread in PushData / HandleOutputBuffer: idle, started (a stream to add), checked
    engOverlap,   \* Stop ran while a push was between its check and its end
    engEvent,     \* the thread in OnChannelEvent after the callback test: none or the event
    engLast,      \* the last call, if SetParameter: refused, or success that set, dropped or had no value
    engProvider   \* the provider: down, up, up with the engine in its list

engVars == <<engClass, engOwner, engPeer, engState, engPipe, engInit, engCallback, engCenter, engListen, engStreams,
             engStopped, engPush, engOverlap, engEvent, engLast, engProvider>>

EngInit ==
    /\ engClass \in EngClasses /\ engOwner \in EngOwners
    /\ engState = "IDLE" /\ engPipe = "none"
    /\ engInit = FALSE /\ engCallback = FALSE /\ engCenter = FALSE /\ engListen = {}
    /\ engPeer \in EngPeers /\ engStopped = engPeer
    /\ engStreams = [p \in EngPeers |-> 0] /\ engPush = "idle" /\ engOverlap = FALSE /\ engEvent = "none"
    /\ engLast = "none" /\ engProvider = "down"

Fixed == UNCHANGED <<engClass, engOwner>>
Class(c) == engClass = c /\ Fixed
SamePeer == UNCHANGED <<engPeer, engStopped>>
NoCallOf == engLast' = "none"

-----------------------------------------------------------------------------
(* Providers: a provider is made for one owner name, creates engines and   *)
(* releases them when it goes.                                             *)

\* CreateAVSenderEngine / CreateAVReceiverEngine: only an engine that was initialised is kept.
\* What an earlier engine has left registered is not this one's.
EngineCreated(listens) ==
    /\ engProvider \in {"down", "up"} /\ ~engInit
    /\ \/ /\ engPipe' = "ready" /\ engInit' = TRUE /\ engState' = "INITIALIZED" /\ engCenter' = TRUE
          /\ engPeer' \in EngPeers
          /\ engListen' = {p \in {engPeer'} : listens} /\ engProvider' = "holding"
       \/ /\ engPipe' \in {"none", "ready"} /\ engCenter' \in {FALSE, engPipe' = "ready"}   \* a step of Initialize fails
          /\ engProvider' = "up"
          /\ UNCHANGED <<engInit, engState, engListen, engPeer>>
    /\ NoCallOf
    /\ UNCHANGED <<engCallback, engStreams, engStopped, engPush, engOverlap, engEvent>>

SenderInitialize == Class("sender") /\ EngineCreated(TRUE)
ReceiverInitialize == Class("receiver") /\ EngineCreated(TRUE)
AudioReceiverInitialize == Class("audio receiver") /\ EngineCreated(TRUE)
\* no listener is registered before CreateControlChannel
AudioSenderInitialize == Class("audio sender") /\ EngineCreated(FALSE)

RegisterCallback ==
    /\ engProvider = "holding"
    /\ engCallback' = TRUE /\ NoCallOf /\ Fixed /\ SamePeer
    /\ UNCHANGED <<engState, engPipe, engInit, engCenter, engListen, engStreams, engPush, engOverlap, engEvent, engProvider>>

\* The first device becomes the peer, in every state; the listener of the peer before stays
\* registered, and that of the new one also when the channel cannot be opened.
CreateControlChannel(dev) ==
    /\ engProvider = "holding"
    /\ engPeer' = dev /\ engListen' = engListen \cup {dev} /\ NoCallOf /\ Fixed
    /\ UNCHANGED <<engStopped, engState, engPipe, engInit, engCallback, engCenter, engStreams, engPush, engOverlap, engEvent, engProvider>>

-----------------------------------------------------------------------------
(* The owner's life cycle calls.                                           *)

PreparePipeline ==
    /\ engProvider = "holding"
    /\ engState \in {"INITIALIZED", "CH_CREATED"} /\ engPipe # "none"
    /\ engPipe' = "prepared" /\ engState' = "CH_CREATED" /\ NoCallOf /\ SamePeer
    /\ UNCHANGED <<engInit, engCallback, engCenter, engListen, engStreams, engPush, engOverlap, engEvent, engProvider>>

SenderPrepare == Class("sender") /\ PreparePipeline
ReceiverPrepare == Class("receiver") /\ PreparePipeline
AudioSenderPrepare == Class("audio sender") /\ PreparePipeline
AudioReceiverPrepare == Class("audio receiver") /\ PreparePipeline

\* a sender's call to the control center may fail after the pipeline has started
Start(done) ==
    /\ engProvider = "holding"
    /\ engState = "CH_CREATED" /\ engPipe # "none"
    /\ engPipe' = "running"
    /\ engState' \in done /\ NoCallOf /\ SamePeer
    /\ UNCHANGED <<engInit, engCallback, engCenter, engListen, engStreams, engPush, engOverlap, engEvent, engProvider>>

SenderStart == Class("sender") /\ Start({"STARTED", "CH_CREATED"})
AudioSenderStart == Class("audio sender") /\ Start({"STARTED", "CH_CREATED"})
ReceiverStart == Class("receiver") /\ Start({"STARTED"})
AudioReceiverStart == Class("audio receiver") /\ Start({"STARTED"})

\* NotifyStreamChange: owners without a scene type have no stream; removal takes every entry of
\* the peer that the engine has by then
HasScene == engOwner # "virtual modem mic"
AddStream ==
    IF HasScene /\ engCenter /\ engStreams[engPeer] < EngMaxStreams
    THEN [engStreams EXCEPT ![engPeer] = @ + 1] ELSE engStreams
RemoveStream == IF HasScene /\ engCenter THEN [engStreams EXCEPT ![engPeer] = 0] ELSE engStreams

\* Faulty variant for mutation testing: the stream is removed at Release only.
StopKeepsStream(streams) ==
    /\ engProvider = "holding"
    /\ engPipe # "none"
    /\ engPipe' = "stopped" /\ engState' = "STOPPED" /\ engStreams' = engStreams
    /\ engStopped' = engPeer /\ UNCHANGED engPeer
    /\ engOverlap' = (engPush # "idle") /\ NoCallOf
    /\ UNCHANGED <<engInit, engCallback, engCenter, engListen, engPush, engEvent, engProvider>>

Stop(streams) ==
    /\ engProvider = "holding"
    /\ engPipe # "none"
    /\ engPipe' = "stopped" /\ engState' = "STOPPED" /\ engStreams' = streams
    /\ engStopped' = engPeer /\ UNCHANGED engPeer
    /\ engOverlap' = (engPush # "idle") /\ NoCallOf
    /\ UNCHANGED <<engInit, engCallback, engCenter, engListen, engPush, engEvent, engProvider>>

SenderStop == Class("sender") /\ Stop(RemoveStream)
AudioSenderStop == Class("audio sender") /\ Stop(RemoveStream)
ReceiverStop == Class("receiver") /\ Stop(engStreams)
AudioReceiverStop == Class("audio receiver") /\ Stop(engStreams)

\* Release: no stream is removed, and the listener of the last peer only; only the senders
\* forget their callback
Release(callback) ==
    /\ engProvider # "down"
    /\ engPipe' = "none" /\ engState' = "IDLE" /\ engInit' = FALSE
    /\ engCenter' = FALSE /\ engListen' = engListen \ {engPeer} /\ engCallback' = callback
    /\ NoCallOf /\ SamePeer

SenderRelease ==
    /\ Class("sender") /\ Release(FALSE)
    /\ UNCHANGED <<engStreams, engPush, engOverlap, engEvent, engProvider>>

AudioSenderRelease ==
    /\ Class("audio sender") /\ Release(FALSE)
    /\ UNCHANGED <<engStreams, engPush, engOverlap, engEvent, engProvider>>

ReceiverRelease ==
    /\ Class("receiver") /\ engState # "IDLE" /\ Release(engCallback)
    /\ UNCHANGED <<engStreams, engPush, engOverlap, engEvent, engProvider>>

AudioReceiverRelease ==
    /\ Class("audio receiver") /\ engState # "IDLE" /\ Release(engCallback)
    /\ UNCHANGED <<engStreams, engPush, engOverlap, engEvent, engProvider>>

\* the provider goes: every engine of its list is released
ProviderDestroyed ==
    /\ engProvider = "holding" /\ Fixed
    /\ Release(IF engClass \in Senders \/ engState = "IDLE" THEN FALSE ELSE engCallback)
    /\ engProvider' = "up"
    /\ UNCHANGED <<engStreams, engPush, engOverlap, engEvent>>

-----------------------------------------------------------------------------
(* SetParameter: the tags each class accepts and where a value goes.       *)

NumberToInput == {"VIDEO_WIDTH", "VIDEO_HEIGHT", "AUDIO_BIT_RATE", "VIDEO_BIT_RATE"}
AudioToInput == {"AUDIO_SAMPLE_FORMAT", "AUDIO_FRAME_SIZE"}
AudioToBoth == {"AUDIO_CHANNEL_MASK", "AUDIO_SAMPLE_RATE", "AUDIO_CHANNEL_LAYOUT"}
SyncTags == {"TIME_SYNC_RESULT", "START_AV_SYNC", "STOP_AV_SYNC"}
To(tags, where) == [t \in tags |-> where]
Merge(f, g) == [t \in DOMAIN f \cup DOMAIN g |-> IF t \in DOMAIN f THEN f[t] ELSE g[t]]

SenderVideo ==
    Merge(Merge(To(NumberToInput \cup {"VIDEO_PIXEL_FORMAT"}, {"input"}), To({"VIDEO_FRAME_RATE"}, {"input", "output"})),
          To({"VIDEO_CODEC_TYPE"}, {"input", "output", "encoder"}))
SenderAudio ==
    Merge(Merge(To(AudioToInput \cup {"SHARED_MEMORY_FD"}, {"input"}), To(AudioToBoth, {"input", "output"})),
          To({"AUDIO_CODEC_TYPE"}, {"input", "output", "encoder"}))
ReceiverVideo ==
    Merge(To(NumberToInput, {"input"}), To({"VIDEO_FRAME_RATE", "VIDEO_CODEC_TYPE"}, {"input", "output"}))
ReceiverAudio ==
    Merge(Merge(To(AudioToInput, {"input"}), To(AudioToBoth \cup {"AUDIO_CODEC_TYPE"}, {"input", "output"})),
          To(SyncTags \cup {"SHARED_MEMORY_FD"}, {"output"}))
AudioSenderVideo == To(NumberToInput \cup {"VIDEO_PIXEL_FORMAT", "VIDEO_FRAME_RATE", "VIDEO_CODEC_TYPE"}, {"meta"})
AudioSenderAudio == To(AudioToInput \cup AudioToBoth \cup {"AUDIO_CODEC_TYPE", "SHARED_MEMORY_FD"}, {"meta"})
AudioReceiverVideo == To(NumberToInput \cup {"VIDEO_FRAME_RATE", "VIDEO_CODEC_TYPE"}, {"meta"})
AudioReceiverAudio == To(AudioToInput \cup AudioToBoth \cup SyncTags \cup {"AUDIO_CODEC_TYPE", "SHARED_MEMORY_FD"}, {"meta"})

Setters == CASE engClass = "sender" -> Merge(SenderVideo, SenderAudio)
             [] engClass = "receiver" -> Merge(ReceiverVideo, ReceiverAudio)
             [] engClass = "audio sender" -> Merge(AudioSenderVideo, AudioSenderAudio)
             [] engClass = "audio receiver" -> Merge(AudioReceiverVideo, AudioReceiverAudio)

\* two switches: the tags the first one sets itself, those it hands on, and those the second one has a case for
OwnTags == {"VIDEO_WIDTH", "VIDEO_HEIGHT", "VIDEO_FRAME_RATE", "AUDIO_BIT_RATE", "VIDEO_BIT_RATE"}
HandedTags == {"VIDEO_CODEC_TYPE", "AUDIO_CODEC_TYPE", "AUDIO_CHANNEL_MASK", "AUDIO_SAMPLE_RATE", "AUDIO_CHANNEL_LAYOUT",
               "AUDIO_SAMPLE_FORMAT", "AUDIO_FRAME_SIZE", "SHARED_MEMORY_FD"}

SenderSwitch == [own |-> OwnTags \cup {"VIDEO_PIXEL_FORMAT"}, handed |-> HandedTags, inner |-> HandedTags]
AudioSenderSwitch == [own |-> OwnTags \cup {"VIDEO_PIXEL_FORMAT"}, handed |-> HandedTags, inner |-> HandedTags]

\* Faulty variant for mutation testing: the second switch has no case for the sync tags.
ReceiverSwitchNoSync == [own |-> OwnTags, handed |-> HandedTags \cup SyncTags, inner |-> HandedTags]

ReceiverSwitch == [own |-> OwnTags, handed |-> HandedTags \cup SyncTags, inner |-> HandedTags \cup SyncTags]
AudioReceiverSwitch == [own |-> OwnTags, handed |-> HandedTags \cup SyncTags, inner |-> HandedTags \cup SyncTags]

Switch == CASE engClass = "sender" -> SenderSwitch
            [] engClass = "receiver" -> ReceiverSwitch
            [] engClass = "audio sender" -> AudioSenderSwitch
            [] engClass = "audio receiver" -> AudioReceiverSwitch

Sets(tag) ==
    IF tag \in (Switch.own \cup (Switch.handed \cap Switch.inner)) \cap DOMAIN Setters THEN Setters[tag] ELSE {}

\* A value that is no number, or no known codec, is dropped without an error.  The call changes
\* nothing of the engine and looks at its class and its pipeline only, so it is taken once, while
\* no push and no event are under way (a bound).
SetParameter(tag, valid) ==
    /\ engProvider = "holding"
    /\ engLast = "none" /\ engPush = "idle" /\ engEvent = "none"
    /\ LET filters == engClass \in Audio \/ engPipe # "none"
           accepted == filters /\ tag \in Switch.own \cup Switch.handed IN
         engLast' = CASE ~accepted -> "refused"
                      [] accepted /\ ~valid -> "no value"
                      [] accepted /\ valid -> IF Sets(tag) # {} THEN "set" ELSE "dropped"
    /\ Fixed /\ SamePeer
    /\ UNCHANGED <<engState, engPipe, engInit, engCallback, engCenter, engListen, engStreams, engPush, engOverlap, engEvent,
                   engProvider>>

\* ENGINE_READY, ENGINE_PAUSE and ENGINE_RESUME set no value: they answer success once the filters
\* are there, and a step that fails, or comes in the wrong state, is logged only.
SetEngine(can) ==
    /\ engProvider = "holding" /\ (engClass \in Audio \/ engPipe # "none") /\ can
    /\ engLast' = "no value" /\ Fixed /\ SamePeer
    /\ UNCHANGED <<engInit, engCallback, engCenter, engListen, engStreams, engPush, engOverlap, engEvent, engProvider>>

SetEngineReady ==
    /\ SetEngine(TRUE)
    /\ \/ /\ engState \in {"INITIALIZED", "CH_CREATED"} /\ engPipe # "none"
          /\ engPipe' = "prepared" /\ engState' = "CH_CREATED"
       \/ UNCHANGED <<engPipe, engState>>

\* senders only; the state of the engine stays, and the pipeline's is not looked at here
SetEnginePause ==
    /\ SetEngine(engClass \in Senders) /\ UNCHANGED engState
    /\ engPipe' \in {engPipe} \cup {x \in {"paused"} : engPipe # "none"}

SetEngineResume ==
    /\ SetEngine(engClass \in Senders) /\ UNCHANGED engState
    /\ engPipe' \in {engPipe} \cup {x \in {"running"} : engPipe # "none"}

-----------------------------------------------------------------------------
(* The data path: the state is read; a sender that read STARTED then adds  *)
(* its stream, for the peer it has by then; and a buffer that went through *)
(* makes the state PLAYING, whatever it is by then.                        *)

DataBegins(first) ==
    /\ engPush = "idle"
    /\ \/ engState = "STARTED" /\ engPush' = first
       \/ engState = "PLAYING" /\ engPush' = "checked"
    /\ NoCallOf /\ SamePeer
    /\ UNCHANGED <<engState, engPipe, engInit, engCallback, engCenter, engListen, engStreams, engOverlap, engEvent, engProvider>>

StreamAdded ==
    /\ engPush = "started"
    /\ engPush' = "checked" /\ engStreams' = AddStream
    /\ NoCallOf /\ SamePeer
    /\ UNCHANGED <<engState, engPipe, engInit, engCallback, engCenter, engListen, engOverlap, engEvent, engProvider>>

DataEnds ==
    /\ engPush = "checked"
    /\ engPush' = "idle"
    /\ engState' \in {engState, "PLAYING"}
    /\ NoCallOf /\ SamePeer
    /\ UNCHANGED <<engPipe, engInit, engCallback, engCenter, engListen, engStreams, engOverlap, engEvent, engProvider>>

PushData == Class("sender") /\ (DataBegins("started") \/ StreamAdded \/ DataEnds)
AudioPushData == Class("audio sender") /\ (DataBegins("started") \/ StreamAdded \/ DataEnds)
HandleOutputBuffer == Class("receiver") /\ (DataBegins("checked") \/ DataEnds)
AudioHandleOutputBuffer == Class("audio receiver") /\ (DataBegins("checked") \/ DataEnds)

-----------------------------------------------------------------------------
(* Channel events: a listener without callback drops them.  The event's    *)
(* device is not looked at.                                                *)

EventArrives(e) ==
    /\ engListen # {} /\ engCallback /\ engEvent = "none"
    /\ engEvent' = e /\ NoCallOf /\ Fixed /\ SamePeer
    /\ UNCHANGED <<engState, engPipe, engInit, engCallback, engCenter, engListen, engStreams, engPush, engOverlap, engProvider>>

\* in the audio engines an opened channel does not throw a started engine back
AfterEvent(keeps) ==
    CASE engEvent = "OPENED" -> IF engState \in keeps THEN engState ELSE "CH_CREATED"
      [] engEvent = "OPEN_FAIL" -> "INITIALIZED"
      [] engEvent = "CLOSED" -> IF engState \in {"IDLE", "INITIALIZED"} THEN engState ELSE "INITIALIZED"

EventHandled(keeps) ==
    /\ engEvent # "none"
    /\ engState' = AfterEvent(keeps)
    /\ engEvent' = "none" /\ NoCallOf /\ SamePeer
    /\ UNCHANGED <<engPipe, engInit, engCallback, engCenter, engListen, engStreams, engPush, engOverlap, engProvider>>

SenderOnChannelEvent == Class("sender") /\ EventHandled({})
ReceiverOnChannelEvent == Class("receiver") /\ EventHandled({})
AudioSenderOnChannelEvent == Class("audio sender") /\ EventHandled({"STARTED"})
AudioReceiverOnChannelEvent == Class("audio receiver") /\ EventHandled({"STARTED"})

EngNext ==
    \/ SenderInitialize \/ ReceiverInitialize \/ AudioSenderInitialize \/ AudioReceiverInitialize
    \/ RegisterCallback \/ \E dev \in EngPeers : CreateControlChannel(dev)
    \/ SenderPrepare \/ ReceiverPrepare \/ AudioSenderPrepare \/ AudioReceiverPrepare
    \/ SenderStart \/ ReceiverStart \/ AudioSenderStart \/ AudioReceiverStart
    \/ SenderStop \/ ReceiverStop \/ AudioSenderStop \/ AudioReceiverStop
    \/ SenderRelease \/ ReceiverRelease \/ AudioSenderRelease \/ AudioReceiverRelease
    \/ ProviderDestroyed
    \/ \E t \in DOMAIN Merge(SenderVideo, SenderAudio) \cup SyncTags, v \in BOOLEAN : SetParameter(t, v)
    \/ SetEngineReady \/ SetEnginePause \/ SetEngineResume
    \/ PushData \/ AudioPushData \/ HandleOutputBuffer \/ AudioHandleOutputBuffer
    \/ \E e \in {"OPENED", "OPEN_FAIL", "CLOSED"} : EventArrives(e)
    \/ SenderOnChannelEvent \/ ReceiverOnChannelEvent \/ AudioSenderOnChannelEvent \/ AudioReceiverOnChannelEvent

EngSpec == EngInit /\ [][EngNext]_engVars

-----------------------------------------------------------------------------
(* A sender that was stopped has no stream left at AVSyncManager for the   *)
(* peer it had then, however often its stream was added (a state that      *)
(* events threw back and a failed first push both add it again) and        *)
(* whatever peer it takes up afterwards, unless a push overlapped the Stop.*)
(* A stream that was added for an earlier peer is not meant: no call       *)
(* removes it.                                                             *)
EngStoppedHasNoStream ==
    engState = "STOPPED" /\ engPush = "idle" /\ ~engOverlap /\ HasScene /\ engCenter => engStreams[engStopped] = 0

(* SetParameter never answers success for a usable value that it dropped:  *)
(* the tags that the two switches pass and the setters agree, class by     *)
(* class.                                                                  *)
EngAcceptedIsSet == engLast # "dropped"
=============================================================================

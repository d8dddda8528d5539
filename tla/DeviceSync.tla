----------------------------- MODULE DeviceSync -----------------------------
(***************************************************************************)
(* Device-info requests: an application asks for the hardware of a device; *)
(* what the local data does not have is requested from the device over the *)
(* soft bus.  Five kinds of threads meet here: the application's (and the  *)
(* cleanup threads of PendingRequests), the event handler of               *)
(* ComponentManager, which also runs the timers, the event handler of      *)
(* DHCommTool, the soft bus's callbacks, and the drivers' sync triggers.   *)
(*                                                                         *)
(* A response holds capabilities or is of no use (empty, not parseable, of *)
(* an untrusted device): which of the latter is not told apart.            *)
(***************************************************************************)
EXTENDS PendingRequests, Sequences

CONSTANTS
    Socket,     \* ids of soft bus sockets
    NoSocket, NoDevice,
    MaxTrigger, \* bound: sync triggers of the drivers
    MaxRelease, \* bound: releases of the framework
    MaxMessage  \* bound: messages waiting for DHCommTool's handler

ASSUME SyncConstants ==
    /\ NoSocket \notin Socket /\ NoDevice \notin Device
    /\ MaxTrigger \in Nat /\ MaxRelease \in Nat /\ MaxMessage \in Nat

VARIABLES
    handler,   \* eventHandler_ of ComponentManager exists
    entry,     \* devices in syncDeviceInfoMap_
    cbs,       \* the callbacks of each entry
    timers,    \* timeout tasks posted for each device
    untimed,   \* history: entries whose timeout task does not exist
    triggers,  \* history: sync triggers so far
    releases,  \* history: releases so far
    events,    \* EVENT_DATA_SYNC_MANUAL events of ComponentManager's handler
    cm,        \* what that handler does
    messages,  \* events of DHCommTool's handler
    ct,        \* what that handler does
    socks,     \* remoteDevSocketIds_
    open,      \* the peer of each open socket
    closed,    \* sockets the peer has closed, OnShutdown still to come
    missed,    \* history: sockets whose OnShutdown came before their registration
    asked,     \* requests a device has received from us and not answered
    late,      \* what handlers that Initialize has replaced have still to do
    freed      \* history: Initialize destroyed a transport in use

requests == <<entry, cbs, timers, untimed>>
transport == <<socks, open, closed, missed>>
cmVars == <<handler, events, cm>>
ctVars == <<messages, ct>>
aside == <<triggers, releases, late, freed>>
vars == <<flags, fixed, st, answers, queue, threads, aside, requests,
          transport, cmVars, ctVars, asked>>

CmIdle == [pc |-> "idle", dev |-> NoDevice, sock |-> NoSocket]
CtIdle == [pc |-> "idle", dev |-> NoDevice, caps |-> FALSE]
Message == [rsp: BOOLEAN, dev: Device, caps: BOOLEAN]

\* The rest of an event whose handler was replaced at the n-th release.
Late == [n: Nat, pc: {"timeout", "send", "stop", "clear", "answer"}, dev: Device, caps: BOOLEAN]

TypeOK ==
    /\ PendingTypeOK
    /\ handler \in BOOLEAN
    /\ entry \subseteq Device /\ untimed \subseteq entry
    /\ cbs \in [Device -> SUBSET Request]
    /\ timers \in [Device -> Nat]
    /\ triggers \in 0..MaxTrigger /\ releases \in 0..MaxRelease
    /\ events \in Seq(Device)
    /\ cm \in [pc: {"idle", "check", "bind", "opened", "send", "timeout"},
               dev: Device \cup {NoDevice}, sock: Socket \cup {NoSocket}]
    /\ cm.pc # "idle" => cm.dev \in Device
    /\ messages \in Seq(Message)
    /\ ct \in [pc: {"idle", "stop", "clear", "answer"},
               dev: Device \cup {NoDevice}, caps: BOOLEAN]
    /\ ct.pc # "idle" => ct.dev \in Device
    /\ socks \in [Device -> Socket \cup {NoSocket}]
    /\ open \in [Socket -> Device \cup {NoDevice}]
    /\ closed \subseteq Socket /\ missed \subseteq Socket
    /\ asked \in [Device -> Nat]
    /\ late \subseteq Late /\ freed \in BOOLEAN

Init ==
    /\ PendingInit
    /\ handler = FALSE
    /\ entry = {} /\ untimed = {} /\ triggers = 0 /\ releases = 0
    /\ cbs = [d \in Device |-> {}] /\ timers = [d \in Device |-> 0]
    /\ events = <<>> /\ cm = CmIdle /\ messages = <<>> /\ ct = CtIdle
    /\ socks = [d \in Device |-> NoSocket] /\ open = [s \in Socket |-> NoDevice]
    /\ closed = {} /\ missed = {} /\ asked = [d \in Device |-> 0]
    /\ late = {} /\ freed = FALSE

\* OnSuccess or OnError of a set of callbacks.
Answer(R) ==
    /\ st' = [r \in Request |-> IF r \in R THEN "answered" ELSE st[r]]
    /\ answers' = [r \in Request |-> IF r \in R THEN answers[r] + 1 ELSE answers[r]]

\* An entry is erased.
Erase(d) ==
    /\ entry' = entry \ {d} /\ untimed' = untimed \ {d}
    /\ cbs' = [cbs EXCEPT ![d] = {}]

-----------------------------------------------------------------------------
(* The thread that serves a request: the application's or a cleanup        *)
(* thread.                                                                 *)

\* GetDeviceDhInfo answers from the local data if that has the device.
StartGetDeviceDhInfo(r) ==
    /\ st[r] = "lookup"
    /\ \/ Answer({r})
       \/ st' = [st EXCEPT ![r] = "sync"] /\ UNCHANGED answers
    /\ UNCHANGED <<flags, fixed, queue, threads, aside, requests,
                   transport, cmVars, ctVars, asked>>

\* A request joins the one that is under way for its device, or makes an entry,
\* posts the event that sends the request and starts its timer.
SyncRemoteDeviceInfoBySoftbus(r) ==
    LET d == ask[r].dev IN
    /\ st[r] = "sync"
    /\ \/ /\ d \in entry \/ handler
          /\ st' = [st EXCEPT ![r] = "waiting"]
          /\ cbs' = [cbs EXCEPT ![d] = @ \cup {r}]
          /\ entry' = entry \cup {d}
          /\ IF d \in entry
             THEN UNCHANGED <<events, timers>>
             ELSE /\ events' = Append(events, d)
                  /\ timers' = [timers EXCEPT ![d] = @ + 1]
          /\ UNCHANGED answers
       \/ /\ d \notin entry /\ ~handler
          /\ Answer({r})
          /\ UNCHANGED <<entry, cbs, timers, events>>
    /\ UNCHANGED <<flags, fixed, queue, threads, aside, untimed,
                   transport, handler, cm, ctVars, asked>>

\* OnDataSyncTrigger of a driver: RegisterSyncDataRequest makes an entry
\* without callbacks, and without a timer, if there is none.
OnDataSyncTrigger(d) ==
    /\ triggers < MaxTrigger
    /\ triggers' = triggers + 1
    /\ entry' = entry \cup {d}
    /\ untimed' = IF d \in entry THEN untimed ELSE untimed \cup {d}
    /\ events' = IF handler THEN Append(events, d) ELSE events
    /\ UNCHANGED <<flags, fixed, st, answers, queue, threads, releases, late, freed, cbs, timers,
                   transport, handler, cm, ctVars, asked>>

-----------------------------------------------------------------------------
(* The event handler of ComponentManager.                                  *)

CmGoes == UNCHANGED <<flags, fixed, queue, threads, aside, handler, ctVars>>
CmSends == CmGoes /\ UNCHANGED <<st, answers, requests>>

\* TriggerReqFullDHCaps; the access check may refuse the request.
TriggerFullCapsSync ==
    /\ cm.pc = "idle" /\ events # <<>>
    /\ events' = Tail(events)
    /\ cm' \in {CmIdle, [CmIdle EXCEPT !.pc = "check", !.dev = Head(events)]}
    /\ CmSends /\ UNCHANGED <<transport, asked>>

\* StartSocket: does the device have a session already?
CheckSession ==
    /\ cm.pc = "check"
    /\ cm' = [cm EXCEPT !.pc = IF socks[cm.dev] = NoSocket THEN "bind" ELSE "send"]
    /\ CmSends /\ UNCHANGED <<events, transport, asked>>

Unused(s) ==
    /\ open[s] = NoDevice /\ s \notin closed /\ s # cm.sock
    /\ \A d \in Device : socks[d] # s

\* Bind makes a connection, or fails and the socket is shut down again.
BindSocket ==
    /\ cm.pc = "bind"
    /\ \/ /\ cm' = CmIdle
          /\ UNCHANGED <<open, missed>>
       \/ \E s \in Socket :
            /\ Unused(s)
            /\ open' = [open EXCEPT ![s] = cm.dev]
            /\ missed' = missed \ {s}
            /\ cm' = [cm EXCEPT !.pc = "opened", !.sock = s]
    /\ CmSends /\ UNCHANGED <<events, socks, closed, asked>>

\* OnSocketOpened, called by StartSocket after Bind has returned.
SocketOpened ==
    /\ cm.pc = "opened"
    /\ socks' = [socks EXCEPT ![cm.dev] = cm.sock]
    /\ cm' = [cm EXCEPT !.pc = "send", !.sock = NoSocket]
    /\ CmSends /\ UNCHANGED <<events, open, closed, missed, asked>>

\* Send looks the socket up again; the bytes may arrive if it is open.
SendRequest ==
    LET s == socks[cm.dev] IN
    /\ cm.pc = "send"
    /\ \/ /\ s # NoSocket /\ open[s] = cm.dev
          /\ asked' = [asked EXCEPT ![cm.dev] = @ + 1]
       \/ UNCHANGED asked
    /\ cm' = CmIdle
    /\ CmSends /\ UNCHANGED <<events, transport>>

\* The handler takes a timeout task that is due; it has to wait for
\* syncDeviceInfoMapMutex_ then.
TimeoutTaskStarts(d) ==
    /\ cm.pc = "idle" /\ timers[d] > 0
    /\ timers' = [timers EXCEPT ![d] = @ - 1]
    /\ cm' = [CmIdle EXCEPT !.pc = "timeout", !.dev = d]
    /\ CmGoes /\ UNCHANGED <<st, answers, entry, cbs, untimed, events, transport, asked>>

\* Faulty variants for mutation testing: the entry is not erased; the
\* callbacks are not told.
TimeoutKeepsEntry ==
    /\ cm.pc = "timeout"
    /\ cm' = CmIdle
    /\ Answer(cbs[cm.dev])
    /\ CmGoes /\ UNCHANGED <<requests, events, transport, asked>>
TimeoutIsSilent ==
    /\ cm.pc = "timeout"
    /\ cm' = CmIdle
    /\ Erase(cm.dev)
    /\ CmGoes /\ UNCHANGED <<st, answers, timers, events, transport, asked>>

HandleSyncDataTimeout ==
    /\ cm.pc = "timeout"
    /\ cm' = CmIdle
    /\ Answer(cbs[cm.dev])
    /\ Erase(cm.dev)
    /\ CmGoes /\ UNCHANGED <<timers, events, transport, asked>>

CmThread ==
    \/ TriggerFullCapsSync \/ CheckSession \/ BindSocket \/ SocketOpened \/ SendRequest
    \/ HandleSyncDataTimeout \/ \E d \in Device : TimeoutTaskStarts(d)

-----------------------------------------------------------------------------
(* The event handler of DHCommTool.                                        *)

CtGoes == UNCHANGED <<flags, fixed, queue, threads, aside, cmVars, asked>>

\* A request is answered with the local data, which changes nothing here.  A
\* response counts, and is saved, only while an entry waits for it.
ProcessEvent ==
    LET m == Head(messages) IN
    /\ ct.pc = "idle" /\ messages # <<>>
    /\ messages' = Tail(messages)
    /\ \/ /\ ~m.rsp
          /\ UNCHANGED ct
       \/ /\ m.rsp
          /\ ct' = [pc |-> "stop", dev |-> m.dev, caps |-> m.caps /\ m.dev \in entry]
    /\ CtGoes /\ UNCHANGED <<st, answers, requests, transport>>

\* "after receive rsp, close dsoftbus channel": the one that the map has now.
StopSocket ==
    LET s == socks[ct.dev] IN
    /\ ct.pc = "stop"
    /\ IF s = NoSocket
       THEN ct' = [ct EXCEPT !.pc = "answer"] /\ UNCHANGED open
       ELSE ct' = [ct EXCEPT !.pc = "clear"] /\ open' = [open EXCEPT ![s] = NoDevice]
    /\ CtGoes /\ UNCHANGED <<st, answers, requests, socks, closed, missed, messages>>

\* The second half of StopSocket: what the map has for the device by then.
ClearDeviceSocketOpened ==
    /\ ct.pc = "clear"
    /\ socks' = [socks EXCEPT ![ct.dev] = NoSocket]
    /\ ct' = [ct EXCEPT !.pc = "answer"]
    /\ CtGoes /\ UNCHANGED <<st, answers, requests, open, closed, missed, messages>>

\* Faulty variant for mutation testing: the timer is stopped before the
\* descriptors are looked at.
StopTimerFirst ==
    /\ ct.pc = "answer"
    /\ ct' = CtIdle
    /\ timers' = [timers EXCEPT ![ct.dev] = 0]
    /\ IF ct.caps /\ ct.dev \in entry
       THEN Answer(cbs[ct.dev]) /\ Erase(ct.dev)
       ELSE UNCHANGED <<st, answers, entry, cbs, untimed>>
    /\ CtGoes /\ UNCHANGED <<transport, messages>>

\* A response without descriptors answers nobody.
Descriptors(d, caps) ==
    IF caps /\ d \in entry
    THEN Answer(cbs[d]) /\ Erase(d) /\ timers' = [timers EXCEPT ![d] = 0]
    ELSE UNCHANGED <<st, answers, requests>>

OnGetDescriptors ==
    /\ ct.pc = "answer"
    /\ ct' = CtIdle
    /\ Descriptors(ct.dev, ct.caps)
    /\ CtGoes /\ UNCHANGED <<transport, messages>>

CtThread == ProcessEvent \/ StopSocket \/ ClearDeviceSocketOpened \/ OnGetDescriptors

-----------------------------------------------------------------------------
(* The soft bus and the other device.                                      *)

PeerActs == UNCHANGED <<flags, fixed, st, answers, queue, threads, aside,
                        requests, cmVars, ct>>

\* Bytes on a socket that the map does not have are dropped, and so are bytes
\* that are no message and requests that the access check refuses.
OnBytesReceived(d, s, rsp, caps) ==
    /\ open[s] = d /\ Len(messages) < MaxMessage
    /\ \/ /\ socks[d] = s
          /\ messages' = Append(messages, [rsp |-> rsp, dev |-> d, caps |-> caps])
       \/ UNCHANGED messages

PeerResponds(d, s) ==
    /\ asked[d] > 0
    /\ asked' = [asked EXCEPT ![d] = @ - 1]
    /\ \E caps \in BOOLEAN : OnBytesReceived(d, s, TRUE, caps)
    /\ PeerActs /\ UNCHANGED transport

PeerRequests(d, s) ==
    /\ OnBytesReceived(d, s, FALSE, FALSE)
    /\ PeerActs /\ UNCHANGED <<transport, asked>>

\* OnBind: the peer opens a session with our server socket, whatever the map
\* had is overwritten.
PeerOpens(d, s) ==
    /\ isInit /\ Unused(s)
    /\ open' = [open EXCEPT ![s] = d]
    /\ missed' = missed \ {s}
    /\ socks' = [socks EXCEPT ![d] = s]
    /\ PeerActs /\ UNCHANGED <<closed, messages, asked>>

PeerCloses(s) ==
    /\ open[s] # NoDevice
    /\ open' = [open EXCEPT ![s] = NoDevice]
    /\ closed' = closed \cup {s}
    /\ PeerActs /\ UNCHANGED <<socks, missed, messages, asked>>

\* Faulty variant for mutation testing: the map is left alone.
ClosedIsIgnored(s) ==
    /\ s \in closed
    /\ closed' = closed \ {s}
    /\ PeerActs /\ UNCHANGED <<open, socks, missed, messages, asked>>

\* OnShutdown of a socket that the peer has closed.
OnSocketClosed(s) ==
    /\ s \in closed
    /\ closed' = closed \ {s}
    /\ socks' = [d \in Device |-> IF socks[d] = s THEN NoSocket ELSE socks[d]]
    /\ missed' = IF cm.sock = s THEN missed \cup {s} ELSE missed
    /\ PeerActs /\ UNCHANGED <<open, messages, asked>>

-----------------------------------------------------------------------------
(* The framework.                                                          *)

LocalInit ==
    /\ ~isLocalInit
    /\ isLocalInit' = TRUE
    /\ UNCHANGED <<isInit, fixed, st, answers, queue, threads, aside,
                   requests, transport, cmVars, ctVars, asked>>

\* What the replaced handlers go on with: the one event that they are at.  A
\* StopSocket that is under way ends in the old transport.
Replaced ==
    (IF cm.pc \in {"timeout", "send"}
     THEN {[n |-> releases, pc |-> cm.pc, dev |-> cm.dev, caps |-> FALSE]} ELSE {}) \cup
    (IF ct.pc \in {"stop", "clear", "answer"}
     THEN {[n |-> releases, pc |-> IF ct.pc = "stop" THEN "stop" ELSE "answer",
            dev |-> ct.dev, caps |-> ct.caps]} ELSE {})

\* ComponentManager::Init makes new event handlers and a new transport, whatever
\* the old ones are doing.  The tasks of the old handlers are gone,
\* syncDeviceInfoMap_ stays.  TriggerReqFullDHCaps holds no reference to the
\* transport it is in: the rest of a StartSocket is undefined and left out here.
Initialize ==
    /\ ~isInit
    /\ cm' = CmIdle /\ ct' = CtIdle /\ late' = late \cup Replaced
    /\ freed' = (freed \/ cm.pc \in {"check", "bind", "opened", "send"})
    /\ isInit' = TRUE /\ isLocalInit' = TRUE
    /\ handler' = TRUE /\ events' = <<>> /\ messages' = <<>>
    /\ timers' = [d \in Device |-> 0]
    /\ untimed' = entry
    /\ socks' = [d \in Device |-> NoSocket]
    /\ UNCHANGED <<fixed, st, answers, queue, threads, triggers, releases, entry, cbs,
                   open, closed, missed, asked>>

\* Release: DHTransport::UnInit shuts the registered sockets down.
Release ==
    /\ isInit /\ releases < MaxRelease
    /\ releases' = releases + 1
    /\ isInit' = FALSE /\ isLocalInit' = FALSE
    /\ open' = [s \in Socket |->
                   IF \E d \in Device : socks[d] = s THEN NoDevice ELSE open[s]]
    /\ socks' = [d \in Device |-> NoSocket]
    /\ UNCHANGED <<fixed, st, answers, queue, threads, triggers, late, freed, requests,
                   closed, missed, cmVars, ctVars, asked>>

-----------------------------------------------------------------------------
(* The threads of replaced handlers, beside the new ones.                  *)

LateGoes == UNCHANGED <<flags, fixed, queue, threads, triggers, releases, freed, cmVars,
                        ctVars, closed, missed>>
Over(j) == late' = late \ {j}
Goes(j, pc) == late' = (late \ {j}) \cup {[j EXCEPT !.pc = pc]}

\* HandleSyncDataTimeout, which may meet an entry that is younger than its task.
LateTimeout(j) ==
    /\ j.pc = "timeout" /\ Over(j)
    /\ Answer(cbs[j.dev]) /\ Erase(j.dev)
    /\ UNCHANGED <<timers, socks, open, asked>>

LateSend(j) ==
    /\ j.pc = "send" /\ Over(j)
    /\ \/ /\ socks[j.dev] # NoSocket /\ open[socks[j.dev]] = j.dev
          /\ asked' = [asked EXCEPT ![j.dev] = @ + 1]
       \/ UNCHANGED asked
    /\ UNCHANGED <<st, answers, requests, socks, open>>

\* StopSocket in the new transport, or in the old one, which has nothing left.
LateStop(j) ==
    /\ j.pc = "stop"
    /\ \/ Goes(j, "answer") /\ UNCHANGED open
       \/ /\ socks[j.dev] # NoSocket /\ Goes(j, "clear")
          /\ open' = [open EXCEPT ![socks[j.dev]] = NoDevice]
    /\ UNCHANGED <<st, answers, requests, socks, asked>>

LateClear(j) ==
    /\ j.pc = "clear" /\ Goes(j, "answer")
    /\ socks' = [socks EXCEPT ![j.dev] = NoSocket]
    /\ UNCHANGED <<st, answers, requests, open, asked>>

LateAnswer(j) ==
    /\ j.pc = "answer" /\ Over(j)
    /\ Descriptors(j.dev, j.caps)
    /\ UNCHANGED <<socks, open, asked>>

LateThread(j) ==
    /\ LateTimeout(j) \/ LateSend(j) \/ LateStop(j) \/ LateClear(j) \/ LateAnswer(j)
    /\ LateGoes

-----------------------------------------------------------------------------
Others == <<aside, requests, transport, cmVars, ctVars, asked>>

Apply(r) == GetDistributedHardware(r) /\ UNCHANGED Others
CleanupThread(t) == Cleanup(t) /\ UNCHANGED Others
Serve(r) == StartGetDeviceDhInfo(r) \/ SyncRemoteDeviceInfoBySoftbus(r)

Next ==
    \/ \E r \in Request : Apply(r) \/ CleanupThread(r) \/ Serve(r)
    \/ CmThread \/ CtThread
    \/ \E d \in Device : OnDataSyncTrigger(d)
    \/ \E d \in Device, s \in Socket :
         PeerResponds(d, s) \/ PeerRequests(d, s) \/ PeerOpens(d, s)
    \/ \E s \in Socket : PeerCloses(s) \/ OnSocketClosed(s)
    \/ LocalInit \/ Initialize \/ Release
    \/ \E j \in late : LateThread(j)

\* The threads of the framework go on and the timers fire.  Nobody need call,
\* and the peer need do nothing.
Spec ==
    /\ Init /\ [][Next]_vars
    /\ \A r \in Request : WF_vars(CleanupThread(r)) /\ WF_vars(Serve(r))
    /\ WF_vars(CmThread) /\ WF_vars(CtThread) /\ WF_vars(\E j \in late : LateThread(j))
    /\ \A d \in Device : WF_vars(TimeoutTaskStarts(d))

-----------------------------------------------------------------------------
(* Properties.                                                             *)

\* No callback is called twice, whether the response, the timeout, the local
\* data or the cleanup thread comes first.
AnsweredOnce == \A r \in Request : answers[r] <= 1

\* What a request looks like to its application: refused at once, or accepted
\* and called back at most once, whether the response, the timeout, the local
\* data or the cleanup thread comes first; never called back when refused.
Promise ==
    INSTANCE CallbackPromise
    WITH Requests <- Request, calls <- answers,
         owed <- {r \in Request : st[r] \notin {"new", "refused", "answered"}},
         over <- {r \in Request : st[r] \in {"refused", "answered"}}
PromiseKept == Promise!Spec

\* An entry that was made with a timer keeps it until it is erased: whatever
\* responses come, the timeout task is still posted or is about to be handled.
EntryHasTimer ==
    \A d \in entry \ untimed :
        timers[d] > 0 \/ (cm.pc = "timeout" /\ cm.dev = d)

\* remoteDevSocketIds_ does not keep a socket that is closed, for then no
\* request could be sent to the device any more: OnSocketClosed is still to
\* come, or StopSocket is about to erase it.  The exception is a socket that the
\* peer closed before StartSocket had registered it.
ClosedSocketIsForgotten ==
    \A d \in Device :
        socks[d] \in Socket /\ open[socks[d]] = NoDevice =>
            \/ socks[d] \in closed \cup missed
            \/ ct.pc = "clear" /\ ct.dev = d
            \/ \E j \in late : j.pc = "clear" /\ j.dev = d

\* Every accepted request is answered, also when the framework is never
\* initialised or the device never responds, unless it has joined an entry
\* that has no timer, or Initialize has destroyed the transport in use.
AnsweredUnlessUntimed ==
    \A r \in Request :
        st[r] \notin {"new", "refused"} ~>
            \/ st[r] = "answered" \/ freed
            \/ st[r] = "waiting" /\ ask[r].dev \in untimed

=============================================================================

-------------------------- MODULE DeviceSyncProofs --------------------------
(***************************************************************************)
(* The safety of device-info requests, for any number of requests,         *)
(* devices and sockets.                                                    *)
(***************************************************************************)
EXTENDS DeviceSync, TLAPS

-----------------------------------------------------------------------------
(* Types.                                                                  *)

LEMMA SyncTypeInit == Init => TypeOK
PROOF
<1> SUFFICES ASSUME Init PROVE TypeOK
  OBVIOUS
<1> USE PendingConstants, SyncConstants DEF Init, PendingInit
<1>1. /\ carBuild \in BOOLEAN /\ isInit \in BOOLEAN /\ isLocalInit \in BOOLEAN
      /\ cleanupRunning \in BOOLEAN /\ handler \in BOOLEAN /\ freed \in BOOLEAN
  BY Zenon
<1>2. PendingTypeOK
  BY <1>1 DEF PendingTypeOK, Progress, Live
<1>3. cm \in [pc: {"idle", "check", "bind", "opened", "send", "timeout"},
              dev: Device \cup {NoDevice}, sock: Socket \cup {NoSocket}]
  BY DEF CmIdle
<1>4. ct \in [pc: {"idle", "stop", "clear", "answer"},
              dev: Device \cup {NoDevice}, caps: BOOLEAN]
  BY DEF CtIdle
<1>5. cm.pc = "idle" /\ ct.pc = "idle"
  BY DEF CmIdle, CtIdle
<1> QED BY <1>1, <1>2, <1>3, <1>4, <1>5 DEF TypeOK

\* The answers keep the types of what they change.
LEMMA AnswerType ==
    ASSUME NEW R, Answer(R), st \in [Request -> Progress], answers \in [Request -> Nat]
    PROVE  st' \in [Request -> Progress] /\ answers' \in [Request -> Nat]
PROOF
  BY DEF Answer, Progress

\* What each step does to the state of the requests.
SameRequests == UNCHANGED <<st, answers>>
Moved(r, p) == st' = [st EXCEPT ![r] = p] /\ UNCHANGED answers

LEMMA ServeEffect ==
    ASSUME NEW r \in Request, Serve(r)
    PROVE  /\ Answer({r}) \/ Moved(r, "sync") \/ Moved(r, "waiting")
           /\ UNCHANGED <<fixed, flags, queue, threads>>
PROOF
  BY Zenon DEF Serve, StartGetDeviceDhInfo, SyncRemoteDeviceInfoBySoftbus, Moved

LEMMA CmEffect ==
    ASSUME CmThread
    PROVE  /\ SameRequests \/ (HandleSyncDataTimeout /\ Answer(cbs[cm.dev]))
           /\ UNCHANGED <<fixed, flags, queue, threads>>
PROOF
  BY Zenon DEF CmThread, CmGoes, CmSends, TriggerFullCapsSync, CheckSession, BindSocket,
      SocketOpened, SendRequest, HandleSyncDataTimeout, TimeoutTaskStarts, SameRequests

LEMMA CtEffect ==
    ASSUME CtThread
    PROVE  /\ SameRequests \/ (OnGetDescriptors /\ Answer(cbs[ct.dev]))
           /\ UNCHANGED <<fixed, flags, queue, threads>>
PROOF
  BY Zenon DEF CtThread, CtGoes, ProcessEvent, StopSocket, ClearDeviceSocketOpened,
      OnGetDescriptors, Descriptors, requests, SameRequests

\* A thread of a replaced handler answers the entry of its device, or nobody.
LEMMA LateEffect ==
    ASSUME TypeOK, NEW j \in late, LateThread(j)
    PROVE  /\ j \in Late /\ j.dev \in Device
           /\ UNCHANGED <<fixed, flags, queue, threads, cmVars, ctVars, triggers, releases,
                          freed, closed, missed>>
           /\ \/ SameRequests /\ UNCHANGED requests
              \/ /\ Answer(cbs[j.dev]) /\ Erase(j.dev)
                 /\ timers' = timers \/ timers' = [timers EXCEPT ![j.dev] = 0]
PROOF
<1>1. j \in Late /\ j.dev \in Device
  BY DEF TypeOK, Late
<1>2. UNCHANGED <<fixed, flags, queue, threads, cmVars, ctVars, triggers, releases,
                  freed, closed, missed>>
  BY Zenon DEF LateThread, LateGoes
<1>3. \/ SameRequests /\ UNCHANGED requests
      \/ /\ Answer(cbs[j.dev]) /\ Erase(j.dev)
         /\ timers' = timers \/ timers' = [timers EXCEPT ![j.dev] = 0]
  BY Zenon DEF LateThread, LateTimeout, LateSend, LateStop, LateClear, LateAnswer, Descriptors,
      requests, SameRequests
<1> QED BY <1>1, <1>2, <1>3

\* The types of what the cleanup threads and the callbacks change.
LEMMA PendingTypeStep ==
    ASSUME TypeOK, Next
    PROVE  PendingTypeOK'
PROOF
<1>0. PendingTypeOK
  BY DEF TypeOK
<1> USE PendingConstants, <1>0 DEF PendingTypeOK, Progress, Live, fixed, flags, queue, threads
<1>1. ASSUME NEW r \in Request, Apply(r) PROVE PendingTypeOK'
  <2>1. cleanupRunning' \in BOOLEAN
    BY <1>1, Zenon DEF Apply, GetDistributedHardware, QueuePendingRequest
  <2> QED BY <1>1, <2>1 DEF Apply, GetDistributedHardware, QueuePendingRequest
<1>2. ASSUME NEW t \in Request, CleanupThread(t) PROVE PendingTypeOK'
  <2>1. CASE LoopCheck(t)
    BY <2>1 DEF LoopCheck
  <2>2. CASE Wake(t)
    BY <2>2 DEF Wake
  <2>3. CASE CleanupExpiredRequests(t)
    <3>1. cleanupRunning' \in BOOLEAN
      BY <2>3, Zenon DEF CleanupExpiredRequests, TakeFromQueue
    <3>2. initTimes' \in 0..(MaxRetry + 1)
      BY <2>3 DEF CleanupExpiredRequests, TakeFromQueue, Expired
    <3>3. /\ pending' \subseteq Request /\ st' \in [Request -> Progress]
          /\ cleaner' \in [Request -> Live \cup {"none", "exit"}]
          /\ batch' \in [Request -> SUBSET Request]
      BY <2>3 DEF CleanupExpiredRequests, TakeFromQueue, CanServe, Expired
    <3> QED BY <2>3, <3>1, <3>2, <3>3 DEF CleanupExpiredRequests
  <2>4. CASE ProcessEnds(t)
    BY <2>4 DEF ProcessEnds
  <2>5. ASSUME NEW r \in batch[t], AnswerLate(t, r) PROVE PendingTypeOK'
    BY <2>5 DEF AnswerLate
  <2>6. ASSUME NEW r \in batch[t], ServeReady(t, r) PROVE PendingTypeOK'
    BY <2>6 DEF ServeReady
  <2> QED BY <1>2, <2>1, <2>2, <2>3, <2>4, <2>5, <2>6, Zenon DEF CleanupThread, Cleanup
<1>3. ASSUME NEW r \in Request, Serve(r) PROVE PendingTypeOK'
  <2>1. st' \in [Request -> Progress] /\ answers' \in [Request -> Nat]
    BY <1>3, ServeEffect, AnswerType DEF Moved
  <2> QED BY <1>3, <2>1, ServeEffect
<1>4. CASE CmThread
  <2>1. st' \in [Request -> Progress] /\ answers' \in [Request -> Nat]
    BY <1>4, CmEffect, AnswerType DEF SameRequests
  <2> QED BY <1>4, <2>1, CmEffect
<1>5. CASE CtThread
  <2>1. st' \in [Request -> Progress] /\ answers' \in [Request -> Nat]
    BY <1>5, CtEffect, AnswerType DEF SameRequests
  <2> QED BY <1>5, <2>1, CtEffect
<1>6. ASSUME NEW d \in Device, OnDataSyncTrigger(d) PROVE PendingTypeOK'
  BY <1>6 DEF OnDataSyncTrigger
<1>7. ASSUME NEW d \in Device, NEW s \in Socket,
             PeerResponds(d, s) \/ PeerRequests(d, s) \/ PeerOpens(d, s)
      PROVE PendingTypeOK'
  BY <1>7 DEF PeerResponds, PeerRequests, PeerOpens, PeerActs
<1>8. ASSUME NEW s \in Socket, PeerCloses(s) \/ OnSocketClosed(s) PROVE PendingTypeOK'
  BY <1>8 DEF PeerCloses, OnSocketClosed, PeerActs
<1>9. CASE LocalInit \/ Initialize \/ Release
  <2>1. isInit' \in BOOLEAN /\ isLocalInit' \in BOOLEAN
    BY <1>9, Zenon DEF LocalInit, Initialize, Release
  <2> QED BY <1>9, <2>1 DEF LocalInit, Initialize, Release
<1>10. ASSUME NEW j \in late, LateThread(j) PROVE PendingTypeOK'
  <2>1. /\ UNCHANGED <<fixed, flags, queue, threads>>
        /\ SameRequests \/ Answer(cbs[j.dev])
    BY <1>10, LateEffect
  <2>2. st' \in [Request -> Progress] /\ answers' \in [Request -> Nat]
    BY <2>1, AnswerType DEF SameRequests
  <2> QED BY <2>1, <2>2
<1> QED BY <1>1, <1>2, <1>3, <1>4, <1>5, <1>6, <1>7, <1>8, <1>9, <1>10, Zenon DEF Next

CmType ==
    {c \in [pc: {"idle", "check", "bind", "opened", "send", "timeout"},
            dev: Device \cup {NoDevice}, sock: Socket \cup {NoSocket}] :
        c.pc # "idle" => c.dev \in Device}
CtType ==
    {c \in [pc: {"idle", "stop", "clear", "answer"},
            dev: Device \cup {NoDevice}, caps: BOOLEAN] :
        c.pc # "idle" => c.dev \in Device}

\* The types of the rest.
LEMMA SyncTypeStep ==
    ASSUME TypeOK, [Next]_vars
    PROVE  TypeOK'
PROOF
<1> USE SyncConstants DEF aside, requests, transport, cmVars, ctVars, Others
<1>0. PendingTypeOK'
  BY PendingTypeStep DEF TypeOK, PendingTypeOK, vars, flags, fixed, queue, threads
<1>a. CmIdle \in CmType /\ CtIdle \in CtType
  BY DEF CmIdle, CtIdle, CmType, CtType
<1>b. cm \in CmType /\ ct \in CtType
  BY DEF TypeOK, CmType, CtType
<1> DEFINE Rest ==
      /\ handler \in BOOLEAN
      /\ entry \subseteq Device /\ untimed \subseteq entry
      /\ cbs \in [Device -> SUBSET Request]
      /\ timers \in [Device -> Nat]
      /\ triggers \in 0..MaxTrigger /\ releases \in 0..MaxRelease
      /\ events \in Seq(Device)
      /\ cm \in CmType
      /\ messages \in Seq(Message)
      /\ ct \in CtType
      /\ socks \in [Device -> Socket \cup {NoSocket}]
      /\ open \in [Socket -> Device \cup {NoDevice}]
      /\ closed \subseteq Socket /\ missed \subseteq Socket
      /\ asked \in [Device -> Nat]
      /\ late \subseteq Late /\ freed \in BOOLEAN
<1>c. Rest
  BY DEF TypeOK, CmType, CtType
<1>d. entry \subseteq Device /\ untimed \subseteq entry
  BY <1>c
<1>e. cbs \in [Device -> SUBSET Request]
  BY <1>c
<1>f. timers \in [Device -> Nat] /\ asked \in [Device -> Nat]
  BY <1>c
<1>g. events \in Seq(Device) /\ messages \in Seq(Message)
  BY <1>c
<1> SUFFICES Rest'
  BY <1>0 DEF TypeOK, CmType, CtType
<1>1. ASSUME NEW r \in Request, Apply(r) \/ CleanupThread(r) PROVE Rest'
  <2>1. UNCHANGED Others
    BY <1>1, Zenon DEF Apply, CleanupThread
  <2> QED BY <2>1, <1>c
<1>2. ASSUME NEW r \in Request, Serve(r) PROVE Rest'
  <2>1. ask[r].dev \in Device
    BY DEF TypeOK, PendingTypeOK
  <2>2. CASE StartGetDeviceDhInfo(r)
    BY <2>2, <1>c DEF StartGetDeviceDhInfo
  <2>3. CASE SyncRemoteDeviceInfoBySoftbus(r)
    <3> DEFINE d == ask[r].dev
    <3>a. \/ entry' = entry \cup {d} /\ cbs' = [cbs EXCEPT ![d] = @ \cup {r}]
          \/ UNCHANGED <<entry, cbs>>
      BY <2>3, Zenon DEF SyncRemoteDeviceInfoBySoftbus
    <3>b. \/ events' = Append(events, d) /\ timers' = [timers EXCEPT ![d] = @ + 1]
          \/ UNCHANGED <<events, timers>>
      BY <2>3, Zenon DEF SyncRemoteDeviceInfoBySoftbus
    <3>1. /\ entry' \subseteq Device /\ entry \subseteq entry'
          /\ cbs' \in [Device -> SUBSET Request] /\ timers' \in [Device -> Nat]
          /\ events' \in Seq(Device)
      <4> HIDE DEF d, Rest
      <4>0. d \in Device
        BY <2>1 DEF d
      <4>1. entry' \subseteq Device /\ entry \subseteq entry'
        BY <4>0, <3>a, <1>d
      <4>2. cbs' \in [Device -> SUBSET Request]
        BY <4>0, <3>a, <1>e
      <4>3. timers' \in [Device -> Nat]
        BY <4>0, <3>b, <1>f
      <4>4. events' \in Seq(Device)
        BY <4>0, <3>b, <1>g
      <4> QED BY <4>1, <4>2, <4>3, <4>4
    <3>2. UNCHANGED <<aside, untimed, transport, handler, cm, ctVars, asked>>
      BY <2>3, Zenon DEF SyncRemoteDeviceInfoBySoftbus
    <3> QED BY <3>1, <3>2, <1>c
  <2> QED BY <1>2, <2>2, <2>3 DEF Serve
<1>3. CASE CmThread
  <2> USE DEF CmGoes, CmSends
  <2>1. CASE TriggerFullCapsSync
    <3>1. Head(events) \in Device /\ Tail(events) \in Seq(Device)
      BY <2>1, <1>c DEF TriggerFullCapsSync
    <3>2. cm' \in CmType
      BY <2>1, <3>1, <1>a DEF TriggerFullCapsSync, CmType, CmIdle
    <3> QED BY <2>1, <3>1, <3>2, <1>c DEF TriggerFullCapsSync
  <2>2. CASE CheckSession
    <3>1. cm' \in CmType
      BY <2>2, <1>c DEF CheckSession, CmType
    <3> QED BY <2>2, <3>1, <1>c DEF CheckSession
  <2>3. CASE BindSocket
    <3>1. cm' \in CmType
      BY <2>3, <1>a, <1>c DEF BindSocket, CmType
    <3>2. open' \in [Socket -> Device \cup {NoDevice}] /\ missed' \subseteq Socket
      BY <2>3, <1>c DEF BindSocket, CmType
    <3> QED BY <2>3, <3>1, <3>2, <1>c DEF BindSocket
  <2>4. CASE SocketOpened
    <3>1. cm' \in CmType
      BY <2>4, <1>c DEF SocketOpened, CmType
    <3>2. socks' \in [Device -> Socket \cup {NoSocket}]
      BY <2>4, <1>c DEF SocketOpened, CmType
    <3> QED BY <2>4, <3>1, <3>2, <1>c DEF SocketOpened
  <2>5. CASE SendRequest
    <3>a. asked' = [asked EXCEPT ![cm.dev] = @ + 1] \/ UNCHANGED asked
      BY <2>5, Zenon DEF SendRequest
    <3>1. asked' \in [Device -> Nat]
      <4> HIDE DEF Rest
      <4>1. cm.dev \in Device
        BY <2>5, <1>b DEF CmType, SendRequest
      <4> QED BY <4>1, <3>a, <1>f
    <3>2. cm' \in CmType
      BY <2>5, <1>a DEF SendRequest
    <3>3. UNCHANGED <<events, transport, handler, ctVars, aside, requests>>
      BY <2>5, Zenon DEF SendRequest
    <3> QED BY <3>1, <3>2, <3>3, <1>c
  <2>6. ASSUME NEW d \in Device, TimeoutTaskStarts(d) PROVE Rest'
    <3>1. timers' \in [Device -> Nat]
      BY <2>6, <1>c DEF TimeoutTaskStarts
    <3>2. cm' \in CmType
      BY <2>6, <1>a DEF TimeoutTaskStarts, CmType, CmIdle
    <3> QED BY <2>6, <3>1, <3>2, <1>c DEF TimeoutTaskStarts
  <2>7. CASE HandleSyncDataTimeout
    <3>1. cm' \in CmType
      BY <2>7, <1>a DEF HandleSyncDataTimeout
    <3>2. /\ entry' \subseteq Device /\ untimed' \subseteq entry'
          /\ cbs' \in [Device -> SUBSET Request]
      BY <2>7, <1>c DEF HandleSyncDataTimeout, Erase
    <3> QED BY <2>7, <3>1, <3>2, <1>c DEF HandleSyncDataTimeout
  <2> QED BY <1>3, <2>1, <2>2, <2>3, <2>4, <2>5, <2>6, <2>7, Zenon DEF CmThread
<1>4. CASE CtThread
  <2> USE DEF CtGoes
  <2>1. CASE ProcessEvent
    <3>1. Head(messages) \in Message /\ messages' \in Seq(Message)
      BY <2>1, <1>c DEF ProcessEvent
    <3> DEFINE m == Head(messages)
    <3>a. (m.caps /\ m.dev \in entry) \in BOOLEAN
      BY Zenon
    <3>b. \/ UNCHANGED ct
          \/ ct' = [pc |-> "stop", dev |-> m.dev, caps |-> m.caps /\ m.dev \in entry]
      BY <2>1, Zenon DEF ProcessEvent
    <3>c. m.dev \in Device
      BY <3>1 DEF Message
    <3>d. ASSUME NEW b \in BOOLEAN PROVE [pc |-> "stop", dev |-> m.dev, caps |-> b] \in CtType
      BY <3>c DEF CtType
    <3>2. ct' \in CtType
      BY <3>a, <3>b, <3>d, <1>c, Zenon
    <3> QED BY <2>1, <3>1, <3>2, <1>c DEF ProcessEvent
  <2>2. CASE StopSocket
    <3>1. ct' \in CtType
      BY <2>2, <1>c DEF StopSocket, CtType
    <3>2. open' \in [Socket -> Device \cup {NoDevice}]
      BY <2>2, <1>c DEF StopSocket
    <3> QED BY <2>2, <3>1, <3>2, <1>c DEF StopSocket
  <2>3. CASE ClearDeviceSocketOpened
    <3>1. ct' \in CtType
      BY <2>3, <1>c DEF ClearDeviceSocketOpened, CtType
    <3> QED BY <2>3, <3>1, <1>c DEF ClearDeviceSocketOpened
  <2>4. CASE OnGetDescriptors
    <3>1. /\ entry' \subseteq Device /\ untimed' \subseteq entry'
          /\ cbs' \in [Device -> SUBSET Request] /\ timers' \in [Device -> Nat]
      <4>1. \/ Erase(ct.dev) /\ timers' = [timers EXCEPT ![ct.dev] = 0]
            \/ UNCHANGED <<entry, untimed, cbs, timers>>
        BY <2>4, Zenon DEF OnGetDescriptors, Descriptors
      <4> HIDE DEF Rest
      <4>2. ct.dev \in Device
        BY <2>4, <1>b DEF CtType, OnGetDescriptors
      <4>3. entry' \subseteq Device /\ untimed' \subseteq entry'
        BY <4>1, <1>d DEF Erase
      <4>4. cbs' \in [Device -> SUBSET Request]
        BY <4>1, <4>2, <1>e DEF Erase
      <4>5. timers' \in [Device -> Nat]
        BY <4>1, <4>2, <1>f
      <4> QED BY <4>3, <4>4, <4>5
    <3>2. ct' \in CtType
      BY <2>4, <1>a DEF OnGetDescriptors
    <3> QED BY <2>4, <3>1, <3>2, <1>c DEF OnGetDescriptors
  <2> QED BY <1>4, <2>1, <2>2, <2>3, <2>4 DEF CtThread
<1>5. ASSUME NEW d \in Device, OnDataSyncTrigger(d) PROVE Rest'
  <2>1. events' \in Seq(Device)
    BY <1>5, <1>c DEF OnDataSyncTrigger
  <2>2. triggers' \in 0..MaxTrigger /\ entry' \subseteq Device /\ untimed' \subseteq entry'
    BY <1>5, <1>c DEF OnDataSyncTrigger
  <2>3. UNCHANGED <<releases, late, freed, cbs, timers, transport, handler, cm, ctVars, asked>>
    BY <1>5, Zenon DEF OnDataSyncTrigger
  <2> QED BY <2>1, <2>2, <2>3, <1>c
<1>6. ASSUME NEW d \in Device, NEW s \in Socket,
             PeerResponds(d, s) \/ PeerRequests(d, s) \/ PeerOpens(d, s)
      PROVE Rest'
  <2>1. CASE PeerOpens(d, s)
    BY <2>1, <1>c DEF PeerOpens, PeerActs
  <2>2. CASE PeerRequests(d, s) \/ PeerResponds(d, s)
    <3>1. PICK m \in Message : messages' \in {messages, Append(messages, m)}
      <4>1. ASSUME NEW rsp \in BOOLEAN, NEW caps \in BOOLEAN,
                   OnBytesReceived(d, s, rsp, caps)
            PROVE  \E m \in Message : messages' \in {messages, Append(messages, m)}
        <5>1. [rsp |-> rsp, dev |-> d, caps |-> caps] \in Message
          BY DEF Message
        <5>2. messages' \in {messages, Append(messages, [rsp |-> rsp, dev |-> d, caps |-> caps])}
          BY <4>1, Zenon DEF OnBytesReceived
        <5> QED BY <5>1, <5>2
      <4> QED BY <2>2, <4>1, Zenon DEF PeerRequests, PeerResponds
    <3>2. messages' \in Seq(Message)
      <4> HIDE DEF Rest
      <4> QED BY <3>1, <1>g
    <3>3. \/ asked' = [asked EXCEPT ![d] = @ - 1] /\ asked[d] > 0
          \/ UNCHANGED asked
      BY <2>2, Zenon DEF PeerRequests, PeerResponds
    <3>4. asked' \in [Device -> Nat]
      BY <3>3, <1>c
    <3>5. UNCHANGED <<aside, requests, cmVars, ct, transport>>
      BY <2>2, Zenon DEF PeerRequests, PeerResponds, PeerActs
    <3> QED BY <3>2, <3>4, <3>5, <1>c
  <2> QED BY <1>6, <2>1, <2>2
<1>7. ASSUME NEW s \in Socket, PeerCloses(s) \/ OnSocketClosed(s) PROVE Rest'
  BY <1>7, <1>c DEF PeerCloses, OnSocketClosed, PeerActs
<1>8. CASE LocalInit
  BY <1>8, <1>c DEF LocalInit
<1>9. CASE Initialize
  <2>1. handler' \in BOOLEAN
    BY <1>9, Zenon DEF Initialize
  <2>2. freed' \in BOOLEAN
    BY <1>9, Zenon DEF Initialize
  <2>3. late' \subseteq Late
    <3>1. Replaced \subseteq Late
      <4> HIDE DEF Rest
      <4>1. releases \in Nat
        BY DEF TypeOK
      <4>2. /\ cm.pc \in {"timeout", "send"} => cm.dev \in Device
            /\ ct.pc \in {"stop", "clear", "answer"} => ct.dev \in Device /\ ct.caps \in BOOLEAN
        BY <1>b DEF CmType, CtType
      <4>3. ASSUME NEW pc \in {"timeout", "send", "stop", "clear", "answer"}, NEW e \in Device,
                   NEW b \in BOOLEAN
            PROVE  [n |-> releases, pc |-> pc, dev |-> e, caps |-> b] \in Late
        BY <4>1 DEF Late
      <4>4. cm.pc \in {"timeout", "send"} =>
               [n |-> releases, pc |-> cm.pc, dev |-> cm.dev, caps |-> FALSE] \in Late
        BY <4>2, <4>3
      <4>5. ct.pc \in {"stop", "clear", "answer"} =>
               [n |-> releases, pc |-> IF ct.pc = "stop" THEN "stop" ELSE "answer",
                dev |-> ct.dev, caps |-> ct.caps] \in Late
        BY <4>2, <4>3
      <4> QED BY <4>4, <4>5, Zenon DEF Replaced
    <3> QED BY <1>9, <3>1, <1>c DEF Initialize
  <2>4. cm' \in CmType /\ ct' \in CtType
    BY <1>9, <1>a, Zenon DEF Initialize
  <2>5. /\ untimed' = entry' /\ events' = <<>> /\ messages' = <<>>
        /\ timers' = [d \in Device |-> 0] /\ socks' = [d \in Device |-> NoSocket]
        /\ UNCHANGED <<entry, cbs, triggers, releases, open, closed, missed, asked>>
    BY <1>9, Zenon DEF Initialize
  <2> QED BY <2>1, <2>2, <2>3, <2>4, <2>5, <1>c
<1>10. CASE Release
  BY <1>10, <1>c DEF Release
<1>11. CASE UNCHANGED vars
  BY <1>11, <1>c DEF vars
<1>12. ASSUME NEW j \in late, LateThread(j) PROVE Rest'
  <2>1. /\ j \in Late /\ j.dev \in Device
        /\ UNCHANGED <<cmVars, ctVars, triggers, releases, freed, closed, missed>>
        /\ \/ UNCHANGED requests
           \/ /\ Erase(j.dev)
              /\ timers' = timers \/ timers' = [timers EXCEPT ![j.dev] = 0]
    BY <1>12, LateEffect
  <2>2. late' \subseteq Late
    <3>1. late' = late \ {j} \/ \E pc \in {"clear", "answer"} :
                                 late' = (late \ {j}) \cup {[j EXCEPT !.pc = pc]}
      BY <1>12, Zenon DEF LateThread, LateTimeout, LateSend, LateStop, LateClear, LateAnswer,
           Over, Goes
    <3>2. \A pc \in {"clear", "answer"} : [j EXCEPT !.pc = pc] \in Late
      BY <2>1 DEF Late
    <3>3. late \subseteq Late
      BY <1>c
    <3> HIDE DEF Rest
    <3> QED BY <3>1, <3>2, <3>3
  <2>3. /\ entry' \subseteq Device /\ untimed' \subseteq entry'
        /\ cbs' \in [Device -> SUBSET Request] /\ timers' \in [Device -> Nat]
    <3> HIDE DEF Rest
    <3> QED BY <2>1, <1>d, <1>e, <1>f DEF Erase
  <2>4. /\ socks' \in [Device -> Socket \cup {NoSocket}]
        /\ open' \in [Socket -> Device \cup {NoDevice}]
        /\ asked' \in [Device -> Nat]
    <3>1. /\ socks' = socks \/ socks' = [socks EXCEPT ![j.dev] = NoSocket]
          /\ open' = open \/ open' = [open EXCEPT ![socks[j.dev]] = NoDevice]
          /\ asked' = asked \/ asked' = [asked EXCEPT ![j.dev] = @ + 1]
      BY <1>12, Zenon DEF LateThread, LateTimeout, LateSend, LateStop, LateClear, LateAnswer
    <3>2. /\ socks \in [Device -> Socket \cup {NoSocket}]
          /\ open \in [Socket -> Device \cup {NoDevice}]
      BY <1>c
    <3> HIDE DEF Rest
    <3> QED BY <2>1, <3>1, <3>2, <1>f
  <2> QED BY <2>1, <2>2, <2>3, <2>4, <1>c
<1> QED BY <1>1, <1>2, <1>3, <1>4, <1>5, <1>6, <1>7, <1>8, <1>9, <1>10, <1>11, <1>12, Zenon DEF Next

\* The state of the requests and of the transport keeps its type: in
\* particular dhfwkInitTimes_ never passes its limit by more than one.
THEOREM SyncTypeCorrect == Spec => []TypeOK
PROOF
  BY SyncTypeInit, SyncTypeStep, PTL DEF Spec

-----------------------------------------------------------------------------
(* The queue.                                                              *)

QueueInv == TypeOK /\ QueueIsWatched /\ NewQueueStartsAtZero

\* The watch over the queue is kept by every step that leaves it alone.
LEMMA QueueKept ==
    ASSUME QueueInv, UNCHANGED <<fixed, queue, threads>>
    PROVE  QueueIsWatched' /\ NewQueueStartsAtZero'
PROOF
<1>1. QueueIsWatched'
  BY Zenon DEF QueueInv, QueueIsWatched, queue, threads
<1>2. NewQueueStartsAtZero'
  BY Zenon DEF QueueInv, NewQueueStartsAtZero, queue, fixed
<1> QED BY <1>1, <1>2

\* A thread of the queue ends only when cleanupRunning_ is not set, and the
\* flag is taken away only with the last request.
LEMMA QueueStep ==
    ASSUME QueueInv, [Next]_vars
    PROVE  QueueIsWatched' /\ NewQueueStartsAtZero'
PROOF
<1> USE DEF fixed, flags, queue, threads
<1>t. cleaner \in [Request -> Live \cup {"none", "exit"}]
  BY DEF QueueInv, TypeOK, PendingTypeOK
<1>1. ASSUME NEW r \in Request, Apply(r) PROVE QueueIsWatched' /\ NewQueueStartsAtZero'
  <2>1. CASE st' = [st EXCEPT ![r] = "pending"] /\ QueuePendingRequest(r)
    <3>1. cleanupRunning'
      BY <2>1, Zenon DEF QueueInv, QueueIsWatched, QueuePendingRequest
    <3>2. \E t \in Request : cleaner'[t] \in Live
      <4>1. CASE pending = {}
        BY <2>1, <4>1, <1>t DEF QueuePendingRequest, Live
      <4>2. CASE pending # {}
        BY <2>1, <4>2, Zenon DEF QueueInv, QueueIsWatched, QueuePendingRequest
      <4> QED BY <4>1, <4>2
    <3>3. pending' # {}
      BY <2>1 DEF QueuePendingRequest
    <3> QED BY <3>1, <3>2, <3>3, Zenon DEF QueueIsWatched, NewQueueStartsAtZero
  <2>2. CASE UNCHANGED <<queue, threads>>
    BY <1>1, <2>2, QueueKept, Zenon DEF Apply, GetDistributedHardware
  <2> QED
    BY <1>1, <2>1, <2>2, Zenon DEF Apply, GetDistributedHardware, QueuePendingRequest
<1>2. ASSUME NEW t \in Request, CleanupThread(t)
      PROVE  QueueIsWatched' /\ NewQueueStartsAtZero'
  <2>1. CASE LoopCheck(t) \/ Wake(t)
    <3>1. UNCHANGED <<fixed, queue>>
      BY <2>1, Zenon DEF LoopCheck, Wake
    <3>2. ASSUME cleanupRunning PROVE cleaner'[t] \in Live
      BY <2>1, <3>2, <1>t DEF LoopCheck, Wake, Live
    <3>3. \A u \in Request \ {t} : cleaner'[u] = cleaner[u]
      BY <2>1, <1>t DEF LoopCheck, Wake
    <3>4. QueueIsWatched'
      BY <3>1, <3>2, <3>3, Zenon DEF QueueInv, QueueIsWatched
    <3>5. NewQueueStartsAtZero'
      BY <3>1, Zenon DEF QueueInv, NewQueueStartsAtZero
    <3> QED BY <3>4, <3>5
  <2>2. CASE CleanupExpiredRequests(t)
    <3>1. cleaner'[t] \in Live
      BY <2>2, <1>t DEF CleanupExpiredRequests, Live
    <3>2. pending' # {} => pending # {} /\ cleanupRunning' = cleanupRunning
      BY <2>2, Zenon DEF CleanupExpiredRequests, TakeFromQueue
    <3>3. QueueIsWatched'
      BY <3>1, <3>2, Zenon DEF QueueInv, QueueIsWatched
    <3>4. carBuild /\ pending' = {} => initTimes' = 0
      <4>1. CASE pending = {}
        BY <2>2, <4>1, Zenon DEF CleanupExpiredRequests, QueueInv, NewQueueStartsAtZero
      <4>2. CASE pending # {}
        BY <2>2, <4>2, Zenon DEF CleanupExpiredRequests, TakeFromQueue
      <4> QED BY <4>1, <4>2
    <3>5. UNCHANGED carBuild
      BY <2>2, Zenon DEF CleanupExpiredRequests
    <3> QED BY <3>3, <3>4, <3>5, Zenon DEF NewQueueStartsAtZero
  <2>3. CASE ProcessEnds(t)
    <3>1. UNCHANGED <<fixed, queue>>
      BY <2>3, Zenon DEF ProcessEnds
    <3>2. cleaner'[t] \in Live
      BY <2>3, <1>t DEF ProcessEnds, Live
    <3> QED BY <3>1, <3>2, Zenon DEF QueueInv, QueueIsWatched, NewQueueStartsAtZero
  <2>4. ASSUME NEW r \in batch[t], AnswerLate(t, r) \/ ServeReady(t, r)
        PROVE  QueueIsWatched' /\ NewQueueStartsAtZero'
    BY <2>4, QueueKept, Zenon DEF AnswerLate, ServeReady
  <2> QED BY <1>2, <2>1, <2>2, <2>3, <2>4, Zenon DEF CleanupThread, Cleanup
<1>3. ASSUME NEW r \in Request, Serve(r) PROVE QueueIsWatched' /\ NewQueueStartsAtZero'
  BY <1>3, ServeEffect, QueueKept
<1>4. CASE CmThread
  BY <1>4, CmEffect, QueueKept
<1>5. CASE CtThread
  BY <1>5, CtEffect, QueueKept
<1>6. ASSUME NEW d \in Device, OnDataSyncTrigger(d)
      PROVE  QueueIsWatched' /\ NewQueueStartsAtZero'
  BY <1>6, QueueKept, Zenon DEF OnDataSyncTrigger
<1>7. ASSUME NEW d \in Device, NEW s \in Socket,
             PeerResponds(d, s) \/ PeerRequests(d, s) \/ PeerOpens(d, s)
      PROVE QueueIsWatched' /\ NewQueueStartsAtZero'
  BY <1>7, QueueKept, Zenon DEF PeerResponds, PeerRequests, PeerOpens, PeerActs
<1>8. ASSUME NEW s \in Socket, PeerCloses(s) \/ OnSocketClosed(s)
      PROVE  QueueIsWatched' /\ NewQueueStartsAtZero'
  BY <1>8, QueueKept, Zenon DEF PeerCloses, OnSocketClosed, PeerActs
<1>9. CASE LocalInit \/ Initialize \/ Release \/ UNCHANGED vars
  BY <1>9, QueueKept, Zenon DEF LocalInit, Initialize, Release, vars
<1>10. ASSUME NEW j \in late, LateThread(j) PROVE QueueIsWatched' /\ NewQueueStartsAtZero'
  <2>1. TypeOK
    BY DEF QueueInv
  <2>2. UNCHANGED <<fixed, queue, threads>>
    BY <1>10, <2>1, LateEffect, Zenon
  <2> QED BY <2>2, QueueKept
<1> QED BY <1>1, <1>2, <1>3, <1>4, <1>5, <1>6, <1>7, <1>8, <1>9, <1>10, Zenon DEF Next

LEMMA QueueInit == Init => QueueInv
PROOF
  BY SyncTypeInit DEF Init, PendingInit, QueueInv, QueueIsWatched, NewQueueStartsAtZero

\* However many calls queue up and cleanup threads run, a queued request has a
\* thread that will look at it.
THEOREM QueueAlwaysWatched == Spec => []QueueIsWatched
PROOF
<1>1. QueueInv => QueueIsWatched
  BY DEF QueueInv
<1>2. QueueInv /\ [Next]_vars => QueueInv'
  BY QueueStep, SyncTypeStep DEF QueueInv
<1> QED BY <1>1, <1>2, QueueInit, PTL DEF Spec

\* In the car build every new queue starts with all its retries.
THEOREM QueueStartsAtZero == Spec => []NewQueueStartsAtZero
PROOF
<1>1. QueueInv => NewQueueStartsAtZero
  BY DEF QueueInv
<1>2. QueueInv /\ [Next]_vars => QueueInv'
  BY QueueStep, SyncTypeStep DEF QueueInv
<1> QED BY <1>1, <1>2, QueueInit, PTL DEF Spec

-----------------------------------------------------------------------------
(* The answers.                                                            *)

\* Exactly the answered requests have been answered, once.
CountsAnswers == \A r \in Request : answers[r] = IF st[r] = "answered" THEN 1 ELSE 0

\* A callback in an entry still waits, and for that device.  It is in no other
\* entry therefore, and what answers an entry answers nobody for a second time.
CallbacksWait ==
    \A d \in Device : \A r \in cbs[d] : st[r] = "waiting" /\ ask[r].dev = d

QueuedArePending == \A r \in pending : st[r] = "pending"

AnswerInv == TypeOK /\ CountsAnswers /\ CallbacksWait /\ QueuedArePending
AnswerParts == CountsAnswers /\ CallbacksWait /\ QueuedArePending

LEMMA AnswerKept ==
    ASSUME AnswerInv, UNCHANGED <<st, answers, cbs, ask, pending>>
    PROVE  AnswerParts'
PROOF
  BY Zenon DEF AnswerInv, AnswerParts, CountsAnswers, CallbacksWait, QueuedArePending

\* A request that is in no entry and not queued moves on without an answer.
LEMMA AnswerMoved ==
    ASSUME AnswerInv, NEW r \in Request, NEW p \in Progress \ {"answered"},
           st' = [st EXCEPT ![r] = p], UNCHANGED <<answers, cbs, ask, pending>>,
           st[r] \notin {"waiting", "pending", "answered"}
    PROVE  AnswerParts'
PROOF
<1> USE DEF AnswerInv, TypeOK, PendingTypeOK
<1>1. CountsAnswers'
  BY DEF CountsAnswers
<1>2. CallbacksWait'
  BY DEF CallbacksWait
<1>3. QueuedArePending'
  BY DEF QueuedArePending
<1> QED BY <1>1, <1>2, <1>3 DEF AnswerParts

\* The answer of a whole entry, which is erased.
LEMMA AnswerEntry ==
    ASSUME AnswerInv, NEW d \in Device, Answer(cbs[d]), Erase(d), UNCHANGED <<ask, pending>>
    PROVE  AnswerParts'
PROOF
<1>1. /\ st \in [Request -> Progress] /\ answers \in [Request -> Nat]
      /\ cbs \in [Device -> SUBSET Request] /\ pending \subseteq Request
  BY DEF AnswerInv, TypeOK, PendingTypeOK
<1>2. \A r \in cbs[d] : r \in Request /\ st[r] = "waiting"
  BY <1>1 DEF AnswerInv, CallbacksWait
<1>3. CountsAnswers'
  BY <1>1, <1>2 DEF AnswerInv, CountsAnswers, Answer
<1>4. CallbacksWait'
  <2> SUFFICES ASSUME NEW e \in Device, NEW r \in cbs'[e]
               PROVE  st'[r] = "waiting" /\ ask'[r].dev = e
    BY DEF CallbacksWait
  <2>1. e # d /\ r \in cbs[e] /\ r \in Request
    BY <1>1 DEF Erase
  <2>2. st[r] = "waiting" /\ ask[r].dev = e
    BY <2>1 DEF AnswerInv, CallbacksWait
  <2>3. r \notin cbs[d]
    BY <2>1, <2>2 DEF AnswerInv, CallbacksWait
  <2> QED BY <1>1, <2>1, <2>2, <2>3 DEF Answer
<1>5. QueuedArePending'
  BY <1>1, <1>2 DEF AnswerInv, QueuedArePending, Answer
<1> QED BY <1>3, <1>4, <1>5 DEF AnswerParts

\* The answer of one request that is in no entry.
LEMMA AnswerOne ==
    ASSUME AnswerInv, NEW r \in Request, Answer({r}), UNCHANGED <<cbs, ask, pending>>,
           st[r] \notin {"waiting", "pending", "answered"}
    PROVE  AnswerParts'
PROOF
<1>1. /\ st \in [Request -> Progress] /\ answers \in [Request -> Nat]
      /\ cbs \in [Device -> SUBSET Request] /\ pending \subseteq Request
  BY DEF AnswerInv, TypeOK, PendingTypeOK
<1>2. CountsAnswers'
  BY <1>1 DEF AnswerInv, CountsAnswers, Answer
<1>3. CallbacksWait'
  BY <1>1 DEF AnswerInv, CallbacksWait, Answer
<1>4. QueuedArePending'
  BY <1>1 DEF AnswerInv, QueuedArePending, Answer
<1> QED BY <1>2, <1>3, <1>4 DEF AnswerParts

LEMMA AnswerStep ==
    ASSUME AnswerInv, [Next]_vars
    PROVE  AnswerParts'
PROOF
<1> USE DEF fixed, flags, queue, threads, requests
<1>t. /\ st \in [Request -> Progress] /\ answers \in [Request -> Nat]
      /\ cbs \in [Device -> SUBSET Request] /\ pending \subseteq Request
      /\ batch \in [Request -> SUBSET Request]
  BY DEF AnswerInv, TypeOK, PendingTypeOK
<1>1. ASSUME NEW r \in Request, Apply(r) PROVE AnswerParts'
  <2>0. st[r] = "new" /\ UNCHANGED <<answers, cbs, ask>>
    BY <1>1, Zenon DEF Apply, GetDistributedHardware, Others
  <2>1. CASE QueuePendingRequest(r)
    <3>1. CountsAnswers'
      BY <2>0, <2>1, <1>t DEF QueuePendingRequest, AnswerInv, CountsAnswers
    <3>2. CallbacksWait'
      BY <2>0, <2>1, <1>t DEF QueuePendingRequest, AnswerInv, CallbacksWait
    <3>3. QueuedArePending'
      BY <2>0, <2>1, <1>t DEF QueuePendingRequest, AnswerInv, QueuedArePending
    <3> QED BY <3>1, <3>2, <3>3 DEF AnswerParts
  <2>2. ASSUME NEW p \in {"refused", "lookup"}, st' = [st EXCEPT ![r] = p],
               UNCHANGED <<queue, threads>>
        PROVE  AnswerParts'
    <3>1. p \in Progress \ {"answered"}
      BY <2>2 DEF Progress
    <3> QED BY <2>0, <2>2, <3>1, AnswerMoved
  <2> QED BY <1>1, <2>1, <2>2, Zenon DEF Apply, GetDistributedHardware
<1>2. ASSUME NEW t \in Request, CleanupThread(t) PROVE AnswerParts'
  <2>0. UNCHANGED <<cbs, ask>>
    BY <1>2, Zenon DEF CleanupThread, Cleanup, Others, LoopCheck, Wake,
         CleanupExpiredRequests, ProcessEnds, AnswerLate, ServeReady
  <2>1. CASE LoopCheck(t) \/ Wake(t) \/ ProcessEnds(t)
    BY <2>0, <2>1, AnswerKept, Zenon DEF LoopCheck, Wake, ProcessEnds
  <2>2. CASE CleanupExpiredRequests(t)
    <3>1. CASE pending = {}
      <4>1. UNCHANGED <<st, answers, pending>>
        BY <2>2, <3>1, Zenon DEF CleanupExpiredRequests
      <4> QED BY <2>0, <4>1, AnswerKept
    <3>2. CASE pending # {}
      <4>1. /\ pending' = pending \ (CanServe \cup Expired)
            /\ UNCHANGED answers
            /\ st' = [r \in Request |->
                         CASE r \in CanServe -> "ready"
                           [] r \in Expired -> "late"
                           [] OTHER -> st[r]]
        BY <2>2, <3>2, Zenon DEF CleanupExpiredRequests, TakeFromQueue
      <4>2. CanServe \subseteq pending /\ Expired \subseteq pending
        BY DEF CanServe, Expired
      <4>3. \A r \in Request :
               /\ r \notin CanServe \cup Expired => st'[r] = st[r]
               /\ r \in CanServe \cup Expired => st[r] = "pending" /\ st'[r] # "answered"
        BY <4>1, <4>2, <1>t DEF AnswerInv, QueuedArePending
      <4> HIDE DEF CanServe, Expired
      <4>4. CountsAnswers'
        BY <4>1, <4>3 DEF AnswerInv, CountsAnswers
      <4>5. CallbacksWait'
        <5> SUFFICES ASSUME NEW d \in Device, NEW r \in cbs[d]
                     PROVE  st'[r] = "waiting" /\ ask[r].dev = d
          BY <2>0 DEF CallbacksWait
        <5>1. r \in Request /\ st[r] = "waiting" /\ ask[r].dev = d
          BY <1>t DEF AnswerInv, CallbacksWait
        <5> QED BY <5>1, <4>3
      <4>6. QueuedArePending'
        BY <4>1, <4>3, <1>t DEF AnswerInv, QueuedArePending
      <4> QED BY <4>4, <4>5, <4>6 DEF AnswerParts
    <3> QED BY <3>1, <3>2
  <2>3. ASSUME NEW r \in batch[t], AnswerLate(t, r) PROVE AnswerParts'
    <3>1. r \in Request
      BY <1>t
    <3>2. Answer({r}) /\ st[r] = "late" /\ UNCHANGED pending
      BY <2>3, <3>1, <1>t DEF AnswerLate, Answer
    <3> QED BY <2>0, <3>1, <3>2, AnswerOne
  <2>4. ASSUME NEW r \in batch[t], ServeReady(t, r) PROVE AnswerParts'
    <3>1. r \in Request /\ "lookup" \in Progress \ {"answered"}
      BY <1>t DEF Progress
    <3>2. /\ st' = [st EXCEPT ![r] = "lookup"] /\ st[r] = "ready"
          /\ UNCHANGED <<answers, pending>>
      BY <2>4, Zenon DEF ServeReady
    <3> QED BY <2>0, <3>1, <3>2, AnswerMoved
  <2> QED BY <1>2, <2>1, <2>2, <2>3, <2>4, Zenon DEF CleanupThread, Cleanup
<1>3. ASSUME NEW r \in Request, Serve(r) PROVE AnswerParts'
  <2>0. /\ UNCHANGED <<ask, pending>>
        /\ st[r] \notin {"waiting", "pending", "answered"}
    BY <1>3 DEF Serve, StartGetDeviceDhInfo, SyncRemoteDeviceInfoBySoftbus
  <2>1. CASE Answer({r}) /\ UNCHANGED cbs
    BY <2>0, <2>1, AnswerOne
  <2>2. CASE Moved(r, "sync") /\ UNCHANGED cbs
    <3>1. "sync" \in Progress \ {"answered"}
      BY DEF Progress
    <3> QED BY <2>0, <2>2, <3>1, AnswerMoved DEF Moved
  <2>3. CASE Moved(r, "waiting") /\ cbs' = [cbs EXCEPT ![ask[r].dev] = @ \cup {r}]
    <3>1. CountsAnswers'
      BY <2>0, <2>3, <1>t DEF Moved, AnswerInv, CountsAnswers
    <3>2. CallbacksWait'
      <4> SUFFICES ASSUME NEW d \in Device, NEW q \in cbs'[d]
                   PROVE  st'[q] = "waiting" /\ ask[q].dev = d
        BY <2>0 DEF CallbacksWait
      <4>1. CASE q = r
        <5>1. ask[r].dev = d
          BY <4>1, <2>0, <2>3, <1>t DEF AnswerInv, CallbacksWait
        <5> QED BY <5>1, <4>1, <2>3, <1>t DEF Moved
      <4>2. CASE q # r
        <5>1. q \in cbs[d] /\ q \in Request
          BY <4>2, <2>3, <1>t
        <5> QED BY <5>1, <4>2, <2>3, <1>t DEF Moved, AnswerInv, CallbacksWait
      <4> QED BY <4>1, <4>2
    <3>3. QueuedArePending'
      BY <2>0, <2>3, <1>t DEF Moved, AnswerInv, QueuedArePending
    <3> QED BY <3>1, <3>2, <3>3 DEF AnswerParts
  <2> QED BY <1>3, <2>1, <2>2, <2>3, Zenon
        DEF Serve, StartGetDeviceDhInfo, SyncRemoteDeviceInfoBySoftbus, Moved
<1>4. CASE CmThread
  <2>1. CASE HandleSyncDataTimeout
    <3>1. cm.dev \in Device
      BY <2>1 DEF HandleSyncDataTimeout, AnswerInv, TypeOK
    <3> QED BY <2>1, <3>1, AnswerEntry, Zenon DEF HandleSyncDataTimeout, CmGoes
  <2>2. CASE ~HandleSyncDataTimeout
    <3>1. UNCHANGED cbs
      BY <1>4, <2>2, Zenon DEF CmThread, CmGoes, CmSends, TriggerFullCapsSync, CheckSession,
           BindSocket, SocketOpened, SendRequest, TimeoutTaskStarts
    <3> QED BY <1>4, <2>2, <3>1, CmEffect, AnswerKept, Zenon DEF SameRequests
  <2> QED BY <2>1, <2>2
<1>5. CASE CtThread
  <2>1. CASE OnGetDescriptors /\ Answer(cbs[ct.dev]) /\ Erase(ct.dev)
    <3>1. ct.dev \in Device
      BY <2>1 DEF OnGetDescriptors, AnswerInv, TypeOK
    <3> QED BY <2>1, <3>1, AnswerEntry, Zenon DEF OnGetDescriptors, CtGoes
  <2>2. CASE UNCHANGED <<st, answers, cbs>>
    BY <1>5, <2>2, CtEffect, AnswerKept
  <2> QED BY <1>5, <2>1, <2>2, Zenon DEF CtThread, ProcessEvent, StopSocket,
        ClearDeviceSocketOpened, OnGetDescriptors, Descriptors
<1>6. ASSUME NEW d \in Device, OnDataSyncTrigger(d) PROVE AnswerParts'
  BY <1>6, AnswerKept, Zenon DEF OnDataSyncTrigger
<1>7. ASSUME NEW d \in Device, NEW s \in Socket,
             PeerResponds(d, s) \/ PeerRequests(d, s) \/ PeerOpens(d, s)
      PROVE AnswerParts'
  BY <1>7, AnswerKept, Zenon DEF PeerResponds, PeerRequests, PeerOpens, PeerActs
<1>8. ASSUME NEW s \in Socket, PeerCloses(s) \/ OnSocketClosed(s) PROVE AnswerParts'
  BY <1>8, AnswerKept, Zenon DEF PeerCloses, OnSocketClosed, PeerActs
<1>9. CASE LocalInit \/ Initialize \/ Release \/ UNCHANGED vars
  BY <1>9, AnswerKept, Zenon DEF LocalInit, Initialize, Release, vars
<1>10. ASSUME NEW j \in late, LateThread(j) PROVE AnswerParts'
  <2>1. TypeOK
    BY DEF AnswerInv
  <2>2. /\ j.dev \in Device /\ UNCHANGED <<ask, pending>>
        /\ \/ UNCHANGED <<st, answers, cbs>>
           \/ Answer(cbs[j.dev]) /\ Erase(j.dev)
    BY <1>10, <2>1, LateEffect, Zenon DEF SameRequests
  <2> QED BY <2>2, AnswerKept, AnswerEntry
<1> QED BY <1>1, <1>2, <1>3, <1>4, <1>5, <1>6, <1>7, <1>8, <1>9, <1>10, Zenon DEF Next

LEMMA AnswersHold == Spec => []AnswerInv
PROOF
<1>1. Init => AnswerInv
  BY SyncTypeInit DEF Init, PendingInit, AnswerInv, CountsAnswers, CallbacksWait, QueuedArePending
<1>2. AnswerInv /\ [Next]_vars => AnswerInv'
  BY AnswerStep, SyncTypeStep DEF AnswerInv, AnswerParts
<1> QED BY <1>1, <1>2, PTL DEF Spec

\* No callback is called twice, in any interleaving of the threads.
THEOREM SyncAnswersOnce == Spec => []AnsweredOnce
PROOF
<1>1. AnswerInv => AnsweredOnce
  BY DEF AnswerInv, CountsAnswers, AnsweredOnce
<1> QED BY <1>1, AnswersHold, PTL

-----------------------------------------------------------------------------
(* The timers.                                                             *)

TimerInv == TypeOK /\ EntryHasTimer

LEMMA TimerKept ==
    ASSUME EntryHasTimer, UNCHANGED <<timers, cm>>, entry' \ untimed' \subseteq entry \ untimed
    PROVE  EntryHasTimer'
PROOF
  BY Zenon DEF EntryHasTimer

\* A step of the handler that neither starts nor ends a timeout.
LEMMA TimerHandlerKept ==
    ASSUME EntryHasTimer, UNCHANGED requests, cm.pc # "timeout"
    PROVE  EntryHasTimer'
PROOF
  BY Zenon DEF EntryHasTimer, requests

LEMMA TimerStep ==
    ASSUME TimerInv, [Next]_vars
    PROVE  EntryHasTimer'
PROOF
<1> USE DEF requests, cmVars, Others
<1>t. /\ EntryHasTimer /\ timers \in [Device -> Nat] /\ entry \subseteq Device
      /\ untimed \subseteq entry /\ ask \in [Request -> [dev: Device, step: Steps]]
  BY DEF TimerInv, TypeOK, PendingTypeOK
<1>1. ASSUME NEW r \in Request, Apply(r) \/ CleanupThread(r) PROVE EntryHasTimer'
  BY <1>1, <1>t, TimerKept, Zenon DEF Apply, CleanupThread
<1>2. ASSUME NEW r \in Request, Serve(r) PROVE EntryHasTimer'
  <2> DEFINE d == ask[r].dev
  <2>1. CASE UNCHANGED requests
    <3>1. UNCHANGED cm
      BY <1>2, Zenon DEF Serve, StartGetDeviceDhInfo, SyncRemoteDeviceInfoBySoftbus
    <3> QED BY <2>1, <3>1, <1>t, TimerKept
  <2>2. CASE /\ entry' = entry \cup {d} /\ UNCHANGED <<untimed, cm>>
             /\ d \in entry /\ UNCHANGED timers
    BY <2>2, <1>t, TimerKept
  <2>3. CASE /\ entry' = entry \cup {d} /\ UNCHANGED <<untimed, cm>>
             /\ timers' = [timers EXCEPT ![d] = @ + 1]
    <3>1. d \in Device
      BY <1>t
    <3> SUFFICES ASSUME NEW e \in entry' \ untimed'
                 PROVE  timers'[e] > 0 \/ (cm'.pc = "timeout" /\ cm'.dev = e)
      BY DEF EntryHasTimer
    <3> HIDE DEF d
    <3>2. CASE e = d
      BY <3>1, <3>2, <2>3, <1>t
    <3>3. CASE e # d
      BY <3>1, <3>3, <2>3, <1>t DEF EntryHasTimer
    <3> QED BY <3>2, <3>3
  <2> QED BY <1>2, <2>1, <2>2, <2>3, Zenon
        DEF Serve, StartGetDeviceDhInfo, SyncRemoteDeviceInfoBySoftbus
<1>3. CASE CmThread
  <2>1. CASE TriggerFullCapsSync \/ CheckSession \/ BindSocket \/ SocketOpened \/ SendRequest
    <3>1. UNCHANGED requests
      BY <2>1, Zenon DEF TriggerFullCapsSync, CheckSession, BindSocket, SocketOpened,
           SendRequest, CmSends
    <3>2. cm.pc # "timeout"
      BY <2>1 DEF TriggerFullCapsSync, CheckSession, BindSocket, SocketOpened, SendRequest
    <3> QED BY <3>1, <3>2, <1>t, TimerHandlerKept
  <2>2. ASSUME NEW d \in Device, TimeoutTaskStarts(d) PROVE EntryHasTimer'
    <3>1. /\ cm.pc = "idle" /\ UNCHANGED <<entry, untimed>>
          /\ timers' = [timers EXCEPT ![d] = @ - 1]
          /\ cm'.pc = "timeout" /\ cm'.dev = d
      BY <2>2 DEF TimeoutTaskStarts, CmIdle
    <3> QED BY <3>1, <1>t DEF EntryHasTimer
  <2>3. CASE HandleSyncDataTimeout
    <3>1. entry' \ untimed' = (entry \ untimed) \ {cm.dev} /\ UNCHANGED timers
      BY <2>3 DEF HandleSyncDataTimeout, Erase
    <3> QED BY <3>1, <1>t DEF EntryHasTimer
  <2> QED BY <1>3, <2>1, <2>2, <2>3, Zenon DEF CmThread
<1>4. CASE CtThread
  <2>1. UNCHANGED cm
    BY <1>4, Zenon DEF CtThread, CtGoes, ProcessEvent, StopSocket, ClearDeviceSocketOpened,
         OnGetDescriptors
  <2>2. CASE UNCHANGED requests
    BY <2>1, <2>2, <1>t, TimerKept
  <2>3. CASE Erase(ct.dev) /\ timers' = [timers EXCEPT ![ct.dev] = 0]
    <3>1. entry' \ untimed' = (entry \ untimed) \ {ct.dev}
      BY <2>3 DEF Erase
    <3> QED BY <3>1, <2>1, <2>3, <1>t DEF EntryHasTimer
  <2> QED BY <1>4, <2>2, <2>3, Zenon DEF CtThread, ProcessEvent, StopSocket,
        ClearDeviceSocketOpened, OnGetDescriptors, Descriptors
<1>5. ASSUME NEW d \in Device, OnDataSyncTrigger(d) PROVE EntryHasTimer'
  <2>1. entry' \ untimed' \subseteq entry \ untimed /\ UNCHANGED <<timers, cm>>
    BY <1>5, <1>t DEF OnDataSyncTrigger
  <2> QED BY <2>1, <1>t, TimerKept
<1>6. ASSUME NEW d \in Device, NEW s \in Socket,
             PeerResponds(d, s) \/ PeerRequests(d, s) \/ PeerOpens(d, s)
      PROVE EntryHasTimer'
  BY <1>6, <1>t, TimerKept, Zenon DEF PeerResponds, PeerRequests, PeerOpens, PeerActs
<1>7. ASSUME NEW s \in Socket, PeerCloses(s) \/ OnSocketClosed(s) PROVE EntryHasTimer'
  BY <1>7, <1>t, TimerKept, Zenon DEF PeerCloses, OnSocketClosed, PeerActs
<1>8. CASE LocalInit \/ Release \/ UNCHANGED vars
  BY <1>8, <1>t, TimerKept, Zenon DEF LocalInit, Release, vars
<1>9. CASE Initialize
  <2>1. entry' \ untimed' = {}
    BY <1>9 DEF Initialize
  <2> QED BY <2>1 DEF EntryHasTimer
<1>10. ASSUME NEW j \in late, LateThread(j) PROVE EntryHasTimer'
  <2>1. TypeOK
    BY DEF TimerInv
  <2>2. /\ UNCHANGED cm
        /\ \/ UNCHANGED requests
           \/ /\ Erase(j.dev)
              /\ timers' = timers \/ timers' = [timers EXCEPT ![j.dev] = 0]
    BY <1>10, <2>1, LateEffect
  <2>3. CASE UNCHANGED requests
    BY <2>2, <2>3, <1>t, TimerKept
  <2>4. CASE Erase(j.dev) /\ (timers' = timers \/ timers' = [timers EXCEPT ![j.dev] = 0])
    <3>1. entry' \ untimed' = (entry \ untimed) \ {j.dev}
      BY <2>4 DEF Erase
    <3> QED BY <3>1, <2>2, <2>4, <1>t DEF EntryHasTimer
  <2> QED BY <2>2, <2>3, <2>4
<1> QED BY <1>1, <1>2, <1>3, <1>4, <1>5, <1>6, <1>7, <1>8, <1>9, <1>10, Zenon DEF Next

\* Whatever responses, triggers and releases come, an entry that was made with a
\* timer has it until it is erased.
THEOREM SyncEntryHasTimer == Spec => []EntryHasTimer
PROOF
<1>1. Init => TimerInv
  BY SyncTypeInit DEF Init, TimerInv, EntryHasTimer
<1>2. TimerInv /\ [Next]_vars => TimerInv'
  BY TimerStep, SyncTypeStep DEF TimerInv
<1>3. TimerInv => EntryHasTimer
  BY DEF TimerInv
<1> QED BY <1>1, <1>2, <1>3, PTL DEF Spec

-----------------------------------------------------------------------------
(* The sockets.                                                            *)

\* Two devices never share a socket, so a thread that closes the one of its device
\* leaves the others alone; and the socket that StartSocket has bound and not yet
\* registered is nobody's, and if it is closed its OnShutdown is still to come or
\* has come too early.
SocksDistinct ==
    \A d, e \in Device : socks[d] \in Socket /\ socks[d] = socks[e] => d = e
HandlerSocket ==
    /\ cm.pc # "opened" => cm.sock = NoSocket
    /\ cm.pc = "opened" =>
          /\ cm.sock \in Socket /\ \A d \in Device : socks[d] # cm.sock
          /\ open[cm.sock] = NoDevice => cm.sock \in closed \cup missed
SockParts == SocksDistinct /\ HandlerSocket /\ ClosedSocketIsForgotten
SockInv == TypeOK /\ SockParts

LEMMA SocksKept ==
    ASSUME SockParts, UNCHANGED <<socks, open, closed, missed>>,
           cm' = cm \/ (cm.pc # "opened" /\ cm'.pc # "opened" /\ cm'.sock = NoSocket),
           ct' = ct \/ ct.pc # "clear",
           \A j \in late : j.pc = "clear" => j \in late'
    PROVE  SockParts'
PROOF
<1>1. SocksDistinct'
  BY DEF SockParts, SocksDistinct
<1>2. HandlerSocket'
  BY DEF SockParts, HandlerSocket
<1>3. ClosedSocketIsForgotten'
  BY DEF SockParts, ClosedSocketIsForgotten
<1> QED BY <1>1, <1>2, <1>3 DEF SockParts

LEMMA SockStep ==
    ASSUME SockInv, [Next]_vars
    PROVE  SockParts'
PROOF
<1> USE DEF transport, cmVars, ctVars, aside, Others
<1>t. /\ SockParts /\ SocksDistinct /\ HandlerSocket /\ ClosedSocketIsForgotten
      /\ socks \in [Device -> Socket \cup {NoSocket}] /\ open \in [Socket -> Device \cup {NoDevice}]
      /\ cm \in [pc: {"idle", "check", "bind", "opened", "send", "timeout"},
                 dev: Device \cup {NoDevice}, sock: Socket \cup {NoSocket}]
      /\ ct \in [pc: {"idle", "stop", "clear", "answer"},
                 dev: Device \cup {NoDevice}, caps: BOOLEAN]
      /\ (cm.pc # "idle" => cm.dev \in Device) /\ (ct.pc # "idle" => ct.dev \in Device)
      /\ NoSocket \notin Socket /\ NoDevice \notin Device
  BY SyncConstants DEF SockInv, SockParts, TypeOK
<1>1. ASSUME NEW r \in Request, Apply(r) \/ CleanupThread(r) \/ Serve(r) PROVE SockParts'
  <2>1. UNCHANGED <<socks, open, closed, missed, cm, ct, late>>
    BY <1>1, Zenon DEF Apply, CleanupThread, Serve, StartGetDeviceDhInfo, SyncRemoteDeviceInfoBySoftbus
  <2> QED BY <1>t, <2>1, SocksKept
<1>2. CASE TriggerFullCapsSync \/ CheckSession \/ SendRequest \/ HandleSyncDataTimeout
           \/ \E d \in Device : TimeoutTaskStarts(d)
  <2>1. UNCHANGED <<socks, open, closed, missed, ct, late>>
    BY <1>2, Zenon DEF TriggerFullCapsSync, CheckSession, SendRequest, HandleSyncDataTimeout,
         TimeoutTaskStarts, CmSends, CmGoes
  <2>2. cm.pc # "opened" /\ cm'.pc # "opened" /\ cm'.sock = NoSocket
    <3>1. cm.pc \in {"idle", "check", "send", "timeout"} /\ cm.sock = NoSocket
      BY <1>2, <1>t DEF TriggerFullCapsSync, CheckSession, SendRequest, HandleSyncDataTimeout,
           TimeoutTaskStarts, HandlerSocket
    <3>2. \/ cm' = CmIdle \/ \E d : cm' = [CmIdle EXCEPT !.pc = "check", !.dev = d]
          \/ cm' = [cm EXCEPT !.pc = IF socks[cm.dev] = NoSocket THEN "bind" ELSE "send"]
          \/ \E d : cm' = [CmIdle EXCEPT !.pc = "timeout", !.dev = d]
      BY <1>2, Zenon DEF TriggerFullCapsSync, CheckSession, SendRequest, HandleSyncDataTimeout,
           TimeoutTaskStarts
    <3>3. CASE cm' = [cm EXCEPT !.pc = IF socks[cm.dev] = NoSocket THEN "bind" ELSE "send"]
      BY <1>t, <3>1, <3>3
    <3>4. CASE cm' = CmIdle
      BY <3>1, <3>4 DEF CmIdle
    <3>5. ASSUME NEW d, cm' = [CmIdle EXCEPT !.pc = "check", !.dev = d]
          PROVE  cm'.pc # "opened" /\ cm'.sock = NoSocket
      BY <3>5 DEF CmIdle
    <3>6. ASSUME NEW d, cm' = [CmIdle EXCEPT !.pc = "timeout", !.dev = d]
          PROVE  cm'.pc # "opened" /\ cm'.sock = NoSocket
      BY <3>6 DEF CmIdle
    <3>7. cm.pc # "opened"
      BY <3>1
    <3> QED BY <3>2, <3>3, <3>4, <3>5, <3>6, <3>7, Zenon
  <2> QED BY <1>t, <2>1, <2>2, SocksKept
<1>3. CASE BindSocket
  <2>1. cm.pc = "bind" /\ UNCHANGED <<socks, closed, ct, late>>
    BY <1>3, Zenon DEF BindSocket, CmSends, CmGoes
  <2>2. CASE cm' = CmIdle /\ UNCHANGED <<open, missed>>
    <3>1. cm'.pc # "opened" /\ cm'.sock = NoSocket
      BY <2>2 DEF CmIdle
    <3> QED BY <1>t, <2>1, <2>2, <3>1, SocksKept
  <2>3. ASSUME NEW s \in Socket, Unused(s), open' = [open EXCEPT ![s] = cm.dev],
               missed' = missed \ {s}, cm' = [cm EXCEPT !.pc = "opened", !.sock = s]
        PROVE  SockParts'
    <3>1. cm'.pc = "opened" /\ cm'.sock = s /\ cm.dev \in Device
      BY <1>t, <2>1, <2>3
    <3>2. \A d \in Device : socks[d] # s
      BY <2>3 DEF Unused
    <3>3. SocksDistinct'
      BY <1>t, <2>1 DEF SocksDistinct
    <3>4. HandlerSocket'
      BY <1>t, <2>1, <2>3, <3>1, <3>2 DEF HandlerSocket
    <3>5. ClosedSocketIsForgotten'
      BY <1>t, <2>1, <2>3, <3>2 DEF ClosedSocketIsForgotten
    <3> QED BY <3>3, <3>4, <3>5 DEF SockParts
  <2> QED BY <1>3, <2>2, <2>3, Zenon DEF BindSocket
<1>4. CASE SocketOpened
  <2>1. /\ cm.pc = "opened" /\ UNCHANGED <<open, closed, missed, ct, late>>
        /\ socks' = [socks EXCEPT ![cm.dev] = cm.sock]
    BY <1>4, Zenon DEF SocketOpened, CmSends, CmGoes
  <2>2. cm'.pc = "send" /\ cm'.sock = NoSocket
    BY <1>4, <1>t DEF SocketOpened
  <2>3. SocksDistinct'
    BY <1>t, <2>1 DEF SocksDistinct, HandlerSocket
  <2>4. HandlerSocket'
    BY <2>2 DEF HandlerSocket
  <2>5. ClosedSocketIsForgotten'
    BY <1>t, <2>1 DEF ClosedSocketIsForgotten, HandlerSocket
  <2> QED BY <2>3, <2>4, <2>5 DEF SockParts
<1>5. CASE ProcessEvent \/ OnGetDescriptors
  <2>1. UNCHANGED <<socks, open, closed, missed, cm, late>>
    BY <1>5, Zenon DEF ProcessEvent, OnGetDescriptors, CtGoes
  <2>2. ct.pc # "clear"
    BY <1>5 DEF ProcessEvent, OnGetDescriptors
  <2> QED BY <1>t, <2>1, <2>2, SocksKept
<1>6. CASE StopSocket
  <2>1. ct.pc = "stop" /\ UNCHANGED <<socks, closed, missed, cm, late>>
    BY <1>6, Zenon DEF StopSocket, CtGoes
  <2>2. CASE UNCHANGED open
    BY <1>t, <2>1, <2>2, SocksKept
  <2>3. CASE /\ socks[ct.dev] # NoSocket /\ ct' = [ct EXCEPT !.pc = "clear"]
             /\ open' = [open EXCEPT ![socks[ct.dev]] = NoDevice]
    <3>1. ct.dev \in Device /\ socks[ct.dev] \in Socket /\ ct'.pc = "clear" /\ ct'.dev = ct.dev
      BY <1>t, <2>1, <2>3
    <3>2. SocksDistinct'
      BY <1>t, <2>1 DEF SocksDistinct
    <3>3. HandlerSocket'
      BY <1>t, <2>1, <2>3, <3>1 DEF HandlerSocket
    <3>4. ClosedSocketIsForgotten'
      BY <1>t, <2>1, <2>3, <3>1 DEF ClosedSocketIsForgotten, SocksDistinct
    <3> QED BY <3>2, <3>3, <3>4 DEF SockParts
  <2> QED BY <1>6, <2>2, <2>3, Zenon DEF StopSocket
<1>7. CASE ClearDeviceSocketOpened
  <2>1. /\ ct.pc = "clear" /\ UNCHANGED <<open, closed, missed, cm, late>>
        /\ socks' = [socks EXCEPT ![ct.dev] = NoSocket]
    BY <1>7, Zenon DEF ClearDeviceSocketOpened, CtGoes
  <2>2. SocksDistinct'
    BY <1>t, <2>1 DEF SocksDistinct
  <2>3. HandlerSocket'
    BY <1>t, <2>1 DEF HandlerSocket
  <2>4. ClosedSocketIsForgotten'
    BY <1>t, <2>1 DEF ClosedSocketIsForgotten
  <2> QED BY <2>2, <2>3, <2>4 DEF SockParts
<1>8. ASSUME NEW d \in Device, OnDataSyncTrigger(d) PROVE SockParts'
  <2>1. UNCHANGED <<socks, open, closed, missed, cm, ct, late>>
    BY <1>8, Zenon DEF OnDataSyncTrigger
  <2> QED BY <1>t, <2>1, SocksKept
<1>9. ASSUME NEW d \in Device, NEW s \in Socket, PeerResponds(d, s) \/ PeerRequests(d, s) PROVE SockParts'
  <2>1. UNCHANGED <<socks, open, closed, missed, cm, ct, late>>
    BY <1>9, Zenon DEF PeerResponds, PeerRequests, PeerActs
  <2> QED BY <1>t, <2>1, SocksKept
<1>10. ASSUME NEW d \in Device, NEW s \in Socket, PeerOpens(d, s) PROVE SockParts'
  <2>1. /\ Unused(s) /\ open' = [open EXCEPT ![s] = d] /\ missed' = missed \ {s}
        /\ socks' = [socks EXCEPT ![d] = s] /\ UNCHANGED <<closed, cm, ct, late>>
    BY <1>10, Zenon DEF PeerOpens, PeerActs
  <2>2. s # cm.sock /\ \A e \in Device : socks[e] # s
    BY <2>1 DEF Unused
  <2>3. SocksDistinct'
    BY <1>t, <2>1, <2>2 DEF SocksDistinct
  <2>4. HandlerSocket'
    BY <1>t, <2>1, <2>2 DEF HandlerSocket
  <2>5. ClosedSocketIsForgotten'
    BY <1>t, <2>1, <2>2 DEF ClosedSocketIsForgotten
  <2> QED BY <2>3, <2>4, <2>5 DEF SockParts
<1>11. ASSUME NEW s \in Socket, PeerCloses(s) PROVE SockParts'
  <2>1. /\ open' = [open EXCEPT ![s] = NoDevice] /\ closed' = closed \cup {s}
        /\ UNCHANGED <<socks, missed, cm, ct, late>>
    BY <1>11, Zenon DEF PeerCloses, PeerActs
  <2>2. SocksDistinct'
    BY <1>t, <2>1 DEF SocksDistinct
  <2>3. HandlerSocket'
    BY <1>t, <2>1 DEF HandlerSocket
  <2>4. ClosedSocketIsForgotten'
    BY <1>t, <2>1 DEF ClosedSocketIsForgotten
  <2> QED BY <2>2, <2>3, <2>4 DEF SockParts
<1>12. ASSUME NEW s \in Socket, OnSocketClosed(s) PROVE SockParts'
  <2>1. /\ closed' = closed \ {s} /\ UNCHANGED <<open, cm, ct, late>>
        /\ socks' = [d \in Device |-> IF socks[d] = s THEN NoSocket ELSE socks[d]]
        /\ missed' = IF cm.sock = s THEN missed \cup {s} ELSE missed
    BY <1>12, Zenon DEF OnSocketClosed, PeerActs
  <2>2. SocksDistinct'
    BY <1>t, <2>1 DEF SocksDistinct
  <2>3. HandlerSocket'
    BY <1>t, <2>1 DEF HandlerSocket
  <2>4. ClosedSocketIsForgotten'
    BY <1>t, <2>1 DEF ClosedSocketIsForgotten
  <2> QED BY <2>2, <2>3, <2>4 DEF SockParts
<1>13. CASE LocalInit \/ UNCHANGED vars
  <2>1. UNCHANGED <<socks, open, closed, missed, cm, ct, late>>
    BY <1>13, Zenon DEF LocalInit, vars
  <2> QED BY <1>t, <2>1, SocksKept
<1>14. CASE Initialize \/ Release
  <2>1. /\ socks' = [d \in Device |-> NoSocket] /\ UNCHANGED <<closed, missed>>
        /\ cm' = CmIdle \/ cm' = cm
    BY <1>14, Zenon DEF Initialize, Release
  <2>2. \/ open' = open
        \/ open' = [s \in Socket |-> IF \E d \in Device : socks[d] = s THEN NoDevice ELSE open[s]]
    BY <1>14, Zenon DEF Initialize, Release
  <2>3. SocksDistinct'
    BY <1>t, <2>1 DEF SocksDistinct
  <2>4. HandlerSocket'
    BY <1>t, <2>1, <2>2 DEF HandlerSocket, CmIdle
  <2>5. ClosedSocketIsForgotten'
    BY <1>t, <2>1 DEF ClosedSocketIsForgotten
  <2> QED BY <2>3, <2>4, <2>5 DEF SockParts
<1>15. ASSUME NEW j \in late, LateThread(j) PROVE SockParts'
  <2>1. j.dev \in Device /\ UNCHANGED <<closed, missed, cm, ct>>
    BY <1>15, LateEffect, Zenon DEF SockInv
  <2>2. CASE /\ j.pc # "clear" /\ UNCHANGED <<socks, open>>
             /\ late' = late \ {j} \/ late' = (late \ {j}) \cup {[j EXCEPT !.pc = "answer"]}
    BY <1>t, <2>1, <2>2, SocksKept
  <2>3. CASE /\ j.pc = "stop" /\ socks[j.dev] # NoSocket /\ UNCHANGED socks
             /\ open' = [open EXCEPT ![socks[j.dev]] = NoDevice]
             /\ late' = (late \ {j}) \cup {[j EXCEPT !.pc = "clear"]}
    <3>1. j \in Late /\ socks[j.dev] \in Socket
      BY <1>t, <2>1, <2>3 DEF SockInv, TypeOK
    <3> DEFINE k == [j EXCEPT !.pc = "clear"]
    <3>2. k.pc = "clear" /\ k.dev = j.dev /\ k \in late'
      BY <2>3, <3>1 DEF Late
    <3>3. \A i \in late : i.pc = "clear" => i \in late'
      BY <2>3
    <3> HIDE DEF k
    <3>4. SocksDistinct'
      BY <1>t, <2>3 DEF SocksDistinct
    <3>5. HandlerSocket'
      BY <1>t, <2>1, <2>3, <3>1 DEF HandlerSocket
    <3>6. ClosedSocketIsForgotten'
      BY <1>t, <2>1, <2>3, <3>1, <3>2, <3>3 DEF ClosedSocketIsForgotten, SocksDistinct
    <3> QED BY <3>4, <3>5, <3>6 DEF SockParts
  <2>4. CASE /\ j.pc = "clear" /\ socks' = [socks EXCEPT ![j.dev] = NoSocket] /\ UNCHANGED open
             /\ late' = (late \ {j}) \cup {[j EXCEPT !.pc = "answer"]}
    <3>1. \A i \in late : i.dev # j.dev => i \in late'
      BY <2>4
    <3>2. SocksDistinct'
      BY <1>t, <2>1, <2>4 DEF SocksDistinct
    <3>3. HandlerSocket'
      BY <1>t, <2>1, <2>4 DEF HandlerSocket
    <3>4. ClosedSocketIsForgotten'
      BY <1>t, <2>1, <2>4, <3>1 DEF ClosedSocketIsForgotten
    <3> QED BY <3>2, <3>3, <3>4 DEF SockParts
  <2> QED BY <1>15, <2>2, <2>3, <2>4, Zenon DEF LateThread, LateTimeout, LateSend, LateStop,
        LateClear, LateAnswer, Over, Goes
<1> QED BY <1>1, <1>2, <1>3, <1>4, <1>5, <1>6, <1>7, <1>8, <1>9, <1>10, <1>11, <1>12, <1>13, <1>14,
       <1>15, Zenon DEF Next, CmThread, CtThread

\* However the event handlers' StartSocket and StopSocket, the soft bus's OnBind and
\* OnShutdown and the release interleave, remoteDevSocketIds_ keeps no closed socket
\* that nobody is about to erase, but for one whose OnShutdown came before its
\* registration.
THEOREM SyncForgetsClosed == Spec => []ClosedSocketIsForgotten
PROOF
<1>1. Init => SockInv
  <2> SUFFICES ASSUME Init PROVE SockParts
    BY SyncTypeInit DEF SockInv
  <2>1. cm.pc = "idle" /\ cm.sock = NoSocket /\ socks = [d \in Device |-> NoSocket] /\ NoSocket \notin Socket
    BY SyncConstants DEF Init, CmIdle
  <2> QED BY <2>1 DEF SockParts, SocksDistinct, HandlerSocket, ClosedSocketIsForgotten
<1>2. SockInv /\ [Next]_vars => SockInv'
  BY SockStep, SyncTypeStep DEF SockInv
<1>3. SockInv => ClosedSocketIsForgotten
  BY DEF SockInv, SockParts
<1> QED BY <1>1, <1>2, <1>3, PTL DEF Spec
-----------------------------------------------------------------------------
(* What a step does to the requests, and what an application sees of it.   *)

\* A request that goes on alone and is not called back.
Advances ==
    {<<"new", "refused">>, <<"new", "pending">>, <<"new", "lookup">>,
     <<"ready", "lookup">>, <<"lookup", "sync">>, <<"sync", "waiting">>}

\* Where a request can be called back.
Unanswered == {"late", "lookup", "sync", "waiting"}

\* A cleanup thread takes requests out of the queue.
TakenOut ==
    /\ UNCHANGED answers
    /\ st' \in [Request -> Progress]
    /\ \A r \in Request : st'[r] = st[r] \/ (st[r] = "pending" /\ st'[r] \in {"late", "ready"})

RequestsMove ==
    \/ SameRequests
    \/ \E r \in Request : \E p \in Progress : Moved(r, p) /\ <<st[r], p>> \in Advances
    \/ \E R \in SUBSET Request : Answer(R) /\ \A r \in R : st[r] \in Unanswered
    \/ TakenOut

\* What leaves the queue is served or late, the rest stays what it was.
LEMMA TakenFromQueue ==
    ASSUME TypeOK, QueuedArePending, NEW t \in Request, CleanupExpiredRequests(t), pending # {}
    PROVE  /\ UNCHANGED answers
           /\ CanServe \subseteq pending /\ Expired \subseteq pending
           /\ batch' = [batch EXCEPT ![t] = CanServe \cup Expired]
           /\ cleaner' = [cleaner EXCEPT ![t] = "process"]
           /\ pending' = pending \ (CanServe \cup Expired)
           /\ st' \in [Request -> Progress]
           /\ \A r \in Request :
                 /\ r \notin CanServe \cup Expired => st'[r] = st[r]
                 /\ r \in CanServe \cup Expired => st[r] = "pending" /\ st'[r] \in {"late", "ready"}
PROOF
<1>t. st \in [Request -> Progress] /\ pending \subseteq Request
  BY DEF TypeOK, PendingTypeOK
<1>1. /\ UNCHANGED answers
      /\ batch' = [batch EXCEPT ![t] = CanServe \cup Expired]
      /\ cleaner' = [cleaner EXCEPT ![t] = "process"]
      /\ pending' = pending \ (CanServe \cup Expired)
      /\ st' = [r \in Request |->
                   CASE r \in CanServe -> "ready"
                     [] r \in Expired -> "late"
                     [] OTHER -> st[r]]
  BY Zenon DEF CleanupExpiredRequests, TakeFromQueue
<1>2. CanServe \subseteq pending /\ Expired \subseteq pending
  BY DEF CanServe, Expired
<1> HIDE DEF CanServe, Expired
<1>3. \A r \in Request :
         /\ r \notin CanServe \cup Expired => st'[r] = st[r]
         /\ r \in CanServe \cup Expired => st[r] = "pending" /\ st'[r] \in {"late", "ready"}
  BY <1>1, <1>2, <1>t DEF QueuedArePending
<1>4. st' \in [Request -> Progress]
  BY <1>1, <1>t DEF Progress
<1> QED BY <1>1, <1>2, <1>3, <1>4

LEMMA RequestStep ==
    ASSUME AnswerInv, [Next]_vars
    PROVE  RequestsMove
PROOF
<1>t. /\ st \in [Request -> Progress] /\ answers \in [Request -> Nat]
      /\ cbs \in [Device -> SUBSET Request] /\ batch \in [Request -> SUBSET Request]
  BY DEF AnswerInv, TypeOK, PendingTypeOK
<1>0. /\ "refused" \in Progress /\ "pending" \in Progress /\ "lookup" \in Progress
      /\ "sync" \in Progress /\ "waiting" \in Progress
  BY DEF Progress
<1>1. ASSUME NEW r \in Request, Apply(r) PROVE RequestsMove
  <2>1. st[r] = "new" /\ \E p \in {"refused", "pending", "lookup"} : Moved(r, p)
    BY <1>1, Zenon DEF Apply, GetDistributedHardware, QueuePendingRequest, Moved
  <2> QED BY <2>1, <1>0 DEF RequestsMove, Advances
<1>2. ASSUME NEW t \in Request, CleanupThread(t) PROVE RequestsMove
  <2>1. CASE LoopCheck(t) \/ Wake(t) \/ ProcessEnds(t)
    BY <2>1, Zenon DEF LoopCheck, Wake, ProcessEnds, RequestsMove, SameRequests
  <2>2. CASE CleanupExpiredRequests(t) /\ pending = {}
    BY <2>2, Zenon DEF CleanupExpiredRequests, RequestsMove, SameRequests
  <2>3. CASE CleanupExpiredRequests(t) /\ pending # {}
    BY <2>3, TakenFromQueue, Zenon DEF AnswerInv, TakenOut, RequestsMove
  <2>4. ASSUME NEW r \in batch[t], AnswerLate(t, r) PROVE RequestsMove
    <3>1. r \in Request
      BY <1>t
    <3>2. Answer({r}) /\ st[r] \in Unanswered
      BY <2>4, <3>1, <1>t DEF AnswerLate, Answer, Unanswered
    <3> QED BY <3>1, <3>2 DEF RequestsMove
  <2>5. ASSUME NEW r \in batch[t], ServeReady(t, r) PROVE RequestsMove
    <3>1. r \in Request
      BY <1>t
    <3>2. Moved(r, "lookup") /\ st[r] = "ready"
      BY <2>5, Zenon DEF ServeReady, Moved
    <3> QED BY <3>1, <3>2, <1>0 DEF RequestsMove, Advances
  <2> QED BY <1>2, <2>1, <2>2, <2>3, <2>4, <2>5, Zenon DEF CleanupThread, Cleanup
<1>3. ASSUME NEW r \in Request, Serve(r) PROVE RequestsMove
  <2>1. CASE Answer({r})
    <3>1. st[r] \in Unanswered
      BY <1>3 DEF Serve, StartGetDeviceDhInfo, SyncRemoteDeviceInfoBySoftbus, Unanswered
    <3> QED BY <2>1, <3>1 DEF RequestsMove
  <2>2. CASE st[r] = "lookup" /\ Moved(r, "sync")
    BY <2>2, <1>0 DEF RequestsMove, Advances
  <2>3. CASE st[r] = "sync" /\ Moved(r, "waiting")
    BY <2>3, <1>0 DEF RequestsMove, Advances
  <2> QED BY <1>3, <2>1, <2>2, <2>3, Zenon
        DEF Serve, StartGetDeviceDhInfo, SyncRemoteDeviceInfoBySoftbus, Moved
<1>4. ASSUME NEW d \in Device, Answer(cbs[d]) PROVE RequestsMove
  <2>1. cbs[d] \in SUBSET Request /\ \A r \in cbs[d] : st[r] \in Unanswered
    BY <1>t DEF AnswerInv, CallbacksWait, Unanswered
  <2> QED BY <1>4, <2>1 DEF RequestsMove
<1>5. CASE CmThread
  <2>1. CASE SameRequests
    BY <2>1 DEF RequestsMove
  <2>2. CASE HandleSyncDataTimeout /\ Answer(cbs[cm.dev])
    <3>1. cm.dev \in Device
      BY <2>2 DEF HandleSyncDataTimeout, AnswerInv, TypeOK
    <3> QED BY <2>2, <3>1, <1>4
  <2> QED BY <1>5, <2>1, <2>2, CmEffect
<1>6. CASE CtThread
  <2>1. CASE SameRequests
    BY <2>1 DEF RequestsMove
  <2>2. CASE OnGetDescriptors /\ Answer(cbs[ct.dev])
    <3>1. ct.dev \in Device
      BY <2>2 DEF OnGetDescriptors, AnswerInv, TypeOK
    <3> QED BY <2>2, <3>1, <1>4
  <2> QED BY <1>6, <2>1, <2>2, CtEffect
<1>7. ASSUME NEW d \in Device, OnDataSyncTrigger(d) PROVE RequestsMove
  BY <1>7, Zenon DEF OnDataSyncTrigger, RequestsMove, SameRequests
<1>8. ASSUME NEW d \in Device, NEW s \in Socket,
             PeerResponds(d, s) \/ PeerRequests(d, s) \/ PeerOpens(d, s)
      PROVE RequestsMove
  BY <1>8, Zenon DEF PeerResponds, PeerRequests, PeerOpens, PeerActs, RequestsMove, SameRequests
<1>9. ASSUME NEW s \in Socket, PeerCloses(s) \/ OnSocketClosed(s) PROVE RequestsMove
  BY <1>9, Zenon DEF PeerCloses, OnSocketClosed, PeerActs, RequestsMove, SameRequests
<1>10. CASE LocalInit \/ Initialize \/ Release \/ UNCHANGED vars
  BY <1>10, Zenon DEF LocalInit, Initialize, Release, vars, RequestsMove, SameRequests
<1>11. ASSUME NEW j \in late, LateThread(j) PROVE RequestsMove
  <2>1. TypeOK
    BY DEF AnswerInv
  <2>2. j.dev \in Device /\ (SameRequests \/ Answer(cbs[j.dev]))
    BY <1>11, <2>1, LateEffect, Zenon
  <2> QED BY <2>2, <1>4 DEF RequestsMove
<1> QED BY <1>1, <1>2, <1>3, <1>5, <1>6, <1>7, <1>8, <1>9, <1>10, <1>11, Zenon DEF Next

\* The step of the promise that such a step makes.
LEMMA PromiseStep ==
    ASSUME AnswerInv, RequestsMove
    PROVE  [Promise!Next]_(Promise!promiseVars)
PROOF
<1> DEFINE Owed == {r \in Request : st[r] \notin {"new", "refused", "answered"}}
           Ended == {r \in Request : st[r] \in {"refused", "answered"}}
<1>t. st \in [Request -> Progress] /\ answers \in [Request -> Nat]
  BY DEF AnswerInv, TypeOK, PendingTypeOK
<1> SUFFICES \/ Owed' = Owed /\ Ended' = Ended /\ answers' = answers
             \/ \E r \in Request :
                  /\ r \notin Owed \cup Ended /\ answers' = answers
                  /\ \/ Owed' = Owed \cup {r} /\ Ended' = Ended
                     \/ Ended' = Ended \cup {r} /\ Owed' = Owed
             \/ \E R \in SUBSET Owed :
                  /\ Owed' = Owed \ R /\ Ended' = Ended \cup R
                  /\ answers' = [r \in Request |-> IF r \in R THEN answers[r] + 1 ELSE answers[r]]
  BY Zenon DEF Promise!Next, Promise!promiseVars, Promise!Accept, Promise!Refuse, Promise!New,
       Promise!CallBack
<1>1. CASE SameRequests
  BY <1>1 DEF SameRequests
<1>2. ASSUME NEW r \in Request, NEW p \in Progress, Moved(r, p), <<st[r], p>> \in Advances
      PROVE  \/ Owed' = Owed /\ Ended' = Ended /\ answers' = answers
             \/ /\ r \notin Owed \cup Ended /\ answers' = answers
                /\ \/ Owed' = Owed \cup {r} /\ Ended' = Ended
                   \/ Ended' = Ended \cup {r} /\ Owed' = Owed
  <2>1. answers' = answers /\ st' = [st EXCEPT ![r] = p]
    BY <1>2 DEF Moved
  <2>2. CASE st[r] = "new" /\ p = "refused"
    BY <2>1, <2>2, <1>t
  <2>3. CASE st[r] = "new" /\ p \in {"pending", "lookup"}
    BY <2>1, <2>3, <1>t
  <2>4. CASE st[r] \notin {"new", "refused", "answered"} /\ p \notin {"new", "refused", "answered"}
    BY <2>1, <2>4, <1>t
  <2> QED BY <1>2, <2>2, <2>3, <2>4 DEF Advances
<1>3. ASSUME NEW R \in SUBSET Request, Answer(R), \A r \in R : st[r] \in Unanswered
      PROVE  /\ R \subseteq Owed /\ Owed' = Owed \ R /\ Ended' = Ended \cup R
             /\ answers' = [r \in Request |-> IF r \in R THEN answers[r] + 1 ELSE answers[r]]
  BY <1>3, <1>t DEF Answer, Unanswered
<1>4. CASE TakenOut
  <2>1. \A r \in Request : st'[r] = st[r] \/
           (st[r] \notin {"new", "refused", "answered"} /\ st'[r] \notin {"new", "refused", "answered"})
    BY <1>4 DEF TakenOut
  <2> QED BY <1>4, <2>1 DEF TakenOut
<1> QED BY <1>1, <1>2, <1>3, <1>4 DEF RequestsMove

\* Whatever the response, the timeout, the local data and the cleanup threads do,
\* an application sees its request refused without a callback, or accepted and
\* called back at most once.
THEOREM KeepsPromise == Spec => PromiseKept
PROOF
<1>1. Init => Promise!Init
  BY Zenon DEF Init, PendingInit, Promise!Init
<1>2. AnswerInv /\ [Next]_vars => [Promise!Next]_(Promise!promiseVars)
  BY RequestStep, PromiseStep
<1> QED BY <1>1, <1>2, AnswersHold, PTL DEF Spec, PromiseKept, Promise!Spec

\* The steps that a request can make, and no others.
Allowed ==
    Advances \cup {<<"pending", "late">>, <<"pending", "ready">>} \cup (Unanswered \X {"answered"})
RequestsGoForward == \A r \in Request : st'[r] = st[r] \/ <<st[r], st'[r]>> \in Allowed

LEMMA ForwardStep ==
    ASSUME AnswerInv, [Next]_vars
    PROVE  RequestsGoForward
PROOF
<1>t. st \in [Request -> Progress]
  BY DEF AnswerInv, TypeOK, PendingTypeOK
<1>1. RequestsMove
  BY RequestStep
<1>2. CASE SameRequests
  BY <1>2 DEF SameRequests, RequestsGoForward
<1>3. ASSUME NEW r \in Request, NEW p \in Progress, Moved(r, p), <<st[r], p>> \in Advances
      PROVE  RequestsGoForward
  BY <1>3, <1>t DEF Moved, RequestsGoForward, Allowed
<1>4. ASSUME NEW R \in SUBSET Request, Answer(R), \A r \in R : st[r] \in Unanswered
      PROVE  RequestsGoForward
  BY <1>4, <1>t DEF Answer, RequestsGoForward, Allowed
<1>5. CASE TakenOut
  BY <1>5 DEF TakenOut, RequestsGoForward, Allowed
<1> QED BY <1>1, <1>2, <1>3, <1>4, <1>5 DEF RequestsMove

\* An accepted request goes through its stages in one direction: none that was
\* answered or refused is heard of again, none returns to the queue.
THEOREM RequestsOnlyGoForward == Spec => [][RequestsGoForward]_vars
PROOF
  BY ForwardStep, AnswersHold, PTL DEF Spec

-----------------------------------------------------------------------------
(* Nobody who was accepted is forgotten: where each request is.            *)

\* In the queue.
PendingQueued == \A r \in Request : st[r] = "pending" => r \in pending

\* In the hands of a cleanup thread that is at work.
InBatch ==
    \A r \in Request : st[r] \in {"late", "ready"} =>
        \E t \in Request : cleaner[t] = "process" /\ r \in batch[t]

\* Such a thread has no request that somebody else must take out of the queue.
BatchTaken ==
    \A t \in Request : \A r \in batch[t] :
        st[r] \in {"late", "ready", "lookup", "sync", "waiting", "answered"}

\* In the entry of its device.
WaitersListed ==
    \A r \in Request : st[r] = "waiting" => r \in cbs[ask[r].dev] /\ ask[r].dev \in entry

\* A cleanup thread is named after a request that was made.
CleanersAsked == \A r \in Request : cleaner[r] # "none" => st[r] # "new"

HandsParts == PendingQueued /\ InBatch /\ BatchTaken /\ WaitersListed /\ CleanersAsked
HandsInv == AnswerInv /\ HandsParts

\* No step but that of the queue makes a request pending, or takes it in hand.
LEMMA HandsKept ==
    ASSUME HandsInv, RequestsGoForward, UNCHANGED <<pending, cleaner, batch, ask>>,
           \A r \in Request : st'[r] # st[r] => st'[r] \notin {"pending", "late", "ready", "new"},
           WaitersListed'
    PROVE  HandsParts'
PROOF
<1>t. /\ batch \in [Request -> SUBSET Request] /\ cleaner \in [Request -> Live \cup {"none", "exit"}]
  BY DEF HandsInv, AnswerInv, TypeOK, PendingTypeOK
<1>1. PendingQueued'
  BY DEF HandsInv, HandsParts, PendingQueued
<1>2. InBatch'
  BY DEF HandsInv, HandsParts, InBatch
<1>3. BatchTaken'
  BY <1>t DEF HandsInv, HandsParts, BatchTaken, RequestsGoForward, Allowed, Advances, Unanswered
<1>4. CleanersAsked'
  BY DEF HandsInv, HandsParts, CleanersAsked
<1> QED BY <1>1, <1>2, <1>3, <1>4 DEF HandsParts

\* No request moves.
LEMMA HandsSame ==
    ASSUME HandsInv, SameRequests, UNCHANGED <<pending, cleaner, batch, ask, cbs>>,
           entry \subseteq entry'
    PROVE  HandsParts'
PROOF
<1>1. WaitersListed'
  BY DEF HandsInv, HandsParts, WaitersListed, SameRequests
<1> QED BY <1>1, HandsKept DEF SameRequests, RequestsGoForward

\* An entry is answered as a whole.
LEMMA HandsEntry ==
    ASSUME HandsInv, RequestsGoForward, NEW d \in Device, Answer(cbs[d]), Erase(d),
           UNCHANGED <<pending, cleaner, batch, ask>>
    PROVE  HandsParts'
PROOF
<1>t. /\ st \in [Request -> Progress] /\ cbs \in [Device -> SUBSET Request]
      /\ ask \in [Request -> [dev: Device, step: Steps]]
  BY DEF HandsInv, AnswerInv, TypeOK, PendingTypeOK
<1>1. \A r \in Request : st'[r] = IF r \in cbs[d] THEN "answered" ELSE st[r]
  BY DEF Answer
<1>2. WaitersListed'
  <2> SUFFICES ASSUME NEW r \in Request, st'[r] = "waiting"
               PROVE  r \in cbs'[ask[r].dev] /\ ask[r].dev \in entry'
    BY DEF WaitersListed
  <2>1. r \notin cbs[d] /\ st[r] = "waiting"
    BY <1>1
  <2>2. r \in cbs[ask[r].dev] /\ ask[r].dev \in entry /\ ask[r].dev \in Device
    BY <2>1, <1>t DEF HandsInv, HandsParts, WaitersListed
  <2>3. ask[r].dev # d
    BY <2>1, <2>2
  <2> QED BY <2>2, <2>3, <1>t DEF Erase
<1> QED BY <1>1, <1>2, HandsKept

\* A request that waits for its device is listed there before it waits.
LEMMA HandsServe ==
    ASSUME HandsInv, RequestsGoForward, NEW r \in Request, Serve(r)
    PROVE  HandsParts'
PROOF
<1>t. /\ st \in [Request -> Progress] /\ cbs \in [Device -> SUBSET Request]
      /\ ask \in [Request -> [dev: Device, step: Steps]]
  BY DEF HandsInv, AnswerInv, TypeOK, PendingTypeOK
<1>0. UNCHANGED <<pending, cleaner, batch, ask>>
  BY ServeEffect, Zenon DEF queue, threads, fixed
<1>1. CASE UNCHANGED <<entry, cbs>> /\ (Answer({r}) \/ Moved(r, "sync"))
  <2>1. /\ \A q \in Request : st'[q] # st[q] => st'[q] \in {"answered", "sync"}
        /\ \A q \in Request : st'[q] = "waiting" => st[q] = "waiting"
    BY <1>1, <1>t DEF Answer, Moved
  <2>2. WaitersListed'
    BY <2>1, <1>0, <1>1 DEF HandsInv, HandsParts, WaitersListed
  <2> QED BY <2>1, <2>2, <1>0, HandsKept
<1>2. CASE /\ Moved(r, "waiting") /\ entry' = entry \cup {ask[r].dev}
           /\ cbs' = [cbs EXCEPT ![ask[r].dev] = @ \cup {r}]
  <2>1. \A q \in Request : st'[q] # st[q] => q = r /\ st'[q] = "waiting"
    BY <1>2, <1>t DEF Moved
  <2>2. ask[r].dev \in Device
    BY <1>t
  <2>3. WaitersListed'
    BY <2>1, <2>2, <1>0, <1>2, <1>t DEF HandsInv, HandsParts, WaitersListed
  <2> QED BY <2>1, <2>3, <1>0, HandsKept
<1> QED BY <1>1, <1>2, Zenon
      DEF Serve, StartGetDeviceDhInfo, SyncRemoteDeviceInfoBySoftbus, Moved, requests

LEMMA HandsApply ==
    ASSUME HandsInv, NEW r \in Request, Apply(r)
    PROVE  HandsParts'
PROOF
<1>t. /\ st \in [Request -> Progress] /\ cleaner \in [Request -> Live \cup {"none", "exit"}]
      /\ batch \in [Request -> SUBSET Request] /\ pending \subseteq Request
  BY DEF HandsInv, AnswerInv, TypeOK, PendingTypeOK
<1>0. st[r] = "new" /\ UNCHANGED <<batch, ask, cbs, entry>>
  BY Zenon DEF Apply, GetDistributedHardware, QueuePendingRequest, Others, requests, threads, fixed
<1>1. PICK p \in {"refused", "pending", "lookup"} :
        /\ st' = [st EXCEPT ![r] = p]
        /\ p = "pending" => pending' = pending \cup {r}
        /\ p # "pending" => pending' = pending
        /\ cleaner' = cleaner \/ (p = "pending" /\ cleaner' = [cleaner EXCEPT ![r] = "check"])
  BY Zenon DEF Apply, GetDistributedHardware, QueuePendingRequest, queue, threads
<1>2. \A q \in Request : q # r => st'[q] = st[q] /\ cleaner'[q] = cleaner[q]
  BY <1>1, <1>t
<1>3. st'[r] \in {"refused", "pending", "lookup"}
  BY <1>1, <1>t
<1>4. PendingQueued'
  BY <1>1, <1>2, <1>t DEF HandsInv, HandsParts, PendingQueued
<1>5. InBatch'
  <2> SUFFICES ASSUME NEW q \in Request, st'[q] \in {"late", "ready"}
               PROVE  \E t \in Request : cleaner'[t] = "process" /\ q \in batch'[t]
    BY DEF InBatch
  <2>1. q # r /\ st[q] \in {"late", "ready"}
    BY <1>2, <1>3
  <2>2. PICK t \in Request : cleaner[t] = "process" /\ q \in batch[t]
    BY <2>1 DEF HandsInv, HandsParts, InBatch
  <2>3. t # r
    BY <2>2, <1>0 DEF HandsInv, HandsParts, CleanersAsked
  <2> QED BY <2>2, <2>3, <1>2, <1>0
<1>6. BatchTaken'
  BY <1>0, <1>2, <1>t DEF HandsInv, HandsParts, BatchTaken
<1>7. WaitersListed'
  BY <1>0, <1>2, <1>3 DEF HandsInv, HandsParts, WaitersListed
<1>8. CleanersAsked'
  BY <1>2, <1>3 DEF HandsInv, HandsParts, CleanersAsked
<1> QED BY <1>4, <1>5, <1>6, <1>7, <1>8 DEF HandsParts

LEMMA HandsCleanup ==
    ASSUME HandsInv, RequestsGoForward, NEW t \in Request, CleanupThread(t)
    PROVE  HandsParts'
PROOF
<1> USE DEF fixed, flags, queue, threads
<1>t. /\ st \in [Request -> Progress] /\ cleaner \in [Request -> Live \cup {"none", "exit"}]
      /\ batch \in [Request -> SUBSET Request] /\ pending \subseteq Request
  BY DEF HandsInv, AnswerInv, TypeOK, PendingTypeOK
<1>0. UNCHANGED <<cbs, ask, entry>>
  BY Zenon DEF CleanupThread, Cleanup, Others, requests, LoopCheck, Wake,
       CleanupExpiredRequests, ProcessEnds, AnswerLate, ServeReady
<1>h. HandsParts
  BY DEF HandsInv
\* A thread that has nothing to serve moves on.
<1>1. ASSUME SameRequests, UNCHANGED pending, NEW pc \in {"check", "sleep", "clean", "exit"},
             cleaner' = [cleaner EXCEPT ![t] = pc], cleaner[t] # "none",
             \/ cleaner[t] # "process" /\ batch' = batch
             \/ /\ \A r \in batch[t] : st[r] \in {"waiting", "answered"}
                /\ batch' = [batch EXCEPT ![t] = {}]
      PROVE  HandsParts'
  <2>1. PendingQueued'
    BY <1>1, <1>h DEF HandsParts, PendingQueued, SameRequests
  <2>2. InBatch'
    <3> SUFFICES ASSUME NEW q \in Request, st[q] \in {"late", "ready"}
                 PROVE  \E u \in Request : cleaner'[u] = "process" /\ q \in batch'[u]
      BY <1>1 DEF InBatch, SameRequests
    <3>1. PICK u \in Request : cleaner[u] = "process" /\ q \in batch[u]
      BY <1>h DEF HandsParts, InBatch
    <3>2. u # t
      BY <3>1, <1>1
    <3> QED BY <3>1, <3>2, <1>1, <1>t
  <2>3. BatchTaken'
    BY <1>1, <1>h, <1>t DEF HandsParts, BatchTaken, SameRequests
  <2>4. WaitersListed'
    BY <1>0, <1>1, <1>h DEF HandsParts, WaitersListed, SameRequests
  <2>5. CleanersAsked'
    BY <1>1, <1>h, <1>t DEF HandsParts, CleanersAsked, SameRequests
  <2> QED BY <2>1, <2>2, <2>3, <2>4, <2>5 DEF HandsParts
<1>2. CASE LoopCheck(t)
  <2>1. /\ cleaner[t] = "check" /\ SameRequests /\ UNCHANGED <<pending, batch>>
        /\ \E pc \in {"sleep", "exit"} : cleaner' = [cleaner EXCEPT ![t] = pc]
    BY <1>2, Zenon DEF LoopCheck, SameRequests
  <2> QED BY <2>1, <1>1
<1>3. CASE Wake(t)
  <2>1. /\ cleaner[t] = "sleep" /\ SameRequests /\ UNCHANGED <<pending, batch>>
        /\ \E pc \in {"clean", "exit"} : cleaner' = [cleaner EXCEPT ![t] = pc]
    BY <1>3, Zenon DEF Wake, SameRequests
  <2> QED BY <2>1, <1>1
<1>4. CASE ProcessEnds(t)
  <2>1. /\ cleaner[t] = "process" /\ SameRequests /\ UNCHANGED pending
        /\ cleaner' = [cleaner EXCEPT ![t] = "check"]
        /\ \A r \in batch[t] : st[r] \in {"waiting", "answered"}
        /\ batch' = [batch EXCEPT ![t] = {}]
    BY <1>4, Zenon DEF ProcessEnds, SameRequests
  <2> QED BY <2>1, <1>1
<1>5. CASE CleanupExpiredRequests(t) /\ pending = {}
  <2>1. /\ cleaner[t] = "clean" /\ SameRequests /\ UNCHANGED <<pending, batch>>
        /\ cleaner' = [cleaner EXCEPT ![t] = "check"]
    BY <1>5, Zenon DEF CleanupExpiredRequests, SameRequests
  <2> QED BY <2>1, <1>1
<1>6. CASE CleanupExpiredRequests(t) /\ pending # {}
  <2> DEFINE taken == CanServe \cup Expired
  <2>1. /\ taken \subseteq pending
        /\ batch' = [batch EXCEPT ![t] = taken]
        /\ cleaner' = [cleaner EXCEPT ![t] = "process"]
        /\ pending' = pending \ taken
        /\ \A r \in Request :
              /\ r \notin taken => st'[r] = st[r]
              /\ r \in taken => st[r] = "pending" /\ st'[r] \in {"late", "ready"}
    BY <1>6, TakenFromQueue DEF HandsInv, AnswerInv
  <2>2. cleaner[t] = "clean"
    BY <1>6, Zenon DEF CleanupExpiredRequests
  <2> HIDE DEF taken
  <2>3. PendingQueued'
    BY <2>1, <1>h DEF HandsParts, PendingQueued
  <2>4. InBatch'
    <3> SUFFICES ASSUME NEW q \in Request, st'[q] \in {"late", "ready"}
                 PROVE  \E u \in Request : cleaner'[u] = "process" /\ q \in batch'[u]
      BY DEF InBatch
    <3>1. CASE q \in taken
      BY <3>1, <2>1, <1>t
    <3>2. CASE q \notin taken
      <4>1. PICK u \in Request : cleaner[u] = "process" /\ q \in batch[u]
        BY <3>2, <2>1, <1>h DEF HandsParts, InBatch
      <4>2. u # t
        BY <4>1, <2>2
      <4> QED BY <4>1, <4>2, <2>1, <1>t
    <3> QED BY <3>1, <3>2
  <2>5. BatchTaken'
    <3> SUFFICES ASSUME NEW u \in Request, NEW q \in batch'[u]
                 PROVE  st'[q] \in {"late", "ready", "lookup", "sync", "waiting", "answered"}
      BY DEF BatchTaken
    <3>1. CASE u = t
      BY <3>1, <2>1, <1>t
    <3>2. CASE u # t
      <4>1. q \in batch[u] /\ q \in Request
        BY <3>2, <2>1, <1>t
      <4>2. st[q] \in {"late", "ready", "lookup", "sync", "waiting", "answered"}
        BY <4>1, <1>h DEF HandsParts, BatchTaken
      <4> QED BY <4>1, <4>2, <2>1
    <3> QED BY <3>1, <3>2
  <2>6. WaitersListed'
    BY <2>1, <1>0, <1>h DEF HandsParts, WaitersListed
  <2>7. CleanersAsked'
    BY <2>1, <2>2, <1>h, <1>t DEF HandsParts, CleanersAsked
  <2> QED BY <2>3, <2>4, <2>5, <2>6, <2>7 DEF HandsParts
<1>7. ASSUME NEW r \in batch[t], AnswerLate(t, r) \/ ServeReady(t, r) PROVE HandsParts'
  <2>1. /\ r \in Request /\ UNCHANGED <<pending, cleaner, batch>>
        /\ \E p \in {"answered", "lookup"} : st' = [st EXCEPT ![r] = p]
    BY <1>7, <1>t, Zenon DEF AnswerLate, ServeReady
  <2>2. \A q \in Request : st'[q] # st[q] => st'[q] \in {"answered", "lookup"}
    BY <2>1, <1>t
  <2>3. WaitersListed'
    BY <2>2, <1>0, <1>h DEF HandsParts, WaitersListed
  <2> QED BY <2>1, <2>2, <2>3, <1>0, HandsKept
<1> QED BY <1>2, <1>3, <1>4, <1>5, <1>6, <1>7, Zenon DEF CleanupThread, Cleanup

LEMMA HandsStep ==
    ASSUME HandsInv, RequestsGoForward, [Next]_vars
    PROVE  HandsParts'
PROOF
<1> USE DEF fixed, flags, queue, threads, requests
<1>1. ASSUME NEW r \in Request, Apply(r) PROVE HandsParts'
  BY <1>1, HandsApply
<1>2. ASSUME NEW t \in Request, CleanupThread(t) PROVE HandsParts'
  BY <1>2, HandsCleanup
<1>3. ASSUME NEW r \in Request, Serve(r) PROVE HandsParts'
  BY <1>3, HandsServe
<1>4. CASE CmThread
  <2>0. UNCHANGED <<pending, cleaner, batch, ask>>
    BY <1>4, CmEffect, Zenon
  <2>1. CASE HandleSyncDataTimeout
    <3>1. cm.dev \in Device
      BY <2>1 DEF HandleSyncDataTimeout, HandsInv, AnswerInv, TypeOK
    <3> QED BY <2>0, <2>1, <3>1, HandsEntry, Zenon DEF HandleSyncDataTimeout
  <2>2. CASE ~HandleSyncDataTimeout
    <3>1. UNCHANGED <<cbs, entry>>
      BY <1>4, <2>2, Zenon DEF CmThread, CmSends, TriggerFullCapsSync, CheckSession,
           BindSocket, SocketOpened, SendRequest, TimeoutTaskStarts
    <3> QED BY <1>4, <2>0, <2>2, <3>1, CmEffect, HandsSame
  <2> QED BY <2>1, <2>2
<1>5. CASE CtThread
  <2>0. UNCHANGED <<pending, cleaner, batch, ask>>
    BY <1>5, CtEffect, Zenon
  <2>1. CASE Answer(cbs[ct.dev]) /\ Erase(ct.dev) /\ OnGetDescriptors
    <3>1. ct.dev \in Device
      BY <2>1 DEF OnGetDescriptors, HandsInv, AnswerInv, TypeOK
    <3> QED BY <2>0, <2>1, <3>1, HandsEntry
  <2>2. CASE SameRequests /\ UNCHANGED <<cbs, entry>>
    BY <2>0, <2>2, HandsSame
  <2> QED BY <1>5, <2>1, <2>2, Zenon DEF CtThread, ProcessEvent, StopSocket,
        ClearDeviceSocketOpened, OnGetDescriptors, Descriptors, SameRequests
<1>6. ASSUME NEW d \in Device, OnDataSyncTrigger(d) PROVE HandsParts'
  <2>1. SameRequests /\ UNCHANGED <<pending, cleaner, batch, ask, cbs>>
    BY <1>6, Zenon DEF OnDataSyncTrigger, SameRequests
  <2>2. entry \subseteq entry'
    BY <1>6 DEF OnDataSyncTrigger
  <2> QED BY <2>1, <2>2, HandsSame
<1>7. ASSUME SameRequests, UNCHANGED <<pending, cleaner, batch, ask, cbs, entry>> PROVE HandsParts'
  BY <1>7, HandsSame
<1>8. ASSUME NEW d \in Device, NEW s \in Socket,
             PeerResponds(d, s) \/ PeerRequests(d, s) \/ PeerOpens(d, s)
      PROVE HandsParts'
  BY <1>7, <1>8, Zenon DEF PeerResponds, PeerRequests, PeerOpens, PeerActs, SameRequests
<1>9. ASSUME NEW s \in Socket, PeerCloses(s) \/ OnSocketClosed(s) PROVE HandsParts'
  BY <1>7, <1>9, Zenon DEF PeerCloses, OnSocketClosed, PeerActs, SameRequests
<1>10. CASE LocalInit \/ Initialize \/ Release \/ UNCHANGED vars
  BY <1>7, <1>10, Zenon DEF LocalInit, Initialize, Release, vars, SameRequests
<1>11. ASSUME NEW j \in late, LateThread(j) PROVE HandsParts'
  <2>1. TypeOK
    BY DEF HandsInv, AnswerInv
  <2>2. /\ j.dev \in Device /\ UNCHANGED <<pending, cleaner, batch, ask>>
        /\ \/ SameRequests /\ UNCHANGED <<cbs, entry>>
           \/ Answer(cbs[j.dev]) /\ Erase(j.dev)
    BY <1>11, <2>1, LateEffect, Zenon
  <2> QED BY <2>2, <1>7, HandsEntry
<1> QED BY <1>1, <1>2, <1>3, <1>4, <1>5, <1>6, <1>8, <1>9, <1>10, <1>11, Zenon DEF Next

LEMMA HandsAlways == Spec => []HandsInv
PROOF
<1>1. Init => HandsParts
  BY Zenon DEF Init, PendingInit, HandsParts, PendingQueued, InBatch, BatchTaken, WaitersListed,
       CleanersAsked
<1>2. Init => HandsInv
  BY <1>1, SyncTypeInit
     DEF Init, PendingInit, HandsInv, AnswerInv, CountsAnswers, CallbacksWait, QueuedArePending
<1>3. ASSUME HandsInv, [Next]_vars PROVE HandsInv'
  <2>1. AnswerInv'
    BY <1>3, AnswerStep, SyncTypeStep DEF HandsInv, AnswerInv, AnswerParts
  <2>2. RequestsGoForward
    BY <1>3, ForwardStep DEF HandsInv
  <2> QED BY <1>3, <2>1, <2>2, HandsStep DEF HandsInv
<1> QED BY <1>2, <1>3, PTL DEF Spec

\* A cleanup thread at work has a request to serve or to answer, or waits for one
\* that it serves, or is done.
GoesOn(t) ==
    \/ \E r \in batch[t] : st[r] = "late"
    \/ \E r \in batch[t] : st[r] \in {"lookup", "sync"}
    \/ \E r \in batch[t] : st[r] = "ready" /\ \A q \in batch[t] : st[q] \notin {"late", "lookup", "sync"}
    \/ \A r \in batch[t] : st[r] \in {"waiting", "answered"}

\* Who will see to a request that was accepted and is not served by a thread of
\* its own: a cleanup thread that lives, one that is at work and not stuck, or an
\* entry with a timer (or one of the untimed, listed, exceptions).
NobodyForgotten ==
    \A r \in Request :
        /\ st[r] = "pending" =>
              r \in pending /\ cleanupRunning /\ \E t \in Request : cleaner[t] \in Live
        /\ st[r] \in {"late", "ready"} =>
              \E t \in Request : cleaner[t] = "process" /\ r \in batch[t] /\ GoesOn(t)
        /\ st[r] = "waiting" =>
              LET d == ask[r].dev
              IN  /\ r \in cbs[d] /\ d \in entry
                  /\ d \in untimed \/ timers[d] > 0 \/ (cm.pc = "timeout" /\ cm.dev = d)

\* GetDistributedHardware forgets no request: a request that is pending, with a cleanup
\* thread or in syncDeviceInfoMap_ always has somebody who will serve or answer it.
THEOREM NoRequestForgotten == Spec => []NobodyForgotten
PROOF
<1>1. ASSUME HandsInv, QueueIsWatched, EntryHasTimer PROVE NobodyForgotten
  <2> SUFFICES ASSUME NEW r \in Request
      PROVE  /\ st[r] = "pending" =>
                  r \in pending /\ cleanupRunning /\ \E t \in Request : cleaner[t] \in Live
             /\ st[r] \in {"late", "ready"} =>
                  \E t \in Request : cleaner[t] = "process" /\ r \in batch[t] /\ GoesOn(t)
             /\ st[r] = "waiting" =>
                  /\ r \in cbs[ask[r].dev] /\ ask[r].dev \in entry
                  /\ \/ ask[r].dev \in untimed \/ timers[ask[r].dev] > 0
                     \/ cm.pc = "timeout" /\ cm.dev = ask[r].dev
    BY Zenon DEF NobodyForgotten
  <2>1. ASSUME st[r] = "pending"
        PROVE  r \in pending /\ cleanupRunning /\ \E t \in Request : cleaner[t] \in Live
    BY <1>1, <2>1, Zenon DEF HandsInv, HandsParts, PendingQueued, QueueIsWatched
  <2>2. ASSUME st[r] \in {"late", "ready"}
        PROVE  \E t \in Request : cleaner[t] = "process" /\ r \in batch[t] /\ GoesOn(t)
    <3>1. PICK t \in Request : cleaner[t] = "process" /\ r \in batch[t]
      BY <1>1, <2>2 DEF HandsInv, HandsParts, InBatch
    <3>2. \A q \in batch[t] : st[q] \in {"late", "ready", "lookup", "sync", "waiting", "answered"}
      BY <1>1 DEF HandsInv, HandsParts, BatchTaken
    <3>3. GoesOn(t)
      BY <3>1, <3>2, <2>2 DEF GoesOn
    <3> QED BY <3>1, <3>3
  <2>3. ASSUME st[r] = "waiting"
        PROVE  /\ r \in cbs[ask[r].dev] /\ ask[r].dev \in entry
               /\ \/ ask[r].dev \in untimed \/ timers[ask[r].dev] > 0
                  \/ cm.pc = "timeout" /\ cm.dev = ask[r].dev
    BY <1>1, <2>3 DEF HandsInv, HandsParts, WaitersListed, EntryHasTimer
  <2> QED BY <2>1, <2>2, <2>3
<1> QED BY <1>1, HandsAlways, QueueAlwaysWatched, SyncEntryHasTimer, PTL
=============================================================================

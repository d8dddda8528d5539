------------------------------- MODULE AvCenter -------------------------------
(***************************************************************************)
(* AVTransControlCenter: the engines that registered at it, the control    *)
(* channels it opens to their peers, and the channel events.               *)
(*                                                                         *)
(* InitializeAVCenter is called by IPC threads that run side by side; the  *)
(* other calls are one-way and run one after the other; channel events     *)
(* come on detached threads of the channel adapter.                        *)
(***************************************************************************)
EXTENDS Naturals, FiniteSets

CONSTANTS
    CenEngines,    \* engines of the client processes
    CenPeers,      \* peer devices
    CenMaxInits,   \* bound: calls of InitializeAVCenter
    CenMaxOpened,  \* bound: entries of a peer in connectedDevIds_
    CenMaxEvents   \* bound: opened events under way

ASSUME CenBounds == "none" \notin CenPeers /\ CenMaxInits \in Nat

CenSessions == {"sender", "receiver"}   \* AV_SYNC_SENDER_ / AV_SYNC_RECEIVER_CONTROL_SESSION_NAME

VARIABLES
    cenRoot,        \* rootEngineId_
    cenInited,      \* initialized_
    cenId,          \* the engine id each engine was given, 0 for none
    cenBumping,     \* calls of InitializeAVCenter between the load and the increment
    cenCallbacks,   \* ids in callbackMap_
    cenDev,         \* engine2DevIdMap_: a function on ids, "none" for no entry
    cenConnected,   \* connectedDevIds_, as the number of entries of each peer: their order is never looked at
    cenSession,     \* sessionName_
    cenListens,     \* the session names this center listens on
    cenSockets,     \* open control channels: session name and peer
    cenEvents,      \* opened events under way
    cenClosing,     \* the peer whose channel ReleaseAVCenter is about to close, or "none"
    cenPeer,        \* history: the peer each engine was first told it has a channel to
    cenShared,      \* history: engines whose id another engine held at the same time
    cenLeft         \* history: peers that closed a channel of theirs

cenVars == <<cenRoot, cenInited, cenId, cenBumping, cenCallbacks, cenDev, cenConnected, cenSession, cenListens, cenSockets,
             cenEvents, cenClosing, cenPeer, cenShared, cenLeft>>
cenHistory == <<cenPeer, cenShared, cenLeft>>

CenIds == 1..CenMaxInits

CenInit ==
    /\ cenRoot = 1 /\ cenInited = FALSE
    /\ cenId = [e \in CenEngines |-> 0] /\ cenBumping = 0
    /\ cenCallbacks = {} /\ cenDev = [i \in CenIds |-> "none"]
    /\ cenConnected = [d \in CenPeers |-> 0] /\ cenSession = "none" /\ cenListens = {}
    /\ cenSockets = {} /\ cenEvents = {} /\ cenClosing = "none"
    /\ cenPeer = [e \in CenEngines |-> "none"] /\ cenShared = {} /\ cenLeft = {}

\* the first call makes the session server and listens on it; the id is read here and counted up in a later step
InitializeLoads(e) ==
    /\ cenId[e] = 0 /\ cenRoot + cenBumping <= CenMaxInits
    /\ cenInited' = TRUE
    /\ cenListens' = IF cenInited THEN cenListens ELSE cenListens \cup {"receiver"}
    /\ cenId' = [cenId EXCEPT ![e] = cenRoot]
    /\ cenBumping' = cenBumping + 1
    /\ LET same == {f \in CenEngines : cenId[f] = cenRoot} IN
         cenShared' = IF same = {} THEN cenShared ELSE cenShared \cup same \cup {e}
    /\ UNCHANGED <<cenRoot, cenCallbacks, cenDev, cenConnected, cenSession, cenSockets, cenEvents, cenClosing, cenPeer,
                   cenLeft>>

InitializeCounts ==
    /\ cenBumping > 0
    /\ cenBumping' = cenBumping - 1 /\ cenRoot' = cenRoot + 1
    /\ UNCHANGED <<cenInited, cenId, cenCallbacks, cenDev, cenConnected, cenSession, cenListens, cenSockets, cenEvents,
                   cenClosing, cenHistory>>

RegisterCtlCenterCallback(e) ==
    /\ cenId[e] # 0
    /\ cenCallbacks' = cenCallbacks \cup {cenId[e]}
    /\ UNCHANGED <<cenRoot, cenInited, cenId, cenBumping, cenDev, cenConnected, cenSession, cenListens, cenSockets, cenEvents,
                   cenClosing, cenHistory>>

EventsBounded == Cardinality(cenEvents) < CenMaxEvents

\* insert keeps an entry that is there
Insert(id, d) == [cenDev EXCEPT ![id] = IF @ = "none" THEN d ELSE @]

FirstPeer(e, d) == [cenPeer EXCEPT ![e] = IF @ = "none" THEN d ELSE @]

\* a channel that is open already is fine; one that cannot be opened ends the call
CenCreateControlChannel(e, d) ==
    /\ cenId[e] # 0 /\ cenClosing = "none"
    /\ \/ /\ cenConnected[d] > 0
          /\ cenDev' = Insert(cenId[e], d) /\ cenPeer' = FirstPeer(e, d)
          /\ UNCHANGED <<cenListens, cenSockets, cenEvents>>
       \/ /\ cenConnected[d] = 0
          /\ cenListens' = cenListens \cup {"sender"}
          /\ \/ /\ cenDev' = Insert(cenId[e], d) /\ cenPeer' = FirstPeer(e, d)
                /\ cenSockets' = cenSockets \cup {<<"sender", d>>}
                /\ cenEvents' = IF <<"sender", d>> \in cenSockets THEN cenEvents ELSE cenEvents \cup {<<"sender", d>>}
                /\ <<"sender", d>> \in cenSockets \/ EventsBounded
             \/ /\ <<"sender", d>> \notin cenSockets
                /\ UNCHANGED <<cenDev, cenPeer, cenSockets, cenEvents>>
    /\ UNCHANGED <<cenRoot, cenInited, cenId, cenBumping, cenCallbacks, cenConnected, cenSession, cenClosing, cenShared,
                   cenLeft>>

\* Faulty variant for mutation testing: the engines that still use the peer are not looked for.
StillUsedNever(dev, d) == FALSE

StillUsed(dev, d) == \E i \in CenIds : dev[i] = d

\* the last engine of a connected peer goes on to close its channel
ReleaseAVCenter(e) ==
    /\ cenId[e] # 0 /\ cenClosing = "none"
    /\ LET d == cenDev[cenId[e]]
           dev == [cenDev EXCEPT ![cenId[e]] = "none"]
           closes == d # "none" /\ ~StillUsed(dev, d) /\ cenConnected[d] > 0 IN
         /\ cenDev' = dev
         /\ cenConnected' = IF closes THEN [cenConnected EXCEPT ![d] = @ - 1] ELSE cenConnected
         /\ cenClosing' = IF closes THEN d ELSE "none"
    /\ cenCallbacks' = cenCallbacks \ {cenId[e]}
    /\ cenId' = [cenId EXCEPT ![e] = 0] /\ cenPeer' = [cenPeer EXCEPT ![e] = "none"] /\ cenShared' = cenShared \ {e}
    /\ UNCHANGED <<cenRoot, cenInited, cenBumping, cenSession, cenListens, cenSockets, cenEvents, cenLeft>>

\* the channel under the session name of the last opened event is closed, and nobody listens any more
ReleaseCloses ==
    /\ cenClosing # "none"
    /\ cenSockets' = cenSockets \ {<<cenSession, cenClosing>>}
    /\ cenListens' = {} /\ cenClosing' = "none"
    /\ UNCHANGED <<cenRoot, cenInited, cenId, cenBumping, cenCallbacks, cenDev, cenConnected, cenSession, cenEvents, cenHistory>>

\* the adapter delivers to a listener of the session name; time synchronisation starts for a receiver
HandleChannelEvent(s, d) ==
    /\ <<s, d>> \in cenEvents
    /\ cenEvents' = cenEvents \ {<<s, d>>}
    /\ \/ /\ s \in cenListens /\ cenConnected[d] < CenMaxOpened
          /\ cenSession' = s
          /\ cenConnected' = [cenConnected EXCEPT ![d] = @ + 1]
       \/ /\ s \notin cenListens
          /\ UNCHANGED <<cenSession, cenConnected>>
    /\ UNCHANGED <<cenRoot, cenInited, cenId, cenBumping, cenCallbacks, cenDev, cenListens, cenSockets, cenClosing, cenHistory>>

\* a peer opens a control channel to this device
PeerOpens(d) ==
    /\ "receiver" \in cenListens /\ <<"receiver", d>> \notin cenSockets /\ EventsBounded
    /\ cenSockets' = cenSockets \cup {<<"receiver", d>>}
    /\ cenEvents' = cenEvents \cup {<<"receiver", d>>}
    /\ UNCHANGED <<cenRoot, cenInited, cenId, cenBumping, cenCallbacks, cenDev, cenConnected, cenSession, cenListens,
                   cenClosing, cenHistory>>

\* the adapter forgets the socket; the closed event is only logged
PeerCloses(s, d) ==
    /\ <<s, d>> \in cenSockets
    /\ cenSockets' = cenSockets \ {<<s, d>>} /\ cenLeft' = cenLeft \cup {d}
    /\ UNCHANGED <<cenRoot, cenInited, cenId, cenBumping, cenCallbacks, cenDev, cenConnected, cenSession, cenListens, cenEvents,
                   cenClosing, cenPeer, cenShared>>

CenNext ==
    \/ \E e \in CenEngines : InitializeLoads(e) \/ RegisterCtlCenterCallback(e) \/ ReleaseAVCenter(e)
    \/ InitializeCounts \/ ReleaseCloses
    \/ \E e \in CenEngines, d \in CenPeers : CenCreateControlChannel(e, d)
    \/ \E s \in CenSessions, d \in CenPeers : HandleChannelEvent(s, d) \/ PeerCloses(s, d)
    \/ \E d \in CenPeers : PeerOpens(d)

CenSpec == CenInit /\ [][CenNext]_cenVars

-----------------------------------------------------------------------------
(* An engine that alone holds its id keeps the peer it was told it has a   *)
(* channel to, while ids are handed out twice to others, events come late  *)
(* and releases close channels under the name of whatever session opened   *)
(* last: its id stays mapped to that peer, no release of another engine    *)
(* goes on to close the peer's channel, and a channel to the peer is open  *)
(* unless the peer has closed one.                                         *)
CenEngineKeepsPeer ==
    \A e \in CenEngines \ cenShared : cenPeer[e] # "none" =>
        /\ cenDev[cenId[e]] = cenPeer[e]
        /\ cenClosing # cenPeer[e]
        /\ cenPeer[e] \in cenLeft \/ \E s \in CenSessions : <<s, cenPeer[e]>> \in cenSockets
=============================================================================

------------------------------ MODULE AvChannel ------------------------------
(***************************************************************************)
(* SoftbusChannelAdapter (av_transport/common): session servers, the table *)
(* from "session name and device" keys to softbus sockets, the listeners   *)
(* of the keys, and the threads that carry received data to them.          *)
(*                                                                         *)
(* A key is a pair of a session name and a device; engines that serve any  *)
(* device listen with the special device id.  serverMap_ and the table     *)
(* have locks of their own, so opening and closing a channel take several  *)
(* steps, between which softbus reports opened and closed sockets.  A      *)
(* socket that Bind opened is reported to the peer's side only; a socket   *)
(* this side shuts down is not reported to it either.                      *)
(***************************************************************************)
EXTENDS Naturals, FiniteSets, FiniteSetsExt

CONSTANTS
    ChNames,        \* session names
    ChDevices,      \* network ids of peers
    ChSockets,      \* bound: the sockets softbus may create
    ChMaxInflight,  \* DSOFTBUS_MAX_INFLIGHT_EVENT_THREADS
    ChMaxSyncing    \* bound: keys in timeSyncSessNames_

SpecialDevice == "special"
NoSocket == "no socket"
ChKeys == ChNames \X (ChDevices \cup {SpecialDevice})
DeviceKeys == ChNames \X ChDevices

ASSUME ChBounds ==
    /\ ChMaxInflight \in Nat \ {0} /\ IsFiniteSet(ChSockets) /\ ChNames # {} /\ ChDevices # {}
    /\ NoSocket \notin ChSockets

VARIABLES
    chServers,    \* keys of serverMap_, the package names left out
    chIds,        \* devId2SessIdMap_
    chListening,  \* keys of listenerMap_ with a listener
    chSyncing,    \* timeSyncSessNames_
    chSocket,     \* softbus: a socket is new, open, shut (by this side) or closed (reported to it)
    chOpening,    \* a thread in OpenSoftbusChannel after Bind: key -> socket
    chClosing,    \* a thread in CloseSoftbusChannel after Shutdown: keys
    chAccepting,  \* threads in OnSoftbusChannelOpened that wait for the authorization: name, device, socket
    chInflight,   \* inflightEventThreadCnt_
    chLate        \* history: sockets closed while a thread that stores them had not done so yet

chVars == <<chServers, chIds, chListening, chSyncing, chSocket, chOpening, chClosing, chAccepting,
            chInflight, chLate>>

ChInit ==
    /\ chServers = {} /\ chListening = {} /\ chSyncing = {} /\ chClosing = {} /\ chLate = {} /\ chAccepting = {}
    /\ chIds = [k \in ChKeys |-> NoSocket]
    /\ chSocket = [s \in ChSockets |-> "new"]
    /\ chOpening = [k \in ChKeys |-> NoSocket]
    /\ chInflight = 0

\* keys that listenerMap_ has a listener for, among those of a session name
ListenersOf(n) == {k \in chListening : k[1] = n}
KeysOf(s) == {k \in ChKeys : chIds[k] = s}

\* Shutdown of a table value, which may name no socket
Shut(s) == IF s \in ChSockets /\ chSocket[s] = "open" THEN [chSocket EXCEPT ![s] = "shut"] ELSE chSocket

-----------------------------------------------------------------------------
(* Session servers.                                                        *)

\* an existing server is success; Socket and Listen may fail
CreateChannelServer(n) ==
    /\ n \notin chServers
    /\ chServers' = chServers \cup {n}
    /\ UNCHANGED <<chIds, chListening, chSyncing, chSocket, chOpening, chClosing, chAccepting, chInflight, chLate>>

\* the first table entry of the name goes with the server, the other entries stay
RemoveChannelServer(n) ==
    /\ chServers' = chServers \ {n}
    /\ LET held == {k \in ChKeys : k[1] = n /\ chIds[k] # NoSocket} IN
         \/ /\ held = {}
            /\ UNCHANGED <<chIds, chSocket>>
         \/ \E k \in held : /\ chIds' = [chIds EXCEPT ![k] = NoSocket]
                            /\ chSocket' = Shut(chIds[k])
    /\ UNCHANGED <<chListening, chSyncing, chOpening, chClosing, chAccepting, chInflight, chLate>>

-----------------------------------------------------------------------------
(* OpenSoftbusChannel: the table is read, Socket and Bind follow outside   *)
(* the lock, and the socket is stored last.                                *)

\* Bind fails: the socket is given up and never shut down
OpenFails(k, s) ==
    /\ chIds[k] = NoSocket /\ chOpening[k] = NoSocket
    /\ chSocket[s] = "new"
    /\ chSocket' = [chSocket EXCEPT ![s] = "shut"]
    /\ UNCHANGED <<chServers, chIds, chListening, chSyncing, chOpening, chClosing, chAccepting, chInflight, chLate>>

OpenBinds(k, s) ==
    /\ chIds[k] = NoSocket /\ chOpening[k] = NoSocket
    /\ chSocket[s] = "new"
    /\ chSocket' = [chSocket EXCEPT ![s] = "open"]
    /\ chOpening' = [chOpening EXCEPT ![k] = s]
    /\ UNCHANGED <<chServers, chIds, chListening, chSyncing, chClosing, chAccepting, chInflight, chLate>>

\* insert keeps an entry that is there by now
OpenStores(k) ==
    /\ chOpening[k] # NoSocket
    /\ chIds' = [chIds EXCEPT ![k] = IF @ = NoSocket THEN chOpening[k] ELSE @]
    /\ chOpening' = [chOpening EXCEPT ![k] = NoSocket]
    /\ UNCHANGED <<chServers, chListening, chSyncing, chSocket, chClosing, chAccepting, chInflight, chLate>>

(* CloseSoftbusChannel: Shutdown of the socket read, then the entry of the *)
(* key is erased, whatever it holds by then.                               *)
CloseShuts(k) ==
    /\ k \notin chClosing
    /\ chSocket' = Shut(chIds[k])
    /\ chClosing' = chClosing \cup {k}
    /\ UNCHANGED <<chServers, chIds, chListening, chSyncing, chOpening, chAccepting, chInflight, chLate>>

CloseErases(k) ==
    /\ k \in chClosing
    /\ chIds' = [chIds EXCEPT ![k] = NoSocket]
    /\ chClosing' = chClosing \ {k}
    /\ UNCHANGED <<chServers, chListening, chSyncing, chSocket, chOpening, chAccepting, chInflight, chLate>>

-----------------------------------------------------------------------------
(* Listeners and time synchronisation.                                     *)

RegisterChannelListener(k) ==
    /\ chListening' = chListening \cup {k}
    /\ UNCHANGED <<chServers, chIds, chSyncing, chSocket, chOpening, chClosing, chAccepting, chInflight, chLate>>

UnRegisterChannelListener(k) ==
    /\ chListening' = chListening \ {k}
    /\ UNCHANGED <<chServers, chIds, chSyncing, chSocket, chOpening, chClosing, chAccepting, chInflight, chLate>>

\* StartTimeSync of softbus succeeds; on failure nothing changes
StartDeviceTimeSync(k) ==
    /\ Cardinality(chSyncing) < ChMaxSyncing
    /\ chSyncing' = chSyncing \cup {k}
    /\ UNCHANGED <<chServers, chIds, chListening, chSocket, chOpening, chClosing, chAccepting, chInflight, chLate>>

StopDeviceTimeSync(k) ==
    /\ chSyncing' = chSyncing \ {k}
    /\ UNCHANGED <<chServers, chIds, chListening, chSocket, chOpening, chClosing, chAccepting, chInflight, chLate>>

-----------------------------------------------------------------------------
(* Callbacks of softbus.  The table is changed under idMapMutex_.          *)

\* a peer's Bind reaches OnSoftbusChannelOpened, which finds its server and waits
\* for the authorization without a lock
PeerBinds(n, d, s) ==
    /\ n \in chServers
    /\ chSocket[s] = "new"
    /\ chSocket' = [chSocket EXCEPT ![s] = "open"]
    /\ chAccepting' = chAccepting \cup {<<n, d, s>>}
    /\ UNCHANGED <<chServers, chIds, chListening, chSyncing, chOpening, chClosing, chInflight, chLate>>

\* Then, whatever became of the socket and the server, every listening key of the
\* session name takes the socket, and the key of the device if it has none.
OnSoftbusChannelOpened(n, d, s) ==
    /\ <<n, d, s>> \in chAccepting
    /\ chAccepting' = chAccepting \ {<<n, d, s>>}
    /\ chIds' = [k \in ChKeys |-> IF k \in ListenersOf(n) \/ (k = <<n, d>> /\ chIds[k] = NoSocket) THEN s ELSE chIds[k]]
    /\ UNCHANGED <<chServers, chListening, chSyncing, chSocket, chOpening, chClosing, chInflight, chLate>>

\* a thread has the socket in hand and has not stored it yet
Unstored(s) == (\E k \in ChKeys : chOpening[k] = s) \/ (\E a \in chAccepting : a[3] = s)

\* Faulty variant for mutation testing: the search ends at the first entry of the socket.
ClosedErasesOne(s) ==
    /\ chSocket[s] = "open"
    /\ chSocket' = [chSocket EXCEPT ![s] = "closed"]
    /\ \/ KeysOf(s) = {} /\ UNCHANGED chIds
       \/ \E k \in KeysOf(s) : chIds' = [chIds EXCEPT ![k] = NoSocket]
    /\ chLate' = chLate \cup {t \in {s} : Unstored(t)}
    /\ UNCHANGED <<chServers, chListening, chSyncing, chOpening, chClosing, chAccepting, chInflight>>

\* every entry of the socket goes, each with an event to its listener
OnSoftbusChannelClosed(s) ==
    /\ chSocket[s] = "open"
    /\ chSocket' = [chSocket EXCEPT ![s] = "closed"]
    /\ chIds' = [k \in ChKeys |-> IF chIds[k] = s THEN NoSocket ELSE chIds[k]]
    /\ chLate' = chLate \cup {t \in {s} : Unstored(t)}
    /\ UNCHANGED <<chServers, chListening, chSyncing, chOpening, chClosing, chAccepting, chInflight>>

\* one thread for every entry of the socket, as long as the limit is not reached
OnSoftbusBytesReceived(s) ==
    /\ chSocket[s] = "open"
    /\ chInflight' = Min({chInflight + Cardinality(KeysOf(s)), ChMaxInflight})
    /\ UNCHANGED <<chServers, chIds, chListening, chSyncing, chSocket, chOpening, chClosing, chAccepting, chLate>>

\* SendChannelEvent returns, with or without a listener; then the count goes down
DataThreadEnds ==
    /\ chInflight > 0
    /\ chInflight' = chInflight - 1
    /\ UNCHANGED <<chServers, chIds, chListening, chSyncing, chSocket, chOpening, chClosing, chAccepting, chLate>>

ChNext ==
    \/ \E n \in ChNames : CreateChannelServer(n) \/ RemoveChannelServer(n)
    \/ \E k \in DeviceKeys, s \in ChSockets : OpenFails(k, s) \/ OpenBinds(k, s)
    \/ \E k \in DeviceKeys : OpenStores(k) \/ CloseShuts(k) \/ CloseErases(k)
    \/ \E k \in ChKeys : RegisterChannelListener(k) \/ UnRegisterChannelListener(k)
    \/ \E k \in DeviceKeys : StartDeviceTimeSync(k) \/ StopDeviceTimeSync(k)
    \/ \E n \in ChNames, d \in ChDevices, s \in ChSockets :
         PeerBinds(n, d, s) \/ OnSoftbusChannelOpened(n, d, s)
    \/ \E s \in ChSockets : OnSoftbusChannelClosed(s) \/ OnSoftbusBytesReceived(s)
    \/ DataThreadEnds

ChSpec == ChInit /\ [][ChNext]_chVars

-----------------------------------------------------------------------------
(* A socket that softbus reported closed is in no entry of the table, so   *)
(* no later send uses it and OpenSoftbusChannel opens a new one instead of *)
(* answering that it has one.  The exception is a socket that was closed   *)
(* while the thread that stores it had not done so: between its Bind and   *)
(* the insert of OpenSoftbusChannel, or while OnSoftbusChannelOpened       *)
(* waited for the authorization.                                           *)
ChClosedIsForgotten ==
    \A s \in ChSockets : chSocket[s] = "closed" /\ KeysOf(s) # {} => s \in chLate

=============================================================================

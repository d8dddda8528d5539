-------------------------------- MODULE AvSync --------------------------------
(***************************************************************************)
(* AVSyncManager: the streams that the sending engines reported, the       *)
(* START_AV_SYNC and STOP_AV_SYNC messages that follow from them, and the  *)
(* receiving side that applies the messages.                               *)
(*                                                                         *)
(* NotifyAVCenter is a one-way call, so streams are added and removed one  *)
(* after the other.  Every message that reaches a peer runs on a thread of *)
(* its own: messages of one peer may be applied in any order.              *)
(***************************************************************************)
EXTENDS Naturals, FiniteSets

CONSTANTS
    SyncPeers,        \* peer devices
    SyncMaxStreams,   \* bound: entries of streamInfoList_
    SyncMaxInFlight   \* bound: messages under way to one peer

ASSUME SyncAssumption == IsFiniteSet(SyncPeers)

SyncScenes == {"mic", "speaker", "screen", "camera"}
SyncStreamCount == 2    \* AV_SYNC_STREAM_COUNT

VARIABLES
    syncStreams,   \* streamInfoList_: how many entries each stream has
    syncSource,    \* sourceMemory_ is open
    syncTold,      \* the last message sent to each peer
    syncOrphans,   \* peers whose last stream went while they were told to start
    syncFlight,    \* messages under way, by peer
    syncSink       \* the peers where the receiving side synchronises

syncVars == <<syncStreams, syncSource, syncTold, syncOrphans, syncFlight, syncSink>>

Streams == SyncScenes \X SyncPeers
SyncMessages == {"START", "STOP"}

SyncInit ==
    /\ syncStreams = [s \in Streams |-> 0]
    /\ syncSource = FALSE /\ syncTold = [d \in SyncPeers |-> "none"]
    /\ syncOrphans = {}
    /\ syncFlight = [d \in SyncPeers |-> [k \in SyncMessages |-> 0]] /\ syncSink = {}

\* The entries of the list, those of one stream numbered, and how many there are.
Entries(streams) == UNION {{s} \X (1..streams[s]) : s \in Streams}
Size(streams) == Cardinality(Entries(streams))
PeersOf(streams) == {s[2] : s \in {x \in Streams : streams[x] > 0}}
ScenesOf(streams) == {s[1] : s \in {x \in Streams : streams[x] > 0}}

\* microphone and speaker are a conflict; screen with speaker, or camera with microphone, make a group
MergeGroupInfo(streams) ==
    LET scenes == ScenesOf(streams) IN
      /\ Cardinality(scenes) >= SyncStreamCount
      /\ ~({"mic", "speaker"} \subseteq scenes)
      /\ {"screen", "speaker"} \subseteq scenes \/ {"camera", "mic"} \subseteq scenes

\* SendMessage to the peer of every stream in the list; one may be lost on the way
Tell(peers, kind) ==
    /\ syncTold' = [d \in SyncPeers |-> IF d \in peers THEN kind ELSE syncTold[d]]
    /\ \E arriving \in SUBSET {d \in peers : syncFlight[d][kind] < SyncMaxInFlight} :
         syncFlight' = [d \in SyncPeers |-> IF d \in arriving THEN [syncFlight[d] EXCEPT ![kind] = @ + 1] ELSE syncFlight[d]]

TellNobody == UNCHANGED <<syncTold, syncFlight>>

EnableSenderAVSync(streams) ==
    IF MergeGroupInfo(streams)
    THEN Tell(PeersOf(streams), "START") /\ syncSource' \in BOOLEAN   \* the memory may not be created
    ELSE TellNobody /\ UNCHANGED syncSource

\* Faulty variant for mutation testing: the memory is closed, the remaining peers are not told.
DisableSilently(streams) ==
    /\ TellNobody
    /\ syncSource' = (syncSource /\ Size(streams) >= SyncStreamCount)

DisableSenderAVSync(streams) ==
    IF Size(streams) >= SyncStreamCount
    THEN TellNobody /\ UNCHANGED syncSource
    ELSE Tell(PeersOf(streams), "STOP") /\ syncSource' = FALSE

\* the same stream may be added again
AddStreamInfo(s) ==
    /\ Size(syncStreams) < SyncMaxStreams
    /\ LET streams == [syncStreams EXCEPT ![s] = @ + 1] IN
         /\ syncStreams' = streams
         /\ IF Size(streams) < SyncStreamCount
            THEN TellNobody /\ UNCHANGED syncSource
            ELSE EnableSenderAVSync(streams)
    /\ syncOrphans' = {d \in syncOrphans : syncTold'[d] = "START"}
    /\ UNCHANGED syncSink

\* every entry of the stream goes
RemoveStreamInfo(s) ==
    /\ LET streams == [syncStreams EXCEPT ![s] = 0] IN
         /\ syncStreams' = streams
         /\ DisableSenderAVSync(streams)
    /\ syncOrphans' = {d \in SyncPeers : syncTold'[d] = "START" /\ (d \in syncOrphans \/ d \notin PeersOf(syncStreams'))}
    /\ UNCHANGED syncSink

\* HandleAvSyncMessage at the peer: the memory is made anew or closed, the engines are told
HandleAvSyncMessage(d, kind) ==
    /\ syncFlight[d][kind] > 0
    /\ syncFlight' = [syncFlight EXCEPT ![d][kind] = @ - 1]
    /\ syncSink' = IF kind = "START" THEN syncSink \cup {d} ELSE syncSink \ {d}
    /\ UNCHANGED <<syncStreams, syncSource, syncTold, syncOrphans>>

SyncNext ==
    \/ \E s \in Streams : AddStreamInfo(s) \/ RemoveStreamInfo(s)
    \/ \E d \in SyncPeers, k \in SyncMessages : HandleAvSyncMessage(d, k)

SyncSpec == SyncInit /\ [][SyncNext]_syncVars

-----------------------------------------------------------------------------
(* With fewer than two streams nothing is synchronised, whatever was added *)
(* twice and removed at once: the source memory is closed, and no peer     *)
(* that still has a stream is left with START_AV_SYNC as its last message, *)
(* unless it got that one for a stream that was gone when the others were  *)
(* told to stop.                                                           *)
SyncStopsBelowTwo ==
    Size(syncStreams) < SyncStreamCount =>
        /\ ~syncSource
        /\ \A d \in PeersOf(syncStreams) \ syncOrphans : syncTold[d] # "START"
=============================================================================

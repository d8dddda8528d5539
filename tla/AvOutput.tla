------------------------------- MODULE AvOutput -------------------------------
(***************************************************************************)
(* OutputController and the screen output plugin that owns it: frames are  *)
(* pushed into a queue, a control thread takes the front, waits for its    *)
(* time and posts it, a handler thread calls the plugin's data callback.   *)
(*                                                                         *)
(* How long a frame waits (clock, baseline, statistics) is abstracted to a *)
(* step that may come late; what the waiting decides - direct output, a    *)
(* sleep, another reading of the clock, the balance that empties the queue *)
(* - is kept.                                                              *)
(*                                                                         *)
(* PushData and the control thread hold queueMutex_ while they work on the *)
(* queue; StopControl and ReleaseControl swap it for an empty one without. *)
(* A swap may land between any two steps of the other threads.  front and  *)
(* pop of the new queue, which has no blocks, reach through a null pointer *)
(* and end the process, and so may a swap that hits another thread inside  *)
(* the queue: such a behaviour ends in the plugin state "dead".            *)
(***************************************************************************)
EXTENDS Naturals, Sequences, FiniteSets, SequencesExt

CONSTANTS
    OcQueueMax,    \* QUEUE_MAX_SIZE
    OcMaxFrames    \* bound: frames pushed

ASSUME OcBounds == OcQueueMax \in Nat /\ OcMaxFrames \in Nat

VARIABLES
    ocPlugin,     \* the plugin: none, INITIALIZED, PREPARED, RUNNING, stopping, resetting, dead
    ocStatus,     \* status_
    ocMode,       \* mode_
    ocBalance,    \* isInDynamicBalance_
    ocQueue,      \* dataQueue_: frames, numbered as they are pushed
    ocFrames,     \* frames pushed so far
    ocPush,       \* the thread in PushData: idle, past the status test, or in the queue with its size read (full, room)
    ocControl,    \* the control thread: none, idle, testing, blocked, front, control, reread, sleep, post, pop, popping
    ocData,       \* the frame the control thread works on
    ocPosted,     \* tasks of the handler thread
    ocHandler,    \* the handler thread runs
    ocCallback,   \* dataCb_ is set
    ocListener,   \* listener_ is set
    ocOut,        \* frames handed to the data callback
    ocDropped     \* frames dropped on purpose

ocVars == <<ocPlugin, ocStatus, ocMode, ocBalance, ocQueue, ocFrames, ocPush, ocControl, ocData, ocPosted, ocHandler,
            ocCallback, ocListener, ocOut, ocDropped>>
ocOwner == <<ocPlugin, ocStatus, ocCallback, ocListener, ocHandler>>
ocFlow == <<ocControl, ocData, ocPosted, ocOut>>

OcInit ==
    /\ ocPlugin = "none" /\ ocStatus = "RELEASE" /\ ocMode = "SMOOTH" /\ ocBalance = TRUE
    /\ ocQueue = <<>> /\ ocFrames = 0 /\ ocPush = "idle"
    /\ ocControl = "none" /\ ocData = 0 /\ ocPosted = <<>> /\ ocHandler = FALSE
    /\ ocCallback = FALSE /\ ocListener = FALSE /\ ocOut = <<>> /\ ocDropped = {}

\* who holds queueMutex_, and who is about to touch what it guards
PushLocked == ocPush \in {"full", "room"}
ControlLocked == ocControl \in {"testing", "front", "popping"}
SomebodyInQueue == PushLocked \/ ocControl \in {"front", "pop", "popping"}

Gone(frames) == ocDropped \cup Range(frames)

-----------------------------------------------------------------------------
(* The owner of the plugin.                                                *)

OcPluginInit ==
    /\ ocPlugin = "none"
    /\ ocPlugin' = "INITIALIZED" /\ ocMode' = "SMOOTH" /\ ocBalance' = TRUE
    /\ ocCallback' = TRUE /\ ocListener' = TRUE
    /\ UNCHANGED <<ocStatus, ocQueue, ocFrames, ocPush, ocHandler, ocDropped, ocFlow>>

\* PrepareSmooth / PrepareSync
Balanced(mode) == mode = "SYNC"

OcPrepare ==
    /\ ocPlugin = "INITIALIZED"
    /\ ocPlugin' = "PREPARED" /\ ocBalance' = Balanced(ocMode)
    /\ UNCHANGED <<ocStatus, ocMode, ocQueue, ocFrames, ocPush, ocHandler, ocCallback, ocListener, ocDropped, ocFlow>>

\* StartControl: both threads are made once; a thread that waits for frames is not woken
OcStart ==
    /\ ocPlugin = "PREPARED"
    /\ ocPlugin' = "RUNNING" /\ ocStatus' = "START" /\ ocHandler' = TRUE
    /\ ocControl' = IF ocControl = "none" THEN "idle" ELSE ocControl
    /\ UNCHANGED <<ocMode, ocBalance, ocQueue, ocFrames, ocPush, ocData, ocPosted, ocCallback, ocListener, ocOut, ocDropped>>

\* StopControl stores the status and then swaps the queue for an empty one, without queueMutex_
StopStores ==
    /\ ocPlugin = "RUNNING"
    /\ ocPlugin' = "stopping" /\ ocStatus' = "STOP"
    /\ UNCHANGED <<ocMode, ocBalance, ocQueue, ocFrames, ocPush, ocHandler, ocCallback, ocListener, ocDropped, ocFlow>>

StopClears ==
    /\ ocPlugin = "stopping"
    /\ ocPlugin' \in {"PREPARED"} \cup (IF SomebodyInQueue THEN {"dead"} ELSE {})
    /\ ocDropped' = Gone(ocQueue) /\ ocQueue' = <<>>
    /\ UNCHANGED <<ocStatus, ocMode, ocBalance, ocFrames, ocPush, ocHandler, ocCallback, ocListener, ocFlow>>

\* Reset: the data callback goes first, then ReleaseControl; the handler thread is joined, then the control thread.
\* A controller that was never started answers that it is released.
ResetBegins ==
    /\ ocPlugin \in {"INITIALIZED", "PREPARED", "RUNNING"}
    /\ ocCallback' = FALSE
    /\ IF ocStatus = "RELEASE"
       THEN /\ ocPlugin' = "none" /\ ocListener' = FALSE
            /\ UNCHANGED <<ocStatus, ocControl>>
       ELSE /\ ocPlugin' = "resetting" /\ ocListener' = TRUE
            /\ UNCHANGED <<ocStatus, ocControl>>
    /\ UNCHANGED <<ocMode, ocBalance, ocQueue, ocFrames, ocPush, ocHandler, ocData, ocPosted, ocOut, ocDropped>>

\* the status is stored and the conditions are notified without the queue's lock
ReleaseNotifies ==
    /\ ocPlugin = "resetting" /\ ocStatus # "RELEASE"
    /\ ocStatus' = "RELEASE" /\ ocListener' = FALSE
    /\ ocControl' = IF ocControl = "blocked" THEN "idle" ELSE ocControl
    /\ UNCHANGED <<ocPlugin, ocMode, ocBalance, ocQueue, ocFrames, ocPush, ocHandler, ocData, ocPosted, ocCallback, ocOut,
                   ocDropped>>

ReleaseStopsHandler ==
    /\ ocPlugin = "resetting" /\ ocStatus = "RELEASE" /\ ocHandler
    /\ ocHandler' = FALSE
    /\ UNCHANGED <<ocPlugin, ocStatus, ocMode, ocBalance, ocQueue, ocFrames, ocPush, ocCallback, ocListener, ocDropped, ocFlow>>

ReleaseJoins ==
    /\ ocPlugin = "resetting" /\ ocStatus = "RELEASE" /\ ~ocHandler /\ ocControl = "none"
    /\ ocPlugin' \in {"none"} \cup (IF ocPush # "idle" THEN {"dead"} ELSE {})
    /\ ocDropped' = Gone(ocQueue \o ocPosted) /\ ocQueue' = <<>> /\ ocPosted' = <<>>
    /\ ocPush' = "idle"    \* a push that is still under way goes with the controller, or with the process
    /\ UNCHANGED <<ocStatus, ocMode, ocBalance, ocFrames, ocControl, ocData, ocHandler, ocCallback, ocListener, ocOut>>

-----------------------------------------------------------------------------
(* PushData.                                                               *)

PushChecks ==
    /\ ocPush = "idle" /\ ocFrames < OcMaxFrames
    /\ ocStatus = "START"
    /\ ocPush' = "checked"
    /\ UNCHANGED <<ocMode, ocBalance, ocQueue, ocFrames, ocDropped, ocOwner, ocFlow>>

\* the size is read under the lock
PushLocks ==
    /\ ocPush = "checked" /\ ~ControlLocked
    /\ ocPush' = IF Len(ocQueue) > OcQueueMax THEN "full" ELSE "room"
    /\ UNCHANGED <<ocMode, ocBalance, ocQueue, ocFrames, ocDropped, ocOwner, ocFlow>>

\* one frame makes room when the queue is above its limit; a frame with other sync information than the mode expects
\* empties the queue and changes the mode
PushQueues(synced) ==
    /\ PushLocked /\ ~(ocPush = "full" /\ ocQueue = <<>>)
    /\ LET room == IF ocPush = "full" THEN Tail(ocQueue) ELSE ocQueue
           mode == IF synced THEN "SYNC" ELSE "SMOOTH"
           kept == IF mode # ocMode THEN <<>> ELSE room IN
         /\ ocQueue' = Append(kept, ocFrames + 1)
         /\ ocDropped' = ocDropped \cup (Range(ocQueue) \ Range(kept))
         /\ ocMode' = mode
         /\ ocBalance' = IF mode # ocMode THEN Balanced(mode) ELSE ocBalance
    /\ ocFrames' = ocFrames + 1 /\ ocPush' = "idle"
    /\ ocControl' = IF ocControl = "blocked" THEN "idle" ELSE ocControl
    /\ UNCHANGED <<ocData, ocPosted, ocOut, ocOwner>>

\* the queue was emptied between the test of its size, or of its front, and the front or pop that follows
TouchesEmptied ==
    /\ ocQueue = <<>>
    /\ ocPush = "full" \/ (ocControl = "front" /\ ocStatus # "RELEASE") \/ ocControl = "popping"
    /\ ocPlugin' = "dead"
    /\ UNCHANGED <<ocStatus, ocMode, ocBalance, ocQueue, ocFrames, ocPush, ocHandler, ocCallback, ocListener, ocDropped,
                   ocFlow>>

-----------------------------------------------------------------------------
(* LooperControl.                                                          *)

ocControlOnly == <<ocPush, ocFrames, ocOwner, ocPosted, ocOut>>

\* the wait's condition is tested under the queue's lock; the thread takes the front, or goes to sleep, in a later step
LooperTests ==
    /\ ocControl = "idle" /\ ~PushLocked /\ ocStatus # "RELEASE"
    /\ ocControl' = IF ocStatus = "START" /\ ocQueue # <<>> THEN "front" ELSE "testing"
    /\ UNCHANGED <<ocMode, ocBalance, ocQueue, ocDropped, ocData, ocControlOnly>>

LooperTakes ==
    /\ ocControl = "front" /\ ocStatus # "RELEASE" /\ ocQueue # <<>>
    /\ ocControl' = "control" /\ ocData' = Head(ocQueue)
    /\ UNCHANGED <<ocMode, ocBalance, ocQueue, ocDropped, ocControlOnly>>

LooperEnds ==
    /\ ocControl \in {"idle", "front"} /\ ocStatus = "RELEASE"
    /\ ocControl' = "none"
    /\ UNCHANGED <<ocMode, ocBalance, ocQueue, ocDropped, ocData, ocControlOnly>>

LooperBlocks ==
    /\ ocControl = "testing"
    /\ ocControl' = "blocked"
    /\ UNCHANGED <<ocMode, ocBalance, ocQueue, ocDropped, ocData, ocControlOnly>>

\* ControlOutput: direct output, an invalid clock or a process out of balance post at once
ControlOutput ==
    /\ ocControl = "control"
    /\ \/ /\ ocControl' \in {"post"} \cup (IF ocMode = "SYNC" THEN {"reread", "sleep"} ELSE {})
             \cup (IF ocBalance THEN {"sleep"} ELSE {})
          /\ UNCHANGED <<ocQueue, ocBalance, ocDropped>>
       \/ /\ ocMode = "SMOOTH" /\ ~ocBalance /\ ~PushLocked    \* the balance is reached: the queue is emptied
          /\ ocControl' = "sleep" /\ ocBalance' = TRUE
          /\ ocDropped' = Gone(ocQueue) \ {ocData} /\ ocQueue' = <<>>
    /\ UNCHANGED <<ocMode, ocData, ocControlOnly>>

\* WaitRereadClockFailed: a full queue gives up, a clock that can be read or the other mode goes on; the status is not tested
RereadClock ==
    /\ ocControl = "reread" /\ ~PushLocked
    /\ ocControl' \in (IF Len(ocQueue) >= OcQueueMax THEN {"post"} ELSE {"reread", "sleep"})
    /\ UNCHANGED <<ocMode, ocBalance, ocQueue, ocDropped, ocData, ocControlOnly>>

\* CalSleepTime, SyncClock: the time passes, or the status changes
SyncClock ==
    /\ ocControl = "sleep"
    /\ ocControl' = "post"
    /\ UNCHANGED <<ocMode, ocBalance, ocQueue, ocDropped, ocData, ocControlOnly>>

\* PostOutputEvent: PostTask may fail, and the front stays
PostOutputEvent ==
    /\ ocControl = "post"
    /\ \/ /\ ocControl' = "pop"
          /\ ocPosted' = Append(ocPosted, ocData)
          /\ UNCHANGED <<ocData, ocDropped>>
       \/ /\ ocControl' = "idle" /\ ocData' = 0
          /\ ocDropped' = IF Contains(ocQueue, ocData) THEN ocDropped ELSE ocDropped \cup {ocData}
          /\ UNCHANGED ocPosted
    /\ UNCHANGED <<ocMode, ocBalance, ocQueue, ocFrames, ocPush, ocOut, ocOwner>>

\* Faulty variant for mutation testing: the frame is repeated until another one pushes it out.
NeverFront == FALSE

\* Faulty variant for mutation testing: the front is popped whatever frame it is.
AnyFront == ocQueue # <<>>

IsFront == ocQueue # <<>> /\ Head(ocQueue) = ocData

\* HandleControlResult: the frame is popped if it is still the front
ComparesFront ==
    /\ ocControl = "pop" /\ ~PushLocked
    /\ IF IsFront THEN ocControl' = "popping" /\ UNCHANGED ocData
                  ELSE ocControl' = "idle" /\ ocData' = 0
    /\ UNCHANGED <<ocMode, ocBalance, ocQueue, ocDropped, ocControlOnly>>

PopsFront ==
    /\ ocControl = "popping" /\ ocQueue # <<>>
    /\ ocControl' = "idle" /\ ocData' = 0
    /\ ocQueue' = Tail(ocQueue)
    /\ UNCHANGED <<ocMode, ocBalance, ocDropped, ocControlOnly>>

-----------------------------------------------------------------------------
(* The handler thread.                                                     *)

\* a listener that is gone drops the frame
NotifyOutput ==
    /\ ocHandler /\ ocPosted # <<>> /\ (ocCallback \/ ~ocListener)
    /\ ocPosted' = Tail(ocPosted)
    /\ ocOut' = IF ocListener THEN Append(ocOut, Head(ocPosted)) ELSE ocOut
    /\ ocDropped' = IF ocListener THEN ocDropped ELSE ocDropped \cup {Head(ocPosted)}
    /\ UNCHANGED <<ocMode, ocBalance, ocQueue, ocFrames, ocPush, ocControl, ocData, ocOwner>>

\* Reset has taken the data callback away, the listener is still there: an empty function is called
CallsEmptyFunction ==
    /\ ocHandler /\ ocPosted # <<>> /\ ~ocCallback /\ ocListener
    /\ ocPlugin' = "dead" /\ ocHandler' = FALSE
    /\ UNCHANGED <<ocStatus, ocMode, ocBalance, ocQueue, ocFrames, ocPush, ocCallback, ocListener, ocDropped, ocFlow>>

OcNext ==
    \/ /\ ocPlugin # "dead"
       /\ \/ OcPluginInit \/ OcPrepare \/ OcStart \/ StopStores \/ StopClears
          \/ ResetBegins \/ ReleaseNotifies \/ ReleaseStopsHandler \/ ReleaseJoins
          \/ PushChecks \/ PushLocks \/ (\E s \in BOOLEAN : PushQueues(s)) \/ TouchesEmptied
          \/ LooperTests \/ LooperTakes \/ LooperEnds \/ LooperBlocks
          \/ ControlOutput \/ RereadClock \/ SyncClock \/ PostOutputEvent \/ ComparesFront \/ PopsFront
          \/ NotifyOutput \/ CallsEmptyFunction

OcSpec == OcInit /\ [][OcNext]_ocVars

-----------------------------------------------------------------------------
(* Frames reach the data callback in the order they were pushed and at     *)
(* most once, whatever the queue's overflow, a change of the mode, the     *)
(* balance, Stop and Start did to the queue while the control thread held  *)
(* its front.                                                              *)
OcInOrder == \A i, j \in DOMAIN ocOut : i < j => ocOut[i] < ocOut[j]

(* A frame is lost only on purpose: every pushed frame is queued, in the   *)
(* hands of one of the threads, delivered, or was dropped by one of the    *)
(* rules (overflow, mode, balance, Stop, Release, a listener that left).   *)
OcFramesAccounted ==
    1..ocFrames \subseteq Range(ocQueue) \cup {ocData} \cup Range(ocPosted) \cup Range(ocOut) \cup ocDropped

(* The controller is a queue that may lose frames and hands on what is     *)
(* left in order and once: a frame is handed on only while it is on its    *)
(* way and nothing older is, a frame that was given up, or handed on, does *)
(* not come again, and no thread makes one up.                             *)
OcOnItsWay ==
    (Range(ocQueue) \ (IF ocControl \in {"pop", "popping"} THEN {ocData} ELSE {}))    \* posted already
      \cup Range(ocPosted)
      \cup (IF ocControl \in {"control", "reread", "sleep", "post"} THEN {ocData} ELSE {})
Fifo == INSTANCE LossyQueue WITH sent <- ocFrames, waiting <- OcOnItsWay, out <- ocOut
OcIsLossyQueue == Fifo!Spec
=============================================================================

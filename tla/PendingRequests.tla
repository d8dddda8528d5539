--------------------------- MODULE PendingRequests --------------------------
(***************************************************************************)
(* The calls of DistributedHardwareService::GetDistributedHardware that    *)
(* come before the framework is initialised: they are queued, and a        *)
(* detached cleanup thread looks at the queue again and again until they   *)
(* can be served or have waited too long.                                  *)
(*                                                                         *)
(* A request stands for its callback.  The vectors of requests are sets:   *)
(* no property depends on their order.                                     *)
(***************************************************************************)
EXTENDS Integers, FiniteSets

CONSTANTS
    Request,   \* calls of GetDistributedHardware
    Device,    \* network ids
    Steps,     \* the values of EnableStep that are used
    CarBuilds, \* the values of carBuild that are considered
    MaxRetry   \* RETRY_CHECK_DHFWK_INIT_MAX_TIMES

\* DISABLE stands for DISABLE_SOURCE and DISABLE_SINK, which do not wait.
ASSUME PendingConstants ==
    /\ IsFiniteSet(Request)
    /\ Steps \subseteq {"ENABLE_SOURCE", "ENABLE_SINK", "DISABLE"}
    /\ CarBuilds \subseteq BOOLEAN /\ MaxRetry \in Nat

VARIABLES
    carBuild,        \* DHARDWARE_SINK_LOCAL_INIT is defined; never changes
    isInit,          \* isAllInit_
    isLocalInit,     \* isLocalInit_
    ask,             \* the networkId and the enableStep of each request; never changes
    st,              \* how far each request has come
    answers,         \* number of OnSuccess and OnError calls of each callback
    pending,         \* pendingGetDHRequests_
    cleanupRunning,  \* cleanupRunning_
    initTimes,       \* dhfwkInitTimes_
    cleaner,         \* where the thread is that StartCleanupTimer made for a request
    batch            \* readyRequests and timeoutRequests of that thread

flags == <<isInit, isLocalInit>>
fixed == <<carBuild, ask>>
queue == <<pending, cleanupRunning, initTimes>>
threads == <<cleaner, batch>>

\* "late" and "ready" requests have left the queue and are in the hands of a
\* cleanup thread; "lookup", "sync" and "waiting" are DeviceSync's.
Progress ==
    {"new", "refused", "pending", "late", "ready", "lookup", "sync", "waiting", "answered"}
Live == {"check", "sleep", "clean", "process"}

PendingTypeOK ==
    /\ carBuild \in BOOLEAN /\ isInit \in BOOLEAN /\ isLocalInit \in BOOLEAN
    /\ ask \in [Request -> [dev: Device, step: Steps]]
    /\ st \in [Request -> Progress]
    /\ answers \in [Request -> Nat]
    /\ pending \subseteq Request
    /\ cleanupRunning \in BOOLEAN
    /\ initTimes \in 0..(MaxRetry + 1)
    /\ cleaner \in [Request -> Live \cup {"none", "exit"}]
    /\ batch \in [Request -> SUBSET Request]

PendingInit ==
    /\ carBuild \in CarBuilds
    /\ isInit = FALSE /\ isLocalInit = FALSE
    /\ ask \in [Request -> [dev: Device, step: Steps]]
    /\ st = [r \in Request |-> "new"]
    /\ answers = [r \in Request |-> 0]
    /\ pending = {} /\ cleanupRunning = FALSE /\ initTimes = 0
    /\ cleaner = [r \in Request |-> "none"]
    /\ batch = [r \in Request |-> {}]

-----------------------------------------------------------------------------
(* A call of an application.                                               *)

\* Which of the two flags a step waits for.  The others wait for none.
Ready(step) == IF step = "ENABLE_SINK" /\ carBuild THEN isLocalInit ELSE isInit

\* The first request of a queue starts the thread that will look after it.
QueuePendingRequest(r) ==
    /\ pending' = pending \cup {r}
    /\ st' = [st EXCEPT ![r] = "pending"]
    /\ IF pending = {}
       THEN /\ cleanupRunning' = TRUE
            /\ cleaner' = [cleaner EXCEPT ![r] = "check"]
       ELSE UNCHANGED <<cleanupRunning, cleaner>>
    /\ UNCHANGED <<initTimes, batch>>

\* An ENABLE_SOURCE for a device that is not online is refused with an error
\* code and no callback.
GetDistributedHardware(r) ==
    LET step == ask[r].step IN
    /\ st[r] = "new"
    /\ \/ /\ step = "ENABLE_SOURCE"
          /\ st' = [st EXCEPT ![r] = "refused"]
          /\ UNCHANGED <<queue, threads>>
       \/ /\ step # "DISABLE" /\ ~Ready(step)
          /\ QueuePendingRequest(r)
       \/ /\ step = "DISABLE" \/ Ready(step)
          /\ st' = [st EXCEPT ![r] = "lookup"]
          /\ UNCHANGED <<queue, threads>>
    /\ UNCHANGED <<flags, fixed, answers>>

-----------------------------------------------------------------------------
(* The cleanup thread that was started for request t.                      *)

\* The condition of its loop.
LoopCheck(t) ==
    /\ cleaner[t] = "check"
    /\ cleaner' = [cleaner EXCEPT ![t] = IF cleanupRunning THEN "sleep" ELSE "exit"]
    /\ UNCHANGED <<flags, fixed, st, answers, queue, batch>>

\* After the sleep it looks at the flag once more.
Wake(t) ==
    /\ cleaner[t] = "sleep"
    /\ cleaner' = [cleaner EXCEPT ![t] = IF cleanupRunning THEN "clean" ELSE "exit"]
    /\ UNCHANGED <<flags, fixed, st, answers, queue, batch>>

\* What the thread takes out of the queue: the requests that can be served, or
\* else have waited too long.  Without carBuild all requests share one fate.
CanServe == {r \in pending : Ready(ask[r].step)}
Expired == IF initTimes > MaxRetry THEN pending \ CanServe ELSE {}

\* Faulty variant for mutation testing: the thread stops as soon as it has
\* served someone.
StopsEarly ==
    LET left == pending \ (CanServe \cup Expired) IN
    /\ pending' = left
    /\ IF left = {} \/ CanServe # {}
       THEN /\ cleanupRunning' = FALSE
            /\ initTimes' = IF carBuild \/ CanServe # {} THEN 0 ELSE initTimes
       ELSE initTimes' = initTimes + 1 /\ UNCHANGED cleanupRunning

\* The queue after a look.  Without carBuild a timeout leaves dhfwkInitTimes_
\* as it is.
TakeFromQueue ==
    LET left == pending \ (CanServe \cup Expired) IN
    /\ pending' = left
    /\ IF left = {}
       THEN /\ cleanupRunning' = FALSE
            /\ initTimes' = IF carBuild \/ CanServe # {} THEN 0 ELSE initTimes
       ELSE initTimes' = initTimes + 1 /\ UNCHANGED cleanupRunning

CleanupExpiredRequests(t) ==
    /\ cleaner[t] = "clean"
    /\ \/ /\ pending = {}
          /\ cleanupRunning' = FALSE
          /\ cleaner' = [cleaner EXCEPT ![t] = "check"]
          /\ UNCHANGED <<pending, initTimes, st, batch>>
       \/ /\ pending # {}
          /\ TakeFromQueue
          /\ batch' = [batch EXCEPT ![t] = CanServe \cup Expired]
          /\ st' = [r \in Request |->
                       CASE r \in CanServe -> "ready"
                         [] r \in Expired -> "late"
                         [] OTHER -> st[r]]
          /\ cleaner' = [cleaner EXCEPT ![t] = "process"]
    /\ UNCHANGED <<flags, fixed, answers>>

\* The timeouts are answered first.
AnswerLate(t, r) ==
    /\ cleaner[t] = "process" /\ r \in batch[t] /\ st[r] = "late"
    /\ st' = [st EXCEPT ![r] = "answered"]
    /\ answers' = [answers EXCEPT ![r] = @ + 1]
    /\ UNCHANGED <<flags, fixed, queue, threads>>

\* Then StartGetDeviceDhInfo is called for the others, one after the other.
ServeReady(t, r) ==
    /\ cleaner[t] = "process" /\ r \in batch[t] /\ st[r] = "ready"
    /\ \A q \in batch[t] : st[q] \notin {"late", "lookup", "sync"}
    /\ st' = [st EXCEPT ![r] = "lookup"]
    /\ UNCHANGED <<flags, fixed, answers, queue, threads>>

\* ProcessPendingRequests returns to the loop.
ProcessEnds(t) ==
    /\ cleaner[t] = "process"
    /\ \A r \in batch[t] : st[r] \in {"waiting", "answered"}
    /\ cleaner' = [cleaner EXCEPT ![t] = "check"]
    /\ batch' = [batch EXCEPT ![t] = {}]
    /\ UNCHANGED <<flags, fixed, st, answers, queue>>

Cleanup(t) ==
    \/ LoopCheck(t) \/ Wake(t) \/ CleanupExpiredRequests(t) \/ ProcessEnds(t)
    \/ \E r \in batch[t] : AnswerLate(t, r) \/ ServeReady(t, r)

-----------------------------------------------------------------------------
(* Properties.                                                             *)

\* A queued request is never forgotten: as long as there is one,
\* cleanupRunning_ is set and some thread will look at the queue, although
\* the threads read the flag without the lock, end on their own and several
\* of them may run.
QueueIsWatched ==
    pending # {} => cleanupRunning /\ \E t \in Request : cleaner[t] \in Live

\* A new queue starts with all its retries, so that a first request is not
\* timed out at its first look.  (Without carBuild this is not so after a
\* timeout: dhfwkInitTimes_ is not reset there.)
NewQueueStartsAtZero == carBuild /\ pending = {} => initTimes = 0

=============================================================================

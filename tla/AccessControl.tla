---------------------------- MODULE AccessControl ----------------------------
(***************************************************************************)
(* The authorisation of a remote device that opens an audio channel:       *)
(* SoftbusChannelAdapter's requests and timers (softbus_channel_adapter)   *)
(* and DAudioAccessConfigManager's configuration and results               *)
(* (av_sync_utils), with the codec start that waits for a result.          *)
(*                                                                         *)
(* A request is decided by an answer of the listening application or by    *)
(* its timer thread.  Both first take the request out of                   *)
(* pendingAuthRequests_ under authRequestMutex_ and then store the result. *)
(* Answers may be repeated and may come after the timeout.                 *)
(***************************************************************************)
EXTENDS Naturals, FiniteSets

CONSTANTS
    AccRequests,   \* request ids; GenerateRequestId never returns one twice
    AccNetworks,   \* network ids of remote devices
    AccAnswers     \* IPC threads that may carry an answer to one request at a time

NoNetwork == "no network"

ASSUME AccNames == NoNetwork \notin AccNetworks

VARIABLES
    accListener,   \* listener_ (and timeOut_, pkgName_): set or not
    accCurrent,    \* currentNetworkId_
    accResults,    \* authorizationResults_
    accPending,    \* keys of pendingAuthRequests_
    accNetwork,    \* the network id of a request
    accFlag,       \* authTimerCancelFlags_: absent, armed, cancelled
    accOpen,       \* the thread in RequestAndWaitForAuthorization, per request
    accTimer,      \* the timer thread of a request
    accAnswer,     \* the threads in ProcessAuthorizationResult, per request
    accOutcome,    \* how a request was decided
    accFree,       \* devices that were let in with no listener set
    accCodec       \* the thread in StartAudioCodec: [pc, network]

accVars == <<accListener, accCurrent, accResults, accPending, accNetwork, accFlag, accOpen, accTimer, accAnswer,
             accOutcome, accFree, accCodec>>

NoCodec == [pc |-> "idle", network |-> NoNetwork]
NoAnswer == [pc |-> "none", granted |-> FALSE]

AccInit ==
    /\ accListener = FALSE
    /\ accCurrent = NoNetwork
    /\ accResults = [n \in AccNetworks |-> "none"]
    /\ accPending = {}
    /\ accNetwork = [r \in AccRequests |-> NoNetwork]
    /\ accFlag = [r \in AccRequests |-> "absent"]
    /\ accOpen = [r \in AccRequests |-> "none"]
    /\ accTimer = [r \in AccRequests |-> "none"]
    /\ accAnswer = [r \in AccRequests |-> [k \in AccAnswers |-> NoAnswer]]
    /\ accOutcome = [r \in AccRequests |-> "none"]
    /\ accFree = {}
    /\ accCodec = NoCodec

-----------------------------------------------------------------------------
(* DAudioAccessConfigManager: each operation under mtxLock_.               *)

SetAccessConfig ==
    /\ accListener' = TRUE
    /\ UNCHANGED <<accCurrent, accResults, accPending, accNetwork, accFlag, accOpen, accTimer, accAnswer, accOutcome,
                   accFree, accCodec>>

\* the configured package: configuration and current network go, and every result with them
ClearAccessConfigByPkgName ==
    /\ accListener
    /\ accListener' = FALSE
    /\ accCurrent' = NoNetwork
    /\ accResults' = [n \in AccNetworks |-> "none"]
    /\ UNCHANGED <<accPending, accNetwork, accFlag, accOpen, accTimer, accAnswer, accOutcome, accFree, accCodec>>

\* ClearAccessConfig keeps the current network
ClearAccessConfig ==
    /\ accListener' = FALSE
    /\ accResults' = [n \in AccNetworks |-> "none"]
    /\ UNCHANGED <<accCurrent, accPending, accNetwork, accFlag, accOpen, accTimer, accAnswer, accOutcome, accFree,
                   accCodec>>

ClearAuthorizationResult(n) ==
    /\ accResults[n] # "none"
    /\ accResults' = [accResults EXCEPT ![n] = "none"]
    /\ UNCHANGED <<accListener, accCurrent, accPending, accNetwork, accFlag, accOpen, accTimer, accAnswer, accOutcome,
                   accFree, accCodec>>

Result(granted) == IF granted THEN "granted" ELSE "denied"
SetAuthorizationGranted(n, granted) == accResults' = [accResults EXCEPT ![n] = Result(granted)]

-----------------------------------------------------------------------------
(* OnSoftbusChannelOpened -> RequestAndWaitForAuthorization.               *)

\* SetCurrentNetworkId, then GetAccessListener
OpenChannel(r, n) ==
    /\ accOpen[r] = "none"
    /\ accCurrent' = n
    /\ accNetwork' = [accNetwork EXCEPT ![r] = n]
    /\ accOpen' = [accOpen EXCEPT ![r] = IF accListener THEN "package" ELSE "free"]
    /\ UNCHANGED <<accListener, accResults, accPending, accFlag, accTimer, accAnswer, accOutcome, accFree, accCodec>>

\* no listener, or the package name is gone by now: the device is let in
LetIn(r) ==
    /\ accOpen[r] = "free" \/ (accOpen[r] = "package" /\ ~accListener)
    /\ SetAuthorizationGranted(accNetwork[r], TRUE)
    /\ accFree' = accFree \cup {accNetwork[r]}
    /\ accOpen' = [accOpen EXCEPT ![r] = "done"]
    /\ UNCHANGED <<accListener, accCurrent, accPending, accNetwork, accFlag, accTimer, accAnswer, accOutcome, accCodec>>

MakeRequest(r) ==
    /\ accOpen[r] = "package" /\ accListener
    /\ accPending' = accPending \cup {r}
    /\ accOutcome' = [accOutcome EXCEPT ![r] = "pending"]
    /\ accOpen' = [accOpen EXCEPT ![r] = "timer"]
    /\ UNCHANGED <<accListener, accCurrent, accResults, accNetwork, accFlag, accTimer, accAnswer, accFree, accCodec>>

\* StartAuthorizationTimer; CancelAuthorizationTimer finds no flag of a new request
StartAuthorizationTimer(r) ==
    /\ accOpen[r] = "timer"
    /\ accFlag' = [accFlag EXCEPT ![r] = "armed"]
    /\ accTimer' = [accTimer EXCEPT ![r] = "sleeping"]
    /\ accOpen' = [accOpen EXCEPT ![r] = "ask"]
    /\ UNCHANGED <<accListener, accCurrent, accResults, accPending, accNetwork, accAnswer, accOutcome, accFree, accCodec>>

\* OnRequestHardwareAccess returns
Asked(r) ==
    /\ accOpen[r] = "ask"
    /\ accOpen' = [accOpen EXCEPT ![r] = "done"]
    /\ UNCHANGED <<accListener, accCurrent, accResults, accPending, accNetwork, accFlag, accTimer, accAnswer, accOutcome,
                   accFree, accCodec>>

-----------------------------------------------------------------------------
(* The timer thread: it wakes, looks at its flag and drops it; when it was *)
(* not cancelled it takes the request out and denies it.                   *)

\* Faulty variant for mutation testing: the thread takes its flag for a cancelled one and never times out.
WakesCancelled(r) ==
    /\ accTimer[r] = "sleeping"
    /\ accFlag' = [accFlag EXCEPT ![r] = "absent"]
    /\ accTimer' = [accTimer EXCEPT ![r] = "done"]
    /\ UNCHANGED <<accListener, accCurrent, accResults, accPending, accNetwork, accOpen, accAnswer, accOutcome, accFree,
                   accCodec>>

TimerWakes(r) ==
    /\ accTimer[r] = "sleeping"
    /\ accFlag' = [accFlag EXCEPT ![r] = "absent"]
    /\ accTimer' = [accTimer EXCEPT ![r] = IF accFlag[r] = "armed" THEN "timeout" ELSE "done"]
    /\ UNCHANGED <<accListener, accCurrent, accResults, accPending, accNetwork, accOpen, accAnswer, accOutcome, accFree,
                   accCodec>>

HandleAuthorizationTimeout(r) ==
    /\ accTimer[r] = "timeout"
    /\ accPending' = accPending \ {r}
    /\ accOutcome' = IF r \in accPending THEN [accOutcome EXCEPT ![r] = "denied"] ELSE accOutcome
    /\ accTimer' = [accTimer EXCEPT ![r] = IF r \in accPending THEN "deny" ELSE "done"]
    /\ UNCHANGED <<accListener, accCurrent, accResults, accNetwork, accFlag, accOpen, accAnswer, accFree, accCodec>>

TimerDenies(r) ==
    /\ accTimer[r] = "deny"
    /\ SetAuthorizationGranted(accNetwork[r], FALSE)
    /\ accTimer' = [accTimer EXCEPT ![r] = "done"]
    /\ UNCHANGED <<accListener, accCurrent, accPending, accNetwork, accFlag, accOpen, accAnswer, accOutcome, accFree,
                   accCodec>>

-----------------------------------------------------------------------------
(* ProcessAuthorizationResult: cancel the timer, take the request out,     *)
(* store the result.                                                       *)

AnswerGoes(r, k, pc) == accAnswer' = [accAnswer EXCEPT ![r][k].pc = pc]
AnswerEnds(r, k) == accAnswer' = [accAnswer EXCEPT ![r][k] = NoAnswer]

\* the application knows the request id once it was asked
AnswerArrives(r, k, granted) ==
    /\ accOpen[r] = "ask" \/ (accOpen[r] = "done" /\ accOutcome[r] # "none")
    /\ accAnswer[r][k].pc = "none"
    /\ accAnswer' = [accAnswer EXCEPT ![r][k] = [pc |-> "cancel", granted |-> granted]]
    /\ UNCHANGED <<accListener, accCurrent, accResults, accPending, accNetwork, accFlag, accOpen, accTimer, accOutcome,
                   accFree, accCodec>>

CancelAuthorizationTimer(r, k) ==
    /\ accAnswer[r][k].pc = "cancel"
    /\ accFlag' = [accFlag EXCEPT ![r] = IF @ = "absent" THEN "absent" ELSE "cancelled"]
    /\ AnswerGoes(r, k, "take")
    /\ UNCHANGED <<accListener, accCurrent, accResults, accPending, accNetwork, accOpen, accTimer, accOutcome, accFree,
                   accCodec>>

AnswerTakes(r, k) ==
    /\ accAnswer[r][k].pc = "take"
    /\ accPending' = accPending \ {r}
    /\ accOutcome' = IF r \in accPending THEN [accOutcome EXCEPT ![r] = Result(accAnswer[r][k].granted)] ELSE accOutcome
    /\ IF r \in accPending THEN AnswerGoes(r, k, "store") ELSE AnswerEnds(r, k)
    /\ UNCHANGED <<accListener, accCurrent, accResults, accNetwork, accFlag, accOpen, accTimer, accFree, accCodec>>

AnswerStores(r, k) ==
    /\ accAnswer[r][k].pc = "store"
    /\ SetAuthorizationGranted(accNetwork[r], accAnswer[r][k].granted)
    /\ AnswerEnds(r, k)
    /\ UNCHANGED <<accListener, accCurrent, accPending, accNetwork, accFlag, accOpen, accTimer, accOutcome, accFree,
                   accCodec>>

-----------------------------------------------------------------------------
(* StartAudioCodec: wait for a result of the current device, then start    *)
(* the codec if it is let in.                                              *)

CodecBegins ==
    /\ accCodec.pc = "idle"
    /\ accCodec' = [pc |-> IF accCurrent = NoNetwork THEN "started" ELSE "wait", network |-> accCurrent]
    /\ UNCHANGED <<accListener, accCurrent, accResults, accPending, accNetwork, accFlag, accOpen, accTimer, accAnswer,
                   accOutcome, accFree>>

\* HasAuthorizationDecision, or WaitForAuthorizationResult until timeOut seconds are over
CodecWaits ==
    /\ accCodec.pc = "wait"
    /\ \/ accResults[accCodec.network] # "none" /\ accCodec' = [accCodec EXCEPT !.pc = "check"]
       \/ accResults[accCodec.network] = "none" /\ accCodec' = NoCodec
    /\ UNCHANGED <<accListener, accCurrent, accResults, accPending, accNetwork, accFlag, accOpen, accTimer, accAnswer,
                   accOutcome, accFree>>

\* Faulty variant for mutation testing: a result is enough, whatever it says.
CodecChecksNothing ==
    /\ accCodec.pc = "check"
    /\ accCodec' = [accCodec EXCEPT !.pc = "started"]
    /\ UNCHANGED <<accListener, accCurrent, accResults, accPending, accNetwork, accFlag, accOpen, accTimer, accAnswer,
                   accOutcome, accFree>>

\* IsAuthorizationGranted: no result by now counts as denied
CodecChecks ==
    /\ accCodec.pc = "check"
    /\ accCodec' = IF accResults[accCodec.network] = "granted" THEN [accCodec EXCEPT !.pc = "started"] ELSE NoCodec
    /\ UNCHANGED <<accListener, accCurrent, accResults, accPending, accNetwork, accFlag, accOpen, accTimer, accAnswer,
                   accOutcome, accFree>>

CodecStops ==
    /\ accCodec.pc = "started"
    /\ accCodec' = NoCodec
    /\ UNCHANGED <<accListener, accCurrent, accResults, accPending, accNetwork, accFlag, accOpen, accTimer, accAnswer,
                   accOutcome, accFree>>

-----------------------------------------------------------------------------
OpenSteps(r) == LetIn(r) \/ MakeRequest(r) \/ StartAuthorizationTimer(r) \/ Asked(r)
TimerSteps(r) == TimerWakes(r) \/ HandleAuthorizationTimeout(r) \/ TimerDenies(r)
AnswerSteps(r, k) == CancelAuthorizationTimer(r, k) \/ AnswerTakes(r, k) \/ AnswerStores(r, k)
ConfigSteps == SetAccessConfig \/ ClearAccessConfigByPkgName \/ ClearAccessConfig
CodecSteps == CodecBegins \/ CodecWaits \/ CodecChecks \/ CodecStops

AccNext ==
    \/ ConfigSteps \/ CodecSteps
    \/ \E n \in AccNetworks : ClearAuthorizationResult(n)
    \/ \E r \in AccRequests :
         \/ \E n \in AccNetworks : OpenChannel(r, n)
         \/ OpenSteps(r) \/ TimerSteps(r)
         \/ \E k \in AccAnswers : AnswerSteps(r, k) \/ \E granted \in BOOLEAN : AnswerArrives(r, k, granted)

(* Threads of the process run: the one that opens, the timer's, and one    *)
(* that has received an answer.  The application need not answer.          *)
AccFairness ==
    \A r \in AccRequests : /\ WF_accVars(OpenSteps(r)) /\ WF_accVars(TimerSteps(r))
                           /\ \A k \in AccAnswers : WF_accVars(AnswerSteps(r, k))

AccSpec == AccInit /\ [][AccNext]_accVars /\ AccFairness

-----------------------------------------------------------------------------
AccTypeOK ==
    /\ accListener \in BOOLEAN
    /\ accCurrent \in AccNetworks \cup {NoNetwork}
    /\ accResults \in [AccNetworks -> {"none", "granted", "denied"}]
    /\ accPending \in SUBSET AccRequests
    /\ accNetwork \in [AccRequests -> AccNetworks \cup {NoNetwork}]
    /\ accFlag \in [AccRequests -> {"absent", "armed", "cancelled"}]
    /\ accOpen \in [AccRequests -> {"none", "free", "package", "timer", "ask", "done"}]
    /\ accTimer \in [AccRequests -> {"none", "sleeping", "timeout", "deny", "done"}]
    /\ accAnswer \in [AccRequests -> [AccAnswers ->
                        [pc : {"none", "cancel", "take", "store"}, granted : BOOLEAN]]]
    /\ accOutcome \in [AccRequests -> {"none", "pending", "granted", "denied"}]
    /\ accFree \in SUBSET AccNetworks
    /\ accCodec \in [pc : {"idle", "wait", "check", "started"}, network : AccNetworks \cup {NoNetwork}]

(* Every request that enters pendingAuthRequests_ is decided exactly once, *)
(* by the timer or by one answer, and is decided eventually, however the   *)
(* timer, late answers and repeated answers interleave.                    *)
Auth == INSTANCE AuthDecision WITH Requests <- AccRequests, decision <- accOutcome
AccDecidesOnce == Auth!Spec

(* A device is let in for a reason: the codec starts for a device only if  *)
(* some request of that device was granted by an answer, or it was opened  *)
(* while no application asked to be consulted.  No timeout, late answer or *)
(* cleared configuration makes a grant.                                    *)
AccGrantHasReason ==
    accCodec.pc = "started" /\ accCodec.network # NoNetwork =>
        \/ accCodec.network \in accFree
        \/ \E r \in AccRequests : accNetwork[r] = accCodec.network /\ accOutcome[r] = "granted"
=============================================================================

--------------------------- MODULE ComponentEnable --------------------------
(***************************************************************************)
(* One call of ComponentManager::Enable or ComponentManager::Disable: the  *)
(* attempts of a ComponentEnable or ComponentDisable object, the driver    *)
(* that answers them by a callback from a thread of its own, the timeout   *)
(* of each wait and the retries.                                           *)
(*                                                                         *)
(* The object lives for the whole call: status_ is written by every        *)
(* callback and read by every attempt.                                     *)
(***************************************************************************)
EXTENDS Integers, FiniteSets

CONSTANTS
    RetryMax  \* ENABLE_RETRY_MAX_TIMES and DISABLE_RETRY_MAX_TIMES

ASSUME RetryAssumption == RetryMax \in Nat

VARIABLES
    operation, \* "enable" or "disable"
    stage,     \* where the calling thread is
    attempt,   \* number of the current attempt, from 1
    status,    \* status_: "max" is the initial value, "ok" or "err" a callback's
    result,    \* what the call returned
    pending,   \* attempts whose request the driver has accepted, not answered
    done,      \* the driver has carried the operation out
    peerOnline, \* DHContext::IsDeviceOnline
    after      \* history: requests made since the device went offline

vars == <<operation, stage, attempt, status, result, pending, done, peerOnline, after>>
Attempts == 1..(RetryMax + 1)

TypeOK ==
    /\ operation \in {"enable", "disable"}
    /\ stage \in {"call", "config", "wait", "failed", "returned"}
    /\ attempt \in Attempts
    /\ status \in {"max", "ok", "err"}
    /\ result \in {"none", "success", "failed"}
    /\ pending \subseteq Attempts
    /\ done \in BOOLEAN /\ peerOnline \in BOOLEAN
    /\ after \in Nat

Init ==
    /\ operation \in {"enable", "disable"}
    /\ stage = "call" /\ attempt = 1
    /\ status = "max" /\ result = "none"
    /\ pending = {} /\ done = FALSE
    /\ peerOnline = TRUE /\ after = 0

-----------------------------------------------------------------------------
(* The calling thread.                                                     *)

\* RegisterDistributedHardware or UnregisterDistributedHardware: the driver
\* accepts the request or refuses it.
CallDriver ==
    /\ stage = "call"
    /\ after' = IF peerOnline THEN after ELSE after + 1
    /\ \/ /\ pending' = pending \cup {attempt}
          /\ stage' = IF operation = "enable" THEN "config" ELSE "wait"
       \/ /\ stage' = "failed"
          /\ UNCHANGED pending
    /\ UNCHANGED <<operation, attempt, status, result, done, peerOnline>>

\* ConfigDistributedHardware, where the caller gave custom parameters.  Its
\* failure ends the attempt although the request is with the driver.
Config ==
    /\ stage = "config"
    /\ stage' \in {"wait", "failed"}
    /\ UNCHANGED <<operation, attempt, status, result, pending, done, peerOnline, after>>

\* Faulty variant for mutation testing: any callback counts as success.
WaitReturnsAnyStatus ==
    /\ stage = "wait" /\ status # "max"
    /\ stage' = "returned" /\ result' = "success"
    /\ UNCHANGED <<operation, attempt, status, pending, done, peerOnline, after>>

\* conVar_.wait_for returns because status_ has been written.
WaitReturns ==
    /\ stage = "wait" /\ status # "max"
    /\ \/ status = "ok" /\ stage' = "returned" /\ result' = "success"
       \/ status # "ok" /\ stage' = "failed" /\ UNCHANGED result
    /\ UNCHANGED <<operation, attempt, status, pending, done, peerOnline, after>>

\* Faulty variant for mutation testing: a wait without a timeout.
TimeoutNever == FALSE

\* conVar_.wait_for returns because the time is up.
Timeout ==
    /\ stage = "wait" /\ status = "max"
    /\ stage' = "failed"
    /\ UNCHANGED <<operation, attempt, status, result, pending, done, peerOnline, after>>

RetryOffline ==
    /\ stage = "failed" /\ attempt <= RetryMax
    /\ attempt' = attempt + 1 /\ stage' = "call"
    /\ UNCHANGED <<operation, status, result, pending, done, peerOnline, after>>

\* The retry loop.  Only Enable looks whether the device is still online.
Retry ==
    /\ stage = "failed" /\ attempt <= RetryMax
    /\ operation = "enable" => peerOnline
    /\ attempt' = attempt + 1
    /\ stage' = "call"
    /\ UNCHANGED <<operation, status, result, pending, done, peerOnline, after>>

GiveUp ==
    /\ stage = "failed"
    /\ attempt > RetryMax \/ (operation = "enable" /\ ~peerOnline)
    /\ stage' = "returned" /\ result' = "failed"
    /\ UNCHANGED <<operation, attempt, status, pending, done, peerOnline, after>>

-----------------------------------------------------------------------------
(* The driver and the device.                                              *)

\* The driver ends the request of attempt a and calls OnRegisterResult or
\* OnUnregisterResult, at any time, even when the call has returned.
OnResult(a) ==
    /\ a \in pending
    /\ pending' = pending \ {a}
    /\ \/ done' = TRUE /\ status' = "ok"
       \/ UNCHANGED done /\ status' = "err"
    /\ UNCHANGED <<operation, stage, attempt, result, peerOnline, after>>

DeviceOffline ==
    /\ peerOnline
    /\ peerOnline' = FALSE
    /\ UNCHANGED <<operation, stage, attempt, status, result, pending, done, after>>

-----------------------------------------------------------------------------
Call == CallDriver \/ Config \/ WaitReturns \/ Timeout \/ Retry \/ GiveUp

Next == Call \/ DeviceOffline \/ \E a \in pending : OnResult(a)

\* The calling thread goes on and its timer fires; the driver may never answer.
Spec == Init /\ [][Next]_vars /\ WF_vars(Call)

-----------------------------------------------------------------------------
(* Properties.                                                             *)

\* A call that returns success has been carried out by the driver, also when
\* the answer that ended it belongs to an earlier attempt.
SuccessIsDone == result = "success" => done

\* A device that goes offline stops the retries of Enable: at most the one
\* request follows that had passed the check already.
AtMostOneRequestOffline == operation = "enable" => after <= 1

\* A driver that never answers does not hold the call, and the lock on the
\* status that its caller holds, for ever.
CallReturns == <>(result # "none")

=============================================================================

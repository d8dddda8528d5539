----------------------------- MODULE LowLatency -----------------------------
(***************************************************************************)
(* LowLatency, its DHTimer and the Publisher item of TOPIC_LOW_LATENCY.    *)
(* Components publish whether a hardware type needs low latency; the first *)
(* type that does starts a timer, whose second expiry asks the scheduler   *)
(* for low latency, and the last one to go stops it.  The publisher's item *)
(* holds its mutex while its listeners run, so messages are handled one by *)
(* one; the timer's event runner is a thread of its own.                   *)
(***************************************************************************)
EXTENDS Integers, FiniteSets

CONSTANTS
  LlTypes,         \* hardware types
  LlMaxMessages    \* bound: messages published

VARIABLES
  listening,       \* the low latency listener is registered with the item
  switchSet,       \* lowLatencySwitchSet_
  llHandler,         \* eventHandler_ is set: the runner's thread exists
  posted,          \* the task of the runner's queue: none, Execute or ExecuteInner
  runner,          \* the task the runner is at
  llCall,          \* the message the listener handles, and how far it is
  stopping,        \* ReleaseTimer holds timerMutex_ and joins the runner
  llMode,          \* what the scheduler was told last
  llMessages,
  closed           \* CloseLowLatency ran

llVars == <<listening, switchSet, llHandler, posted, runner, llCall, stopping, llMode,
            llMessages, closed>>

Idle == <<"none", "none">>

LlInit ==
  /\ listening = TRUE /\ switchSet = {}
  /\ llHandler = FALSE /\ posted = "none" /\ runner = "none"
  /\ llCall = Idle /\ stopping = FALSE /\ llMode = "normal"
  /\ llMessages = 0 /\ closed = FALSE

-----------------------------------------------------------------------------
\* PublishMessage and OnMessage: the listener is called with a type, to be
\* enabled or disabled; a message that cannot be parsed does nothing.
OnMessage(t, what) ==
  /\ listening /\ llCall = Idle /\ llMessages < LlMaxMessages
  /\ llMessages' = llMessages + 1
  /\ llCall' = <<what, t>>
  /\ UNCHANGED <<listening, switchSet, llHandler, posted, runner, stopping, llMode, closed>>

\* EnableLowLatency: StartTimer for the first type; InitTimer makes the runner
\* and waits for it.
EnableLowLatency(t) ==
  /\ llCall = <<"enable", t>>
  /\ IF switchSet = {} THEN llHandler' = TRUE /\ posted' = "Execute"
     ELSE UNCHANGED <<llHandler, posted>>
  /\ switchSet' = switchSet \cup {t}
  /\ llCall' = Idle
  /\ UNCHANGED <<listening, runner, stopping, llMode, llMessages, closed>>

\* DisableLowLatency: StopTimer when no type is left.
DisableLowLatency(t) ==
  /\ llCall = <<"disable", t>>
  /\ switchSet' = switchSet \ {t}
  /\ llCall' = IF switchSet \ {t} = {} THEN <<"release", t>> ELSE Idle
  /\ UNCHANGED <<listening, llHandler, posted, runner, stopping, llMode, llMessages, closed>>

\* ReleaseTimer takes timerMutex_, removes the task and stops the runner ...
ReleaseTimer ==
  /\ llCall[1] = "release" /\ ~stopping
  /\ stopping' = TRUE /\ posted' = "none"
  /\ UNCHANGED <<listening, switchSet, llHandler, runner, llCall, llMode, llMessages, closed>>

\* A plausible slip: the runner is not joined.
NotJoined == TRUE

\* ... and joins its thread, which ends after the task it is at.
Joined == runner = "none"

\* ReleaseTimer after the join, then HandleStopTimer.
StopTimer ==
  /\ stopping /\ Joined
  /\ llHandler' = FALSE /\ stopping' = FALSE
  /\ llMode' = "normal" /\ llCall' = Idle
  /\ UNCHANGED <<listening, switchSet, posted, runner, llMessages, closed>>

-----------------------------------------------------------------------------
\* The event runner.

RunnerTakes ==
  /\ llHandler /\ ~stopping /\ posted # "none" /\ runner = "none"
  /\ runner' = posted /\ posted' = "none"
  /\ UNCHANGED <<listening, switchSet, llHandler, llCall, stopping, llMode, llMessages, closed>>

\* Execute needs timerMutex_, which ReleaseTimer holds while it joins.
Execute ==
  /\ runner = "Execute" /\ ~stopping
  /\ posted' = "ExecuteInner" /\ runner' = "none"
  /\ UNCHANGED <<listening, switchSet, llHandler, llCall, stopping, llMode, llMessages, closed>>

ExecuteInner ==
  /\ runner = "ExecuteInner"
  /\ llMode' = "low" /\ runner' = "none"
  /\ UNCHANGED <<listening, switchSet, llHandler, posted, llCall, stopping, llMessages, closed>>

-----------------------------------------------------------------------------
\* ComponentManager::UnInit: the listener is removed, which waits for the
\* message being handled, then CloseLowLatency.
RemoveListener ==
  /\ listening /\ llCall = Idle
  /\ listening' = FALSE
  /\ UNCHANGED <<switchSet, llHandler, posted, runner, llCall, stopping, llMode, llMessages, closed>>

CloseLowLatency ==
  /\ ~listening /\ ~closed
  /\ closed' = TRUE /\ switchSet' = {} /\ llMode' = "normal"
  /\ UNCHANGED <<listening, llHandler, posted, runner, llCall, stopping, llMessages>>

LlNext ==
  \/ \E t \in LlTypes : \E what \in {"enable", "disable"} : OnMessage(t, what)
  \/ \E t \in LlTypes : EnableLowLatency(t) \/ DisableLowLatency(t)
  \/ ReleaseTimer \/ StopTimer \/ RunnerTakes \/ Execute \/ ExecuteInner
  \/ RemoveListener \/ CloseLowLatency

LlSpec == LlInit /\ [][LlNext]_llVars

-----------------------------------------------------------------------------
(* With no type left in lowLatencySwitchSet_ and no message being handled   *)
(* the scheduler was last told normal latency, and nothing is on its way    *)
(* that would tell it otherwise: ReleaseTimer joins the runner before       *)
(* HandleStopTimer reports.  (Not so after CloseLowLatency, which leaves    *)
(* the timer running.)                                                      *)
LlOffWhenUnused ==
  (switchSet = {} /\ llCall = Idle /\ ~closed) =>
    llMode = "normal" /\ posted = "none" /\ runner = "none"
=============================================================================

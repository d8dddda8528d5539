---------------------------- MODULE BusinessSync ----------------------------
(***************************************************************************)
(* ComponentManager::UpdateBusinessState: a camera and a microphone that   *)
(* run at the same time share a memory through which they synchronise.     *)
(* The components report their devices on threads of their own, and no     *)
(* lock protects syncSharedMem_: a thread that uses the pointer after      *)
(* another one cleared it ends the process.                                *)
(***************************************************************************)
EXTENDS Integers, FiniteSets

CONSTANTS BzMics, BzCams   \* hardware that reports its state

BzDevs == BzMics \cup BzCams
BzStates == {"IDLE", "RUNNING", "PAUSED"}
BzSubtypes == {"AUDIO_MIC", "CAMERA", "OTHER"}
SubtypeOf(d) == IF d \in BzMics THEN "AUDIO_MIC" ELSE "CAMERA"

VARIABLES
  bizStates,     \* dhBizStates_
  bzCall,        \* per device the call of UpdateBusinessState under way
  bzMem,         \* syncSharedMem_ is set
  bzMode,        \* the work mode a source handler was told for a device
  isAVsync,      \* workModeParam_.isAVsync
  guessed,       \* some call worked with a subtype that was never found
  crashed        \* the process ended

bzVars == <<bizStates, bzCall, bzMem, bzMode, isAVsync, guessed, crashed>>

NoCall == [at |-> "none", state |-> "IDLE", sub |-> "OTHER", target |-> {}]

BzInit ==
  /\ bizStates = [d \in BzDevs |-> "none"]
  /\ bzCall = [d \in BzDevs |-> NoCall]
  /\ bzMem = FALSE /\ bzMode = [d \in BzDevs |-> "none"] /\ isAVsync = FALSE
  /\ guessed = FALSE /\ crashed = FALSE

BzAt(d, where) == ~crashed /\ bzCall[d].at = where
Moved(d, where) == [bzCall EXCEPT ![d].at = where]
Ended(d) == [bzCall EXCEPT ![d] = NoCall]
BzGoto(d, where) == bzCall' = IF where = "none" THEN Ended(d) ELSE Moved(d, where)

\* GetDHSubtypeByDHId; a lookup that fails leaves the variable of the caller as
\* it was, which is uninitialised.
GetDHSubtypeByDHId(d, sub, ok) == sub \in (IF ok THEN {SubtypeOf(d)} ELSE BzSubtypes)

\* UpdateBusinessState: a report of the state a device is in already is treated
\* like any other.
UpdateBusinessState(d, state) ==
  /\ BzAt(d, "none")
  /\ bizStates' = [bizStates EXCEPT ![d] = state]
  /\ \E ok \in BOOLEAN, sub \in BzSubtypes :
       /\ GetDHSubtypeByDHId(d, sub, ok)
       /\ guessed' = (guessed \/ ~ok)
       /\ bzCall' = [bzCall EXCEPT ![d] = IF sub = "OTHER" THEN NoCall
                       ELSE [at |-> "look", state |-> state, sub |-> sub, target |-> {}]]
  /\ UNCHANGED <<bzMem, bzMode, isAVsync, crashed>>

TargetsOf(sub) ==
  {d \in BzDevs : bizStates[d] # "none"
                  /\ SubtypeOf(d) = (IF sub = "AUDIO_MIC" THEN "CAMERA" ELSE "AUDIO_MIC")}

\* GetDHIdByDHSubtype: a device of the other subtype, whatever its state; which
\* of several is the order of the map's keys.
GetDHIdByDHSubtype(d) ==
  /\ BzAt(d, "look")
  /\ LET all == TargetsOf(bzCall[d].sub)
         target == IF all = {} THEN {} ELSE {CHOOSE t \in all : TRUE}
         next == CASE bzCall[d].state = "IDLE" -> IF target = {} THEN "check" ELSE "idle"
                   [] bzCall[d].state = "RUNNING" /\ target # {} -> "query"
                   [] OTHER -> "none"
     IN  bzCall' = IF next = "none" THEN Ended(d)
                   ELSE [bzCall EXCEPT ![d].at = next, ![d].target = target]
  /\ UNCHANGED <<bizStates, bzMem, bzMode, isAVsync, guessed, crashed>>

Target(d) == CHOOSE t \in bzCall[d].target : TRUE

\* A plausible slip: without a handler of the target nothing is released.
NoHandlerReturns == "none"

\* Where HandleIdleStateChange goes when the target has no source handler.
NoHandler == "check"

\* HandleIdleStateChange: the target leaves synchronisation, then the memory is
\* released.
HandleIdleStateChange(d) ==
  /\ BzAt(d, "idle")
  /\ \/ /\ BzGoto(d, NoHandler)
        /\ UNCHANGED <<bzMode, isAVsync>>
     \/ /\ BzGoto(d, "check")
        /\ bzMode' = [bzMode EXCEPT ![Target(d)] = "plain"] /\ isAVsync' = FALSE
  /\ UNCHANGED <<bizStates, bzMem, guessed, crashed>>

\* HandleBusinessStateChange of a device that runs: the target must run too and
\* both need a source handler.
TargetReady(d) ==
  /\ BzAt(d, "query")
  /\ \/ BzGoto(d, "none")
     \/ bizStates[Target(d)] = "RUNNING" /\ BzGoto(d, "create")
  /\ UNCHANGED <<bizStates, bzMem, bzMode, isAVsync, guessed, crashed>>

\* InitAVSyncSharedMemory: create and map the memory, which may fail ...
CreateAshmem(d) ==
  /\ BzAt(d, "create")
  /\ \/ bzMem' = TRUE /\ BzGoto(d, "fill")
     \/ bzMem' \in BOOLEAN /\ BzGoto(d, "check")
  /\ UNCHANGED <<bizStates, bzMode, isAVsync, guessed, crashed>>

\* ... then use the pointer again, which another thread may have cleared.
WriteToAshmem(d) ==
  /\ BzAt(d, "fill")
  /\ \/ /\ bzMem /\ isAVsync' = TRUE
        /\ BzGoto(d, "tellTarget") \/ BzGoto(d, "check")
        /\ UNCHANGED crashed
     \/ /\ ~bzMem /\ crashed' = TRUE
        /\ UNCHANGED <<bzCall, isAVsync>>
  /\ UNCHANGED <<bizStates, bzMem, bzMode, guessed>>

\* UpdateDistributedHardwareWorkMode of the target, then of the device itself,
\* whose failure takes the target back.
TellTarget(d) ==
  /\ BzAt(d, "tellTarget")
  /\ \/ /\ bzMode' = [bzMode EXCEPT ![Target(d)] = IF isAVsync THEN "sync" ELSE "plain"]
        /\ BzGoto(d, "tellSource")
     \/ BzGoto(d, "check") /\ UNCHANGED bzMode
  /\ UNCHANGED <<bizStates, bzMem, isAVsync, guessed, crashed>>

TellSource(d) ==
  /\ BzAt(d, "tellSource")
  /\ \/ /\ bzMode' = [bzMode EXCEPT ![d] = IF isAVsync THEN "sync" ELSE "plain"]
        /\ BzGoto(d, "none")
     \/ BzGoto(d, "idle") /\ UNCHANGED bzMode
  /\ UNCHANGED <<bizStates, bzMem, isAVsync, guessed, crashed>>

\* DeinitAVSyncSharedMemory: test the pointer, use it, clear it.
DeinitTests(d) ==
  /\ BzAt(d, "check")
  /\ BzGoto(d, IF bzMem THEN "close" ELSE "none")
  /\ UNCHANGED <<bizStates, bzMem, bzMode, isAVsync, guessed, crashed>>

DeinitAVSyncSharedMemory(d) ==
  /\ BzAt(d, "close")
  /\ IF bzMem THEN bzMem' = FALSE /\ BzGoto(d, "none") /\ UNCHANGED crashed
     ELSE crashed' = TRUE /\ UNCHANGED <<bzMem, bzCall>>
  /\ UNCHANGED <<bizStates, bzMode, isAVsync, guessed>>

BzSteps(d) ==
  \/ \E state \in BzStates : UpdateBusinessState(d, state)
  \/ GetDHIdByDHSubtype(d) \/ HandleIdleStateChange(d) \/ TargetReady(d)
  \/ CreateAshmem(d) \/ WriteToAshmem(d) \/ TellTarget(d) \/ TellSource(d)
  \/ DeinitTests(d) \/ DeinitAVSyncSharedMemory(d)

BzNext == \E d \in BzDevs : BzSteps(d)

BzSpec == BzInit /\ [][BzNext]_bzVars

-----------------------------------------------------------------------------
(* When every device that ever reported is idle and no call is under way,   *)
(* the shared memory is released, however the calls of the devices          *)
(* interleaved and whichever of them failed half way: the last memory was   *)
(* made by a call of a device whose later IDLE call cleared the pointer.    *)
(* (Not so when a subtype lookup failed and the call worked with an         *)
(* uninitialised value.)                                                    *)
BzIdleFreesMemory ==
  (~crashed /\ ~guessed /\ \A d \in BzDevs : bzCall[d] = NoCall /\ bizStates[d] \in {"none", "IDLE"})
    => ~bzMem
=============================================================================

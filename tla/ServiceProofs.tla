---------------------------- MODULE ServiceProofs ----------------------------
(***************************************************************************)
(* Proofs about the parts of the service process, for any number of        *)
(* devices, clients, hardware types and profiles: each part has its own    *)
(* inductive invariant.                                                    *)
(***************************************************************************)
EXTENDS IpcWire, ComponentEnable, LowLatency, EnableParam, BusinessSync, ComponentLoad, HdfLoad, ResourceStore, ClientKit,
        FiniteSetTheorems, SequenceTheorems, TLAPS

-----------------------------------------------------------------------------
(* ComponentEnable                                                         *)

\* A success that waits to be read in status_ has been carried out too.
StatusIsDone == status = "ok" => done

\* An enable counts no request while the device is online or while its next
\* request is still to be made: Retry has checked the device before that one.
NoneCounted == operation = "enable" /\ (peerOnline \/ stage = "call") => after = 0

CallInv ==
    /\ TypeOK
    /\ StatusIsDone /\ SuccessIsDone
    /\ NoneCounted /\ AtMostOneRequestOffline

LEMMA CallInit == Init => CallInv
PROOF
<1> SUFFICES ASSUME Init PROVE CallInv
  OBVIOUS
<1>1. done \in BOOLEAN /\ peerOnline \in BOOLEAN
  BY Zenon DEF Init
<1>2. 1 \in Attempts
  BY RetryAssumption DEF Attempts
<1> QED BY <1>1, <1>2 DEF Init, CallInv, TypeOK, StatusIsDone, SuccessIsDone,
              NoneCounted, AtMostOneRequestOffline

LEMMA CallStep == CallInv /\ [Next]_vars => CallInv'
PROOF
<1> SUFFICES ASSUME CallInv, [Next]_vars PROVE CallInv'
  OBVIOUS
<1> USE RetryAssumption
        DEF CallInv, TypeOK, StatusIsDone, SuccessIsDone, NoneCounted, AtMostOneRequestOffline
<1>1. CASE CallDriver
  BY <1>1 DEF CallDriver
<1>2. CASE Config
  BY <1>2 DEF Config
<1>3. CASE WaitReturns
  BY <1>3 DEF WaitReturns
<1>4. CASE Timeout
  BY <1>4 DEF Timeout
<1>5. CASE Retry
  BY <1>5 DEF Retry, Attempts
<1>6. CASE GiveUp
  BY <1>6 DEF GiveUp
<1>7. CASE DeviceOffline
  <2>1. peerOnline' \in BOOLEAN
    BY <1>7, Zenon DEF DeviceOffline
  <2> QED BY <1>7, <2>1 DEF DeviceOffline
<1>8. ASSUME NEW a \in pending, OnResult(a) PROVE CallInv'
  <2>1. done' \in BOOLEAN
    BY <1>8, Zenon DEF OnResult
  <2>2. done => done'
    BY <1>8, Zenon DEF OnResult
  <2>3. status' \in {"ok", "err"} /\ (status' = "ok" => done')
    BY <1>8 DEF OnResult
  <2> QED BY <1>8, <2>1, <2>2, <2>3 DEF OnResult
<1>9. CASE UNCHANGED vars
  BY <1>9 DEF vars
<1> QED BY <1>1, <1>2, <1>3, <1>4, <1>5, <1>6, <1>7, <1>8, <1>9 DEF Next, Call

\* The state of the call keeps its type: in particular attempt never passes
\* RetryMax + 1.
THEOREM CallTypeCorrect == Spec => []TypeOK
PROOF
<1>1. CallInv => TypeOK
  BY DEF CallInv
<1> QED BY <1>1, CallInit, CallStep, PTL DEF Spec

\* A call that returns success has been carried out by the driver, whichever
\* attempt the answer belonged to.
THEOREM CallSuccessIsDone == Spec => []SuccessIsDone
PROOF
<1>1. CallInv => SuccessIsDone
  BY DEF CallInv
<1> QED BY <1>1, CallInit, CallStep, PTL DEF Spec

\* However many retries are configured, at most one request of Enable reaches
\* the driver after the device has gone offline.
THEOREM CallStopsOffline == Spec => []AtMostOneRequestOffline
PROOF
<1>1. CallInv => AtMostOneRequestOffline
  BY DEF CallInv
<1> QED BY <1>1, CallInit, CallStep, PTL DEF Spec

-----------------------------------------------------------------------------
(* LowLatency                                                              *)

LlTypeOK ==
  /\ listening \in BOOLEAN /\ switchSet \in SUBSET LlTypes
  /\ llHandler \in BOOLEAN
  /\ posted \in {"none", "Execute", "ExecuteInner"} /\ runner \in {"none", "Execute", "ExecuteInner"}
  /\ llCall \in {Idle} \cup ({"enable", "disable", "release"} \X LlTypes)
  /\ stopping \in BOOLEAN /\ llMode \in {"normal", "low"} /\ closed \in BOOLEAN

\* Outside a release of the timer an empty switch set means that nothing is
\* posted, nothing runs and the scheduler was told normal latency; and while
\* ReleaseTimer joins, nothing new is posted.
LlInv ==
  /\ LlTypeOK
  /\ stopping => llCall[1] = "release" /\ posted = "none"
  /\ (switchSet = {} /\ llCall[1] # "release" /\ ~closed) =>
       llMode = "normal" /\ posted = "none" /\ runner = "none"

LEMMA LlInvInit == LlInit => LlInv
PROOF
  BY DEF LlInit, LlInv, LlTypeOK, Idle

LEMMA LlInvStep == LlInv /\ [LlNext]_llVars => LlInv'
PROOF
<1> SUFFICES ASSUME LlInv, [LlNext]_llVars PROVE LlInv'
  OBVIOUS
<1> USE DEF LlInv, LlTypeOK, Idle
<1>1. ASSUME NEW t \in LlTypes, NEW what \in {"enable", "disable"}, OnMessage(t, what) PROVE LlInv'
  BY <1>1 DEF OnMessage
<1>2. ASSUME NEW t \in LlTypes, EnableLowLatency(t) PROVE LlInv'
  BY <1>2 DEF EnableLowLatency
<1>3. ASSUME NEW t \in LlTypes, DisableLowLatency(t) PROVE LlInv'
  BY <1>3 DEF DisableLowLatency
<1>4. CASE ReleaseTimer
  BY <1>4 DEF ReleaseTimer
<1>5. CASE StopTimer
  BY <1>5 DEF StopTimer, Joined
<1>6. CASE RunnerTakes
  BY <1>6 DEF RunnerTakes
<1>7. CASE Execute
  BY <1>7 DEF Execute
<1>8. CASE ExecuteInner
  BY <1>8 DEF ExecuteInner
<1>9. CASE RemoveListener
  BY <1>9 DEF RemoveListener
<1>10. CASE CloseLowLatency
  BY <1>10 DEF CloseLowLatency
<1>11. CASE UNCHANGED llVars
  BY <1>11 DEF llVars
<1> QED BY <1>1, <1>2, <1>3, <1>4, <1>5, <1>6, <1>7, <1>8, <1>9, <1>10, <1>11 DEF LlNext

\* Once no hardware type needs low latency any more the scheduler stays at
\* normal latency, for any number of types and messages.
THEOREM LowLatencyEnds == LlSpec => []LlOffWhenUnused
PROOF
<1>1. LlInv => LlOffWhenUnused
  BY DEF LlInv, LlTypeOK, LlOffWhenUnused, Idle
<1> QED BY <1>1, LlInvInit, LlInvStep, PTL DEF LlSpec

\* Low latency is there, or on its way: the runner's thread exists and nobody joins it,
\* and it has, or works on, one of the two tasks that end in telling the scheduler.
LlOnItsWay == llMode = "low" \/ (llHandler /\ ~stopping /\ (posted # "none" \/ runner # "none"))

LlComesWhenUsed == switchSet # {} => LlOnItsWay

\* A task has its runner, and while a type is in lowLatencySwitchSet_ no release runs.
LlUsedInv ==
  /\ LlInv /\ LlComesWhenUsed
  /\ posted # "none" \/ runner # "none" => llHandler
  /\ llCall[1] = "release" => switchSet = {}
  /\ closed => llCall = Idle /\ ~listening
  /\ ~listening => llCall = Idle

LEMMA LlUsedStep == LlUsedInv /\ [LlNext]_llVars => LlUsedInv'
PROOF
<1> SUFFICES ASSUME LlUsedInv, [LlNext]_llVars PROVE LlUsedInv'
  OBVIOUS
<1>0. LlInv'
  BY LlInvStep DEF LlUsedInv
<1> USE DEF LlUsedInv, LlInv, LlTypeOK, Idle, LlComesWhenUsed, LlOnItsWay
<1>1. ASSUME NEW t \in LlTypes, NEW what \in {"enable", "disable"}, OnMessage(t, what) PROVE LlUsedInv'
  BY <1>0, <1>1 DEF OnMessage
<1>2. ASSUME NEW t \in LlTypes, EnableLowLatency(t) PROVE LlUsedInv'
  BY <1>0, <1>2 DEF EnableLowLatency
<1>3. ASSUME NEW t \in LlTypes, DisableLowLatency(t) PROVE LlUsedInv'
  BY <1>0, <1>3 DEF DisableLowLatency
<1>4. CASE ReleaseTimer
  BY <1>0, <1>4 DEF ReleaseTimer
<1>5. CASE StopTimer
  BY <1>0, <1>5 DEF StopTimer, Joined
<1>6. CASE RunnerTakes
  BY <1>0, <1>6 DEF RunnerTakes
<1>7. CASE Execute
  BY <1>0, <1>7 DEF Execute
<1>8. CASE ExecuteInner
  BY <1>0, <1>8 DEF ExecuteInner
<1>9. CASE RemoveListener
  BY <1>0, <1>9 DEF RemoveListener
<1>10. CASE CloseLowLatency
  BY <1>0, <1>10 DEF CloseLowLatency
<1>11. CASE UNCHANGED llVars
  BY <1>0, <1>11 DEF llVars
<1> QED BY <1>1, <1>2, <1>3, <1>4, <1>5, <1>6, <1>7, <1>8, <1>9, <1>10, <1>11 DEF LlNext

\* As long as some hardware type needs low latency, the scheduler was told so last, or the
\* timer's runner is about to tell it and no ReleaseTimer is in its way.
THEOREM LowLatencyComes == LlSpec => []LlComesWhenUsed
PROOF
<1>1. LlInit => LlUsedInv
  BY LlInvInit DEF LlInit, LlUsedInv, LlComesWhenUsed, Idle
<1>2. LlUsedInv => LlComesWhenUsed
  BY DEF LlUsedInv
<1> QED BY <1>1, <1>2, LlUsedStep, PTL DEF LlSpec

-----------------------------------------------------------------------------
(* EnableParam                                                             *)

EpTypeOK ==
  /\ epSubtype \in EpSubtypes /\ epSameAccount \in BOOLEAN /\ epActive \in BOOLEAN /\ epOwnVersion \in BOOLEAN
  /\ epStore \in [Stores -> Int] /\ epGen \in Nat \ {0} /\ epOnline \in BOOLEAN
  /\ epPc \in {"idle", "cap", "capSource", "version", "metaVersion", "meta", "metaSource", "failed", "check"}
  /\ epFound \in Int
  /\ epParam \in [sourceVersion : BOOLEAN, sinkAttrs : Int, sinkVersion : Int, subtype : EpSubtypes \cup {"unset"}]
  /\ epResult \in {"none", "enabled", "refused"}

HalfFilled == epParam.sourceVersion /\ epParam.sinkAttrs # NoField

\* The subtype is set together with, or after, every other field; and a call
\* works on a record that it found.
EpInv ==
  /\ EpTypeOK
  /\ epPc \in {"capSource", "metaSource"} => epFound # 0
  /\ epPc \in {"version", "metaVersion"} => HalfFilled
  /\ epParam.subtype # "unset" => HalfFilled /\ epParam.sinkVersion # NoField /\ epParam.subtype = epSubtype
  /\ epResult # "none" => epPc = "idle"
  /\ epResult = "enabled" => epActive \/ CheckSubtypeResource

LEMMA EpInvInit == EpInit => EpInv
PROOF
<1> SUFFICES ASSUME EpInit PROVE EpInv
  OBVIOUS
<1>1. epStore \in [Stores -> Int]
  BY DEF EpInit
<1>2. epParam \in [sourceVersion : BOOLEAN, sinkAttrs : Int, sinkVersion : Int, subtype : EpSubtypes \cup {"unset"}]
      /\ epParam.subtype = "unset"
  BY DEF EpInit, NoParam, NoField
<1> QED BY <1>1, <1>2 DEF EpInit, EpInv, EpTypeOK

\* A change of the stores leaves the call and its parameters alone.
LEMMA EpStoreStep ==
  ASSUME EpInv, epStore' \in [Stores -> Int], epGen' \in Nat \ {0}, epOnline' \in BOOLEAN,
         UNCHANGED <<epFixed, epCallVars>>
  PROVE  EpInv'
PROOF
  BY DEF EpInv, EpTypeOK, HalfFilled, CheckSubtypeResource, AccountFits, epFixed, epCallVars

LEMMA EpInvStep == EpInv /\ [EpNext]_epVars => EpInv'
PROOF
<1> SUFFICES ASSUME EpInv, [EpNext]_epVars PROVE EpInv'
  OBVIOUS
<1> DEFINE Param == [sourceVersion : BOOLEAN, sinkAttrs : Int, sinkVersion : Int, subtype : EpSubtypes \cup {"unset"}]
<1>0. epStore \in [Stores -> Int] /\ epGen \in Nat \ {0} /\ epParam \in Param /\ epOnline \in BOOLEAN
  BY DEF EpInv, EpTypeOK
<1>1. ASSUME NEW s \in Stores, RecordArrives(s) PROVE EpInv'
  <2>1. epStore' \in [Stores -> Int]
    BY <1>0, <1>1 DEF RecordArrives
  <2> QED BY <1>0, <1>1, <2>1, EpStoreStep DEF RecordArrives
<1>2. CASE VersionArrives
  <2>1. PICK v \in {epGen, Blank} : epStore' = [epStore EXCEPT !["db"] = v, !["cache"] = v]
    BY <1>2 DEF VersionArrives
  <2>2. epStore' \in [Stores -> Int]
    BY <1>0, <2>1 DEF Blank, Stores
  <2> QED BY <1>0, <1>2, <2>2, EpStoreStep DEF VersionArrives
<1>3. CASE PeerUpgraded
  BY <1>0, <1>3, EpStoreStep DEF PeerUpgraded
<1>4. CASE PeerOffline
  <2>1. epStore' \in [Stores -> Int]
    BY <1>0, <1>4 DEF PeerOffline, Stores
  <2> QED BY <1>0, <1>4, <2>1, EpStoreStep DEF PeerOffline
<1> USE DEF EpInv, EpTypeOK, HalfFilled, NoField, CheckSubtypeResource, AccountFits, Goes, epFixed, epCallVars
<1>5. CASE EnableBegins
  BY <1>5 DEF EnableBegins
<1>6. CASE GetCapParam
  BY <1>6 DEF GetCapParam, Stores
<1>7. CASE SourceOfCap
  BY <1>7 DEF SourceOfCap
<1>8. CASE GetVersion
  <2>1. CASE VersionOfCache
    <3>1. epParam' = [epParam EXCEPT !.sinkVersion = epStore["cache"], !.subtype = epSubtype]
          /\ epStore["cache"] \in Int /\ epStore["cache"] # 0
      BY <1>0, <1>8, <2>1 DEF GetVersion, VersionOfCache, Stores
    <3>2. EpTypeOK'
      BY <1>8, <2>1, <3>1 DEF GetVersion
    <3> QED BY <1>8, <2>1, <3>1, <3>2 DEF GetVersion
  <2>2. CASE ~VersionOfCache /\ epStore["db"] # 0
    <3>1. epStore["db"] \in Int /\ epStore' \in [Stores -> Int]
      BY <1>0, <1>8, <2>2 DEF GetVersion, Stores
    <3>2. epParam' = [epParam EXCEPT !.sinkVersion = epStore["db"], !.subtype = epSubtype]
      BY <1>8, <2>2 DEF GetVersion
    <3>3. EpTypeOK'
      BY <1>8, <2>2, <3>1, <3>2 DEF GetVersion
    <3> QED BY <1>8, <2>2, <3>1, <3>2, <3>3 DEF GetVersion
  <2>3. CASE ~VersionOfCache /\ epStore["db"] = 0
    BY <1>8, <2>3 DEF GetVersion
  <2> QED BY <2>1, <2>2, <2>3
<1>9. CASE MetaVersion
  BY <1>9 DEF MetaVersion, Stores
<1>10. CASE GetMetaParam
  BY <1>10 DEF GetMetaParam, Stores
<1>11. CASE GetEnableMetaParam
  <2>1. CASE epOwnVersion
    <3>1. epParam' = [sourceVersion |-> TRUE, sinkAttrs |-> epFound, sinkVersion |-> epFound, subtype |-> epSubtype]
      BY <1>11, <2>1 DEF GetEnableMetaParam
    <3>2. epParam' \in Param
      BY <3>1
    <3> QED BY <1>11, <2>1, <3>1, <3>2 DEF GetEnableMetaParam
  <2>2. CASE ~epOwnVersion
    BY <1>11, <2>2 DEF GetEnableMetaParam
  <2> QED BY <2>1, <2>2
<1>12. CASE RetryGetEnableParam
  BY <1>12 DEF RetryGetEnableParam
<1>13. CASE EnableChecks
  BY <1>13 DEF EnableChecks
<1>14. CASE UNCHANGED epVars
  BY <1>14 DEF epVars
<1> QED BY <1>1, <1>2, <1>3, <1>4, <1>5, <1>6, <1>7, <1>8, <1>9, <1>10, <1>11, <1>12, <1>13, <1>14
     DEF EpNext, EpStoreSteps, EpCallSteps

\* A component is enabled only with complete parameters and for a fitting
\* account, whatever the stores do between the reads, for any number of retries
\* and of upgrades of the peer.
THEOREM EnableIsComplete == EpSpec => []EpEnabledComplete
PROOF
<1>1. EpInv => EpEnabledComplete
  BY DEF EpInv, EpTypeOK, HalfFilled, EpEnabledComplete, CheckSubtypeResource
<1> QED BY <1>1, EpInvInit, EpInvStep, PTL DEF EpSpec

-----------------------------------------------------------------------------
(* BusinessSync                                                            *)

BzWhere == {"none", "look", "idle", "check", "query", "create", "fill", "tellTarget", "tellSource", "close"}

BzTypeOK ==
  /\ bizStates \in [BzDevs -> BzStates \cup {"none"}]
  /\ bzCall \in [BzDevs -> [at : BzWhere, state : BzStates, sub : BzSubtypes, target : SUBSET BzDevs]]
  /\ bzMem \in BOOLEAN /\ guessed \in BOOLEAN /\ crashed \in BOOLEAN

\* A call handles the state its device has, and only a running device gets
\* as far as making the memory.
BzCallsInv ==
  \A d \in BzDevs :
    /\ bzCall[d].at # "none" => bizStates[d] = bzCall[d].state
    /\ bzCall[d].at \in {"query", "create", "fill", "tellTarget", "tellSource"} => bzCall[d].state = "RUNNING"

\* The device will still release the memory: it is in use, or its IDLE call has
\* not come past the test of the pointer.
WillRelease(d) ==
  \/ bizStates[d] \in {"RUNNING", "PAUSED"}
  \/ bizStates[d] = "IDLE" /\ bzCall[d].at \in {"look", "idle", "check", "close"}

BzInv ==
  /\ BzTypeOK /\ BzCallsInv
  /\ (~crashed /\ ~guessed /\ bzMem) => \E d \in BzDevs : WillRelease(d)

LEMMA BzInvInit == BzInit => BzInv
PROOF
<1>1. NoCall \in [at : BzWhere, state : BzStates, sub : BzSubtypes, target : SUBSET BzDevs] /\ NoCall.at = "none"
  BY DEF NoCall, BzWhere, BzStates, BzSubtypes
<1> QED BY <1>1 DEF BzInit, BzInv, BzTypeOK, BzCallsInv

\* What every step of device d keeps: the states and calls of the others.
LEMMA BzMoves ==
  ASSUME BzTypeOK, NEW d \in BzDevs, NEW where \in BzWhere, BzGoto(d, where)
  PROVE  /\ bzCall' \in [BzDevs -> [at : BzWhere, state : BzStates, sub : BzSubtypes, target : SUBSET BzDevs]]
         /\ bzCall'[d].at = where
         /\ where # "none" => bzCall'[d].state = bzCall[d].state
         /\ \A e \in BzDevs \ {d} : bzCall'[e] = bzCall[e]
PROOF
  BY DEF BzTypeOK, BzGoto, Ended, Moved, NoCall, BzWhere, BzStates, BzSubtypes

\* A step that moves the call of d, leaves all states and the memory, and does
\* not end an idle call while the memory is there.
LEMMA BzMoveKeeps ==
  ASSUME BzInv, NEW d \in BzDevs, NEW where \in BzWhere, BzGoto(d, where),
         UNCHANGED <<bizStates, bzMem, guessed, crashed>>,
         bzCall[d].at # "none",
         where \in {"query", "create", "fill", "tellTarget", "tellSource"} => bzCall[d].state = "RUNNING",
         bzMem /\ bzCall[d].state = "IDLE" => where \in {"look", "idle", "check", "close"}
  PROVE  BzInv'
PROOF
<1>1. BzTypeOK' /\ BzCallsInv'
  BY BzMoves DEF BzInv, BzTypeOK, BzCallsInv
<1>2. ASSUME ~crashed', ~guessed', bzMem' PROVE \E e \in BzDevs : WillRelease(e)'
  <2>1. PICK e \in BzDevs : WillRelease(e)
    BY <1>2 DEF BzInv
  <2>2. CASE e # d
    BY <2>1, <2>2, BzMoves DEF BzInv, WillRelease
  <2>3. CASE e = d
    BY <1>2, <2>1, <2>3, BzMoves DEF BzInv, BzCallsInv, WillRelease
  <2> QED BY <2>2, <2>3
<1> QED BY <1>1, <1>2 DEF BzInv

LEMMA BzInvStep == BzInv /\ [BzNext]_bzVars => BzInv'
PROOF
<1> SUFFICES ASSUME BzInv, [BzNext]_bzVars PROVE BzInv'
  OBVIOUS
<1>0. BzTypeOK /\ BzCallsInv
  BY DEF BzInv
<1>1. ASSUME NEW d \in BzDevs, NEW state \in BzStates, UpdateBusinessState(d, state) PROVE BzInv'
  <2>1. PICK ok \in BOOLEAN, sub \in BzSubtypes :
          /\ GetDHSubtypeByDHId(d, sub, ok) /\ guessed' = (guessed \/ ~ok)
          /\ bzCall' = [bzCall EXCEPT ![d] = IF sub = "OTHER" THEN NoCall
                          ELSE [at |-> "look", state |-> state, sub |-> sub, target |-> {}]]
    BY <1>1 DEF UpdateBusinessState
  <2>2. bizStates' = [bizStates EXCEPT ![d] = state] /\ UNCHANGED <<bzMem, crashed>>
    BY <1>1 DEF UpdateBusinessState
  <2>3. BzTypeOK'
    BY <1>0, <2>1, <2>2 DEF BzTypeOK, NoCall, BzWhere, BzStates, BzSubtypes
  <2>4. BzCallsInv'
    BY <1>0, <2>1, <2>2 DEF BzTypeOK, BzCallsInv, NoCall
  <2>5. ASSUME ~crashed', ~guessed', bzMem' PROVE \E e \in BzDevs : WillRelease(e)'
    <3>1. ok /\ sub # "OTHER"
      BY <2>1, <2>5 DEF GetDHSubtypeByDHId, SubtypeOf
    <3>2. WillRelease(d)'
      BY <1>0, <2>1, <2>2, <3>1 DEF WillRelease, BzTypeOK, BzStates
    <3> QED BY <3>2
  <2> QED BY <2>3, <2>4, <2>5 DEF BzInv
<1>2. ASSUME NEW d \in BzDevs, GetDHIdByDHSubtype(d) PROVE BzInv'
  <2> DEFINE all == TargetsOf(bzCall[d].sub)
             target == IF all = {} THEN {} ELSE {CHOOSE t \in all : TRUE}
             next == CASE bzCall[d].state = "IDLE" -> IF target = {} THEN "check" ELSE "idle"
                       [] bzCall[d].state = "RUNNING" /\ target # {} -> "query"
                       [] OTHER -> "none"
  <2>1. /\ bzCall[d].at = "look" /\ UNCHANGED <<bizStates, bzMem, guessed, crashed>>
        /\ bzCall' = IF next = "none" THEN Ended(d) ELSE [bzCall EXCEPT ![d].at = next, ![d].target = target]
    BY <1>2 DEF GetDHIdByDHSubtype, BzAt
  <2>2. target \in SUBSET BzDevs
    BY DEF TargetsOf
  <2>3. /\ next \in BzWhere
        /\ bzCall[d].state = "IDLE" => next \in {"check", "idle"}
        /\ next = "query" => bzCall[d].state = "RUNNING"
        /\ next \in {"check", "idle", "query", "none"}
    BY DEF BzWhere
  <2> HIDE DEF target, next
  <2>4. /\ bzCall' \in [BzDevs -> [at : BzWhere, state : BzStates, sub : BzSubtypes, target : SUBSET BzDevs]]
        /\ bzCall'[d].at = next
        /\ next # "none" => bzCall'[d].state = bzCall[d].state
        /\ \A e \in BzDevs \ {d} : bzCall'[e] = bzCall[e]
    <3>1. CASE next = "none"
      BY <1>0, <2>1, <3>1 DEF BzTypeOK, Ended, NoCall, BzWhere, BzStates, BzSubtypes
    <3>2. CASE next # "none"
      <4> DEFINE one == [bzCall[d] EXCEPT !.at = next, !.target = target]
      <4>1. bzCall' = [bzCall EXCEPT ![d] = one]
        BY <2>1, <3>2
      <4>2. /\ one \in [at : BzWhere, state : BzStates, sub : BzSubtypes, target : SUBSET BzDevs]
            /\ one.at = next /\ one.state = bzCall[d].state
        <5>1. bzCall[d] \in [at : BzWhere, state : BzStates, sub : BzSubtypes, target : SUBSET BzDevs]
          BY <1>0 DEF BzTypeOK
        <5>2. next \in BzWhere /\ target \in SUBSET BzDevs
          BY <2>2, <2>3
        <5> QED BY <5>1, <5>2
      <4> HIDE DEF one
      <4> QED BY <1>0, <4>1, <4>2 DEF BzTypeOK
    <3> QED BY <3>1, <3>2
  <2>5. BzTypeOK' /\ BzCallsInv'
    BY <1>0, <2>1, <2>3, <2>4 DEF BzTypeOK, BzCallsInv
  <2>6. ASSUME ~crashed', ~guessed', bzMem' PROVE \E e \in BzDevs : WillRelease(e)'
    <3>1. PICK e \in BzDevs : WillRelease(e)
      BY <2>1, <2>6 DEF BzInv
    <3>2. WillRelease(e)'
      BY <1>0, <2>1, <2>3, <2>4, <3>1 DEF BzCallsInv, WillRelease
    <3> QED BY <3>2
  <2> QED BY <2>5, <2>6 DEF BzInv
<1>3. ASSUME NEW d \in BzDevs, HandleIdleStateChange(d) PROVE BzInv'
  <2>1. BzGoto(d, "check") /\ bzCall[d].at = "idle" /\ UNCHANGED <<bizStates, bzMem, guessed, crashed>>
    BY <1>3 DEF HandleIdleStateChange, NoHandler, BzAt
  <2> QED BY <2>1, BzMoveKeeps DEF BzWhere
<1>4. ASSUME NEW d \in BzDevs, TargetReady(d) PROVE BzInv'
  <2>1. PICK where \in {"none", "create"} : BzGoto(d, where)
    BY <1>4 DEF TargetReady
  <2>2. bzCall[d].at = "query" /\ UNCHANGED <<bizStates, bzMem, guessed, crashed>>
    BY <1>4 DEF TargetReady, BzAt
  <2> QED BY <1>0, <2>1, <2>2, BzMoveKeeps DEF BzWhere, BzCallsInv
<1>5. ASSUME NEW d \in BzDevs, CreateAshmem(d) PROVE BzInv'
  <2>1. PICK where \in {"fill", "check"} : BzGoto(d, where)
    BY <1>5 DEF CreateAshmem
  <2>2. /\ bzCall[d].at = "create" /\ bzCall[d].state = "RUNNING" /\ bizStates[d] = "RUNNING"
        /\ bzMem' \in BOOLEAN /\ UNCHANGED <<bizStates, guessed, crashed>>
    BY <1>0, <1>5 DEF CreateAshmem, BzAt, BzCallsInv
  <2>3. BzTypeOK' /\ BzCallsInv'
    BY <1>0, <2>1, <2>2, BzMoves DEF BzTypeOK, BzCallsInv, BzWhere
  <2>4. WillRelease(d)'
    BY <2>2 DEF WillRelease
  <2> QED BY <2>3, <2>4 DEF BzInv
<1>6. ASSUME NEW d \in BzDevs, WriteToAshmem(d) PROVE BzInv'
  <2>1. CASE bzMem
    <3>1. PICK where \in {"tellTarget", "check"} : BzGoto(d, where)
      BY <1>6, <2>1 DEF WriteToAshmem
    <3>2. bzCall[d].at = "fill" /\ UNCHANGED <<bizStates, bzMem, guessed, crashed>>
      BY <1>6, <2>1 DEF WriteToAshmem, BzAt
    <3> QED BY <1>0, <3>1, <3>2, BzMoveKeeps DEF BzWhere, BzCallsInv
  <2>2. CASE ~bzMem
    BY <1>0, <1>6, <2>2 DEF WriteToAshmem, BzInv, BzTypeOK, BzCallsInv
  <2> QED BY <2>1, <2>2
<1>7. ASSUME NEW d \in BzDevs, TellTarget(d) PROVE BzInv'
  <2>1. PICK where \in {"tellSource", "check"} : BzGoto(d, where)
    BY <1>7 DEF TellTarget
  <2>2. bzCall[d].at = "tellTarget" /\ UNCHANGED <<bizStates, bzMem, guessed, crashed>>
    BY <1>7 DEF TellTarget, BzAt
  <2> QED BY <1>0, <2>1, <2>2, BzMoveKeeps DEF BzWhere, BzCallsInv
<1>8. ASSUME NEW d \in BzDevs, TellSource(d) PROVE BzInv'
  <2>1. PICK where \in {"none", "idle"} : BzGoto(d, where)
    BY <1>8 DEF TellSource
  <2>2. bzCall[d].at = "tellSource" /\ UNCHANGED <<bizStates, bzMem, guessed, crashed>>
    BY <1>8 DEF TellSource, BzAt
  <2> QED BY <1>0, <2>1, <2>2, BzMoveKeeps DEF BzWhere, BzCallsInv
<1>9. ASSUME NEW d \in BzDevs, DeinitTests(d) PROVE BzInv'
  <2>1. PICK where \in BzWhere : where = (IF bzMem THEN "close" ELSE "none") /\ BzGoto(d, where)
    BY <1>9 DEF DeinitTests, BzWhere
  <2>2. bzCall[d].at = "check" /\ UNCHANGED <<bizStates, bzMem, guessed, crashed>>
    BY <1>9 DEF DeinitTests, BzAt
  <2> QED BY <2>1, <2>2, BzMoveKeeps
<1>10. ASSUME NEW d \in BzDevs, DeinitAVSyncSharedMemory(d) PROVE BzInv'
  <2>1. CASE bzMem
    <3>1. BzGoto(d, "none") /\ bzMem' = FALSE /\ UNCHANGED <<bizStates, guessed, crashed>>
      BY <1>10, <2>1 DEF DeinitAVSyncSharedMemory
    <3>2. "none" \in BzWhere
      BY DEF BzWhere
    <3>3. /\ bzCall' \in [BzDevs -> [at : BzWhere, state : BzStates, sub : BzSubtypes, target : SUBSET BzDevs]]
          /\ bzCall'[d].at = "none" /\ \A e \in BzDevs \ {d} : bzCall'[e] = bzCall[e]
      BY <1>0, <3>1, <3>2, BzMoves
    <3>4. BzTypeOK'
      BY <1>0, <3>1, <3>3 DEF BzTypeOK
    <3>5. BzCallsInv'
      BY <1>0, <3>1, <3>3 DEF BzCallsInv
    <3> QED BY <3>1, <3>4, <3>5 DEF BzInv
  <2>2. CASE ~bzMem
    BY <1>0, <1>10, <2>2 DEF DeinitAVSyncSharedMemory, BzInv, BzTypeOK, BzCallsInv
  <2> QED BY <2>1, <2>2
<1>11. CASE UNCHANGED bzVars
  BY <1>11 DEF bzVars, BzInv, BzTypeOK, BzCallsInv, WillRelease
<1> QED BY <1>1, <1>2, <1>3, <1>4, <1>5, <1>6, <1>7, <1>8, <1>9, <1>10, <1>11 DEF BzNext, BzSteps

\* Idle devices hold no shared memory, for any number of microphones and
\* cameras whose calls interleave in any way.
THEOREM IdleFreesMemory == BzSpec => []BzIdleFreesMemory
PROOF
<1>1. BzInv => BzIdleFreesMemory
  BY DEF BzInv, BzTypeOK, WillRelease, BzIdleFreesMemory, NoCall
<1> QED BY <1>1, BzInvInit, BzInvStep, PTL DEF BzSpec

-----------------------------------------------------------------------------
(* ComponentLoad                                                           *)

\* A version that was parsed is the profile's and is stored unless AddVersion
\* failed; before the first parse nothing is supported; a release under way is
\* of a type that has a version.
LdInv ==
  /\ comp = [t \in LdTypes |-> comp[t]]
  /\ \A t \in LdTypes : comp[t] # NoComp => t \in version
  /\ rel \in SUBSET (LdTypes \X LdKinds) /\ \A r \in rel : r[1] \in version
  /\ versionInit \in BOOLEAN
  /\ IF versionInit THEN version = WithAudio(file.types) /\ (stored = version \/ (stored = {} /\ addFailed))
     ELSE version = {} /\ stored = {}

LEMMA LdInvInit == LdInit => LdInv
PROOF
  BY DEF LdInit, LdInv, NoComp

LEMMA LdInvStep == LdInv /\ [LdNext]_ldVars => LdInv'
PROOF
<1> SUFFICES ASSUME LdInv, [LdNext]_ldVars PROVE LdInv'
  OBVIOUS
<1>1. ASSUME file' = file PROVE (WithAudio(file.types))' = WithAudio(file.types)
  BY <1>1 DEF WithAudio, AudioNeeded, AnyRoleEnabled
<1>2. CASE LocalInit /\ UNCHANGED file
  <2>1. CASE UNCHANGED <<comp, version, versionInit>>
    BY <1>1, <1>2, <2>1 DEF LdInv, LocalInit, LoaderInit, StoreLocalDHVersionInDB
  <2>2. CASE /\ comp' = [t \in LdTypes |-> IF t \in WithAudio(file.types) THEN <<{}>> ELSE comp[t]]
             /\ version' = ParsedVersion /\ versionInit' = TRUE
    <3>1. ParsedVersion = WithAudio(file.types)
      BY DEF LdInv, ParsedVersion, WithAudio
    <3>2. version' = WithAudio(file.types) /\ rel' = rel /\ (stored' = version' \/ (stored' = stored /\ addFailed'))
      BY <1>2, <2>2, <3>1 DEF LocalInit, LoaderInit, StoreLocalDHVersionInDB
    <3>3. version \subseteq version' /\ (stored = version' \/ stored = {})
      BY <3>2 DEF LdInv
    <3> QED BY <1>1, <1>2, <2>2, <3>1, <3>2, <3>3 DEF LdInv
  <2> QED BY <1>2, <2>1, <2>2 DEF LocalInit, LoaderInit, ParseConfig
<1>3. CASE UnInit /\ UNCHANGED file
  BY <1>1, <1>3 DEF LdInv, UnInit
<1>4. ASSUME NEW t \in LdTypes, NEW k \in LdKinds, GetHandle(t, k) \/ LoadHandle(t, k), UNCHANGED file PROVE LdInv'
  <2>1. /\ comp[t] # NoComp /\ UNCHANGED <<version, versionInit, stored, addFailed, rel>>
        /\ \/ UNCHANGED comp
           \/ \E libs : comp' = [comp EXCEPT ![t] = libs]
    BY <1>4 DEF GetHandle, LoadHandle, Open, Close
  <2> QED BY <1>1, <1>4, <2>1 DEF LdInv
<1>5. ASSUME NEW t \in LdTypes, NEW k \in LdKinds, ReleaseChecked(t, k), UNCHANGED file PROVE LdInv'
  BY <1>1, <1>5 DEF LdInv, ReleaseChecked, Loaded
<1>6. ASSUME NEW t \in LdTypes, NEW k \in LdKinds, ReleaseHandle(t, k), UNCHANGED file PROVE LdInv'
  <2>1. t \in version
    BY <1>6 DEF LdInv, ReleaseHandle
  <2> QED BY <1>1, <1>6, <2>1 DEF LdInv, ReleaseHandle
<1>7. CASE UNCHANGED ldVars
  BY <1>1, <1>7 DEF LdInv, ldVars
<1> QED BY <1>2, <1>3, <1>4, <1>5, <1>6, <1>7 DEF LdNext

\* What the loader supports has a version, which is the profile's and is in the
\* stored record unless the last write of it failed, for any profile, any types
\* and any kinds of libraries.
THEOREM SupportedIsVersioned == LdSpec => []LdSupportedIsVersioned
PROOF
<1>1. LdInv => LdSupportedIsVersioned
  BY DEF LdInv, LdSupportedIsVersioned
<1> QED BY <1>1, LdInvInit, LdInvStep, PTL DEF LdSpec

-----------------------------------------------------------------------------
(* HdfLoad                                                                 *)

LoadPcs == {"lfind", "load", "count", "watch"}
UnloadPcs == {"ufind", "unload", "erase"}
JobPcs == LoadPcs \cup UnloadPcs \cup {"none", "held", "unwatch"}

\* A job is a record of the four fields.
JobOK(j) ==
  /\ j = [pc |-> j.pc, type |-> j.type, op |-> j.op, end |-> j.end]
  /\ j.pc \in JobPcs /\ j.end \in {"none", "unwatch", "fail"}

\* What the client process believes while its call is the job j.
Believes(j) ==
  IF j.pc = "none" THEN "idle" ELSE IF j.pc = "held" THEN "held"
  ELSE IF j.pc \in UnloadPcs \cup {"unwatch"} /\ j.end = "unwatch" THEN "leaving" ELSE "loading"

HdfTypeOK ==
  /\ client \in [HdfClients -> {"idle", "loading", "held", "leaving", "dead"}]
  /\ watched \in SUBSET HdfClients
  /\ inuse \in Int /\ doubled \in BOOLEAN /\ exited \in BOOLEAN
  /\ job = [s \in HdfSlots |-> job[s]] /\ \A s \in HdfSlots : JobOK(job[s])

\* A living client believes what its call has reached, and is watched exactly
\* while it holds a driver or gives it back; only the dead have an obituary.
ClientInv(c) ==
  LET j == job[<<c, "call">>] o == job[<<c, "obit">>] IN
  /\ client[c] # "dead" => client[c] = Believes(j) /\ (c \in watched <=> Believes(j) \in {"held", "leaving"})
  /\ client[c] = "dead" => j.pc # "held"
  /\ j.pc = "unwatch" => j.end = "unwatch"
  /\ j.pc \in UnloadPcs => j.end # "none"
  /\ o.pc # "none" => client[c] = "dead" /\ o.pc \in UnloadPcs /\ o.end = "none"

ClientsInv == \A c \in HdfClients : ClientInv(c)

\* The jobs whose use hdfInuseRefCount_ has counted and not yet given back.
OwedPcs == {"watch", "held"} \cup UnloadPcs
HdfOwed == {s \in HdfSlots : job[s].pc \in OwedPcs}

HdfCountInv ==
  ~doubled => Cardinality(HdfOwed) <= inuse /\ (exited => HdfHolders = {})

HdfInv == HdfTypeOK /\ ClientsInv /\ HdfCountInv

LEMMA SlotsFinite == IsFiniteSet(HdfSlots)
PROOF
<1>1. IsFiniteSet({"call", "obit"})
  <2>1. IsFiniteSet({"call"})
    BY FS_Singleton
  <2>2. IsFiniteSet({"call"} \cup {"obit"})
    BY <2>1, FS_AddElement
  <2>3. {"call", "obit"} = {"call"} \cup {"obit"}
    OBVIOUS
  <2> QED BY <2>2, <2>3
<1> QED BY <1>1, FS_Product, HdfClientsFinite DEF HdfSlots

LEMMA OwedFinite == IsFiniteSet(HdfOwed) /\ Cardinality(HdfOwed) \in Nat
PROOF
<1>1. HdfOwed \in SUBSET HdfSlots
  BY DEF HdfOwed
<1> QED BY <1>1, SlotsFinite, FS_Subset, FS_CardinalityType

\* Every holder is owed a use.
LEMMA HoldersOwed ==
  ASSUME HdfInv
  PROVE  Cardinality(HdfHolders) <= Cardinality(HdfOwed) /\ (HdfOwed = {} => HdfHolders = {})
PROOF
<1> DEFINE f == [c \in HdfHolders |-> <<c, "call">>]
<1>1. \A c \in HdfHolders : <<c, "call">> \in HdfOwed
  BY DEF HdfInv, HdfTypeOK, ClientsInv, ClientInv, HdfHolders, HdfOwed, OwedPcs, Believes, HdfSlots
<1>2. f \in Injection(HdfHolders, HdfOwed)
  BY <1>1 DEF Injection, IsInjective
<1> HIDE DEF f
<1> QED BY <1>1, <1>2, OwedFinite, FS_Injection

\* What a step does that gives slot s the job j.
LEMMA SlotSet ==
  ASSUME HdfTypeOK, NEW s \in HdfSlots, NEW j, JobOK(j), job' = [job EXCEPT ![s] = j]
  PROVE  /\ job' = [r \in HdfSlots |-> job'[r]] /\ \A r \in HdfSlots : JobOK(job'[r])
         /\ job'[s] = j /\ \A r \in HdfSlots \ {s} : job'[r] = job[r]
PROOF
  BY DEF HdfTypeOK

\* Slot s may hold job j while its client believes b and w are watched.
SlotOK(s, j, b, w) ==
  /\ s[2] = "call" =>
       /\ b # "dead" => b = Believes(j) /\ (ClientOf(s) \in w <=> Believes(j) \in {"held", "leaving"})
       /\ b = "dead" => j.pc # "held"
       /\ j.pc = "unwatch" => j.end = "unwatch"
       /\ j.pc \in UnloadPcs => j.end # "none"
  /\ s[2] = "obit" => b = "dead" /\ (j.pc = "none" \/ (j.pc \in UnloadPcs /\ j.end = "none"))

\* A step of slot s keeps the clients' invariant if it does so for its client.
LEMMA ClientsSlotStep ==
  ASSUME HdfInv, NEW s \in HdfSlots, NEW j, JobOK(j), job' = [job EXCEPT ![s] = j],
         NEW believes, client' = [client EXCEPT ![ClientOf(s)] = believes],
         watched' = watched \/ watched' = watched \cup {ClientOf(s)} \/ watched' = watched \ {ClientOf(s)},
         believes \in {"idle", "loading", "held", "leaving", "dead"},
         believes = "dead" <=> client[ClientOf(s)] = "dead",
         SlotOK(s, j, believes, watched'),
         UNCHANGED <<doubled, exited>>, inuse' \in Int
  PROVE  HdfTypeOK' /\ ClientsInv'
PROOF
<1>1. HdfTypeOK'
  BY SlotSet DEF HdfInv, HdfTypeOK, ClientOf, HdfSlots
<1>2. ASSUME NEW c \in HdfClients, c # ClientOf(s)
      PROVE  /\ job'[<<c, "call">>] = job[<<c, "call">>] /\ job'[<<c, "obit">>] = job[<<c, "obit">>]
             /\ client'[c] = client[c] /\ (c \in watched' <=> c \in watched)
  BY <1>2, SlotSet DEF HdfInv, HdfTypeOK, ClientOf, HdfSlots
<1>3. ClientOf(s) \in HdfClients /\ s = <<ClientOf(s), s[2]>> /\ s[2] \in {"call", "obit"}
      /\ client'[ClientOf(s)] = believes /\ job'[s] = j
  BY SlotSet DEF HdfInv, HdfTypeOK, ClientOf, HdfSlots
<1>4. CASE s[2] = "call"
  <2>1. job'[<<ClientOf(s), "obit">>] = job[<<ClientOf(s), "obit">>]
    BY <1>3, <1>4, SlotSet DEF HdfSlots, HdfInv
  <2> QED BY <1>1, <1>2, <1>3, <1>4, <2>1 DEF HdfInv, ClientsInv, ClientInv, SlotOK
<1>5. CASE s[2] = "obit"
  <2>1. job'[<<ClientOf(s), "call">>] = job[<<ClientOf(s), "call">>]
    BY <1>3, <1>5, SlotSet DEF HdfSlots, HdfInv
  <2> QED BY <1>1, <1>2, <1>3, <1>5, <2>1 DEF HdfInv, ClientsInv, ClientInv, SlotOK
<1> QED BY <1>3, <1>4, <1>5

\* A step of slot s that leaves the count alone takes no use, one that counts
\* up may take one, and one that counts down gives one back.
LEMMA CountSlotStep ==
  ASSUME HdfInv, ~exited, NEW s \in HdfSlots, NEW j, JobOK(j), job' = [job EXCEPT ![s] = j],
         UNCHANGED <<doubled, exited>>,
         \/ inuse' = inuse /\ (j.pc \in OwedPcs => job[s].pc \in OwedPcs)
         \/ inuse' = inuse + 1
         \/ inuse' = inuse - 1 /\ job[s].pc \in OwedPcs /\ j.pc \notin OwedPcs
  PROVE  HdfCountInv'
PROOF
<1>1. IsFiniteSet(HdfOwed) /\ Cardinality(HdfOwed) \in Nat /\ inuse \in Int
  BY OwedFinite DEF HdfInv, HdfTypeOK
<1>2. \A r \in HdfSlots : job'[r] = IF r = s THEN j ELSE job[r]
  BY SlotSet DEF HdfInv
<1>3. HdfOwed' = IF j.pc \in OwedPcs THEN HdfOwed \cup {s} ELSE HdfOwed \ {s}
  BY <1>2 DEF HdfOwed
<1>4. doubled \/ Cardinality(HdfOwed) <= inuse
  BY DEF HdfInv, HdfCountInv
<1>5. doubled \/ Cardinality(HdfOwed') <= inuse'
  <2>1. CASE inuse' = inuse /\ (j.pc \in OwedPcs => job[s].pc \in OwedPcs)
    <3>1. HdfOwed' \in SUBSET HdfOwed
      BY <1>3, <2>1 DEF HdfOwed
    <3>2. Cardinality(HdfOwed') \in Nat /\ Cardinality(HdfOwed') <= Cardinality(HdfOwed)
      BY <1>1, <3>1, FS_Subset, FS_CardinalityType
    <3> QED BY <1>1, <1>4, <2>1, <3>2
  <2>2. CASE inuse' = inuse + 1
    <3>1. HdfOwed' \in SUBSET (HdfOwed \cup {s})
      BY <1>3
    <3>2. IsFiniteSet(HdfOwed \cup {s}) /\ Cardinality(HdfOwed \cup {s}) \in Nat
          /\ Cardinality(HdfOwed \cup {s}) <= Cardinality(HdfOwed) + 1
      <4>1. IsFiniteSet(HdfOwed \cup {s})
            /\ (Cardinality(HdfOwed \cup {s}) = Cardinality(HdfOwed) \/ Cardinality(HdfOwed \cup {s}) = Cardinality(HdfOwed) + 1)
        BY <1>1, FS_AddElement
      <4> QED BY <1>1, <4>1
    <3>3. Cardinality(HdfOwed') \in Nat /\ Cardinality(HdfOwed') <= Cardinality(HdfOwed \cup {s})
      BY <3>1, <3>2, FS_Subset, FS_CardinalityType
    <3> QED BY <1>1, <1>4, <2>2, <3>2, <3>3
  <2>3. CASE inuse' = inuse - 1 /\ job[s].pc \in OwedPcs /\ j.pc \notin OwedPcs
    <3>1. s \in HdfOwed /\ HdfOwed' = HdfOwed \ {s}
      BY <1>3, <2>3 DEF HdfOwed
    <3>2. Cardinality(HdfOwed') = Cardinality(HdfOwed) - 1
      BY <1>1, <3>1, FS_RemoveElement
    <3> QED BY <1>1, <1>4, <2>3, <3>2
  <2> QED BY <2>1, <2>2, <2>3
<1> QED BY <1>5 DEF HdfCountInv

LEMMA HdfInvInit == HdfInit => HdfInv
PROOF
<1> SUFFICES ASSUME HdfInit PROVE HdfInv
  OBVIOUS
<1>1. \A s \in HdfSlots : job[s] = NoJob
  BY DEF HdfInit
<1>2. HdfTypeOK
  <2>1. JobOK(NoJob)
    BY DEF JobOK, JobPcs, NoJob
  <2>2. job = [s \in HdfSlots |-> job[s]]
    BY DEF HdfInit
  <2>3. client \in [HdfClients -> {"idle", "loading", "held", "leaving", "dead"}]
    BY DEF HdfInit
  <2>4. watched = {} /\ inuse = 0 /\ doubled = FALSE /\ exited = FALSE
    BY DEF HdfInit
  <2>5. \A s \in HdfSlots : JobOK(job[s])
    BY <1>1, <2>1
  <2>6. inuse \in Int /\ watched \in SUBSET HdfClients
    BY <2>4
  <2>7. doubled \in BOOLEAN /\ exited \in BOOLEAN
    BY <2>4, Zenon
  <2> QED BY <2>2, <2>3, <2>5, <2>6, <2>7 DEF HdfTypeOK
<1>3. ClientsInv
  BY <1>1 DEF HdfInit, ClientsInv, ClientInv, Believes, NoJob, UnloadPcs, HdfSlots
<1>4. HdfOwed = {}
  BY <1>1 DEF HdfOwed, OwedPcs, UnloadPcs, NoJob
<1>5. HdfHolders = {}
  BY DEF HdfInit, HdfHolders
<1> QED BY <1>2, <1>3, <1>4, <1>5, FS_EmptySet DEF HdfInv, HdfCountInv, HdfInit

\* The record a step leaves in its slot.
JobOf(s, pc, op, end) == [pc |-> pc, type |-> job[s].type, op |-> op, end |-> end]

LEMMA NoJobOK == JobOK(NoJob) /\ NoJob.pc = "none" /\ NoJob.end = "none"
PROOF
  BY DEF JobOK, NoJob, JobPcs

LEMMA JobOfOK ==
  ASSUME NEW s, NEW pc \in JobPcs, NEW op, NEW end \in {"none", "unwatch", "fail"}
  PROVE  JobOK(JobOf(s, pc, op, end)) /\ JobOf(s, pc, op, end).pc = pc /\ JobOf(s, pc, op, end).end = end
PROOF
  BY DEF JobOK, JobOf

\* Setting one or two fields of a job sets the job.
LEMMA PcSet ==
  ASSUME HdfTypeOK, NEW s \in HdfSlots, NEW pc
  PROVE  /\ job = [r \in HdfSlots |-> job[r]]
         /\ [job EXCEPT ![s].pc = pc] = [job EXCEPT ![s] = JobOf(s, pc, job[s].op, job[s].end)]
PROOF
<1>1. job[s] = [pc |-> job[s].pc, type |-> job[s].type, op |-> job[s].op, end |-> job[s].end]
  BY DEF HdfTypeOK, JobOK
<1>2. job = [r \in HdfSlots |-> job[r]]
  BY DEF HdfTypeOK
<1>3. [job[s] EXCEPT !.pc = pc] = JobOf(s, pc, job[s].op, job[s].end)
  BY <1>1 DEF JobOf
<1> QED BY <1>2, <1>3

LEMMA OpSet ==
  ASSUME HdfTypeOK, NEW s \in HdfSlots, NEW pc, NEW op, job' = [job EXCEPT ![s].pc = pc, ![s].op = op]
  PROVE  job' = [job EXCEPT ![s] = JobOf(s, pc, op, job[s].end)]
PROOF
<1> DEFINE j == JobOf(s, pc, job[s].op, job[s].end)
<1>1. [j EXCEPT !.op = op] = JobOf(s, pc, op, job[s].end)
  BY DEF JobOf
<1> HIDE DEF j
<1>2. job' = [[job EXCEPT ![s] = j] EXCEPT ![s].op = op]
  BY PcSet DEF j
<1> QED BY <1>1, <1>2, PcSet

EndTo(s, pc, end) == job' = [job EXCEPT ![s].pc = pc, ![s].end = end]

LEMMA EndSet ==
  ASSUME HdfTypeOK, NEW s \in HdfSlots, NEW pc, NEW end, EndTo(s, pc, end)
  PROVE  job' = [job EXCEPT ![s] = JobOf(s, pc, job[s].op, end)]
PROOF
<1> DEFINE j == JobOf(s, pc, job[s].op, job[s].end)
<1>1. [j EXCEPT !.end = end] = JobOf(s, pc, job[s].op, end)
  BY DEF JobOf
<1> HIDE DEF j
<1>2. job' = [[job EXCEPT ![s] = j] EXCEPT ![s].end = end]
  BY PcSet DEF j, EndTo
<1> QED BY <1>1, <1>2, PcSet

\* What a slot's step needs to know of its client.
LEMMA SlotFacts ==
  ASSUME HdfInv, NEW s \in HdfSlots
  PROVE  /\ ClientOf(s) \in HdfClients /\ s = <<ClientOf(s), s[2]>> /\ s[2] \in {"call", "obit"}
         /\ client[ClientOf(s)] \in {"idle", "loading", "held", "leaving", "dead"}
         /\ client = [client EXCEPT ![ClientOf(s)] = client[ClientOf(s)]]
         /\ job[s].pc \in JobPcs /\ job[s].end \in {"none", "unwatch", "fail"}
         /\ s[2] = "call" =>
              /\ client[ClientOf(s)] # "dead" =>
                   client[ClientOf(s)] = Believes(job[s]) /\ (ClientOf(s) \in watched <=> Believes(job[s]) \in {"held", "leaving"})
              /\ client[ClientOf(s)] = "dead" => job[s].pc # "held"
              /\ job[s].pc = "unwatch" => job[s].end = "unwatch"
              /\ job[s].pc \in UnloadPcs => job[s].end # "none"
         /\ s[2] = "obit" /\ job[s].pc # "none" =>
              client[ClientOf(s)] = "dead" /\ job[s].pc \in UnloadPcs /\ job[s].end = "none"
PROOF
<1>1. ClientOf(s) \in HdfClients /\ s = <<ClientOf(s), s[2]>> /\ s[2] \in {"call", "obit"}
  BY DEF HdfSlots, ClientOf
<1>2. /\ client[ClientOf(s)] \in {"idle", "loading", "held", "leaving", "dead"}
      /\ client = [client EXCEPT ![ClientOf(s)] = client[ClientOf(s)]]
      /\ job[s].pc \in JobPcs /\ job[s].end \in {"none", "unwatch", "fail"}
  BY <1>1 DEF HdfInv, HdfTypeOK, JobOK
<1> DEFINE c == ClientOf(s)
<1>3. CASE s[2] = "call"
  <2>1. s = <<c, "call">>
    BY <1>1, <1>3
  <2>2. /\ client[c] # "dead" => client[c] = Believes(job[s]) /\ (c \in watched <=> Believes(job[s]) \in {"held", "leaving"})
        /\ client[c] = "dead" => job[s].pc # "held"
        /\ job[s].pc = "unwatch" => job[s].end = "unwatch"
        /\ job[s].pc \in UnloadPcs => job[s].end # "none"
    BY <1>1, <2>1 DEF HdfInv, ClientsInv, ClientInv
  <2> QED BY <1>1, <1>2, <1>3, <2>2
<1>4. CASE s[2] = "obit"
  <2>1. s = <<c, "obit">>
    BY <1>1, <1>4
  <2>2. job[s].pc # "none" => client[c] = "dead" /\ job[s].pc \in UnloadPcs /\ job[s].end = "none"
    BY <1>1, <2>1 DEF HdfInv, ClientsInv, ClientInv
  <2> QED BY <1>1, <1>2, <1>4, <2>2
<1> QED BY <1>1, <1>3, <1>4

\* A call that fails ends, and a living client is idle again.
LEMMA LoadFailsStep ==
  ASSUME HdfInv, NEW s \in HdfSlots, LoadFails(s), job[s].pc # "none",
         UNCHANGED <<doubled, exited>>,
         IF job[s].pc = "unwatch" /\ client[ClientOf(s)] # "dead" THEN watched' = watched \ {ClientOf(s)}
         ELSE watched' = watched \/ watched' = watched \ {ClientOf(s)},
         client[ClientOf(s)] # "dead" => job[s].pc = "unwatch" \/ Believes(job[s]) = "loading",
         inuse' \in Int
  PROVE  HdfTypeOK' /\ ClientsInv'
PROOF
<1> DEFINE b == IF client[ClientOf(s)] = "dead" THEN "dead" ELSE "idle"
<1>1. job' = [job EXCEPT ![s] = NoJob] /\ client' = [client EXCEPT ![ClientOf(s)] = b]
  BY SlotFacts DEF LoadFails, Done, HdfInv, HdfTypeOK
<1>2. Believes(NoJob) = "idle"
  BY NoJobOK DEF Believes
<1>3. b # "dead" => ClientOf(s) \notin watched'
  <2> SUFFICES ASSUME client[ClientOf(s)] # "dead" PROVE ClientOf(s) \notin watched'
    OBVIOUS
  <2>1. s[2] = "call"
    BY SlotFacts
  <2>2. CASE job[s].pc = "unwatch"
    BY <2>2
  <2>3. CASE job[s].pc # "unwatch"
    <3>1. ClientOf(s) \notin watched
      BY <2>1, <2>3, SlotFacts
    <3> QED BY <2>3, <3>1
  <2> QED BY <2>2, <2>3
<1>4. NoJob.pc \notin UnloadPcs
  BY NoJobOK DEF UnloadPcs
<1>5. SlotOK(s, NoJob, b, watched')
  <2>1. s[2] = "obit" => b = "dead"
    BY SlotFacts
  <2> QED BY <1>2, <1>3, <1>4, <2>1, NoJobOK DEF SlotOK
<1>6. b \in {"idle", "loading", "held", "leaving", "dead"} /\ (b = "dead" <=> client[ClientOf(s)] = "dead")
  OBVIOUS
<1>7. watched' = watched \/ watched' = watched \cup {ClientOf(s)} \/ watched' = watched \ {ClientOf(s)}
  OBVIOUS
<1> HIDE DEF b
<1> QED BY <1>1, <1>2, <1>3, <1>4, <1>5, <1>6, <1>7, NoJobOK, ClientsSlotStep

\* A slot's step that leaves what its client believes and who is watched alone.
LEMMA QuietSlotStep ==
  ASSUME HdfInv, NEW s \in HdfSlots, NEW j, JobOK(j), job' = [job EXCEPT ![s] = j],
         job[s].pc # "none", UNCHANGED <<client, watched, doubled, exited>>, inuse' \in Int,
         \/ job[s].pc \in LoadPcs /\ j.pc \in LoadPcs
         \/ job[s].pc \in LoadPcs /\ j.pc \in UnloadPcs /\ j.end = "fail"
         \/ job[s].pc \in UnloadPcs /\ j.pc \in UnloadPcs /\ j.end = job[s].end
         \/ job[s].pc \in UnloadPcs /\ j.pc = "unwatch" /\ j.end = job[s].end /\ j.end = "unwatch"
         \/ s[2] = "obit" /\ j.pc = "none"
  PROVE  HdfTypeOK' /\ ClientsInv'
PROOF
<1> DEFINE b == client[ClientOf(s)]
<1>1. client' = [client EXCEPT ![ClientOf(s)] = b]
  BY SlotFacts
<1>2. s[2] = "obit" => b = "dead" /\ job[s].pc \in UnloadPcs /\ job[s].end = "none"
  BY SlotFacts
<1>3. SlotOK(s, j, b, watched')
  <2>1. CASE s[2] = "obit"
    BY <1>2, <2>1 DEF SlotOK, LoadPcs, UnloadPcs
  <2>2. CASE s[2] = "call"
    <3>1. Believes(j) = Believes(job[s])
      BY <2>2, SlotFacts DEF Believes, LoadPcs, UnloadPcs
    <3>2. j.pc # "held" /\ (j.pc = "unwatch" => j.end = "unwatch")
      BY <2>2 DEF LoadPcs, UnloadPcs
    <3>3. j.pc \in UnloadPcs => j.end # "none"
      BY <2>2, SlotFacts DEF LoadPcs, UnloadPcs
    <3>4. b # "dead" => b = Believes(job[s]) /\ (ClientOf(s) \in watched <=> Believes(job[s]) \in {"held", "leaving"})
      BY <2>2, SlotFacts
    <3>5. watched' = watched
      OBVIOUS
    <3> QED BY <2>2, <3>1, <3>2, <3>3, <3>4, <3>5 DEF SlotOK
  <2> QED BY <2>1, <2>2, SlotFacts
<1>4. b \in {"idle", "loading", "held", "leaving", "dead"} /\ (b = "dead" <=> client[ClientOf(s)] = "dead")
  BY SlotFacts
<1> HIDE DEF b
<1> QED BY <1>1, <1>3, <1>4, ClientsSlotStep

LEMMA LoadStep ==
  ASSUME HdfInv, ~exited, NEW s \in HdfSlots,
         LoadFinds(s) \/ OperatorLoads(s) \/ LoadCounts(s) \/ AddDeathRecipient(s)
  PROVE  HdfInv'
PROOF
<1>0. HdfTypeOK /\ inuse \in Int
  BY DEF HdfInv, HdfTypeOK
<1> DEFINE end == job[s].end
<1>e. end \in {"none", "unwatch", "fail"}
  BY SlotFacts
<1>1. CASE LoadFinds(s)
  <2>0. job[s].pc = "lfind" /\ UNCHANGED <<inuse, watched, doubled, exited>>
    BY <1>1 DEF LoadFinds, At, useVars
  <2>1. CASE LoadFails(s)
    <3>1. HdfTypeOK' /\ ClientsInv'
      BY <1>0, <2>0, <2>1, LoadFailsStep DEF Believes, UnloadPcs
    <3>2. HdfCountInv'
      BY <1>0, <2>0, <2>1, NoJobOK, CountSlotStep DEF LoadFails, Done, OwedPcs, UnloadPcs
    <3> QED BY <3>1, <3>2 DEF HdfInv
  <2>2. ASSUME NEW op, job' = [job EXCEPT ![s].pc = "load", ![s].op = op], UNCHANGED client PROVE HdfInv'
    <3> DEFINE j == JobOf(s, "load", op, end)
    <3>1. JobOK(j) /\ j.pc = "load"
      BY <1>e, JobOfOK DEF JobPcs, LoadPcs
    <3>2. job' = [job EXCEPT ![s] = j]
      BY <1>0, <2>2, OpSet
    <3> HIDE DEF j
    <3>3. HdfTypeOK' /\ ClientsInv'
      BY <1>0, <2>0, <2>2, <3>1, <3>2, QuietSlotStep DEF LoadPcs
    <3>4. HdfCountInv'
      BY <2>0, <3>1, <3>2, CountSlotStep DEF OwedPcs, UnloadPcs
    <3> QED BY <3>3, <3>4 DEF HdfInv
  <2> QED BY <1>1, <2>1, <2>2 DEF LoadFinds
<1>2. CASE OperatorLoads(s)
  <2>0. job[s].pc = "load" /\ UNCHANGED <<inuse, watched, doubled, exited>>
    BY <1>2 DEF OperatorLoads, At, useVars
  <2>1. CASE LoadFails(s)
    <3>1. HdfTypeOK' /\ ClientsInv'
      BY <1>0, <2>0, <2>1, LoadFailsStep DEF Believes, UnloadPcs
    <3>2. HdfCountInv'
      BY <1>0, <2>0, <2>1, NoJobOK, CountSlotStep DEF LoadFails, Done, OwedPcs, UnloadPcs
    <3> QED BY <3>1, <3>2 DEF HdfInv
  <2>2. CASE Goto(s, "count") /\ UNCHANGED client
    <3> DEFINE j == JobOf(s, "count", job[s].op, end)
    <3>1. JobOK(j) /\ j.pc = "count"
      BY <1>e, JobOfOK DEF JobPcs, LoadPcs
    <3>2. job' = [job EXCEPT ![s] = j]
      BY <1>0, <2>2, PcSet DEF Goto
    <3> HIDE DEF j
    <3>3. HdfTypeOK' /\ ClientsInv'
      BY <1>0, <2>0, <2>2, <3>1, <3>2, QuietSlotStep DEF LoadPcs
    <3>4. HdfCountInv'
      BY <2>0, <3>1, <3>2, CountSlotStep DEF OwedPcs, UnloadPcs
    <3> QED BY <3>3, <3>4 DEF HdfInv
  <2> QED BY <1>2, <2>1, <2>2 DEF OperatorLoads
<1>3. CASE LoadCounts(s)
  <2>0. job[s].pc = "count" /\ UNCHANGED <<client, watched, doubled, exited>> /\ inuse' = inuse + 1 /\ Goto(s, "watch")
    BY <1>3 DEF LoadCounts, At, clientVars, CountedUse
  <2> DEFINE j == JobOf(s, "watch", job[s].op, end)
  <2>1. JobOK(j) /\ j.pc = "watch"
    BY <1>e, JobOfOK DEF JobPcs, LoadPcs
  <2>2. job' = [job EXCEPT ![s] = j]
    BY <1>0, <2>0, PcSet DEF Goto
  <2> HIDE DEF j
  <2>3. HdfTypeOK' /\ ClientsInv'
    <3>1. inuse' \in Int /\ job[s].pc \in LoadPcs /\ j.pc \in LoadPcs /\ job[s].pc # "none"
      BY <1>0, <2>0, <2>1 DEF LoadPcs
    <3> QED BY <2>0, <2>1, <2>2, <3>1, QuietSlotStep
  <2>4. HdfCountInv'
    BY <2>0, <2>1, <2>2, CountSlotStep
  <2> QED BY <2>3, <2>4 DEF HdfInv
<1>4. CASE AddDeathRecipient(s)
  <2>0. job[s].pc = "watch" /\ UNCHANGED <<inuse, doubled, exited>>
    BY <1>4 DEF AddDeathRecipient, At, useVars
  <2>1. CASE /\ client[ClientOf(s)] # "dead" /\ watched' = watched \cup {ClientOf(s)}
             /\ client' = [client EXCEPT ![ClientOf(s)] = "held"] /\ Goto(s, "held")
    <3> DEFINE j == JobOf(s, "held", job[s].op, end)
    <3>1. JobOK(j) /\ j.pc = "held"
      BY <1>e, JobOfOK DEF JobPcs, LoadPcs
    <3>2. job' = [job EXCEPT ![s] = j]
      BY <1>0, <2>1, PcSet DEF Goto
    <3>3. s[2] = "call"
      BY <2>0, <2>1, SlotFacts
    <3> HIDE DEF j
    <3>4. SlotOK(s, j, "held", watched')
      BY <2>1, <3>1, <3>3 DEF SlotOK, Believes, UnloadPcs
    <3>5. HdfTypeOK' /\ ClientsInv'
      BY <1>0, <2>0, <2>1, <3>1, <3>2, <3>4, ClientsSlotStep
    <3>6. HdfCountInv'
      BY <2>0, <3>1, <3>2, CountSlotStep DEF OwedPcs
    <3> QED BY <3>5, <3>6 DEF HdfInv
  <2>2. CASE job' = [job EXCEPT ![s].pc = "ufind", ![s].end = "fail"] /\ UNCHANGED <<watched, client>>
    <3> DEFINE j == JobOf(s, "ufind", job[s].op, "fail")
    <3>1. JobOK(j) /\ j.pc = "ufind" /\ j.end = "fail"
      BY JobOfOK DEF JobPcs, UnloadPcs
    <3>2. job' = [job EXCEPT ![s] = j]
      <4>1. EndTo(s, "ufind", "fail")
        BY <2>2 DEF EndTo
      <4> QED BY <1>0, <4>1, EndSet
    <3> HIDE DEF j
    <3>3. HdfTypeOK' /\ ClientsInv'
      BY <1>0, <2>0, <2>2, <3>1, <3>2, QuietSlotStep DEF LoadPcs, UnloadPcs
    <3>4. HdfCountInv'
      BY <2>0, <3>1, <3>2, CountSlotStep DEF OwedPcs
    <3> QED BY <3>3, <3>4 DEF HdfInv
  <2> QED BY <1>4, <2>1, <2>2 DEF AddDeathRecipient
<1> QED BY <1>1, <1>2, <1>3, <1>4

\* An unload that is answered goes on to forget the client, or ends.
LEMMA UnloadReturnsStep ==
  ASSUME HdfInv, ~exited, NEW s \in HdfSlots, job[s].pc \in UnloadPcs, UnloadReturns(s),
         UNCHANGED <<watched, doubled, exited>>, inuse' = inuse \/ inuse' = inuse - 1
  PROVE  HdfInv'
PROOF
<1>0. HdfTypeOK /\ inuse \in Int /\ inuse' \in Int /\ job[s].pc # "none" /\ job[s].pc # "unwatch" /\ job[s].pc \in OwedPcs
  BY DEF HdfInv, HdfTypeOK, UnloadPcs, OwedPcs
<1>n. NoJob.pc \notin OwedPcs
  BY NoJobOK DEF OwedPcs, UnloadPcs
<1>1. CASE job[s].end = "unwatch"
  <2> DEFINE j == JobOf(s, "unwatch", job[s].op, job[s].end)
  <2>1. JobOK(j) /\ j.pc = "unwatch" /\ j.end = job[s].end
    BY <1>1, JobOfOK DEF JobPcs
  <2>2. job' = [job EXCEPT ![s] = j] /\ UNCHANGED client
    BY <1>0, <1>1, PcSet DEF UnloadReturns, Goto
  <2>3. j.pc \notin OwedPcs
    BY <2>1 DEF OwedPcs, UnloadPcs
  <2> HIDE DEF j
  <2>4. HdfTypeOK' /\ ClientsInv'
    BY <1>0, <1>1, <2>1, <2>2, QuietSlotStep
  <2>5. HdfCountInv'
    BY <1>0, <2>1, <2>2, <2>3, CountSlotStep
  <2> QED BY <2>4, <2>5 DEF HdfInv
<1>2. CASE job[s].end = "fail"
  <2>1. LoadFails(s)
    BY <1>2 DEF UnloadReturns
  <2>2. Believes(job[s]) = "loading"
    BY <1>0, <1>2 DEF Believes, UnloadPcs
  <2>3. HdfTypeOK' /\ ClientsInv'
    BY <1>0, <2>1, <2>2, LoadFailsStep
  <2>4. job' = [job EXCEPT ![s] = NoJob]
    BY <2>1 DEF LoadFails, Done
  <2>5. HdfCountInv'
    BY <1>0, <1>n, <2>4, NoJobOK, CountSlotStep
  <2> QED BY <2>3, <2>5 DEF HdfInv
<1>3. CASE job[s].end = "none"
  <2>1. job' = [job EXCEPT ![s] = NoJob] /\ UNCHANGED client
    BY <1>3 DEF UnloadReturns, Done
  <2>2. s[2] = "obit"
    BY <1>3, SlotFacts
  <2>3. HdfTypeOK' /\ ClientsInv'
    BY <1>0, <2>1, <2>2, NoJobOK, QuietSlotStep
  <2>4. HdfCountInv'
    BY <1>0, <1>n, <2>1, NoJobOK, CountSlotStep
  <2> QED BY <2>3, <2>4 DEF HdfInv
<1> QED BY <1>1, <1>2, <1>3, SlotFacts

\* An unload that errs leaves a living client its driver.
LEMMA UnloadErrsStep ==
  ASSUME HdfInv, ~exited, NEW s \in HdfSlots, job[s].pc \in UnloadPcs, UnloadErrs(s),
         UNCHANGED <<watched, doubled, exited, inuse>>
  PROVE  HdfInv'
PROOF
<1>0. HdfTypeOK /\ inuse' \in Int /\ job[s].pc # "none" /\ job[s].pc # "unwatch" /\ job[s].pc \in OwedPcs
  BY DEF HdfInv, HdfTypeOK, UnloadPcs, OwedPcs
<1>1. CASE job[s].end = "unwatch" /\ client[ClientOf(s)] # "dead"
  <2> DEFINE j == JobOf(s, "held", job[s].op, job[s].end)
  <2>1. JobOK(j) /\ j.pc = "held"
    BY <1>1, JobOfOK DEF JobPcs
  <2>2. job' = [job EXCEPT ![s] = j] /\ client' = [client EXCEPT ![ClientOf(s)] = "held"]
    BY <1>0, <1>1, PcSet DEF UnloadErrs, Goto
  <2>3. s[2] = "call" /\ Believes(job[s]) = "leaving"
    <3>1. s[2] = "call"
      BY <1>0, <1>1, SlotFacts
    <3>2. Believes(job[s]) = "leaving"
      BY <1>0, <1>1 DEF Believes, UnloadPcs
    <3> QED BY <3>1, <3>2
  <2>4. ClientOf(s) \in watched
    BY <1>1, <2>3, SlotFacts
  <2> HIDE DEF j
  <2>5. SlotOK(s, j, "held", watched')
    BY <2>1, <2>3, <2>4 DEF SlotOK, Believes, UnloadPcs
  <2>6. HdfTypeOK' /\ ClientsInv'
    BY <1>0, <1>1, <2>1, <2>2, <2>5, ClientsSlotStep
  <2>7. HdfCountInv'
    BY <1>0, <2>1, <2>2, CountSlotStep
  <2> QED BY <2>6, <2>7 DEF HdfInv
<1>2. CASE ~(job[s].end = "unwatch" /\ client[ClientOf(s)] # "dead")
  <2>1. LoadFails(s) /\ job' = [job EXCEPT ![s] = NoJob]
    BY <1>2 DEF UnloadErrs, LoadFails, Done
  <2>2. client[ClientOf(s)] # "dead" => Believes(job[s]) = "loading"
    BY <1>0, <1>2 DEF Believes, UnloadPcs
  <2>3. HdfTypeOK' /\ ClientsInv'
    BY <1>0, <2>1, <2>2, LoadFailsStep
  <2>4. HdfCountInv'
    BY <1>0, <2>1, NoJobOK, CountSlotStep
  <2> QED BY <2>3, <2>4 DEF HdfInv
<1> QED BY <1>1, <1>2

LEMMA UnloadStep ==
  ASSUME HdfInv, ~exited, NEW s \in HdfSlots,
         UnloadFinds(s) \/ OperatorUnloads(s) \/ UnloadErases(s) \/ RemoveDeathRecipient(s)
  PROVE  HdfInv'
PROOF
<1>0. HdfTypeOK /\ inuse \in Int /\ job[s].end \in {"none", "unwatch", "fail"}
  BY SlotFacts DEF HdfInv, HdfTypeOK
<1>1. ASSUME NEW j, JobOK(j), j.pc \in UnloadPcs, j.end = job[s].end, job[s].pc \in UnloadPcs,
             job' = [job EXCEPT ![s] = j], UNCHANGED <<client, watched, doubled, exited, inuse>>
      PROVE  HdfInv'
  <2>1. job[s].pc # "none" /\ job[s].pc \in OwedPcs
    BY <1>1 DEF UnloadPcs, OwedPcs
  <2>2. HdfTypeOK' /\ ClientsInv'
    BY <1>0, <1>1, <2>1, QuietSlotStep
  <2>3. HdfCountInv'
    BY <1>1, <2>1, CountSlotStep
  <2> QED BY <2>2, <2>3 DEF HdfInv
<1>2. CASE UnloadFinds(s)
  <2>0. job[s].pc = "ufind" /\ UNCHANGED <<watched, doubled, exited, inuse>>
    BY <1>2 DEF UnloadFinds, At, useVars
  <2>1. CASE UnloadReturns(s)
    BY <2>0, <2>1, UnloadReturnsStep DEF UnloadPcs
  <2>2. ASSUME NEW op, job' = [job EXCEPT ![s].pc = "unload", ![s].op = op], UNCHANGED client PROVE HdfInv'
    <3> DEFINE j == JobOf(s, "unload", op, job[s].end)
    <3>1. JobOK(j) /\ j.pc = "unload" /\ j.end = job[s].end
      BY <1>0, JobOfOK DEF JobPcs, UnloadPcs
    <3>2. job' = [job EXCEPT ![s] = j]
      BY <1>0, <2>2, OpSet
    <3> HIDE DEF j
    <3> QED BY <1>1, <2>0, <2>2, <3>1, <3>2 DEF UnloadPcs
  <2> QED BY <1>2, <2>1, <2>2 DEF UnloadFinds
<1>3. CASE OperatorUnloads(s)
  <2>0. job[s].pc = "unload" /\ UNCHANGED <<watched, doubled, exited, inuse>>
    BY <1>3 DEF OperatorUnloads, At, useVars
  <2>1. CASE UnloadErrs(s)
    BY <2>0, <2>1, UnloadErrsStep DEF UnloadPcs
  <2>2. CASE Goto(s, "erase") /\ UNCHANGED client
    <3> DEFINE j == JobOf(s, "erase", job[s].op, job[s].end)
    <3>1. JobOK(j) /\ j.pc = "erase" /\ j.end = job[s].end
      BY <1>0, JobOfOK DEF JobPcs, UnloadPcs
    <3>2. job' = [job EXCEPT ![s] = j]
      BY <1>0, <2>2, PcSet DEF Goto
    <3> HIDE DEF j
    <3> QED BY <1>1, <2>0, <2>2, <3>1, <3>2 DEF UnloadPcs
  <2> QED BY <1>3, <2>1, <2>2 DEF OperatorUnloads
<1>4. CASE UnloadErases(s)
  <2>1. job[s].pc = "erase" /\ inuse' = inuse - 1 /\ UnloadReturns(s) /\ UNCHANGED <<watched, doubled, exited>>
    BY <1>4 DEF UnloadErases, At
  <2> QED BY <2>1, UnloadReturnsStep DEF UnloadPcs
<1>5. CASE RemoveDeathRecipient(s)
  <2>1. /\ job[s].pc = "unwatch" /\ LoadFails(s) /\ UNCHANGED <<inuse, doubled, exited>>
        /\ watched' = watched \ {ClientOf(s)} \/ (client[ClientOf(s)] = "dead" /\ watched' = watched)
    BY <1>5 DEF RemoveDeathRecipient, At, useVars
  <2>2. job' = [job EXCEPT ![s] = NoJob] /\ NoJob.pc \notin OwedPcs
    BY <2>1, NoJobOK DEF LoadFails, Done, OwedPcs, UnloadPcs
  <2>3. HdfTypeOK' /\ ClientsInv'
    BY <1>0, <2>1, LoadFailsStep
  <2>4. HdfCountInv'
    BY <2>1, <2>2, NoJobOK, CountSlotStep
  <2> QED BY <2>3, <2>4 DEF HdfInv
<1> QED BY <1>2, <1>3, <1>4, <1>5

LEMMA NewJob ==
  ASSUME NEW pc, NEW t
  PROVE  [NoJob EXCEPT !.pc = pc, !.type = t] = [pc |-> pc, type |-> t, op |-> 0, end |-> "none"]
PROOF
<1> DEFINE one == [pc |-> pc, type |-> "none", op |-> 0, end |-> "none"]
<1>1. [NoJob EXCEPT !.pc = pc] = one
  BY DEF NoJob
<1>2. [one EXCEPT !.type = t] = [pc |-> pc, type |-> t, op |-> 0, end |-> "none"]
  OBVIOUS
<1> HIDE DEF one
<1> QED BY <1>1, <1>2

\* A client begins a load or an unload.
LEMMA BeginStep ==
  ASSUME HdfInv, ~exited, NEW c \in HdfClients,
         (\E t \in HdfTypes : LoadBegins(c, t)) \/ UnloadBegins(c)
  PROVE  HdfInv'
PROOF
<1> DEFINE s == <<c, "call">>
<1>0. s \in HdfSlots /\ ClientOf(s) = c /\ s[2] = "call" /\ HdfTypeOK /\ inuse \in Int
  <2>1. s \in HdfSlots
    BY DEF HdfSlots
  <2>2. ClientOf(s) = c /\ s[2] = "call"
    BY DEF ClientOf
  <2> QED BY <2>1, <2>2 DEF HdfInv, HdfTypeOK
<1> HIDE DEF s
<1>1. ASSUME NEW t \in HdfTypes, LoadBegins(c, t) PROVE HdfInv'
  <2>0. /\ client[c] = "idle" /\ job[s] = NoJob /\ UNCHANGED <<inuse, exited, watched, doubled>>
        /\ client' = [client EXCEPT ![ClientOf(s)] = "loading"]
        /\ job' = [job EXCEPT ![s] = [NoJob EXCEPT !.pc = "lfind", !.type = t]]
    BY <1>0, <1>1 DEF LoadBegins, useVars, s
  <2> DEFINE j == [pc |-> "lfind", type |-> t, op |-> 0, end |-> "none"]
  <2>1. [NoJob EXCEPT !.pc = "lfind", !.type = t] = j
    BY NewJob
  <2>2. JobOK(j) /\ j.pc = "lfind" /\ j.end = "none"
    BY DEF JobOK, JobPcs, LoadPcs
  <2> HIDE DEF j
  <2>3. Believes(j) = "loading" /\ Believes(NoJob) = "idle"
    BY <2>2, NoJobOK DEF Believes, UnloadPcs
  <2>4. c \notin watched
    <3>1. client[ClientOf(s)] # "dead" => (ClientOf(s) \in watched <=> Believes(job[s]) \in {"held", "leaving"})
      BY <1>0, SlotFacts
    <3> QED BY <1>0, <2>0, <2>3, <3>1
  <2>5. SlotOK(s, j, "loading", watched')
    BY <1>0, <2>0, <2>2, <2>3, <2>4 DEF SlotOK, UnloadPcs
  <2>6. HdfTypeOK' /\ ClientsInv'
    <3>1. "loading" = "dead" <=> client[ClientOf(s)] = "dead"
      BY <1>0, <2>0
    <3> QED BY <1>0, <2>0, <2>1, <2>2, <2>5, <3>1, ClientsSlotStep
  <2>7. HdfCountInv'
    BY <1>0, <2>0, <2>1, <2>2, CountSlotStep DEF OwedPcs, UnloadPcs
  <2> QED BY <2>6, <2>7 DEF HdfInv
<1>2. CASE UnloadBegins(c)
  <2>0. /\ client[c] = "held" /\ UNCHANGED <<inuse, exited, watched, doubled>>
        /\ client' = [client EXCEPT ![ClientOf(s)] = "leaving"]
        /\ EndTo(s, "ufind", "unwatch")
    BY <1>0, <1>2 DEF UnloadBegins, useVars, s, EndTo
  <2> DEFINE j == JobOf(s, "ufind", job[s].op, "unwatch")
  <2>1. JobOK(j) /\ j.pc = "ufind" /\ j.end = "unwatch"
    BY JobOfOK DEF JobPcs, UnloadPcs
  <2>2. job' = [job EXCEPT ![s] = j]
    BY <1>0, <2>0, EndSet
  <2> HIDE DEF j
  <2>3. c \in watched /\ job[s].pc = "held"
    <3>1. client[ClientOf(s)] # "dead" => /\ client[ClientOf(s)] = Believes(job[s])
                                          /\ (ClientOf(s) \in watched <=> Believes(job[s]) \in {"held", "leaving"})
      BY <1>0, SlotFacts
    <3>2. Believes(job[s]) = "held" /\ c \in watched
      BY <1>0, <2>0, <3>1
    <3> QED BY <3>2 DEF Believes
  <2>4. SlotOK(s, j, "leaving", watched')
    BY <1>0, <2>0, <2>1, <2>3 DEF SlotOK, Believes, UnloadPcs
  <2>5. HdfTypeOK' /\ ClientsInv'
    <3>1. "leaving" = "dead" <=> client[ClientOf(s)] = "dead"
      BY <1>0, <2>0
    <3> QED BY <1>0, <2>0, <2>1, <2>2, <2>4, <3>1, ClientsSlotStep
  <2>6. HdfCountInv'
    BY <1>0, <2>0, <2>1, <2>2, <2>3, CountSlotStep DEF OwedPcs
  <2> QED BY <2>5, <2>6 DEF HdfInv
<1> QED BY <1>1, <1>2

\* A client dies: a holder's use passes from its call to its obituary.
LEMMA DeathStep ==
  ASSUME HdfInv, ~exited, NEW c \in HdfClients, ClientDies(c)
  PROVE  HdfInv'
PROOF
<1> DEFINE s == <<c, "call">> d == <<c, "obit">>
<1>0. /\ client[c] # "dead" /\ job[d] = NoJob /\ client' = [client EXCEPT ![c] = "dead"]
      /\ UNCHANGED <<watched, inuse, exited>>
  BY DEF ClientDies, useVars
<1>1. s \in HdfSlots /\ d \in HdfSlots /\ s # d /\ HdfTypeOK /\ inuse \in Int
  BY DEF HdfSlots, HdfInv, HdfTypeOK
<1>2. client' \in [HdfClients -> {"idle", "loading", "held", "leaving", "dead"}] /\ client'[c] = "dead"
      /\ \A x \in HdfClients \ {c} : client'[x] = client[x]
  BY <1>0 DEF HdfInv, HdfTypeOK
<1>3. client[c] = Believes(job[s]) /\ (c \in watched <=> Believes(job[s]) \in {"held", "leaving"})
  BY <1>0 DEF HdfInv, ClientsInv, ClientInv
<1>4. watched' \in SUBSET HdfClients /\ inuse' \in Int /\ exited' \in BOOLEAN /\ ~exited'
  BY <1>0 DEF HdfInv, HdfTypeOK
<1>5. doubled' = (doubled \/ (c \in watched /\ client[c] = "leaving"))
  BY DEF ClientDies
<1>6. doubled' \in BOOLEAN
  BY <1>5, Zenon
<1>7. CASE c \notin watched
  <2>1. job' = job /\ (doubled' => doubled) /\ (doubled => doubled')
    BY <1>5, <1>7 DEF ClientDies
  <2>2. job[s].pc # "held"
    BY <1>3, <1>7 DEF Believes
  <2>3. HdfTypeOK'
    BY <1>1, <1>2, <1>4, <1>6, <2>1 DEF HdfTypeOK
  <2>4. ClientsInv'
    BY <1>0, <1>2, <2>1, <2>2 DEF HdfInv, ClientsInv, ClientInv
  <2>5. HdfOwed' = HdfOwed
    BY <2>1 DEF HdfOwed
  <2>6. HdfCountInv'
    BY <1>0, <1>4, <2>1, <2>5 DEF HdfInv, HdfCountInv
  <2> QED BY <2>3, <2>4, <2>6 DEF HdfInv
<1>8. CASE c \in watched
  <2> DEFINE o == [pc |-> "ufind", type |-> job[s].type, op |-> 0, end |-> "none"]
             k == IF job[s].pc = "held" THEN NoJob ELSE job[s]
             obituary == [NoJob EXCEPT !.pc = "ufind", !.type = job[s].type]
  <2>1. obituary = o
    BY NewJob
  <2>2. JobOK(o) /\ o.pc = "ufind" /\ o.end = "none"
    BY DEF JobOK, JobPcs, UnloadPcs
  <2>3. JobOK(k) /\ k.pc # "held"
    BY <1>1, NoJobOK DEF HdfTypeOK
  <2>4. job' = [job EXCEPT ![d] = obituary, ![s] = IF @.pc = "held" THEN NoJob ELSE @]
    BY <1>8 DEF ClientDies
  <2>5. /\ job' = [r \in HdfSlots |-> job'[r]] /\ job'[d] = o /\ job'[s] = k
        /\ \A r \in HdfSlots \ {s, d} : job'[r] = job[r]
    <3> HIDE DEF o, s, d, obituary
    <3> DEFINE first == [job EXCEPT ![d] = obituary]
    <3>1. first[s] = job[s] /\ first = [job EXCEPT ![d] = o]
      BY <1>1, <2>1 DEF HdfTypeOK
    <3>2. job' = [first EXCEPT ![s] = k]
      BY <2>4, <3>1
    <3> HIDE DEF first, k
    <3> QED BY <1>1, <3>1, <3>2 DEF HdfTypeOK
  <2>6. (k.pc = "unwatch" => k.end = "unwatch") /\ (k.pc \in UnloadPcs => k.end # "none")
    <3>1. (job[s].pc = "unwatch" => job[s].end = "unwatch") /\ (job[s].pc \in UnloadPcs => job[s].end # "none")
      BY DEF HdfInv, ClientsInv, ClientInv
    <3> QED BY <3>1, NoJobOK DEF UnloadPcs
  <2> HIDE DEF o, k
  <2>7. HdfTypeOK'
    <3>1. \A r \in HdfSlots : JobOK(job'[r])
      BY <1>1, <2>2, <2>3, <2>5 DEF HdfTypeOK
    <3> QED BY <1>2, <1>4, <1>6, <2>5, <3>1 DEF HdfTypeOK
  <2>8. ClientsInv'
    <3>1. ASSUME NEW x \in HdfClients, x # c
          PROVE  /\ job'[<<x, "call">>] = job[<<x, "call">>] /\ job'[<<x, "obit">>] = job[<<x, "obit">>]
                 /\ client'[x] = client[x]
      BY <1>2, <2>5, <3>1 DEF HdfSlots
    <3>2. ASSUME NEW x \in HdfClients, x # c PROVE ClientInv(x)'
      BY <1>0, <3>1, <3>2 DEF HdfInv, ClientsInv, ClientInv
    <3>3. ClientInv(c)'
      BY <1>2, <2>2, <2>3, <2>5, <2>6 DEF ClientInv, UnloadPcs
    <3> QED BY <3>2, <3>3 DEF ClientsInv
  <2>9. HdfCountInv'
    <3>1. CASE client[c] = "leaving"
      <4>1. doubled' = TRUE
        BY <1>5, <1>8, <3>1
      <4> QED BY <4>1 DEF HdfCountInv
    <3>2. CASE client[c] = "held"
      <4>1. job[s].pc = "held"
        BY <1>3, <3>2 DEF Believes
      <4>2. HdfOwed' = (HdfOwed \ {s}) \cup {d} /\ s \in HdfOwed
        BY <1>1, <2>2, <2>5, <4>1, NoJobOK DEF HdfOwed, OwedPcs, UnloadPcs, k
      <4>3. IsFiniteSet(HdfOwed) /\ Cardinality(HdfOwed) \in Nat
        BY OwedFinite
      <4>4. IsFiniteSet(HdfOwed \ {s}) /\ Cardinality(HdfOwed \ {s}) = Cardinality(HdfOwed) - 1
        BY <4>2, <4>3, FS_RemoveElement
      <4>5. Cardinality(HdfOwed') = Cardinality(HdfOwed \ {s}) \/ Cardinality(HdfOwed') = Cardinality(HdfOwed \ {s}) + 1
        BY <4>2, <4>4, FS_AddElement
      <4>6. doubled' => doubled
        BY <1>5, <3>2
      <4>7. doubled => doubled'
        BY <1>5
      <4> QED BY <1>0, <1>1, <1>4, <4>3, <4>4, <4>5, <4>7 DEF HdfInv, HdfCountInv
    <3> QED BY <1>3, <1>8, <3>1, <3>2
  <2> QED BY <2>7, <2>8, <2>9 DEF HdfInv
<1> QED BY <1>7, <1>8

LEMMA HdfInvStep == HdfInv /\ [HdfNext]_hdfVars => HdfInv'
PROOF
<1> SUFFICES ASSUME HdfInv, [HdfNext]_hdfVars PROVE HdfInv'
  OBVIOUS
<1>s. ASSUME UNCHANGED <<client, watched, doubled, job, inuse>>, exited' \in BOOLEAN,
             exited' => exited \/ inuse <= 0
      PROVE  HdfInv'
  <2>1. HdfTypeOK'
    BY <1>s DEF HdfInv, HdfTypeOK
  <2>2. ClientsInv'
    BY <1>s DEF HdfInv, ClientsInv, ClientInv
  <2>3. HdfOwed' = HdfOwed /\ HdfHolders' = HdfHolders
    BY <1>s DEF HdfOwed, HdfHolders
  <2>4. ~doubled /\ inuse <= 0 => HdfHolders = {}
    <3>1. ~doubled /\ inuse <= 0 => Cardinality(HdfOwed) = 0
      BY OwedFinite DEF HdfInv, HdfCountInv, HdfTypeOK
    <3> QED BY <3>1, HoldersOwed, OwedFinite, FS_EmptySet
  <2>5. HdfCountInv'
    BY <1>s, <2>3, <2>4 DEF HdfInv, HdfCountInv
  <2> QED BY <2>1, <2>2, <2>5 DEF HdfInv
<1>1. CASE UNCHANGED hdfVars
  BY <1>s, <1>1 DEF hdfVars, useVars, clientVars, HdfInv, HdfTypeOK
<1>2. CASE HdfNext
  <2>1. CASE DeviceChanges
    BY <1>s, <2>1 DEF DeviceChanges, clientVars, HdfInv, HdfTypeOK
  <2>2. CASE CheckExitSA
    <3>1. exited' = (~online /\ inuse <= 0) /\ UNCHANGED <<client, watched, doubled, job, inuse>>
      BY <2>2 DEF CheckExitSA, clientVars
    <3>2. exited' \in BOOLEAN
      BY <3>1, Zenon
    <3>3. exited' => inuse <= 0
      BY <3>1
    <3> QED BY <1>s, <3>1, <3>2, <3>3
  <2>3. ASSUME NEW t \in HdfTypes, OnHdfHostDied(t) PROVE HdfInv'
    BY <1>s, <2>3 DEF OnHdfHostDied, useVars, clientVars, HdfInv, HdfTypeOK
  <2>4. ~exited
    BY <1>2 DEF HdfNext
  <2> QED BY <1>2, <2>1, <2>2, <2>3, <2>4, BeginStep, LoadStep, UnloadStep, DeathStep
          DEF HdfNext, CallSteps, DeathSteps
<1> QED BY <1>1, <1>2

\* Every client that holds a driver is counted and the service does not unload
\* itself under one, unless a client died inside its own unload: for any
\* finite set of clients, any types, and with no bound on operators or deaths.
THEOREM HeldKeepsService == HdfSpec => []HdfHeldKeepsService
PROOF
<1>1. HdfInv => HdfHeldKeepsService
  <2> SUFFICES ASSUME HdfInv, ~doubled PROVE Cardinality(HdfHolders) <= inuse /\ (exited => HdfHolders = {})
    BY DEF HdfHeldKeepsService
  <2>1. HdfHolders \in SUBSET HdfClients
    BY DEF HdfHolders
  <2>2. Cardinality(HdfHolders) \in Nat
    BY <2>1, HdfClientsFinite, FS_Subset, FS_CardinalityType
  <2>3. Cardinality(HdfHolders) <= Cardinality(HdfOwed)
    BY HoldersOwed
  <2>4. Cardinality(HdfOwed) <= inuse /\ (exited => HdfHolders = {}) /\ inuse \in Int
    BY DEF HdfInv, HdfCountInv, HdfTypeOK
  <2> QED BY <2>2, <2>3, <2>4, OwedFinite
<1> QED BY <1>1, HdfInvInit, HdfInvStep, PTL DEF HdfSpec

-----------------------------------------------------------------------------
(* ResourceStore                                                           *)

\* An adapter that is still referred to after its release has no storage, and
\* a recovery of the old adapter, posted or running, means there is one.
RsOldInv ==
  /\ rsOld \in {"none", "null"}
  /\ rsRunning = "old" => rsOld = "null"
  /\ "old" \in rsPosted => rsOld = "null"

LEMMA RsOldInvInit == RsInit => RsOldInv
PROOF
  BY DEF RsInit, RsOldInv

LEMMA RsOldInvStep == RsOldInv /\ [RsNext]_rsVars => RsOldInv'
PROOF
<1> SUFFICES ASSUME RsOldInv, [RsNext]_rsVars PROVE RsOldInv'
  OBVIOUS
<1>q. ASSUME UNCHANGED <<rsOld, rsRunning>>, rsPosted' = rsPosted \/ rsPosted' = {} PROVE RsOldInv'
  BY <1>q DEF RsOldInv
<1>1. CASE UnInitCloses
  BY <1>1 DEF UnInitCloses, RsOldInv
<1>2. CASE KvDies
  BY <1>2 DEF KvDies, RsOldInv
<1>3. ASSUME NEW a \in {"current", "old"}, OnRemoteDied(a) PROVE RsOldInv'
  BY <1>3 DEF OnRemoteDied, RsOldInv, kvVars
<1>4. CASE DBDiedOpt
  BY <1>4 DEF DBDiedOpt, Tried, ReInit, RsOldInv
<1>5. CASE CapInit \/ MetaInit \/ VersionInit \/ LocalCapInit
  BY <1>q, <1>5 DEF CapInit, MetaInit, VersionInit, LocalCapInit, LocalInitOpens, recVars
<1>6. CASE ReleaseBegins \/ UnInitRemovesTask \/ ReleaseEnds \/ OtherStoreUnInits \/ KvReturns
  BY <1>q, <1>6 DEF ReleaseBegins, UnInitRemovesTask, ReleaseEnds, OtherStoreUnInits, KvReturns, kvVars, recVars
<1>7. CASE RecoverReads \/ SyncRemoteCapabilityInfos \/ SyncRemoteMetaInfos \/ SyncRemoteVersionInfos
  BY <1>q, <1>7 DEF RecoverReads, SyncRemoteCapabilityInfos, SyncRemoteMetaInfos, SyncRemoteVersionInfos, RecoverWrites, kvVars, recVars
<1>8. CASE QueryLocalHardware \/ AddLocalCapabilityInfo \/ AddLocalMetaCapInfo \/ AddVersion \/ VersionManagerInit
  BY <1>q, <1>8 DEF QueryLocalHardware, AddLocalCapabilityInfo, AddLocalMetaCapInfo, AddVersion, VersionManagerInit, RestUnchanged, kvVars, recVars
<1>9. ASSUME NEW k, NEW v, PluginHardware(k, v) \/ UnPluginHardware(k) PROVE RsOldInv'
  BY <1>q, <1>9 DEF PluginHardware, UnPluginHardware, RestUnchanged, kvVars, recVars
<1>10. ASSUME NEW p, DeviceOnline(p) \/ DoSyncInfo(p) \/ RemoveOnlineEntry(p) \/ ClearOffLineInfo(p) PROVE RsOldInv'
  BY <1>q, <1>10 DEF DeviceOnline, DoSyncInfo, RemoveOnlineEntry, ClearOffLineInfo, kvVars, recVars
<1>11. ASSUME NEW p, NEW v, ClearRemoteDeviceMetaInfoData(p) \/ ClearRemoteDeviceLocalInfoData(p) \/ AddCapabilityOfPeer(p, v) PROVE RsOldInv'
  BY <1>q, <1>11 DEF ClearRemoteDeviceMetaInfoData, ClearRemoteDeviceLocalInfoData, AddCapabilityOfPeer, RestUnchanged, kvVars, recVars
<1>12. ASSUME NEW k, NEW v, NEW cloud, RemoteChange(k, v, cloud) PROVE RsOldInv'
  BY <1>q, <1>12 DEF RemoteChange, kvVars, recVars
<1>13. ASSUME NEW st, NEW op, NEW lk, NEW ap, NEW v, NEW tk, Handle(st, op, lk, ap, v, tk) PROVE RsOldInv'
  BY <1>q, <1>13 DEF Handle, kvVars, recVars
<1>14. CASE CapAddChange \/ CapUpdateChange \/ CapDeleteChange \/ MetaAddChange \/ MetaUpdateChange \/ MetaDeleteChange
            \/ VersionAddChange \/ VersionUpdateChange \/ VersionDeleteChange
  BY <1>13, <1>14, Zenon DEF CapAddChange, CapUpdateChange, CapDeleteChange, MetaAddChange, MetaUpdateChange, MetaDeleteChange,
     VersionAddChange, VersionUpdateChange, VersionDeleteChange
<1>15. CASE ChangeApplies
  BY <1>q, <1>15 DEF ChangeApplies, kvVars, recVars
<1>16. ASSUME NEW t, RunTask(t) PROVE RsOldInv'
  BY <1>q, <1>16 DEF RunTask, kvVars, recVars
<1>17. CASE UNCHANGED rsVars
  BY <1>q, <1>17 DEF rsVars, kvVars, recVars
<1> QED BY <1>1, <1>2, <1>3, <1>4, <1>5, <1>6, <1>7, <1>8, <1>9, <1>10, <1>11, <1>12, <1>14, <1>15, <1>16, <1>17 DEF RsNext

\* The recovery that a release overtakes never opens a store nobody closes.
THEOREM ReleasedStaysClosed == RsSpec => []RsReleasedStaysClosed
PROOF
<1>1. RsOldInv => RsReleasedStaysClosed
  BY DEF RsOldInv, RsReleasedStaysClosed
<1> QED BY <1>1, RsOldInvInit, RsOldInvStep, PTL DEF RsSpec

\* A record of key k may be in the map: k is not a peer's, or the peer is
\* online, or an offline task of it has still to clear the map.
RsLive(k) == k \in RsPeers => k \in rsOnline \/ rsClearing[k] > 0

\* What the capability manager's mutex protects: a notification in hand is of
\* a live key, and so is every device a recovery has seen online.
RsCapInv ==
  /\ rsCache = [k \in RsKeys |-> rsCache[k]]
  /\ rsClearing \in [RsPeers -> Nat]
  /\ rsItems \in SUBSET RsOwn
  /\ rsHand # <<>> => rsLock = "notify" /\ RsLive(rsHand[1].key)
  /\ rsLock = "recover" => \A k \in rsSync : RsLive(k)
  /\ \A k \in RsKeys : rsCache[k] # "none" => RsLive(k)

RsForgetInv == rsStore = "cap" => RsCapInv

LEMMA RsForgetInvInit == RsInit => RsForgetInv
PROOF
  BY DEF RsInit, RsForgetInv, RsCapInv, RsLive

LEMMA RsForgetInvStep == RsForgetInv /\ [RsNext]_rsVars => RsForgetInv'
PROOF
<1> SUFFICES ASSUME RsForgetInv, [RsNext]_rsVars PROVE RsForgetInv'
  OBVIOUS
<1>q. ASSUME UNCHANGED <<rsStore, rsCache, rsClearing, rsOnline, rsItems, rsHand, rsLock, rsSync>> PROVE RsForgetInv'
  BY <1>q DEF RsForgetInv, RsCapInv, RsLive
<1>c. ASSUME UNCHANGED <<rsStore, rsClearing, rsOnline, rsHand, rsLock, rsSync>>, rsItems' \in SUBSET RsOwn,
             NEW S \in SUBSET RsOwn, NEW v, rsCache' = rsCache \/ rsCache' = InMap(S, v)
      PROVE  RsForgetInv'
  <2> SUFFICES ASSUME rsStore = "cap", RsCapInv PROVE RsCapInv'
    BY <1>c DEF RsForgetInv
  <2>1. \A k : RsLive(k)' <=> RsLive(k)
    BY <1>c DEF RsLive
  <2>2. \A k \in RsKeys : rsCache'[k] # "none" => RsLive(k)
    BY <1>c, RsKeysDistinct DEF InMap, RsCapInv, RsLive
  <2>3. rsCache' = [k \in RsKeys |-> rsCache'[k]]
    BY <1>c DEF InMap, RsCapInv
  <2> QED BY <1>c, <2>1, <2>2, <2>3 DEF RsCapInv
<1>n. ASSUME rsStore # "cap", UNCHANGED rsStore PROVE RsForgetInv'
  BY <1>n DEF RsForgetInv
<1>1. CASE CapInit \/ MetaInit \/ VersionInit \/ LocalCapInit
  BY <1>q, <1>1 DEF CapInit, MetaInit, VersionInit, LocalCapInit, LocalInitOpens, recVars, dataVars, devVars, noteVars
<1>2. CASE ReleaseBegins
  <2>1. CASE rsStore = "cap"
    <3>1. UNCHANGED <<rsStore, rsCache, rsClearing, rsOnline, rsHand, rsLock, rsSync>> /\ rsItems' \in SUBSET RsOwn
      BY <1>2, <2>1 DEF ReleaseBegins, kvVars, recVars, devVars, noteVars
    <3> QED BY <1>c, <3>1
  <2> QED BY <1>2, <1>n, <2>1 DEF ReleaseBegins, kvVars
<1>3. CASE UnInitRemovesTask \/ UnInitCloses
  <2>1. /\ UNCHANGED <<rsStore, rsCache, rsClearing, rsOnline, rsItems, rsHand, rsSync>>
        /\ rsLock \in {"free", "uninit"} /\ rsLock' \in {"free", "uninit"}
    BY <1>3 DEF UnInitRemovesTask, UnInitCloses, Free, kvVars, recVars, dataVars, devVars, noteVars, initVars
  <2> QED BY <2>1 DEF RsForgetInv, RsCapInv, RsLive
<1>4. CASE ReleaseEnds \/ OtherStoreUnInits \/ KvDies \/ KvReturns
  BY <1>q, <1>4 DEF ReleaseEnds, OtherStoreUnInits, KvDies, KvReturns, kvVars, recVars, dataVars, devVars, noteVars, initVars, initRest
<1>5. ASSUME NEW a, OnRemoteDied(a) \/ DBDiedOpt PROVE RsForgetInv'
  BY <1>q, <1>5 DEF OnRemoteDied, DBDiedOpt, kvVars, dataVars, devVars, noteVars, initVars
<1>6. CASE RecoverReads
  <2>1. CASE UNCHANGED <<rsLock, rsSync>>
    BY <1>q, <1>6, <2>1 DEF RecoverReads, kvVars, dataVars, devVars, noteVars, initVars
  <2>2. CASE rsLock' = "recover" /\ rsSync' = rsOnline
    <3>1. UNCHANGED <<rsStore, rsCache, rsClearing, rsOnline, rsItems, rsHand>> /\ rsLock = "free"
      BY <1>6 DEF RecoverReads, Free, kvVars, dataVars, devVars, noteVars, initVars
    <3> QED BY <2>2, <3>1 DEF RsForgetInv, RsCapInv, RsLive
  <2> QED BY <1>6, <2>1, <2>2 DEF RecoverReads
<1>7. CASE SyncRemoteCapabilityInfos
  <2> SUFFICES ASSUME rsStore = "cap", RsCapInv PROVE RsCapInv'
    BY <1>7 DEF SyncRemoteCapabilityInfos, RecoverWrites, kvVars, RsForgetInv
  <2>0. /\ UNCHANGED <<rsClearing, rsOnline, rsItems, rsHand>> /\ rsLock = "recover" /\ rsLock' = "free" /\ rsHand = <<>>
    BY <1>7 DEF SyncRemoteCapabilityInfos, RecoverWrites, devVars, noteVars, initVars, RsCapInv
  <2>1. PICK S \in SUBSET Readable(rsSync) : rsCache' = [k \in RsKeys |-> IF k \in S THEN rsDb[k] ELSE rsCache[k]]
    BY <1>7 DEF SyncRemoteCapabilityInfos, RecoverWrites
  <2>2. \A k \in S : RsLive(k)
    BY <2>0, <2>1 DEF Readable, RsCapInv
  <2>3. \A k : RsLive(k)' <=> RsLive(k)
    BY <2>0 DEF RsLive
  <2>4. \A k \in RsKeys : rsCache'[k] # "none" => RsLive(k)
    BY <2>1, <2>2 DEF RsCapInv
  <2>5. rsCache' = [k \in RsKeys |-> rsCache'[k]]
    BY <2>1
  <2> QED BY <2>0, <2>3, <2>4, <2>5 DEF RsCapInv
<1>8. CASE SyncRemoteMetaInfos \/ SyncRemoteVersionInfos
  BY <1>n, <1>8 DEF SyncRemoteMetaInfos, SyncRemoteVersionInfos, RecoverWrites, kvVars
<1>9. CASE QueryLocalHardware
  <2> SUFFICES ASSUME rsStore = "cap" PROVE RsForgetInv'
    BY <1>n, <1>9 DEF QueryLocalHardware, RestUnchanged, kvVars
  <2>1. UNCHANGED <<rsStore, rsClearing, rsOnline, rsHand, rsLock, rsSync>>
    BY <1>9 DEF QueryLocalHardware, RestUnchanged, kvVars, recVars, devVars, noteVars
  <2>2. CASE UNCHANGED <<dataVars, rsItems>>
    BY <1>q, <2>1, <2>2 DEF dataVars
  <2>3. ASSUME NEW S \in SUBSET RsOwn \ {{}}, rsItems' = S,
               IF rsStore = "cap" /\ NonExist(S) # {} THEN RemoveCapabilityInfoByKey(NonExist(S)) ELSE UNCHANGED dataVars
        PROVE  RsForgetInv'
    <3>1. NonExist(S) \in SUBSET RsOwn
      BY DEF NonExist, Readable
    <3>2. rsCache' = rsCache \/ rsCache' = InMap(NonExist(S), "none")
      BY <2>3 DEF RemoveCapabilityInfoByKey, dataVars
    <3>3. rsItems' \in SUBSET RsOwn
      BY <2>3
    <3> HIDE DEF RsForgetInv
    <3> QED BY <1>c, <2>1, <3>1, <3>2, <3>3
  <2> QED BY <1>9, <2>2, <2>3 DEF QueryLocalHardware
<1>10. CASE AddLocalCapabilityInfo
  <2> SUFFICES ASSUME rsStore = "cap", RsCapInv PROVE RsForgetInv'
    BY <1>10 DEF AddLocalCapabilityInfo, RsForgetInv
  <2>1. UNCHANGED <<rsStore, rsClearing, rsOnline, rsHand, rsLock, rsSync, rsItems>> /\ rsItems \in SUBSET RsOwn
    BY <1>10 DEF AddLocalCapabilityInfo, RestUnchanged, kvVars, recVars, devVars, noteVars, RsCapInv
  <2>2. CASE UNCHANGED dataVars
    BY <1>q, <2>1, <2>2 DEF dataVars
  <2>3. ASSUME NEW v \in RsValues, AddCapability(rsItems, v) PROVE RsForgetInv'
    BY <1>c, <2>1, <2>3 DEF AddCapability
  <2> QED BY <1>10, <2>2, <2>3 DEF AddLocalCapabilityInfo
<1>11. CASE AddLocalMetaCapInfo \/ AddVersion \/ VersionManagerInit
  BY <1>n, <1>11 DEF AddLocalMetaCapInfo, AddVersion, VersionManagerInit, RestUnchanged, kvVars
<1>12. ASSUME NEW k \in RsOwn, NEW v, PluginHardware(k, v) \/ UnPluginHardware(k) PROVE RsForgetInv'
  <2> SUFFICES ASSUME rsStore = "cap", RsCapInv PROVE RsForgetInv'
    BY <1>12 DEF PluginHardware, UnPluginHardware, AddCapability, RsForgetInv
  <2>1. UNCHANGED <<rsStore, rsClearing, rsOnline, rsHand, rsLock, rsSync, rsItems>> /\ rsItems \in SUBSET RsOwn
    BY <1>12 DEF PluginHardware, UnPluginHardware, RestUnchanged, initRest, kvVars, recVars, devVars, noteVars, RsCapInv
  <2>2. {k} \in SUBSET RsOwn
    OBVIOUS
  <2>3. rsCache' = InMap({k}, v) \/ rsCache' = InMap({k}, "none")
    BY <1>12 DEF PluginHardware, UnPluginHardware, AddCapability, RemoveCapabilityInfoByKey
  <2> QED BY <1>c, <2>1, <2>2, <2>3
<1>13. ASSUME NEW p \in RsPeers, DeviceOnline(p) PROVE RsForgetInv'
  <2>1. UNCHANGED <<rsStore, rsCache, rsClearing, rsItems, rsHand, rsLock, rsSync>> /\ rsOnline' = rsOnline \cup {p}
    BY <1>13 DEF DeviceOnline, initRest, kvVars, recVars, dataVars, noteVars
  <2>2. \A k : RsLive(k) => RsLive(k)'
    BY <2>1 DEF RsLive
  <2> QED BY <2>1, <2>2 DEF RsForgetInv, RsCapInv
<1>14. ASSUME NEW p \in RsPeers, DoSyncInfo(p) PROVE RsForgetInv'
  BY <1>n, <1>14 DEF DoSyncInfo, SyncDeviceInfoFromDB, SyncMetaInfoFromDB, kvVars
<1>15. ASSUME NEW p \in RsPeers, RemoveOnlineEntry(p) PROVE RsForgetInv'
  <2> SUFFICES ASSUME rsStore = "cap", RsCapInv PROVE RsCapInv'
    BY <1>15 DEF RemoveOnlineEntry, kvVars, RsForgetInv
  <2>1. /\ UNCHANGED <<rsCache, rsItems, rsHand, rsLock, rsSync>> /\ rsOnline' = rsOnline \ {p}
        /\ rsClearing' = [rsClearing EXCEPT ![p] = rsClearing[p] + 1]
    BY <1>15 DEF RemoveOnlineEntry, recVars, dataVars, noteVars, initVars
  <2>2. rsClearing' \in [RsPeers -> Nat] /\ rsClearing'[p] > 0 /\ \A k \in RsPeers \ {p} : rsClearing'[k] = rsClearing[k]
    BY <2>1 DEF RsCapInv
  <2>3. \A k : RsLive(k) => RsLive(k)'
    BY <2>1, <2>2 DEF RsLive
  <2> QED BY <2>1, <2>2, <2>3 DEF RsCapInv
<1>16. ASSUME NEW p \in RsPeers, ClearOffLineInfo(p) PROVE RsForgetInv'
  <2> SUFFICES ASSUME rsStore = "cap", RsCapInv PROVE RsCapInv'
    BY <1>16 DEF ClearOffLineInfo, kvVars, RsForgetInv
  <2>1. /\ UNCHANGED <<rsItems, rsHand, rsLock, rsOnline>> /\ rsLock = "free" /\ rsClearing[p] > 0
        /\ rsClearing' = [rsClearing EXCEPT ![p] = rsClearing[p] - 1] /\ rsCache' = InMap({p}, "none")
    BY <1>16 DEF ClearOffLineInfo, Free, noteVars, initVars
  <2>2. rsClearing' \in [RsPeers -> Nat] /\ \A k \in RsPeers \ {p} : rsClearing'[k] = rsClearing[k]
    BY <2>1 DEF RsCapInv
  <2>3. \A k \in RsKeys \ {p} : RsLive(k) => RsLive(k)'
    BY <2>1, <2>2 DEF RsLive
  <2>4. /\ rsCache' = [k \in RsKeys |-> rsCache'[k]] /\ rsCache'[p] = "none"
        /\ \A k \in RsKeys \ {p} : rsCache'[k] = rsCache[k]
    BY <2>1 DEF InMap, RsKeys
  <2> QED BY <2>1, <2>2, <2>3, <2>4 DEF RsCapInv
<1>17. ASSUME NEW p, NEW v, ClearRemoteDeviceMetaInfoData(p) \/ ClearRemoteDeviceLocalInfoData(p) \/ AddCapabilityOfPeer(p, v) PROVE RsForgetInv'
  BY <1>n, <1>17 DEF ClearRemoteDeviceMetaInfoData, ClearRemoteDeviceLocalInfoData, AddCapabilityOfPeer, AddLocalCapability,
     AddMetaCapInfos, RestUnchanged, kvVars
<1>18. ASSUME NEW k, NEW v, NEW cloud, RemoteChange(k, v, cloud) PROVE RsForgetInv'
  BY <1>q, <1>18 DEF RemoteChange, initRest, kvVars, recVars, devVars
<1>19. ASSUME NEW op, NEW ap, NEW v, NEW tk, Handle("cap", op, TRUE, ap, v, tk), ap => Known(Change.key) PROVE RsForgetInv'
  <2> SUFFICES ASSUME rsStore = "cap", RsCapInv PROVE RsCapInv'
    BY <1>19 DEF Handle, kvVars, RsForgetInv
  <2>1. UNCHANGED <<rsCache, rsClearing, rsOnline, rsItems, rsSync>> /\ rsLock = "free"
    BY <1>19 DEF Handle, Free, recVars, dataVars, devVars, initVars
  <2>2. \A k : RsLive(k)' <=> RsLive(k)
    BY <2>1 DEF RsLive
  <2>3. CASE ~ap
    BY <1>19, <2>1, <2>2, <2>3 DEF Handle, RsCapInv
  <2>4. CASE ap
    <3>1. rsHand' = <<[key |-> Change.key, val |-> v, task |-> tk]>> /\ rsLock' = "notify"
      BY <1>19, <2>4 DEF Handle
    <3>2. rsHand'[1].key = Change.key
      BY <3>1
    <3>3. RsLive(Change.key)
      BY <1>19, <2>4 DEF Known, RsLive
    <3>4. RsLive(rsHand[1].key)'
      BY <2>1, <3>2, <3>3 DEF RsLive
    <3> QED BY <2>1, <2>2, <3>1, <3>4 DEF RsCapInv
  <2> QED BY <2>3, <2>4
<1>20. CASE CapAddChange \/ CapUpdateChange \/ CapDeleteChange
  <2>1. CASE CapAddChange
    <3> DEFINE ap == Known(Change.key)
    <3>1. Handle("cap", "insert", TRUE, ap, Change.val, "ENABLE") /\ (ap => Known(Change.key))
      BY <2>1, Zenon DEF CapAddChange
    <3> HIDE DEF ap
    <3> QED BY <1>19, <3>1, Zenon
  <2>2. CASE CapUpdateChange
    <3> DEFINE ap == ~rsUniniting /\ Known(Change.key) /\ Change.key \notin rsEnabled
    <3>1. Handle("cap", "update", TRUE, ap, Change.val, "ENABLE") /\ (ap => Known(Change.key))
      BY <2>2, Zenon DEF CapUpdateChange
    <3> HIDE DEF ap
    <3> QED BY <1>19, <3>1, Zenon
  <2>3. CASE CapDeleteChange
    BY <1>19, <2>3, Zenon DEF CapDeleteChange
  <2> QED BY <1>20, <2>1, <2>2, <2>3
<1>21. ASSUME NEW st, st # "cap", NEW op, NEW lk, NEW ap, NEW v, NEW tk, Handle(st, op, lk, ap, v, tk) PROVE RsForgetInv'
  BY <1>n, <1>21 DEF Handle, kvVars
<1>22. CASE MetaAddChange \/ MetaUpdateChange \/ MetaDeleteChange \/ VersionAddChange \/ VersionUpdateChange \/ VersionDeleteChange
  BY <1>21, <1>22 DEF MetaAddChange, MetaUpdateChange, MetaDeleteChange, VersionAddChange, VersionUpdateChange, VersionDeleteChange
<1>23. CASE ChangeApplies
  <2> SUFFICES ASSUME rsStore = "cap", RsCapInv PROVE RsCapInv'
    BY <1>23 DEF ChangeApplies, kvVars, RsForgetInv
  <2>1. /\ UNCHANGED <<rsClearing, rsOnline, rsItems, rsSync>> /\ rsHand' = <<>> /\ rsLock' = "free" /\ RsLive(rsHand[1].key)
        /\ rsCache' = [rsCache EXCEPT ![rsHand[1].key] = rsHand[1].val]
    BY <1>23 DEF ChangeApplies, RsCapInv, recVars, devVars, initVars
  <2>2. \A k : RsLive(k)' <=> RsLive(k)
    BY <2>1 DEF RsLive
  <2>3. rsCache' = [k \in RsKeys |-> rsCache'[k]] /\ \A k \in RsKeys : k # rsHand[1].key => rsCache'[k] = rsCache[k]
    BY <2>1 DEF RsCapInv
  <2> QED BY <2>1, <2>2, <2>3 DEF RsCapInv
<1>24. ASSUME NEW t, RunTask(t) PROVE RsForgetInv'
  BY <1>q, <1>24 DEF RunTask, kvVars, recVars, dataVars, devVars, noteVars, initVars
<1>25. CASE UNCHANGED rsVars
  BY <1>q, <1>25 DEF rsVars, kvVars, recVars, dataVars, devVars, noteVars, initVars
<1> QED BY <1>1, <1>2, <1>3, <1>4, <1>5, <1>6, <1>7, <1>8, <1>9, <1>10, <1>11, <1>12, <1>13, <1>14, <1>15, <1>16, <1>17,
           <1>18, <1>20, <1>22, <1>23, <1>24, <1>25 DEF RsNext

\* Nothing is remembered of a peer that has left, whatever the interleaving of
\* notifications, recoveries and offline tasks and however many peers there are.
THEOREM OfflineIsForgotten == RsSpec => []RsOfflineIsForgotten
PROOF
<1>1. RsForgetInv => RsOfflineIsForgotten
  BY DEF RsForgetInv, RsCapInv, RsLive, RsKeys, RsOfflineIsForgotten
<1> QED BY <1>1, RsForgetInvInit, RsForgetInvStep, PTL DEF RsSpec

-----------------------------------------------------------------------------
(* ClientKit                                                               *)

KitForwardKinds == {"plain", "safe", "loads"}

KitOpOK(o) ==
  /\ o = [kind |-> o.kind, item |-> o.item, pc |-> o.pc, raced |-> o.raced] /\ o.raced \in BOOLEAN
  /\ o.kind \in {"idle", "register", "unregister", "callback", "release"} \cup KitForwardKinds
  /\ o.kind = "idle" => o = KitIdle
  /\ o.kind \in {"register", "unregister"} => o.item \in KitListeners
  /\ o.kind \in {"callback", "release"} => o.item \in KitEngines
  /\ o.kind \in KitForwardKinds => o.item = "call"
  /\ o.pc \in {"lock", "load"} => o.kind = "loads"

KitDataOK ==
  /\ kitSa \in {"up", "down"} /\ kitAtService \in [KitItems -> Nat] /\ kitRefused \in SUBSET KitEngines /\ kitProxy \in {"null", "live", "stale"}
  /\ kitCache \in SUBSET KitItems /\ kitEvents \in Seq({"add", "remove"})
  /\ kitRestore = [phase |-> kitRestore.phase, left |-> kitRestore.left] /\ kitRestore.left \in SUBSET KitItems

KitOpsOK == kitOp = [t \in KitThreads |-> kitOp[t]] /\ \A t \in KitThreads : KitOpOK(kitOp[t])

\* The last notification says what the service is; a proxy is stale only while
\* the notification that its service ended is still to come.
KitEventsInv ==
  /\ kitEvents # <<>> => kitEvents[Len(kitEvents)] = IF kitSa = "up" THEN "add" ELSE "remove"
  /\ kitProxy = "live" => kitSa = "up"
  /\ kitProxy = "stale" => \E n \in 1..Len(kitEvents) : kitEvents[n] = "remove"

\* A call in the middle of which its item may be cached and not registered.
KitDirty(o) ==
  o.raced \/ (o.kind = "unregister" /\ o.pc = "cache") \/ (o.kind = "callback" /\ o.pc = "call")

\* A call that nothing overlapped is the only one on its item, and has done
\* at the service and in the cache what it did so far.
KitAlone(t) ==
  LET o == kitOp[t] IN
  o.kind # "idle" /\ ~o.raced =>
    /\ \A u \in KitThreads \ {t} : kitOp[u].item # o.item
    /\ kitRestore = KitNoRestore
    /\ o.kind = "register" /\ o.pc = "cache" /\ kitSa = "up" => (kitAtService[o.item] > 0 \/ o.item \in kitRefused)
    /\ o.kind = "release" /\ o.pc = "call" => o.item \notin kitCache

\* Item i is registered or was refused, a restore will register it, or a call of it is under way.
KitKept(i) ==
  \/ \E t \in KitThreads : kitOp[t].item = i /\ KitDirty(kitOp[t])
  \/ kitAtService[i] > 0 \/ i \in kitRefused \/ i \in kitRestore.left \/ (kitRestore.phase = "listeners" /\ i \in KitEngines)

KitCacheInv == kitSa = "up" /\ kitEvents = <<>> => \A i \in kitCache : i \notin kitRaced => KitKept(i)

KitInv == KitDataOK /\ KitOpsOK /\ KitEventsInv /\ (\A t \in KitThreads : KitAlone(t)) /\ KitCacheInv

LEMMA KitIdleOK == KitOpOK(KitIdle) /\ KitIdle.kind = "idle" /\ KitIdle.item = "none" /\ KitIdle.raced = FALSE /\ ~KitDirty(KitIdle)
PROOF
  BY DEF KitOpOK, KitIdle, KitForwardKinds, KitDirty

LEMMA KitInvInit == KitInit => KitInv
PROOF
<1> SUFFICES ASSUME KitInit PROVE KitInv
  OBVIOUS
<1>1. KitOpsOK
  BY KitIdleOK DEF KitInit, KitOpsOK
<1>2. KitDataOK
  <2>1. kitRestore = [phase |-> kitRestore.phase, left |-> kitRestore.left] /\ kitRestore.left \in SUBSET KitItems
    BY DEF KitInit, KitNoRestore
  <2>2. kitEvents \in Seq({"add", "remove"})
    <3>1. kitEvents = <<"add">> \/ kitEvents = <<>>
      BY DEF KitInit
    <3>2. <<"add">> \in Seq({"add", "remove"}) /\ <<>> \in Seq({"add", "remove"})
      OBVIOUS
    <3> QED BY <3>1, <3>2, Zenon
  <2>3. kitRefused = {} /\ kitAtService = [i \in KitItems |-> 0]
    BY DEF KitInit
  <2> QED BY <2>1, <2>2, <2>3 DEF KitInit, KitDataOK
<1>3. KitEventsInv
  BY DEF KitInit, KitEventsInv
<1>4. \A t \in KitThreads : KitAlone(t)
  BY KitIdleOK DEF KitInit, KitAlone
<1> QED BY <1>1, <1>2, <1>3, <1>4 DEF KitInit, KitInv, KitCacheInv

\* While the service is up and every notification handled, the kit reaches it.
LEMMA KitReaches ==
  ASSUME KitDataOK, KitEventsInv
  PROVE  /\ kitSa = "up" /\ kitEvents = <<>> => KitGetProxy = "live"
         /\ KitGetProxy = "null" => kitSa = "down"
         /\ KitGetProxy \in {"null", "live", "stale"}
PROOF
  BY DEF KitDataOK, KitEventsInv, KitGetProxy

\* What a step of thread t does that leaves it the call o2.
LEMMA KitOpStep ==
  ASSUME KitInv, NEW t \in KitThreads, NEW o2, KitOpOK(o2), kitOp' = [kitOp EXCEPT ![t] = o2],
         \/ o2 = KitIdle
         \/ o2.kind = kitOp[t].kind /\ o2.item = kitOp[t].item /\ o2.raced = kitOp[t].raced,
         UNCHANGED <<kitSa, kitEvents, kitRestore>>, kitProxy' = kitProxy \/ kitProxy' = KitGetProxy,
         kitAtService' \in [KitItems -> Nat] /\ kitRefused' \in SUBSET KitEngines, kitCache' \in SUBSET KitItems,
         \A i \in KitItems : i # kitOp[t].item =>
           kitAtService'[i] = kitAtService[i] /\ (i \in kitRefused => i \in kitRefused') /\ (i \in kitCache' => i \in kitCache) /\ (i \in kitRaced => i \in kitRaced'),
         ~o2.raced /\ o2.kind = "register" /\ o2.pc = "cache" /\ kitSa = "up" => (kitAtService'[o2.item] > 0 \/ o2.item \in kitRefused'),
         ~o2.raced /\ o2.kind = "release" /\ o2.pc = "call" => o2.item \notin kitCache',
         /\ kitSa = "up" /\ kitEvents = <<>> /\ kitOp[t].item \in kitCache' /\ kitOp[t].item \notin kitRaced'
         => \/ o2 # KitIdle /\ KitDirty(o2)
            \/ (kitAtService'[kitOp[t].item] > 0 \/ kitOp[t].item \in kitRefused')
            \/ ~KitDirty(kitOp[t]) /\ kitOp[t].item \in kitCache /\ kitOp[t].item \notin kitRaced
                /\ (kitAtService[kitOp[t].item] > 0 \/ kitOp[t].item \in kitRefused => kitAtService'[kitOp[t].item] > 0 \/ kitOp[t].item \in kitRefused')
  PROVE  KitInv'
PROOF
<1> DEFINE o == kitOp[t]
<1>1. kitOp' = [u \in KitThreads |-> kitOp'[u]] /\ kitOp'[t] = o2 /\ \A u \in KitThreads \ {t} : kitOp'[u] = kitOp[u]
  BY DEF KitInv, KitOpsOK
<1>2. KitDataOK'
  BY KitReaches DEF KitInv, KitDataOK
<1>3. KitOpsOK'
  BY <1>1 DEF KitInv, KitOpsOK
<1>4. KitEventsInv'
  BY DEF KitInv, KitEventsInv, KitGetProxy
<1>5. ASSUME NEW u \in KitThreads PROVE KitAlone(u)'
  <2>1. CASE u = t
    <3>1. CASE o2 = KitIdle
      BY <1>1, <2>1, <3>1, KitIdleOK DEF KitAlone
    <3>2. CASE o2 # KitIdle
      <4>1. KitAlone(t) /\ (o2.kind = "idle" <=> o.kind = "idle")
        BY <3>2 DEF KitInv
      <4> QED BY <1>1, <2>1, <3>2, <4>1 DEF KitAlone
    <3> QED BY <3>1, <3>2
  <2>2. CASE u # t
    <3>1. KitAlone(u) /\ kitOp'[u] = kitOp[u]
      BY <1>1, <2>2 DEF KitInv
    <3> SUFFICES ASSUME kitOp[u].kind # "idle", ~kitOp[u].raced PROVE KitAlone(u)'
      BY <3>1 DEF KitAlone
    <3>2. o.item # kitOp[u].item /\ o2.item # kitOp[u].item /\ kitRestore' = KitNoRestore
      <4>1. kitOp[u].item # "none"
        BY KitBounds DEF KitInv, KitOpsOK, KitOpOK, KitForwardKinds
      <4> QED BY <2>2, <3>1, <4>1, KitIdleOK DEF KitAlone
    <3>3. kitOp[u].kind \in {"register", "release"} => kitOp[u].item \in KitItems
      BY DEF KitInv, KitOpsOK, KitOpOK, KitItems
    <3>4. kitOp[u].kind = "register" /\ kitOp[u].pc = "cache" /\ kitSa' = "up" => (kitAtService'[kitOp[u].item] > 0 \/ kitOp[u].item \in kitRefused')
      BY <3>1, <3>2, <3>3 DEF KitAlone
    <3>5. kitOp[u].kind = "release" /\ kitOp[u].pc = "call" => kitOp[u].item \notin kitCache'
      BY <3>1, <3>2, <3>3 DEF KitAlone
    <3>6. \A w \in KitThreads \ {u} : kitOp'[w].item # kitOp[u].item
      BY <1>1, <3>1, <3>2 DEF KitAlone
    <3> QED BY <3>1, <3>2, <3>4, <3>5, <3>6 DEF KitAlone
  <2> QED BY <2>1, <2>2
<1>6. ASSUME kitSa = "up", kitEvents = <<>>, NEW i \in kitCache', i \notin kitRaced' PROVE KitKept(i)'
  <2>0. i \in KitItems
    BY <1>6
  <2>1. CASE i # o.item
    <3>1. KitKept(i)
      BY <1>6, <2>0, <2>1 DEF KitInv, KitCacheInv
    <3>2. ASSUME NEW u \in KitThreads, kitOp[u].item = i, KitDirty(kitOp[u]) PROVE kitOp'[u] = kitOp[u]
      BY <1>1, <2>1, <3>2
    <3> QED BY <2>0, <2>1, <3>1, <3>2 DEF KitKept
  <2>2. CASE i = o.item
    <3>0. i # "none" /\ o # KitIdle
      BY <2>0, <2>2, KitBounds, KitIdleOK DEF KitItems
    <3>1. CASE o2 # KitIdle /\ KitDirty(o2)
      BY <1>1, <2>2, <3>1 DEF KitKept
    <3>2. CASE (kitAtService'[i] > 0 \/ i \in kitRefused')
      BY <3>2 DEF KitKept
    <3>3. CASE ~KitDirty(o) /\ i \in kitCache /\ i \notin kitRaced /\ (kitAtService[i] > 0 \/ i \in kitRefused => kitAtService'[i] > 0 \/ i \in kitRefused')
      <4>1. KitKept(i)
        BY <1>6, <3>3 DEF KitInv, KitCacheInv
      <4>2. ASSUME NEW u \in KitThreads, kitOp[u].item = i, KitDirty(kitOp[u]) PROVE kitOp'[u] = kitOp[u]
        BY <1>1, <3>3, <4>2
      <4>3. (kitAtService[i] > 0 \/ i \in kitRefused) => (kitAtService'[i] > 0 \/ i \in kitRefused')
        BY <2>0, <3>3 DEF KitInv, KitDataOK
      <4> QED BY <4>1, <4>2, <4>3 DEF KitKept
    <3> QED BY <1>6, <2>2, <3>1, <3>2, <3>3
  <2> QED BY <2>1, <2>2
<1> QED BY <1>2, <1>3, <1>4, <1>5, <1>6 DEF KitInv, KitCacheInv

\* The call of a thread, further on.
KitAt(t, pc) == [kind |-> kitOp[t].kind, item |-> kitOp[t].item, pc |-> pc, raced |-> kitOp[t].raced]

\* A step leaves the other items alone.
KitOthers(t) ==
  \A i \in KitItems : i # kitOp[t].item => kitAtService'[i] = kitAtService[i] /\ (i \in kitRefused => i \in kitRefused') /\ (i \in kitCache' => i \in kitCache)

KitQuiet ==
  /\ UNCHANGED <<kitSa, kitEvents, kitRestore>> /\ (kitProxy' = kitProxy \/ kitProxy' = KitGetProxy)
  /\ kitAtService' \in [KitItems -> Nat] /\ kitRefused' \in SUBSET KitEngines /\ kitCache' \in SUBSET KitItems

LEMMA KitGotoStep ==
  ASSUME KitInv, NEW t \in KitThreads, NEW pc, KitGoto(t, pc), kitOp[t].kind # "idle", KitQuiet, KitOthers(t),
         kitRaced' = kitRaced, pc \in {"lock", "load"} => kitOp[t].kind = "loads",
         ~kitOp[t].raced /\ kitOp[t].kind = "register" /\ pc = "cache" /\ kitSa = "up" => (kitAtService'[kitOp[t].item] > 0 \/ kitOp[t].item \in kitRefused'),
         ~kitOp[t].raced /\ kitOp[t].kind = "release" /\ pc = "call" => kitOp[t].item \notin kitCache',
         \/ kitOp[t].raced \/ (kitOp[t].kind = "unregister" /\ pc = "cache") \/ (kitOp[t].kind = "callback" /\ pc = "call")
         \/ kitOp[t].item \notin kitCache'
         \/ ~KitDirty(kitOp[t]) /\ kitOp[t].item \in kitCache /\ (kitAtService[kitOp[t].item] > 0 \/ kitOp[t].item \in kitRefused => kitAtService'[kitOp[t].item] > 0 \/ kitOp[t].item \in kitRefused')
  PROVE  KitInv'
PROOF
<1> DEFINE o2 == KitAt(t, pc)
<1>1. kitOp[t] = [kind |-> kitOp[t].kind, item |-> kitOp[t].item, pc |-> kitOp[t].pc, raced |-> kitOp[t].raced] /\ KitOpOK(kitOp[t])
  BY DEF KitInv, KitOpsOK, KitOpOK
<1>2. [kitOp[t] EXCEPT !.pc = pc] = o2
  BY <1>1 DEF KitAt
<1>3. kitOp' = [kitOp EXCEPT ![t] = o2]
  BY <1>2 DEF KitGoto, KitInv, KitOpsOK
<1>4. o2.kind = kitOp[t].kind /\ o2.item = kitOp[t].item /\ o2.pc = pc /\ o2.raced = kitOp[t].raced
      /\ o2 = [kind |-> o2.kind, item |-> o2.item, pc |-> o2.pc, raced |-> o2.raced]
  BY DEF KitAt
<1>5. KitOpOK(o2)
  BY <1>1, <1>4 DEF KitOpOK
<1>6. o2 # KitIdle
  BY <1>4, KitIdleOK
<1> HIDE DEF o2
<1>7. \A i \in KitItems : i # kitOp[t].item =>
        kitAtService'[i] = kitAtService[i] /\ (i \in kitRefused => i \in kitRefused') /\ (i \in kitCache' => i \in kitCache) /\ (i \in kitRaced => i \in kitRaced')
  BY DEF KitOthers
<1>8. kitOp[t].raced \/ (kitOp[t].kind = "unregister" /\ pc = "cache") \/ (kitOp[t].kind = "callback" /\ pc = "call") => KitDirty(o2)
  BY <1>4 DEF KitDirty
<1>9. kitSa = "up" /\ kitEvents = <<>> /\ kitOp[t].item \in kitCache' /\ kitOp[t].item \notin kitRaced'
      => \/ o2 # KitIdle /\ KitDirty(o2)
         \/ (kitAtService'[kitOp[t].item] > 0 \/ kitOp[t].item \in kitRefused')
         \/ ~KitDirty(kitOp[t]) /\ kitOp[t].item \in kitCache /\ kitOp[t].item \notin kitRaced
             /\ (kitAtService[kitOp[t].item] > 0 \/ kitOp[t].item \in kitRefused => kitAtService'[kitOp[t].item] > 0 \/ kitOp[t].item \in kitRefused')
  BY <1>6, <1>8
<1> QED BY <1>3, <1>4, <1>5, <1>7, <1>9, KitOpStep DEF KitQuiet

LEMMA KitEndStep ==
  ASSUME KitInv, NEW t \in KitThreads, kitOp' = [kitOp EXCEPT ![t] = KitIdle], KitQuiet, KitOthers(t),
         \/ kitOp[t].raced /\ kitRaced' = kitRaced \cup {kitOp[t].item}
         \/ ~kitOp[t].raced /\ (kitRaced' = kitRaced \/ kitRaced' = kitRaced \ {kitOp[t].item}),
         \/ kitOp[t].raced \/ kitOp[t].item \notin kitCache' \/ ~(kitSa = "up" /\ kitEvents = <<>>)
         \/ (kitAtService'[kitOp[t].item] > 0 \/ kitOp[t].item \in kitRefused')
         \/ kitRaced' = kitRaced /\ ~KitDirty(kitOp[t]) /\ kitOp[t].item \in kitCache
             /\ (kitAtService[kitOp[t].item] > 0 \/ kitOp[t].item \in kitRefused => kitAtService'[kitOp[t].item] > 0 \/ kitOp[t].item \in kitRefused')
  PROVE  KitInv'
PROOF
<1>1. \A i \in KitItems : i # kitOp[t].item =>
        kitAtService'[i] = kitAtService[i] /\ (i \in kitRefused => i \in kitRefused') /\ (i \in kitCache' => i \in kitCache) /\ (i \in kitRaced => i \in kitRaced')
  BY DEF KitOthers
<1>2. kitSa = "up" /\ kitEvents = <<>> /\ kitOp[t].item \in kitCache' /\ kitOp[t].item \notin kitRaced'
      => \/ (kitAtService'[kitOp[t].item] > 0 \/ kitOp[t].item \in kitRefused')
         \/ ~KitDirty(kitOp[t]) /\ kitOp[t].item \in kitCache /\ kitOp[t].item \notin kitRaced
             /\ (kitAtService[kitOp[t].item] > 0 \/ kitOp[t].item \in kitRefused => kitAtService'[kitOp[t].item] > 0 \/ kitOp[t].item \in kitRefused')
  OBVIOUS
<1> QED BY <1>1, <1>2, KitIdleOK, KitOpStep DEF KitQuiet

\* KitEnd, without its Boolean argument.
LEMMA KitEnds ==
  ASSUME NEW t
  PROVE  /\ KitEnd(t, FALSE) =>
              /\ kitOp' = [kitOp EXCEPT ![t] = KitIdle]
              /\ kitRaced' = IF kitOp[t].raced THEN kitRaced \cup {kitOp[t].item} ELSE kitRaced
         /\ \A ok : KitEnd(t, ok) =>
              /\ kitOp' = [kitOp EXCEPT ![t] = KitIdle]
              /\ kitOp[t].raced => kitRaced' = kitRaced \cup {kitOp[t].item}
              /\ ~kitOp[t].raced => kitRaced' = kitRaced \/ kitRaced' = kitRaced \ {kitOp[t].item}
PROOF
  BY DEF KitEnd

\* The first GetDHFWKProxy of a call changes nothing but the proxy.
LEMMA KitFirstGetStep ==
  ASSUME KitInv, NEW t \in KitThreads, kitOp[t].kind # "idle", NEW ifNull, NEW ifProxy, KitFirstGet(t, ifNull, ifProxy),
         \/ ifProxy = "call" /\ kitOp[t].kind # "release" /\ kitOp[t].kind # "callback"
         \/ ifProxy = "cache" /\ kitOp[t].kind # "register",
         \/ ifNull = "return"
         \/ ifNull = "cache" /\ kitOp[t].kind # "release"
         \/ ifNull = "lock" /\ kitOp[t].kind = "loads"
  PROVE  KitInv'
PROOF
<1>1. /\ kitOp[t].pc = "get" /\ kitProxy' = KitGetProxy
      /\ UNCHANGED <<kitSa, kitAtService, kitRefused, kitCache, kitEvents, kitRestore>>
  BY DEF KitFirstGet, svcVars
<1>2. KitQuiet /\ KitOthers(t)
  BY <1>1 DEF KitQuiet, KitOthers, KitInv, KitDataOK
<1>3. kitOp[t].raced \/ ~KitDirty(kitOp[t])
  BY <1>1 DEF KitDirty
<1>i. kitOp[t].item \in kitCache => kitAtService[kitOp[t].item] \in Nat
  BY DEF KitInv, KitDataOK
<1>c. kitOp[t].item \in kitCache => (kitAtService[kitOp[t].item] > 0 \/ kitOp[t].item \in kitRefused => kitAtService'[kitOp[t].item] > 0 \/ kitOp[t].item \in kitRefused')
  BY <1>1, <1>i
<1>4. ASSUME KitEnd(t, FALSE) PROVE KitInv'
  <2>1. kitOp' = [kitOp EXCEPT ![t] = KitIdle] /\ kitRaced' = IF kitOp[t].raced THEN kitRaced \cup {kitOp[t].item} ELSE kitRaced
    BY <1>4, KitEnds
  <2> QED BY <1>1, <1>2, <1>3, <1>c, <2>1, KitEndStep
<1>5. ASSUME NEW pc, KitGoto(t, pc), UNCHANGED kitRaced,
             \/ pc = "call" /\ kitOp[t].kind # "release"
             \/ pc = "lock" /\ kitOp[t].kind = "loads"
             \/ pc = "cache" /\ (kitOp[t].kind = "register" => kitSa # "up")
      PROVE  KitInv'
  BY <1>1, <1>2, <1>3, <1>5, <1>c, KitGotoStep
<1>6. KitGetProxy = "null" => kitSa # "up"
  BY KitReaches DEF KitInv
<1>7. CASE KitGetProxy = "null"
  BY <1>4, <1>5, <1>6, <1>7 DEF KitFirstGet
<1>8. CASE KitGetProxy # "null"
  BY <1>5, <1>8 DEF KitFirstGet
<1> QED BY <1>7, <1>8

LEMMA KitSvc ==
  ASSUME KitInv, NEW i \in KitItems
  PROVE  /\ kitAtService \in [KitItems -> Nat] /\ kitAtService[i] \in Nat
         /\ SvcAdd(i) => kitAtService' \in [KitItems -> Nat] /\ kitRefused' \in SUBSET KitEngines /\ (kitAtService'[i] > 0 \/ i \in kitRefused')
         /\ SvcRemove(i) => kitAtService' \in [KitItems -> Nat] /\ kitRefused' \in SUBSET KitEngines
         /\ SvcAdd(i) \/ SvcRemove(i) => \A k \in KitItems : k # i => kitAtService'[k] = kitAtService[k] /\ (k \in kitRefused => k \in kitRefused')
PROOF
<1>1. kitAtService \in [KitItems -> Nat] /\ kitAtService[i] \in Nat
  BY DEF KitInv, KitDataOK
<1>2. ASSUME SvcAdd(i)
      PROVE  kitAtService' \in [KitItems -> Nat] /\ kitRefused' \in SUBSET KitEngines /\ (kitAtService'[i] > 0 \/ i \in kitRefused')
             /\ \A k \in KitItems : k # i => kitAtService'[k] = kitAtService[k] /\ (k \in kitRefused => k \in kitRefused')
  BY <1>1, <1>2, KitBounds DEF SvcAdd, SvcAdmits, KitItems, KitInv, KitDataOK
<1>3. ASSUME SvcRemove(i)
      PROVE  kitAtService' \in [KitItems -> Nat] /\ kitRefused' \in SUBSET KitEngines /\ \A k \in KitItems : k # i => kitAtService'[k] = kitAtService[k] /\ (k \in kitRefused => k \in kitRefused')
  BY <1>1, <1>3, KitBounds DEF SvcRemove, KitItems, KitInv, KitDataOK
<1> QED BY <1>1, <1>2, <1>3

LEMMA KitRegisterStep ==
  ASSUME KitInv, NEW t \in KitThreads, KitRegister(t) \/ KitUnregister(t)
  PROVE  KitInv'
PROOF
<1> DEFINE l == kitOp[t].item
<1>0. kitOp[t].kind \in {"register", "unregister"} /\ kitOp[t].kind # "idle" /\ l \in KitListeners /\ l \in KitItems
  BY DEF KitRegister, KitUnregister, KitInv, KitOpsOK, KitOpOK, KitItems
<1>1. CASE KitFirstGet(t, "cache", "call")
  BY <1>0, <1>1, KitFirstGetStep
<1>2. CASE /\ kitOp[t].kind = "register" /\ kitOp[t].pc = "call" /\ kitProxy' = KitGetProxy
           /\ UNCHANGED <<kitSa, kitCache, kitEvents, kitRestore>>
           /\ \/ SvcAdd(l) /\ KitGoto(t, "cache") /\ UNCHANGED kitRaced
              \/ KitGetProxy # "live" /\ KitEnd(t, FALSE) /\ UNCHANGED <<kitAtService, kitRefused>>
  <2>1. kitOp[t].raced \/ ~KitDirty(kitOp[t])
    BY <1>2 DEF KitDirty
  <2>2. CASE SvcAdd(l) /\ KitGoto(t, "cache") /\ UNCHANGED kitRaced
    <3>1. KitQuiet /\ KitOthers(t) /\ (kitAtService'[l] > 0 \/ l \in kitRefused')
      BY <1>0, <1>2, <2>2, KitSvc DEF KitQuiet, KitOthers, KitInv, KitDataOK
    <3> QED
      <4>1. CASE kitOp[t].raced \/ l \notin kitCache
        BY <1>0, <1>2, <2>2, <3>1, <4>1, KitGotoStep
      <4>2. CASE ~kitOp[t].raced /\ l \in kitCache
        <5>1. (kitAtService[l] > 0 \/ l \in kitRefused => kitAtService'[l] > 0 \/ l \in kitRefused')
          BY <1>0, <1>2, <2>2, KitBounds DEF SvcAdd, KitInv, KitDataOK
        <5> QED BY <1>0, <1>2, <2>1, <2>2, <3>1, <4>2, <5>1, KitGotoStep
      <4> QED BY <4>1, <4>2
  <2>3. CASE KitGetProxy # "live" /\ KitEnd(t, FALSE) /\ UNCHANGED <<kitAtService, kitRefused>>
    <3>1. KitQuiet /\ KitOthers(t)
      BY <1>0, <1>2, <2>3 DEF KitQuiet, KitOthers, KitInv, KitDataOK
    <3>2. ~(kitSa = "up" /\ kitEvents = <<>>)
      BY <2>3, KitReaches DEF KitInv
    <3>3. kitOp' = [kitOp EXCEPT ![t] = KitIdle] /\ kitRaced' = IF kitOp[t].raced THEN kitRaced \cup {kitOp[t].item} ELSE kitRaced
      BY <2>3, KitEnds
    <3> QED BY <3>1, <3>2, <3>3, KitEndStep
  <2> QED BY <1>2, <2>2, <2>3
<1>3. ASSUME kitOp[t].kind = "register", kitOp[t].pc = "cache", NEW full, KitEnd(t, ~full),
             kitCache' = IF full THEN kitCache ELSE kitCache \cup {l},
             UNCHANGED <<kitSa, kitAtService, kitRefused, kitProxy, kitEvents, kitRestore>>
      PROVE  KitInv'
  <2>1. KitQuiet /\ KitOthers(t)
    BY <1>0, <1>3 DEF KitQuiet, KitOthers, KitInv, KitDataOK
  <2>2. KitAlone(t) /\ kitAtService[l] \in Nat
    BY <1>0, KitSvc DEF KitInv
  <2>3. kitOp[t].raced \/ kitSa # "up" \/ (kitAtService'[l] > 0 \/ l \in kitRefused')
    BY <1>0, <1>3, <2>2 DEF KitAlone
  <2>4. /\ kitOp' = [kitOp EXCEPT ![t] = KitIdle]
        /\ kitOp[t].raced => kitRaced' = kitRaced \cup {kitOp[t].item}
        /\ ~kitOp[t].raced => kitRaced' = kitRaced \/ kitRaced' = kitRaced \ {kitOp[t].item}
    BY <1>3 DEF KitEnd
  <2> QED BY <2>1, <2>3, <2>4, KitEndStep
<1>4. CASE /\ kitOp[t].kind = "unregister" /\ kitProxy' = KitGetProxy
           /\ SvcRemove(l) \/ UNCHANGED <<kitAtService, kitRefused>>
           /\ KitGoto(t, "cache")
           /\ UNCHANGED <<kitSa, kitCache, kitEvents, kitRestore, kitRaced>>
  <2>1. KitQuiet /\ KitOthers(t)
    BY <1>0, <1>4, KitSvc DEF KitQuiet, KitOthers, KitInv, KitDataOK
  <2> QED BY <1>0, <1>4, <2>1, KitGotoStep
<1>5. CASE /\ kitCache' = kitCache \ {l} /\ KitEnd(t, TRUE)
           /\ UNCHANGED <<kitSa, kitAtService, kitRefused, kitProxy, kitEvents, kitRestore>>
  <2>1. KitQuiet /\ KitOthers(t) /\ l \notin kitCache'
    BY <1>5 DEF KitQuiet, KitOthers, KitInv, KitDataOK
  <2>2. /\ kitOp' = [kitOp EXCEPT ![t] = KitIdle]
        /\ kitOp[t].raced => kitRaced' = kitRaced \cup {kitOp[t].item}
        /\ ~kitOp[t].raced => kitRaced' = kitRaced \/ kitRaced' = kitRaced \ {kitOp[t].item}
    BY <1>5 DEF KitEnd
  <2> QED BY <2>1, <2>2, KitEndStep
<1>6. CASE KitRegister(t)
  <2>1. CASE /\ kitOp[t].pc = "cache"
             /\ LET full == Cardinality(kitCache \cap KitListeners) >= KitMaxListeners IN
                /\ kitCache' = IF full THEN kitCache ELSE kitCache \cup {l}
                /\ KitEnd(t, ~full)
             /\ UNCHANGED <<kitSa, kitStarts, kitAtService, kitRefused, kitProxy, kitEvents, kitRestore, kitLoading, kitCrashed>>
    <3> DEFINE full == Cardinality(kitCache \cap KitListeners) >= KitMaxListeners
    <3>1. kitCache' = (IF full THEN kitCache ELSE kitCache \cup {l}) /\ KitEnd(t, ~full)
      BY <2>1
    <3> HIDE DEF full
    <3>2. kitOp[t].kind = "register"
      BY <1>6 DEF KitRegister
    <3> QED BY <1>3, <2>1, <3>1, <3>2
  <2> QED BY <1>1, <1>2, <1>6, <2>1 DEF KitRegister, svcVars
<1>7. CASE KitUnregister(t)
  BY <1>1, <1>4, <1>5, <1>7 DEF KitUnregister, svcVars
<1> QED BY <1>6, <1>7

LEMMA KitCallbackStep ==
  ASSUME KitInv, NEW t \in KitThreads, KitRegisterCtlCenterCallback(t) \/ KitReleaseAVCenter(t)
  PROVE  KitInv'
PROOF
<1> DEFINE e == kitOp[t].item
<1>0. kitOp[t].kind \in {"callback", "release"} /\ kitOp[t].kind # "idle" /\ e \in KitItems
  BY DEF KitRegisterCtlCenterCallback, KitReleaseAVCenter, KitCallback, KitInv, KitOpsOK, KitOpOK, KitItems
<1>1. CASE KitFirstGet(t, "return", "cache")
  BY <1>0, <1>1, KitFirstGetStep
<1>2. CASE /\ KitGoto(t, "call") /\ UNCHANGED <<kitSa, kitAtService, kitRefused, kitProxy, kitEvents, kitRestore, kitRaced>>
           /\ \/ kitOp[t].kind = "callback" /\ kitCache' = kitCache \cup {e}
              \/ kitOp[t].kind = "release" /\ kitCache' = kitCache \ {e}
  <2>1. KitQuiet /\ KitOthers(t)
    BY <1>0, <1>2 DEF KitQuiet, KitOthers, KitInv, KitDataOK
  <2> QED BY <1>0, <1>2, <2>1, KitGotoStep
<1>3. CASE /\ kitOp[t].pc = "call" /\ kitProxy' = KitGetProxy /\ UNCHANGED <<kitSa, kitCache, kitEvents, kitRestore>>
           /\ \/ KitGetProxy # "live" /\ UNCHANGED <<kitAtService, kitRefused>>
              \/ kitOp[t].kind = "callback" /\ SvcAdd(e)
              \/ kitOp[t].kind = "release" /\ SvcRemove(e)
           /\ kitOp' = [kitOp EXCEPT ![t] = KitIdle]
           /\ kitOp[t].raced => kitRaced' = kitRaced \cup {kitOp[t].item}
           /\ ~kitOp[t].raced => kitRaced' = kitRaced \/ kitRaced' = kitRaced \ {kitOp[t].item}
  <2>1. KitQuiet /\ KitOthers(t)
    BY <1>0, <1>3, KitSvc DEF KitQuiet, KitOthers, KitInv, KitDataOK
  <2>2. KitGetProxy # "live" => ~(kitSa = "up" /\ kitEvents = <<>>)
    BY KitReaches DEF KitInv
  <2>3. kitOp[t].kind = "release" /\ ~kitOp[t].raced => e \notin kitCache'
    BY <1>3 DEF KitInv, KitAlone
  <2>4. SvcAdd(e) => (kitAtService'[e] > 0 \/ e \in kitRefused')
    BY <1>0, KitSvc
  <2> QED BY <1>3, <2>1, <2>2, <2>3, <2>4, KitEndStep
<1>4. ASSUME KitEnd(t, KitGetProxy = "live" /\ SvcAdmits(e))
      PROVE  /\ kitOp' = [kitOp EXCEPT ![t] = KitIdle]
             /\ kitOp[t].raced => kitRaced' = kitRaced \cup {kitOp[t].item}
             /\ ~kitOp[t].raced => kitRaced' = kitRaced \/ kitRaced' = kitRaced \ {kitOp[t].item}
  BY <1>4 DEF KitEnd
<1>5. CASE KitRegisterCtlCenterCallback(t)
  BY <1>1, <1>2, <1>3, <1>4, <1>5 DEF KitRegisterCtlCenterCallback, KitCallback, svcVars
<1>6. CASE KitReleaseAVCenter(t)
  BY <1>1, <1>2, <1>3, <1>4, <1>6 DEF KitReleaseAVCenter, KitCallback, svcVars
<1> QED BY <1>5, <1>6

LEMMA KitForwardStep ==
  ASSUME KitInv, NEW t \in KitThreads, KitForward(t) \/ KitLoadSA(t)
  PROVE  KitInv'
PROOF
<1>d. DOMAIN KitForwarders = KitForwardKinds
  BY DEF KitForwarders, KitForwardKinds
<1>0. kitOp[t].kind # "idle" /\ kitOp[t].item \notin KitItems /\ kitOp[t].kind \in KitForwardKinds
  <2>1. kitOp[t].kind \in KitForwardKinds
    BY <1>d, KitIdleOK DEF KitForward, KitLoadSA, KitInv, KitOpsOK, KitOpOK, KitForwardKinds
  <2>2. kitOp[t].item = "call"
    BY <2>1 DEF KitInv, KitOpsOK, KitOpOK
  <2> QED BY <2>1, <2>2, KitBounds DEF KitItems, KitForwardKinds
<1>1. ASSUME NEW ok, KitEnd(t, ok), UNCHANGED <<kitSa, kitAtService, kitRefused, kitCache, kitEvents, kitRestore>>,
             kitProxy' = kitProxy \/ kitProxy' = KitGetProxy
      PROVE  KitInv'
  <2>1. KitQuiet /\ KitOthers(t) /\ kitOp[t].item \notin kitCache'
    BY <1>0, <1>1 DEF KitQuiet, KitOthers, KitInv, KitDataOK
  <2>2. /\ kitOp' = [kitOp EXCEPT ![t] = KitIdle]
        /\ kitOp[t].raced => kitRaced' = kitRaced \cup {kitOp[t].item}
        /\ ~kitOp[t].raced => kitRaced' = kitRaced \/ kitRaced' = kitRaced \ {kitOp[t].item}
    BY <1>1 DEF KitEnd
  <2> QED BY <2>1, <2>2, KitEndStep
<1>2. ASSUME NEW pc, KitGoto(t, pc), pc \in {"call", "load"}, pc = "load" => kitOp[t].kind = "loads",
             UNCHANGED <<kitSa, kitProxy, kitAtService, kitRefused, kitCache, kitEvents, kitRestore, kitRaced>>
      PROVE  KitInv'
  <2>1. KitQuiet /\ KitOthers(t) /\ kitOp[t].item \notin kitCache'
    BY <1>0, <1>2 DEF KitQuiet, KitOthers, KitInv, KitDataOK
  <2> QED BY <1>0, <1>2, <2>1, KitGotoStep DEF KitForwardKinds
<1>3. CASE KitForward(t)
  <2>1. CASE KitFirstGet(t, IF kitOp[t].kind = "loads" THEN "lock" ELSE "return", "call")
    <3>1. CASE kitOp[t].kind = "loads"
      <4>1. KitFirstGet(t, "lock", "call")
        BY <2>1, <3>1
      <4> QED BY <3>1, <4>1, KitFirstGetStep
    <3>2. CASE kitOp[t].kind # "loads"
      <4>1. KitFirstGet(t, "return", "call")
        BY <2>1, <3>2
      <4> QED BY <1>0, <4>1, KitFirstGetStep DEF KitForwardKinds
    <3> QED BY <3>1, <3>2
  <2> QED BY <1>1, <1>3, <2>1 DEF KitForward, SvcInitializeAVCenter, svcVars
<1>4. CASE KitLoadSA(t)
  <2>1. kitOp[t].pc = "lock" => kitOp[t].kind = "loads"
    BY DEF KitInv, KitOpsOK, KitOpOK
  <2>2. CASE KitEnd(t, FALSE)
    BY <1>1, <1>4, <2>2 DEF KitLoadSA, svcVars
  <2>3. CASE KitGoto(t, "load") /\ kitOp[t].pc = "lock" /\ UNCHANGED kitRaced
    BY <1>2, <1>4, <2>1, <2>3 DEF KitLoadSA, svcVars
  <2>4. CASE KitGoto(t, "call") /\ UNCHANGED kitRaced
    BY <1>2, <1>4, <2>4 DEF KitLoadSA, svcVars
  <2> QED BY <1>4, <2>2, <2>3, <2>4 DEF KitLoadSA
<1> QED BY <1>3, <1>4

LEMMA KitOverlapOK ==
  ASSUME NEW o, KitOpOK(o)
  PROVE  /\ KitOpOK(KitOverlap(o)) /\ KitOverlap(o).kind = o.kind /\ KitOverlap(o).item = o.item /\ KitOverlap(o).pc = o.pc
         /\ o.kind # "idle" => KitOverlap(o).raced = TRUE
         /\ KitDirty(o) => KitDirty(KitOverlap(o))
PROOF
<1> DEFINE r == o.kind # "idle"
           p == [kind |-> o.kind, item |-> o.item, pc |-> o.pc, raced |-> r]
<1>1. r \in BOOLEAN
  BY Zenon
<1>2. o = [kind |-> o.kind, item |-> o.item, pc |-> o.pc, raced |-> o.raced]
  BY DEF KitOpOK
<1> HIDE DEF r
<1>3. [o EXCEPT !.raced = r] = p
  BY <1>2
<1>4. KitOverlap(o) = p
  BY <1>3 DEF KitOverlap, r
<1>5. p.kind = o.kind /\ p.item = o.item /\ p.pc = o.pc /\ p.raced = r /\ p = [kind |-> p.kind, item |-> p.item, pc |-> p.pc, raced |-> p.raced]
  OBVIOUS
<1> HIDE DEF p
<1>6. CASE o.kind = "idle"
  <2>1. r = FALSE /\ o = KitIdle
    BY <1>6 DEF r, KitOpOK
  <2>2. p = KitIdle
    BY <2>1, KitIdleOK DEF p, KitIdle
  <2> QED BY <1>4, <1>6, <2>1, <2>2
<1>7. CASE o.kind # "idle"
  <2>1. r = TRUE
    BY <1>7, Zenon DEF r
  <2>2. KitOpOK(p)
    BY <1>1, <1>5, <1>7 DEF KitOpOK
  <2>3. KitDirty(p)
    BY <1>5, <2>1 DEF KitDirty
  <2> QED BY <1>4, <1>5, <2>1, <2>2, <2>3
<1> QED BY <1>6, <1>7

\* A start, an end or a restore overlaps every call.
LEMMA KitAllOverlapStep ==
  ASSUME KitInv, KitAllOverlap
  PROVE  /\ KitOpsOK' /\ \A t \in KitThreads : KitAlone(t)'
         /\ \A t \in KitThreads : kitOp'[t].item = kitOp[t].item /\ (KitDirty(kitOp[t]) => KitDirty(kitOp'[t]))
PROOF
<1>1. \A t \in KitThreads : kitOp'[t] = KitOverlap(kitOp[t]) /\ KitOpOK(kitOp[t])
  BY DEF KitAllOverlap, KitInv, KitOpsOK
<1>2. KitOpsOK'
  <2>1. kitOp' = [t \in KitThreads |-> kitOp'[t]]
    BY DEF KitAllOverlap
  <2> QED BY <1>1, <2>1, KitOverlapOK DEF KitOpsOK
<1>3. ASSUME NEW t \in KitThreads PROVE KitAlone(t)'
  <2>1. kitOp'[t].kind # "idle" => kitOp'[t].raced = TRUE
    <3> DEFINE o == kitOp[t]
    <3>1. KitOpOK(o) /\ kitOp'[t] = KitOverlap(o)
      BY <1>1
    <3> HIDE DEF o
    <3>2. KitOverlap(o).kind = o.kind /\ (o.kind # "idle" => KitOverlap(o).raced = TRUE)
      BY <3>1, KitOverlapOK
    <3> QED BY <3>1, <3>2
  <2> QED BY <2>1 DEF KitAlone
<1> QED BY <1>1, <1>2, <1>3, KitOverlapOK

LEMMA KitBeginStep ==
  ASSUME KitInv, NEW t \in KitThreads, NEW kind, NEW i, KitBegin(t, kind, i),
         \/ kind \in {"register", "unregister"} /\ i \in KitListeners
         \/ kind \in {"callback", "release"} /\ i \in KitEngines
         \/ kind \in KitForwardKinds /\ i = "call"
  PROVE  KitInv'
PROOF
<1> DEFINE r == KitRivals(i) # {} \/ kitRestore # KitNoRestore
           new == [kind |-> kind, item |-> i, pc |-> "get", raced |-> r]
<1>1. /\ kitOp[t] = KitIdle
      /\ kitOp' = [u \in KitThreads |-> IF u = t THEN new
                                         ELSE IF u \in KitRivals(i) THEN KitOverlap(kitOp[u]) ELSE kitOp[u]]
      /\ UNCHANGED <<kitSa, kitAtService, kitRefused, kitProxy, kitCache, kitEvents, kitRestore, kitRaced>>
  BY DEF KitBegin, svcVars
<1>2. r \in BOOLEAN
  BY Zenon
<1>3. (~r => KitRivals(i) = {} /\ kitRestore = KitNoRestore) /\ i # "none"
  BY KitBounds
<1> HIDE DEF r
<1>4. KitOpOK(new) /\ new.kind = kind /\ new.item = i /\ new.pc = "get" /\ new.raced = r /\ kind # "idle"
  BY <1>2 DEF KitOpOK, KitForwardKinds
<1> HIDE DEF new
<1>5. \A u \in KitThreads : KitOpOK(kitOp[u]) /\ (u \in KitRivals(i) <=> kitOp[u].item = i)
  BY DEF KitInv, KitOpsOK, KitRivals
<1>6. t \notin KitRivals(i) /\ kitOp'[t] = new
  BY <1>1, <1>3, <1>5, KitIdleOK
<1>7. ASSUME NEW u \in KitThreads, u \in KitRivals(i)
      PROVE  /\ KitOpOK(kitOp'[u]) /\ kitOp'[u].item = i /\ kitOp'[u].raced = TRUE /\ KitDirty(kitOp'[u])
  <2>1. kitOp[u].kind # "idle"
    BY <1>3, <1>5, <1>7, KitIdleOK DEF KitOpOK
  <2>2. kitOp'[u] = KitOverlap(kitOp[u])
    BY <1>1, <1>6, <1>7
  <2> QED BY <1>5, <1>7, <2>1, <2>2, KitOverlapOK DEF KitDirty
<1>8. \A u \in KitThreads \ {t} : u \notin KitRivals(i) => kitOp'[u] = kitOp[u] /\ kitOp[u].item # i
  BY <1>1, <1>5
<1>9. KitOpsOK'
  <2>1. kitOp' = [u \in KitThreads |-> kitOp'[u]]
    BY <1>1
  <2> QED BY <1>4, <1>5, <1>6, <1>7, <1>8, <2>1 DEF KitOpsOK
<1>10. KitDataOK' /\ KitEventsInv'
  BY <1>1 DEF KitInv, KitDataOK, KitEventsInv
<1>11. ASSUME NEW u \in KitThreads PROVE KitAlone(u)'
  <2>1. CASE u = t
    <3> SUFFICES ASSUME ~r PROVE KitAlone(u)'
      BY <1>4, <1>6, <2>1 DEF KitAlone
    <3>1. \A w \in KitThreads \ {t} : kitOp'[w].item # i
      BY <1>3, <1>8
    <3> QED BY <1>1, <1>3, <1>4, <1>6, <2>1, <3>1 DEF KitAlone
  <2>2. CASE u \in KitRivals(i)
    BY <1>7, <2>2 DEF KitAlone
  <2>3. CASE u # t /\ u \notin KitRivals(i)
    <3>1. KitAlone(u) /\ kitOp'[u] = kitOp[u] /\ kitOp[u].item # i
      BY <1>8, <2>3 DEF KitInv
    <3>2. \A w \in KitThreads : w # t => kitOp'[w].item = kitOp[w].item
      BY <1>5, <1>7, <1>8
    <3> QED BY <1>1, <1>4, <1>6, <3>1, <3>2 DEF KitAlone
  <2> QED BY <2>1, <2>2, <2>3
<1>12. KitCacheInv'
  <2> SUFFICES ASSUME kitSa = "up", kitEvents = <<>>, NEW k \in kitCache, k \notin kitRaced PROVE KitKept(k)'
    BY <1>1 DEF KitCacheInv
  <2>1. KitKept(k)
    BY DEF KitInv, KitCacheInv
  <2>2. ASSUME NEW u \in KitThreads, kitOp[u].item = k, KitDirty(kitOp[u]) PROVE kitOp'[u].item = k /\ KitDirty(kitOp'[u])
    <3>1. u # t
      BY <1>1, <2>2, KitIdleOK
    <3> QED BY <1>5, <1>7, <1>8, <2>2, <3>1
  <2> QED BY <1>1, <2>1, <2>2 DEF KitKept
<1> QED BY <1>9, <1>10, <1>11, <1>12 DEF KitInv

\* The service starts or ends, and the notifications of it arrive.
LEMMA KitServiceStep ==
  ASSUME KitInv, KitServiceStarts \/ KitServiceDies \/ KitOnRemoveSystemAbility \/ KitOnAddSystemAbility
  PROVE  KitInv'
PROOF
<1>0. kitEvents \in Seq({"add", "remove"}) /\ kitAtService \in [KitItems -> Nat]
  BY DEF KitInv, KitDataOK
<1>1. CASE KitServiceStarts
  <2>1. kitEvents' # <<>> /\ kitEvents' \in Seq({"add", "remove"}) /\ kitEvents'[Len(kitEvents')] = "add"
        /\ \A n \in 1..Len(kitEvents) : kitEvents'[n] = kitEvents[n] /\ n \in 1..Len(kitEvents')
    BY <1>0, <1>1 DEF KitServiceStarts
  <2>2. KitDataOK'
    BY <1>1, <2>1 DEF KitServiceStarts, KitInv, KitDataOK
  <2>3. KitEventsInv'
    BY <1>1, <2>1 DEF KitServiceStarts, KitInv, KitEventsInv
  <2>4. KitOpsOK' /\ \A t \in KitThreads : KitAlone(t)'
    BY <1>1, KitAllOverlapStep DEF KitServiceStarts
  <2> QED BY <2>1, <2>2, <2>3, <2>4 DEF KitInv, KitCacheInv
<1>2. CASE KitServiceDies
  <2>1. kitEvents' \in Seq({"add", "remove"}) /\ kitEvents'[Len(kitEvents')] = "remove" /\ Len(kitEvents') \in 1..Len(kitEvents')
        /\ \A n \in 1..Len(kitEvents) : kitEvents'[n] = kitEvents[n] /\ n \in 1..Len(kitEvents')
    BY <1>0, <1>2 DEF KitServiceDies
  <2>2. KitDataOK'
    BY <1>2, <2>1 DEF KitServiceDies, KitInv, KitDataOK
  <2>3. KitEventsInv'
    BY <1>2, <2>1 DEF KitServiceDies, KitInv, KitEventsInv
  <2>4. KitOpsOK' /\ \A t \in KitThreads : KitAlone(t)'
    BY <1>2, KitAllOverlapStep DEF KitServiceDies
  <2>5. kitSa' = "down"
    BY <1>2 DEF KitServiceDies
  <2> QED BY <2>2, <2>3, <2>4, <2>5 DEF KitInv, KitCacheInv
<1>t. ASSUME kitEvents # <<>>, kitEvents' = Tail(kitEvents)
      PROVE  /\ kitEvents' \in Seq({"add", "remove"}) /\ kitEvents[1] = Head(kitEvents)
             /\ kitEvents' # <<>> => kitEvents'[Len(kitEvents')] = kitEvents[Len(kitEvents)]
             /\ kitEvents' = <<>> => kitEvents[Len(kitEvents)] = Head(kitEvents)
             /\ \A n \in 1..Len(kitEvents) : n # 1 => n - 1 \in 1..Len(kitEvents') /\ kitEvents'[n - 1] = kitEvents[n]
  <2>1. /\ kitEvents' \in Seq({"add", "remove"}) /\ Len(kitEvents) \in Nat /\ Len(kitEvents) > 0
        /\ Len(kitEvents') = Len(kitEvents) - 1
        /\ \A n \in 1..Len(kitEvents') : kitEvents'[n] = kitEvents[n + 1]
    BY <1>0, <1>t
  <2> QED BY <1>0, <1>t, <2>1
<1>3. CASE KitOnRemoveSystemAbility
  <2>0. /\ kitEvents # <<>> /\ kitEvents' = Tail(kitEvents) /\ Head(kitEvents) = "remove" /\ kitProxy' = "null"
        /\ UNCHANGED <<kitSa, kitAtService, kitRefused, kitCache, kitRestore, kitOp, kitRaced>>
    BY <1>3 DEF KitOnRemoveSystemAbility, svcVars
  <2>1. KitDataOK' /\ KitOpsOK'
    BY <1>t, <2>0 DEF KitInv, KitDataOK, KitOpsOK
  <2>2. KitEventsInv'
    BY <1>t, <2>0 DEF KitInv, KitEventsInv
  <2>3. \A t \in KitThreads : KitAlone(t)'
    BY <2>0 DEF KitInv, KitAlone
  <2>4. kitEvents' = <<>> => kitSa' # "up"
    BY <1>t, <2>0 DEF KitInv, KitEventsInv
  <2> QED BY <2>1, <2>2, <2>3, <2>4 DEF KitInv, KitCacheInv
<1>4. CASE KitOnAddSystemAbility
  <2>0. /\ kitEvents # <<>> /\ kitEvents' = Tail(kitEvents) /\ Head(kitEvents) = "add" /\ kitProxy' = KitGetProxy
        /\ UNCHANGED <<kitSa, kitAtService, kitRefused, kitCache, kitRaced>>
        /\ kitRestore' = IF KitGetProxy = "null" THEN KitNoRestore ELSE [phase |-> "listeners", left |-> kitCache \cap KitListeners]
    BY <1>4 DEF KitOnAddSystemAbility, svcVars
  <2>1. KitDataOK'
    <3>1. kitRestore' = [phase |-> kitRestore'.phase, left |-> kitRestore'.left] /\ kitRestore'.left \in SUBSET KitItems
      BY <2>0 DEF KitInv, KitDataOK, KitNoRestore
    <3>2. KitGetProxy \in {"null", "live", "stale"}
      BY KitReaches DEF KitInv
    <3> QED BY <1>t, <2>0, <3>1, <3>2 DEF KitInv, KitDataOK
  <2>2. KitEventsInv'
    <3>1. KitGetProxy = "live" => kitSa = "up"
      BY DEF KitInv, KitEventsInv, KitGetProxy
    <3>2. KitGetProxy = "stale" => \E n \in 1..Len(kitEvents) : kitEvents[n] = "remove" /\ n # 1
      BY <1>t, <2>0 DEF KitInv, KitEventsInv, KitGetProxy
    <3> QED BY <1>t, <2>0, <3>1, <3>2 DEF KitInv, KitEventsInv
  <2>3. KitOpsOK' /\ \A t \in KitThreads : KitAlone(t)'
    BY <1>4, KitAllOverlapStep DEF KitOnAddSystemAbility
  <2>4. ASSUME kitSa' = "up", NEW i \in kitCache' PROVE KitKept(i)'
    <3>1. KitGetProxy # "null"
      BY <2>0, <2>4, KitReaches DEF KitInv
    <3>2. kitRestore'.phase = "listeners" /\ kitRestore'.left = kitCache \cap KitListeners
      BY <2>0, <3>1
    <3>3. i \in KitListeners \/ i \in KitEngines
      BY <2>0, <2>4 DEF KitInv, KitDataOK, KitItems
    <3> QED BY <2>0, <2>4, <3>2, <3>3 DEF KitKept
  <2> QED BY <2>1, <2>2, <2>3, <2>4 DEF KitInv, KitCacheInv
<1> QED BY <1>1, <1>2, <1>3, <1>4

\* RestoreListener registers the next item, or goes on to the next phase.
LEMMA KitRestoreStep ==
  ASSUME KitInv, KitRestoreOne \/ KitRestorePhase
  PROVE  KitInv'
PROOF
<1>0. /\ kitRestore = [phase |-> kitRestore.phase, left |-> kitRestore.left] /\ kitRestore.left \in SUBSET KitItems
  BY DEF KitInv, KitDataOK
<1>1. CASE KitRestoreOne
  <2>0. PICK i \in kitRestore.left :
          /\ kitProxy' = KitGetProxy
          /\ IF KitGetProxy = "live" THEN SvcAdd(i) ELSE UNCHANGED <<kitAtService, kitRefused>>
          /\ kitRestore' = [kitRestore EXCEPT !.left = kitRestore.left \ {i}]
    BY <1>1 DEF KitRestoreOne, svcVars
  <2>1. /\ UNCHANGED <<kitSa, kitCache, kitEvents, kitRaced>> /\ KitAllOverlap /\ i \in KitItems
    BY <1>0, <1>1 DEF KitRestoreOne
  <2>2. kitRestore' = [phase |-> kitRestore.phase, left |-> kitRestore.left \ {i}]
    BY <1>0, <2>0
  <2>3. kitRestore'.phase = kitRestore.phase /\ kitRestore'.left = kitRestore.left \ {i}
    BY <2>2
  <2>4. /\ kitAtService' \in [KitItems -> Nat] /\ kitRefused' \in SUBSET KitEngines
        /\ \A k \in KitItems : k # i => kitAtService'[k] = kitAtService[k] /\ (k \in kitRefused => k \in kitRefused')
        /\ KitGetProxy = "live" => (kitAtService'[i] > 0 \/ i \in kitRefused')
    BY <2>0, <2>1, KitSvc DEF KitInv, KitDataOK
  <2>5. KitDataOK'
    <3>1. KitGetProxy \in {"null", "live", "stale"}
      BY KitReaches DEF KitInv
    <3>2. kitRestore' = [phase |-> kitRestore'.phase, left |-> kitRestore'.left]
      BY <2>2, <2>3
    <3> QED BY <1>0, <2>0, <2>1, <2>3, <2>4, <3>1, <3>2 DEF KitInv, KitDataOK
  <2>6. KitEventsInv'
    BY <2>0, <2>1 DEF KitInv, KitEventsInv, KitGetProxy
  <2>7. /\ KitOpsOK' /\ \A t \in KitThreads : KitAlone(t)'
        /\ \A t \in KitThreads : kitOp'[t].item = kitOp[t].item /\ (KitDirty(kitOp[t]) => KitDirty(kitOp'[t]))
    BY <2>1, KitAllOverlapStep
  <2>8. ASSUME kitSa = "up", kitEvents = <<>>, NEW k \in kitCache, k \notin kitRaced PROVE KitKept(k)'
    <3>1. KitKept(k) /\ k \in KitItems
      BY <2>8 DEF KitInv, KitCacheInv, KitDataOK
    <3>2. KitGetProxy = "live"
      BY <2>8, KitReaches DEF KitInv
    <3>3. CASE k = i
      BY <2>4, <3>2, <3>3 DEF KitKept
    <3>4. CASE k # i
      BY <2>3, <2>4, <2>7, <3>1, <3>4 DEF KitKept
    <3> QED BY <3>3, <3>4
  <2> QED BY <2>1, <2>5, <2>6, <2>7, <2>8 DEF KitInv, KitCacheInv
<1>2. CASE KitRestorePhase
  <2>0. /\ kitRestore # KitNoRestore /\ kitRestore.left = {}
        /\ kitRestore' = IF kitRestore.phase = "listeners" THEN [phase |-> "engines", left |-> kitCache \cap KitEngines] ELSE KitNoRestore
        /\ UNCHANGED <<kitSa, kitAtService, kitRefused, kitProxy, kitCache, kitEvents, kitOp, kitRaced>>
    BY <1>2 DEF KitRestorePhase, svcVars
  <2>1. kitRestore' = [phase |-> kitRestore'.phase, left |-> kitRestore'.left] /\ kitRestore'.left \in SUBSET KitItems
    BY <2>0 DEF KitInv, KitDataOK, KitNoRestore
  <2>2. KitDataOK' /\ KitOpsOK' /\ KitEventsInv'
    BY <2>0, <2>1 DEF KitInv, KitDataOK, KitOpsOK, KitEventsInv
  <2>3. \A t \in KitThreads : KitAlone(t)'
    BY <2>0 DEF KitInv, KitAlone
  <2>4. ASSUME kitSa = "up", kitEvents = <<>>, NEW k \in kitCache, k \notin kitRaced PROVE KitKept(k)'
    <3>1. KitKept(k)
      BY <2>4 DEF KitInv, KitCacheInv
    <3>2. kitRestore.phase = "listeners" /\ k \in KitEngines => k \in kitRestore'.left
      BY <2>0, <2>4
    <3> QED BY <2>0, <3>1, <3>2 DEF KitKept
  <2> QED BY <2>0, <2>2, <2>3, <2>4 DEF KitInv, KitCacheInv
<1> QED BY <1>1, <1>2

LEMMA KitInvStep == KitInv /\ [KitNext]_kitVars => KitInv'
PROOF
<1> SUFFICES ASSUME KitInv, [KitNext]_kitVars PROVE KitInv'
  OBVIOUS
<1>q. ASSUME UNCHANGED <<kitSa, kitAtService, kitRefused, kitProxy, kitCache, kitEvents, kitRestore, kitOp, kitRaced>> PROVE KitInv'
  <2>1. KitDataOK' /\ KitOpsOK' /\ KitEventsInv'
    BY <1>q DEF KitInv, KitDataOK, KitOpsOK, KitEventsInv
  <2>2. \A t \in KitThreads : KitAlone(t)'
    BY <1>q DEF KitInv, KitAlone
  <2>3. KitCacheInv'
    BY <1>q DEF KitInv, KitCacheInv, KitKept
  <2> QED BY <2>1, <2>2, <2>3 DEF KitInv
<1>1. CASE UNCHANGED kitVars
  BY <1>q, <1>1 DEF kitVars, svcVars
<1>2. ASSUME NEW t \in KitThreads, KitDereferencesNull(t) PROVE KitInv'
  BY <1>q, <1>2 DEF KitDereferencesNull, svcVars
<1>3. ASSUME NEW t \in KitThreads, NEW kind \in DOMAIN KitForwarders, KitBegin(t, kind, "call") PROVE KitInv'
  <2>1. kind \in KitForwardKinds
    BY DEF KitForwarders, KitForwardKinds
  <2> QED BY <1>3, <2>1, KitBeginStep
<1>4. ASSUME NEW t \in KitThreads, NEW l \in KitListeners, KitBegin(t, "register", l) \/ KitBegin(t, "unregister", l) PROVE KitInv'
  BY <1>4, KitBeginStep
<1>5. ASSUME NEW t \in KitThreads, NEW e \in KitEngines, NEW kind \in {"callback", "release"}, KitBegin(t, kind, e) PROVE KitInv'
  BY <1>5, KitBeginStep
<1>o. CASE KitOtherClient
  BY <1>q, <1>o DEF KitOtherClient, SvcInitializeAVCenter
<1>6. CASE KitNext
  BY <1>2, <1>3, <1>4, <1>5, <1>o, <1>6, KitRegisterStep, KitCallbackStep, KitForwardStep, KitServiceStep, KitRestoreStep DEF KitNext
<1> QED BY <1>1, <1>6

\* Once the notifications are handled and no call is under way, every cached
\* listener that no restart overlapped is registered at the service that runs,
\* and so is every callback whose engine id that service did not refuse: for
\* any threads, listeners, engine ids and restarts.
THEOREM ListenersSurviveRestart == KitSpec => []KitListenersSurviveRestart
PROOF
<1>1. KitInv => KitListenersSurviveRestart
  <2> SUFFICES ASSUME KitInv, KitSettled, NEW i \in kitCache, i \notin kitRaced PROVE kitAtService[i] > 0 \/ (i \in KitEngines /\ i \in kitRefused)
    BY DEF KitListenersSurviveRestart
  <2>1. KitKept(i)
    BY DEF KitInv, KitCacheInv, KitSettled
  <2>2. \A t \in KitThreads : ~KitDirty(kitOp[t])
    BY KitIdleOK DEF KitSettled
  <2>3. i \notin kitRestore.left /\ kitRestore.phase # "listeners"
    BY DEF KitSettled, KitNoRestore
  <2> QED BY <2>1, <2>2, <2>3 DEF KitKept, KitInv, KitDataOK
<1> QED BY <1>1, KitInvInit, KitInvStep, PTL DEF KitSpec

-----------------------------------------------------------------------------
(* IpcWire.  Proxies and stubs are tables: first every call is paired with  *)
(* the handler that serves it, then parcels are shown to arrive whatever    *)
(* the paired fields are, and last every step of a call keeps what lies on  *)
(* the wire.                                                                *)

\* Joined tables lose no entry.
LEMMA JoinDomain == ASSUME NEW tables, NEW t \in tables, NEW x \in DOMAIN t
  PROVE x \in DOMAIN IpcJoin(tables)
PROOF BY DEF IpcJoin

\* Every entry of joined tables comes from one of them.
LEMMA JoinFrom == ASSUME NEW tables, NEW x \in DOMAIN IpcJoin(tables)
  PROVE \E t \in tables : x \in DOMAIN t /\ IpcJoin(tables)[x] = t[x]
PROOF
<1>1. PICK t \in tables : x \in DOMAIN t
  BY DEF IpcJoin
<1>2. x \in UNION {DOMAIN s : s \in tables}
  BY <1>1
<1>3. x \in DOMAIN (CHOOSE s \in tables : x \in DOMAIN s) /\ (CHOOSE s \in tables : x \in DOMAIN s) \in tables
  BY <1>1
<1> QED BY <1>2, <1>3 DEF IpcJoin

\* The codes that each stub serves.
LEMMA StubDomains ==
    /\ DOMAIN StubPublisher = {"REG_PUBLISHER_LISTNER", "UNREG_PUBLISHER_LISTENER", "PUBLISH_MESSAGE", "QUERY_LOCAL_SYS_SPEC", "INIT_CTL_CEN"}
    /\ DOMAIN StubAvCenter = {"RELEASE_CTL_CEN", "CREATE_CTL_CEN_CHANNEL", "NOTIFY_AV_EVENT", "REGISTER_CTL_CEN_CALLBACK", "NOTIFY_SOURCE_DEVICE_REMOTE_DMSDP_STARTED"}
    /\ DOMAIN StubPause = {"PAUSE_DISTRIBUTED_HARDWARE", "RESUME_DISTRIBUTED_HARDWARE", "STOP_DISTRIBUTED_HARDWARE", "GET_DISTRIBUTED_HARDWARE", "REG_DH_SINK_STATUS_LISTNER", "UNREG_DH_SINK_STATUS_LISTNER"}
    /\ DOMAIN StubSource = {"REG_DH_SOURCE_STATUS_LISTNER", "UNREG_DH_SOURCE_STATUS_LISTNER", "ENABLE_SINK", "DISABLE_SINK", "ENABLE_SOURCE", "DISABLE_SOURCE"}
    /\ DOMAIN StubHdfAndAccess = {"LOAD_HDF", "UNLOAD_HDF", "REGISTER_HARDWARE_ACCESS_LISTENER", "UNREGISTER_HARDWARE_ACCESS_LISTENER", "SET_AUTHORIZATION_RESULT"}
    /\ DOMAIN StubDmsdp = {"INIT_SINK_DMSDP", "NOTIFY_SINK_DEVICE_REMOTE_DMSDP_STARTED"}
    /\ DOMAIN StubSinkStatusCallback = {"SINK_ON_ENABLE", "SINK_ON_DISABLE"}
    /\ DOMAIN StubSourceStatusCallback = {"SOURCE_ON_ENABLE", "SOURCE_ON_DISABLE"}
    /\ DOMAIN StubPublisherCallback = {"ON_MESSAGE"}
    /\ DOMAIN StubGetDhCallback = {"ON_SUCCESS", "ON_ERROR"}
    /\ DOMAIN StubAuthorizationCallback = {"ON_AUTHORIZATION_RESULT"}
    /\ DOMAIN StubAccessCallback = {"ON_REQUEST_HARDWARE_ACCESS"}
PROOF
<1>1. DOMAIN StubPublisher = {"REG_PUBLISHER_LISTNER", "UNREG_PUBLISHER_LISTENER", "PUBLISH_MESSAGE", "QUERY_LOCAL_SYS_SPEC", "INIT_CTL_CEN"}
  BY DEF StubPublisher
<1>2. DOMAIN StubAvCenter = {"RELEASE_CTL_CEN", "CREATE_CTL_CEN_CHANNEL", "NOTIFY_AV_EVENT", "REGISTER_CTL_CEN_CALLBACK", "NOTIFY_SOURCE_DEVICE_REMOTE_DMSDP_STARTED"}
  BY DEF StubAvCenter
<1>3. DOMAIN StubPause = {"PAUSE_DISTRIBUTED_HARDWARE", "RESUME_DISTRIBUTED_HARDWARE", "STOP_DISTRIBUTED_HARDWARE", "GET_DISTRIBUTED_HARDWARE", "REG_DH_SINK_STATUS_LISTNER", "UNREG_DH_SINK_STATUS_LISTNER"}
  BY DEF StubPause
<1>4. DOMAIN StubSource = {"REG_DH_SOURCE_STATUS_LISTNER", "UNREG_DH_SOURCE_STATUS_LISTNER", "ENABLE_SINK", "DISABLE_SINK", "ENABLE_SOURCE", "DISABLE_SOURCE"}
  BY DEF StubSource
<1>5. DOMAIN StubHdfAndAccess = {"LOAD_HDF", "UNLOAD_HDF", "REGISTER_HARDWARE_ACCESS_LISTENER", "UNREGISTER_HARDWARE_ACCESS_LISTENER", "SET_AUTHORIZATION_RESULT"}
  BY DEF StubHdfAndAccess
<1>6. DOMAIN StubDmsdp = {"INIT_SINK_DMSDP", "NOTIFY_SINK_DEVICE_REMOTE_DMSDP_STARTED"}
  BY DEF StubDmsdp
<1>7. DOMAIN StubSinkStatusCallback = {"SINK_ON_ENABLE", "SINK_ON_DISABLE"}
  BY DEF StubSinkStatusCallback
<1>8. DOMAIN StubSourceStatusCallback = {"SOURCE_ON_ENABLE", "SOURCE_ON_DISABLE"}
  BY DEF StubSourceStatusCallback
<1>9. DOMAIN StubPublisherCallback = {"ON_MESSAGE"}
  BY DEF StubPublisherCallback
<1>10. DOMAIN StubGetDhCallback = {"ON_SUCCESS", "ON_ERROR"}
  BY DEF StubGetDhCallback
<1>11. DOMAIN StubAuthorizationCallback = {"ON_AUTHORIZATION_RESULT"}
  BY DEF StubAuthorizationCallback
<1>12. DOMAIN StubAccessCallback = {"ON_REQUEST_HARDWARE_ACCESS"}
  BY DEF StubAccessCallback
<1> QED BY <1>1, <1>2, <1>3, <1>4, <1>5, <1>6, <1>7, <1>8, <1>9, <1>10, <1>11, <1>12

\* All stubs of the service and of the callbacks.
IpcStubs == IpcServiceStubs \cup IpcCallbackStubs

\* No two stubs serve the same code, so a code finds the handler of its own stub.
LEMMA HandlerOf == ASSUME NEW stub \in IpcStubs, NEW code \in DOMAIN stub
                   PROVE  IpcHandlers[code] = stub[code]
PROOF
<1>1. PICK t \in IpcStubs : code \in DOMAIN t /\ IpcHandlers[code] = t[code]
  BY JoinDomain, JoinFrom DEF IpcHandlers, IpcStubs
<1>2. t = stub
  <2>1. CASE stub = StubPublisher
    BY <1>1, <2>1, StubDomains DEF IpcStubs, IpcServiceStubs, IpcCallbackStubs
  <2>2. CASE stub = StubAvCenter
    BY <1>1, <2>2, StubDomains DEF IpcStubs, IpcServiceStubs, IpcCallbackStubs
  <2>3. CASE stub = StubPause
    BY <1>1, <2>3, StubDomains DEF IpcStubs, IpcServiceStubs, IpcCallbackStubs
  <2>4. CASE stub = StubSource
    BY <1>1, <2>4, StubDomains DEF IpcStubs, IpcServiceStubs, IpcCallbackStubs
  <2>5. CASE stub = StubHdfAndAccess
    BY <1>1, <2>5, StubDomains DEF IpcStubs, IpcServiceStubs, IpcCallbackStubs
  <2>6. CASE stub = StubDmsdp
    BY <1>1, <2>6, StubDomains DEF IpcStubs, IpcServiceStubs, IpcCallbackStubs
  <2>7. CASE stub = StubSinkStatusCallback
    BY <1>1, <2>7, StubDomains DEF IpcStubs, IpcServiceStubs, IpcCallbackStubs
  <2>8. CASE stub = StubSourceStatusCallback
    BY <1>1, <2>8, StubDomains DEF IpcStubs, IpcServiceStubs, IpcCallbackStubs
  <2>9. CASE stub = StubPublisherCallback
    BY <1>1, <2>9, StubDomains DEF IpcStubs, IpcServiceStubs, IpcCallbackStubs
  <2>10. CASE stub = StubGetDhCallback
    BY <1>1, <2>10, StubDomains DEF IpcStubs, IpcServiceStubs, IpcCallbackStubs
  <2>11. CASE stub = StubAuthorizationCallback
    BY <1>1, <2>11, StubDomains DEF IpcStubs, IpcServiceStubs, IpcCallbackStubs
  <2>12. CASE stub = StubAccessCallback
    BY <1>1, <2>12, StubDomains DEF IpcStubs, IpcServiceStubs, IpcCallbackStubs
  <2> QED BY <2>1, <2>2, <2>3, <2>4, <2>5, <2>6, <2>7, <2>8, <2>9, <2>10, <2>11, <2>12 DEF IpcStubs, IpcServiceStubs, IpcCallbackStubs
<1> QED BY <1>1, <1>2

\* Fields that the wire keeps apart: no name twice, at most one list, at most six of them.
FieldsOnWire(fields) ==
    /\ Len(fields) \in 0..6
    /\ \A i, j \in 1..Len(fields) : fields[i][2] = fields[j][2] => i = j
    /\ \A i, j \in IpcListsIn(fields) : i = j
    /\ \A i \in 1..Len(fields) :
          /\ fields[i][1] = "descs" => fields[i][2] = "descriptors"
          /\ fields[i][1] = "briefs" => fields[i][2] = "briefs"

\* The proxy reads the result at the place where the handler writes it.
ReplyOnWire(reads, writes) ==
    "ret" \in ToSet(reads) =>
        \/ reads = <<"ret">> /\ writes \in {<<"ret">>, <<"ok">>}
        \/ reads = <<"engineId", "ret">> /\ writes = reads

\* Proxy and handler agree on the fields of the parcel and of the reply.
WellPaired(call) ==
    LET handler == IpcHandlers[call.code]
    IN  /\ handler.reads = call.writes
        /\ FieldsOnWire(call.writes)
        /\ ReplyOnWire(call.reads, handler.writes)

\* The lists of fields that the calls write.
WireForms == {
    <<<<"descs", "descriptors">>>>,
    <<<<"i32", "engineId">>>>,
    <<<<"obj", "listener">>>>,
    <<<<"str", "networkId">>>>,
    <<<<"u32", "role">>>>,
    <<<<"u32", "spec">>>>,
    <<<<"i32", "dhType">>, <<"str", "networkId">>>>,
    <<<<"i32", "engineId">>, <<"obj", "listener">>>>,
    <<<<"i32", "engineId">>, <<"str", "peerDevId">>>>,
    <<<<"str", "networkId">>, <<"descs", "descriptors">>>>,
    <<<<"str", "networkId">>, <<"i32", "error">>>>,
    <<<<"str", "networkId">>, <<"obj", "listener">>>>,
    <<<<"str", "networkId">>, <<"str", "requestId">>>>,
    <<<<"u32", "dhType">>, <<"obj", "stub">>>>,
    <<<<"u32", "dhType">>, <<"str", "dhId">>>>,
    <<<<"u32", "topic">>, <<"obj", "listener">>>>,
    <<<<"u32", "topic">>, <<"str", "msg">>>>,
    <<<<"str", "networkId">>, <<"briefs", "briefs">>, <<"u32", "step">>>>,
    <<<<"str", "networkId">>, <<"u32", "dhType">>, <<"str", "dhId">>>>,
    <<<<"str", "networkId">>, <<"u32", "step">>, <<"obj", "listener">>>>,
    <<<<"u32", "dhType">>, <<"obj", "listener">>, <<"str", "pkgName">>>>,
    <<<<"u32", "dhType">>, <<"str", "requestId">>, <<"bool", "granted">>>>,
    <<<<"i32", "engineId">>, <<"u32", "event">>, <<"str", "content">>, <<"str", "peerDevId">>>>,
    <<<<"u32", "dhType">>, <<"obj", "listener">>, <<"i32", "timeOut">>, <<"str", "pkgName">>>>,
    <<<<"str", "requestId">>, <<"str", "networkId">>, <<"str", "deviceName">>, <<"u16", "deviceType">>, <<"u32", "dhType">>, <<"str", "pkgName">>>>}

\* All of them can be told apart on the wire.
LEMMA WireFormsOnWire == \A fields \in WireForms : FieldsOnWire(fields)
PROOF
<1>1. FieldsOnWire(<<<<"descs", "descriptors">>>>)
  BY DEF FieldsOnWire, IpcListsIn
<1>2. FieldsOnWire(<<<<"i32", "engineId">>>>)
  BY DEF FieldsOnWire, IpcListsIn
<1>3. FieldsOnWire(<<<<"obj", "listener">>>>)
  BY DEF FieldsOnWire, IpcListsIn
<1>4. FieldsOnWire(<<<<"str", "networkId">>>>)
  BY DEF FieldsOnWire, IpcListsIn
<1>5. FieldsOnWire(<<<<"u32", "role">>>>)
  BY DEF FieldsOnWire, IpcListsIn
<1>6. FieldsOnWire(<<<<"u32", "spec">>>>)
  BY DEF FieldsOnWire, IpcListsIn
<1>7. FieldsOnWire(<<<<"i32", "dhType">>, <<"str", "networkId">>>>)
  BY DEF FieldsOnWire, IpcListsIn
<1>8. FieldsOnWire(<<<<"i32", "engineId">>, <<"obj", "listener">>>>)
  BY DEF FieldsOnWire, IpcListsIn
<1>9. FieldsOnWire(<<<<"i32", "engineId">>, <<"str", "peerDevId">>>>)
  BY DEF FieldsOnWire, IpcListsIn
<1>10. FieldsOnWire(<<<<"str", "networkId">>, <<"descs", "descriptors">>>>)
  BY DEF FieldsOnWire, IpcListsIn
<1>11. FieldsOnWire(<<<<"str", "networkId">>, <<"i32", "error">>>>)
  BY DEF FieldsOnWire, IpcListsIn
<1>12. FieldsOnWire(<<<<"str", "networkId">>, <<"obj", "listener">>>>)
  BY DEF FieldsOnWire, IpcListsIn
<1>13. FieldsOnWire(<<<<"str", "networkId">>, <<"str", "requestId">>>>)
  BY DEF FieldsOnWire, IpcListsIn
<1>14. FieldsOnWire(<<<<"u32", "dhType">>, <<"obj", "stub">>>>)
  BY DEF FieldsOnWire, IpcListsIn
<1>15. FieldsOnWire(<<<<"u32", "dhType">>, <<"str", "dhId">>>>)
  BY DEF FieldsOnWire, IpcListsIn
<1>16. FieldsOnWire(<<<<"u32", "topic">>, <<"obj", "listener">>>>)
  BY DEF FieldsOnWire, IpcListsIn
<1>17. FieldsOnWire(<<<<"u32", "topic">>, <<"str", "msg">>>>)
  BY DEF FieldsOnWire, IpcListsIn
<1>18. FieldsOnWire(<<<<"str", "networkId">>, <<"briefs", "briefs">>, <<"u32", "step">>>>)
  BY DEF FieldsOnWire, IpcListsIn
<1>19. FieldsOnWire(<<<<"str", "networkId">>, <<"u32", "dhType">>, <<"str", "dhId">>>>)
  BY DEF FieldsOnWire, IpcListsIn
<1>20. FieldsOnWire(<<<<"str", "networkId">>, <<"u32", "step">>, <<"obj", "listener">>>>)
  BY DEF FieldsOnWire, IpcListsIn
<1>21. FieldsOnWire(<<<<"u32", "dhType">>, <<"obj", "listener">>, <<"str", "pkgName">>>>)
  BY DEF FieldsOnWire, IpcListsIn
<1>22. FieldsOnWire(<<<<"u32", "dhType">>, <<"str", "requestId">>, <<"bool", "granted">>>>)
  BY DEF FieldsOnWire, IpcListsIn
<1>23. FieldsOnWire(<<<<"i32", "engineId">>, <<"u32", "event">>, <<"str", "content">>, <<"str", "peerDevId">>>>)
  BY DEF FieldsOnWire, IpcListsIn
<1>24. FieldsOnWire(<<<<"u32", "dhType">>, <<"obj", "listener">>, <<"i32", "timeOut">>, <<"str", "pkgName">>>>)
  BY DEF FieldsOnWire, IpcListsIn
<1>25. FieldsOnWire(<<<<"str", "requestId">>, <<"str", "networkId">>, <<"str", "deviceName">>, <<"u16", "deviceType">>,
        <<"u32", "dhType">>, <<"str", "pkgName">>>>)
  BY DEF FieldsOnWire, IpcListsIn
<1> QED BY <1>1, <1>2, <1>3, <1>4, <1>5, <1>6, <1>7, <1>8, <1>9, <1>10, <1>11, <1>12, <1>13, <1>14, <1>15,
            <1>16, <1>17, <1>18, <1>19, <1>20, <1>21, <1>22, <1>23, <1>24, <1>25 DEF WireForms

\* Every call of ProxyPublisher is paired.
LEMMA PairedPublisher == \A m \in DOMAIN ProxyPublisher : WellPaired(ProxyPublisher[m])
PROOF
<1>1. WellPaired(ProxyPublisher.RegisterPublisherListener)
  <2>1. IpcHandlers["REG_PUBLISHER_LISTNER"] = StubPublisher["REG_PUBLISHER_LISTNER"]
    BY HandlerOf, StubDomains DEF IpcStubs, IpcServiceStubs, IpcCallbackStubs
  <2>2. /\ ProxyPublisher.RegisterPublisherListener.code = "REG_PUBLISHER_LISTNER"
        /\ StubPublisher["REG_PUBLISHER_LISTNER"].reads = ProxyPublisher.RegisterPublisherListener.writes
        /\ ProxyPublisher.RegisterPublisherListener.writes \in WireForms
    BY DEF ProxyPublisher, Proxy, StubPublisher, Stub, WireForms
  <2>3. ReplyOnWire(ProxyPublisher.RegisterPublisherListener.reads, StubPublisher["REG_PUBLISHER_LISTNER"].writes)
    BY DEF ReplyOnWire, ToSet, ProxyPublisher, Proxy, StubPublisher, Stub
  <2> QED BY <2>1, <2>2, <2>3, WireFormsOnWire DEF WellPaired
<1>2. WellPaired(ProxyPublisher.UnregisterPublisherListener)
  <2>1. IpcHandlers["UNREG_PUBLISHER_LISTENER"] = StubPublisher["UNREG_PUBLISHER_LISTENER"]
    BY HandlerOf, StubDomains DEF IpcStubs, IpcServiceStubs, IpcCallbackStubs
  <2>2. /\ ProxyPublisher.UnregisterPublisherListener.code = "UNREG_PUBLISHER_LISTENER"
        /\ StubPublisher["UNREG_PUBLISHER_LISTENER"].reads = ProxyPublisher.UnregisterPublisherListener.writes
        /\ ProxyPublisher.UnregisterPublisherListener.writes \in WireForms
    BY DEF ProxyPublisher, Proxy, StubPublisher, Stub, WireForms
  <2>3. ReplyOnWire(ProxyPublisher.UnregisterPublisherListener.reads, StubPublisher["UNREG_PUBLISHER_LISTENER"].writes)
    BY DEF ReplyOnWire, ToSet, ProxyPublisher, Proxy, StubPublisher, Stub
  <2> QED BY <2>1, <2>2, <2>3, WireFormsOnWire DEF WellPaired
<1>3. WellPaired(ProxyPublisher.PublishMessage)
  <2>1. IpcHandlers["PUBLISH_MESSAGE"] = StubPublisher["PUBLISH_MESSAGE"]
    BY HandlerOf, StubDomains DEF IpcStubs, IpcServiceStubs, IpcCallbackStubs
  <2>2. /\ ProxyPublisher.PublishMessage.code = "PUBLISH_MESSAGE"
        /\ StubPublisher["PUBLISH_MESSAGE"].reads = ProxyPublisher.PublishMessage.writes
        /\ ProxyPublisher.PublishMessage.writes \in WireForms
    BY DEF ProxyPublisher, Proxy, StubPublisher, Stub, WireForms
  <2>3. ReplyOnWire(ProxyPublisher.PublishMessage.reads, StubPublisher["PUBLISH_MESSAGE"].writes)
    BY DEF ReplyOnWire, ToSet, ProxyPublisher, Proxy, StubPublisher, Stub
  <2> QED BY <2>1, <2>2, <2>3, WireFormsOnWire DEF WellPaired
<1> QED BY <1>1, <1>2, <1>3 DEF ProxyPublisher

\* Every call of ProxyAvCenter is paired.
LEMMA PairedAvCenter == \A m \in DOMAIN ProxyAvCenter : WellPaired(ProxyAvCenter[m])
PROOF
<1>1. WellPaired(ProxyAvCenter.QueryLocalSysSpec)
  <2>1. IpcHandlers["QUERY_LOCAL_SYS_SPEC"] = StubPublisher["QUERY_LOCAL_SYS_SPEC"]
    BY HandlerOf, StubDomains DEF IpcStubs, IpcServiceStubs, IpcCallbackStubs
  <2>2. /\ ProxyAvCenter.QueryLocalSysSpec.code = "QUERY_LOCAL_SYS_SPEC"
        /\ StubPublisher["QUERY_LOCAL_SYS_SPEC"].reads = ProxyAvCenter.QueryLocalSysSpec.writes
        /\ ProxyAvCenter.QueryLocalSysSpec.writes \in WireForms
    BY DEF ProxyAvCenter, Proxy, OnewayProxy, StubPublisher, Stub, WireForms
  <2>3. ReplyOnWire(ProxyAvCenter.QueryLocalSysSpec.reads, StubPublisher["QUERY_LOCAL_SYS_SPEC"].writes)
    BY DEF ReplyOnWire, ToSet, ProxyAvCenter, Proxy, OnewayProxy, StubPublisher, Stub
  <2> QED BY <2>1, <2>2, <2>3, WireFormsOnWire DEF WellPaired
<1>2. WellPaired(ProxyAvCenter.InitializeAVCenter)
  <2>1. IpcHandlers["INIT_CTL_CEN"] = StubPublisher["INIT_CTL_CEN"]
    BY HandlerOf, StubDomains DEF IpcStubs, IpcServiceStubs, IpcCallbackStubs
  <2>2. /\ ProxyAvCenter.InitializeAVCenter.code = "INIT_CTL_CEN"
        /\ StubPublisher["INIT_CTL_CEN"].reads = ProxyAvCenter.InitializeAVCenter.writes
        /\ ProxyAvCenter.InitializeAVCenter.writes \in WireForms
    BY DEF ProxyAvCenter, Proxy, OnewayProxy, StubPublisher, Stub, WireForms
  <2>3. ReplyOnWire(ProxyAvCenter.InitializeAVCenter.reads, StubPublisher["INIT_CTL_CEN"].writes)
    BY DEF ReplyOnWire, ToSet, ProxyAvCenter, Proxy, OnewayProxy, StubPublisher, Stub
  <2> QED BY <2>1, <2>2, <2>3, WireFormsOnWire DEF WellPaired
<1>3. WellPaired(ProxyAvCenter.ReleaseAVCenter)
  <2>1. IpcHandlers["RELEASE_CTL_CEN"] = StubAvCenter["RELEASE_CTL_CEN"]
    BY HandlerOf, StubDomains DEF IpcStubs, IpcServiceStubs, IpcCallbackStubs
  <2>2. /\ ProxyAvCenter.ReleaseAVCenter.code = "RELEASE_CTL_CEN"
        /\ StubAvCenter["RELEASE_CTL_CEN"].reads = ProxyAvCenter.ReleaseAVCenter.writes
        /\ ProxyAvCenter.ReleaseAVCenter.writes \in WireForms
    BY DEF ProxyAvCenter, Proxy, OnewayProxy, StubAvCenter, Stub, WireForms
  <2>3. ReplyOnWire(ProxyAvCenter.ReleaseAVCenter.reads, StubAvCenter["RELEASE_CTL_CEN"].writes)
    BY DEF ReplyOnWire, ToSet, ProxyAvCenter, Proxy, OnewayProxy, StubAvCenter, Stub
  <2> QED BY <2>1, <2>2, <2>3, WireFormsOnWire DEF WellPaired
<1>4. WellPaired(ProxyAvCenter.CreateControlChannel)
  <2>1. IpcHandlers["CREATE_CTL_CEN_CHANNEL"] = StubAvCenter["CREATE_CTL_CEN_CHANNEL"]
    BY HandlerOf, StubDomains DEF IpcStubs, IpcServiceStubs, IpcCallbackStubs
  <2>2. /\ ProxyAvCenter.CreateControlChannel.code = "CREATE_CTL_CEN_CHANNEL"
        /\ StubAvCenter["CREATE_CTL_CEN_CHANNEL"].reads = ProxyAvCenter.CreateControlChannel.writes
        /\ ProxyAvCenter.CreateControlChannel.writes \in WireForms
    BY DEF ProxyAvCenter, Proxy, OnewayProxy, StubAvCenter, Stub, WireForms
  <2>3. ReplyOnWire(ProxyAvCenter.CreateControlChannel.reads, StubAvCenter["CREATE_CTL_CEN_CHANNEL"].writes)
    BY DEF ReplyOnWire, ToSet, ProxyAvCenter, Proxy, OnewayProxy, StubAvCenter, Stub
  <2> QED BY <2>1, <2>2, <2>3, WireFormsOnWire DEF WellPaired
<1> QED BY <1>1, <1>2, <1>3, <1>4 DEF ProxyAvCenter

\* Every call of ProxyAvNotify is paired.
LEMMA PairedAvNotify == \A m \in DOMAIN ProxyAvNotify : WellPaired(ProxyAvNotify[m])
PROOF
<1>1. WellPaired(ProxyAvNotify.NotifyAVCenter)
  <2>1. IpcHandlers["NOTIFY_AV_EVENT"] = StubAvCenter["NOTIFY_AV_EVENT"]
    BY HandlerOf, StubDomains DEF IpcStubs, IpcServiceStubs, IpcCallbackStubs
  <2>2. /\ ProxyAvNotify.NotifyAVCenter.code = "NOTIFY_AV_EVENT"
        /\ StubAvCenter["NOTIFY_AV_EVENT"].reads = ProxyAvNotify.NotifyAVCenter.writes
        /\ ProxyAvNotify.NotifyAVCenter.writes \in WireForms
    BY DEF ProxyAvNotify, Proxy, OnewayProxy, StubAvCenter, Stub, WireForms
  <2>3. ReplyOnWire(ProxyAvNotify.NotifyAVCenter.reads, StubAvCenter["NOTIFY_AV_EVENT"].writes)
    BY DEF ReplyOnWire, ToSet, ProxyAvNotify, Proxy, OnewayProxy, StubAvCenter, Stub
  <2> QED BY <2>1, <2>2, <2>3, WireFormsOnWire DEF WellPaired
<1>2. WellPaired(ProxyAvNotify.RegisterCtlCenterCallback)
  <2>1. IpcHandlers["REGISTER_CTL_CEN_CALLBACK"] = StubAvCenter["REGISTER_CTL_CEN_CALLBACK"]
    BY HandlerOf, StubDomains DEF IpcStubs, IpcServiceStubs, IpcCallbackStubs
  <2>2. /\ ProxyAvNotify.RegisterCtlCenterCallback.code = "REGISTER_CTL_CEN_CALLBACK"
        /\ StubAvCenter["REGISTER_CTL_CEN_CALLBACK"].reads = ProxyAvNotify.RegisterCtlCenterCallback.writes
        /\ ProxyAvNotify.RegisterCtlCenterCallback.writes \in WireForms
    BY DEF ProxyAvNotify, Proxy, OnewayProxy, StubAvCenter, Stub, WireForms
  <2>3. ReplyOnWire(ProxyAvNotify.RegisterCtlCenterCallback.reads, StubAvCenter["REGISTER_CTL_CEN_CALLBACK"].writes)
    BY DEF ReplyOnWire, ToSet, ProxyAvNotify, Proxy, OnewayProxy, StubAvCenter, Stub
  <2> QED BY <2>1, <2>2, <2>3, WireFormsOnWire DEF WellPaired
<1>3. WellPaired(ProxyAvNotify.NotifySourceRemoteSinkStarted)
  <2>1. IpcHandlers["NOTIFY_SOURCE_DEVICE_REMOTE_DMSDP_STARTED"] = StubAvCenter["NOTIFY_SOURCE_DEVICE_REMOTE_DMSDP_STARTED"]
    BY HandlerOf, StubDomains DEF IpcStubs, IpcServiceStubs, IpcCallbackStubs
  <2>2. /\ ProxyAvNotify.NotifySourceRemoteSinkStarted.code = "NOTIFY_SOURCE_DEVICE_REMOTE_DMSDP_STARTED"
        /\ StubAvCenter["NOTIFY_SOURCE_DEVICE_REMOTE_DMSDP_STARTED"].reads = ProxyAvNotify.NotifySourceRemoteSinkStarted.writes
        /\ ProxyAvNotify.NotifySourceRemoteSinkStarted.writes \in WireForms
    BY DEF ProxyAvNotify, Proxy, OnewayProxy, StubAvCenter, Stub, WireForms
  <2>3. ReplyOnWire(ProxyAvNotify.NotifySourceRemoteSinkStarted.reads, StubAvCenter["NOTIFY_SOURCE_DEVICE_REMOTE_DMSDP_STARTED"].writes)
    BY DEF ReplyOnWire, ToSet, ProxyAvNotify, Proxy, OnewayProxy, StubAvCenter, Stub
  <2> QED BY <2>1, <2>2, <2>3, WireFormsOnWire DEF WellPaired
<1> QED BY <1>1, <1>2, <1>3 DEF ProxyAvNotify

\* Every call of ProxyPause is paired.
LEMMA PairedPause == \A m \in DOMAIN ProxyPause : WellPaired(ProxyPause[m])
PROOF
<1>1. WellPaired(ProxyPause.PauseDistributedHardware)
  <2>1. IpcHandlers["PAUSE_DISTRIBUTED_HARDWARE"] = StubPause["PAUSE_DISTRIBUTED_HARDWARE"]
    BY HandlerOf, StubDomains DEF IpcStubs, IpcServiceStubs, IpcCallbackStubs
  <2>2. /\ ProxyPause.PauseDistributedHardware.code = "PAUSE_DISTRIBUTED_HARDWARE"
        /\ StubPause["PAUSE_DISTRIBUTED_HARDWARE"].reads = ProxyPause.PauseDistributedHardware.writes
        /\ ProxyPause.PauseDistributedHardware.writes \in WireForms
    BY DEF ProxyPause, Proxy, StubPause, Stub, WireForms
  <2>3. ReplyOnWire(ProxyPause.PauseDistributedHardware.reads, StubPause["PAUSE_DISTRIBUTED_HARDWARE"].writes)
    BY DEF ReplyOnWire, ToSet, ProxyPause, Proxy, StubPause, Stub
  <2> QED BY <2>1, <2>2, <2>3, WireFormsOnWire DEF WellPaired
<1>2. WellPaired(ProxyPause.ResumeDistributedHardware)
  <2>1. IpcHandlers["RESUME_DISTRIBUTED_HARDWARE"] = StubPause["RESUME_DISTRIBUTED_HARDWARE"]
    BY HandlerOf, StubDomains DEF IpcStubs, IpcServiceStubs, IpcCallbackStubs
  <2>2. /\ ProxyPause.ResumeDistributedHardware.code = "RESUME_DISTRIBUTED_HARDWARE"
        /\ StubPause["RESUME_DISTRIBUTED_HARDWARE"].reads = ProxyPause.ResumeDistributedHardware.writes
        /\ ProxyPause.ResumeDistributedHardware.writes \in WireForms
    BY DEF ProxyPause, Proxy, StubPause, Stub, WireForms
  <2>3. ReplyOnWire(ProxyPause.ResumeDistributedHardware.reads, StubPause["RESUME_DISTRIBUTED_HARDWARE"].writes)
    BY DEF ReplyOnWire, ToSet, ProxyPause, Proxy, StubPause, Stub
  <2> QED BY <2>1, <2>2, <2>3, WireFormsOnWire DEF WellPaired
<1>3. WellPaired(ProxyPause.StopDistributedHardware)
  <2>1. IpcHandlers["STOP_DISTRIBUTED_HARDWARE"] = StubPause["STOP_DISTRIBUTED_HARDWARE"]
    BY HandlerOf, StubDomains DEF IpcStubs, IpcServiceStubs, IpcCallbackStubs
  <2>2. /\ ProxyPause.StopDistributedHardware.code = "STOP_DISTRIBUTED_HARDWARE"
        /\ StubPause["STOP_DISTRIBUTED_HARDWARE"].reads = ProxyPause.StopDistributedHardware.writes
        /\ ProxyPause.StopDistributedHardware.writes \in WireForms
    BY DEF ProxyPause, Proxy, StubPause, Stub, WireForms
  <2>3. ReplyOnWire(ProxyPause.StopDistributedHardware.reads, StubPause["STOP_DISTRIBUTED_HARDWARE"].writes)
    BY DEF ReplyOnWire, ToSet, ProxyPause, Proxy, StubPause, Stub
  <2> QED BY <2>1, <2>2, <2>3, WireFormsOnWire DEF WellPaired
<1> QED BY <1>1, <1>2, <1>3 DEF ProxyPause

\* Every call of ProxyDhStatus is paired.
LEMMA PairedDhStatus == \A m \in DOMAIN ProxyDhStatus : WellPaired(ProxyDhStatus[m])
PROOF
<1>1. WellPaired(ProxyDhStatus.GetDistributedHardware)
  <2>1. IpcHandlers["GET_DISTRIBUTED_HARDWARE"] = StubPause["GET_DISTRIBUTED_HARDWARE"]
    BY HandlerOf, StubDomains DEF IpcStubs, IpcServiceStubs, IpcCallbackStubs
  <2>2. /\ ProxyDhStatus.GetDistributedHardware.code = "GET_DISTRIBUTED_HARDWARE"
        /\ StubPause["GET_DISTRIBUTED_HARDWARE"].reads = ProxyDhStatus.GetDistributedHardware.writes
        /\ ProxyDhStatus.GetDistributedHardware.writes \in WireForms
    BY DEF ProxyDhStatus, Proxy, StubPause, Stub, WireForms
  <2>3. ReplyOnWire(ProxyDhStatus.GetDistributedHardware.reads, StubPause["GET_DISTRIBUTED_HARDWARE"].writes)
    BY DEF ReplyOnWire, ToSet, ProxyDhStatus, Proxy, StubPause, Stub
  <2> QED BY <2>1, <2>2, <2>3, WireFormsOnWire DEF WellPaired
<1>2. WellPaired(ProxyDhStatus.RegisterSinkListener)
  <2>1. IpcHandlers["REG_DH_SINK_STATUS_LISTNER"] = StubPause["REG_DH_SINK_STATUS_LISTNER"]
    BY HandlerOf, StubDomains DEF IpcStubs, IpcServiceStubs, IpcCallbackStubs
  <2>2. /\ ProxyDhStatus.RegisterSinkListener.code = "REG_DH_SINK_STATUS_LISTNER"
        /\ StubPause["REG_DH_SINK_STATUS_LISTNER"].reads = ProxyDhStatus.RegisterSinkListener.writes
        /\ ProxyDhStatus.RegisterSinkListener.writes \in WireForms
    BY DEF ProxyDhStatus, Proxy, StubPause, Stub, WireForms
  <2>3. ReplyOnWire(ProxyDhStatus.RegisterSinkListener.reads, StubPause["REG_DH_SINK_STATUS_LISTNER"].writes)
    BY DEF ReplyOnWire, ToSet, ProxyDhStatus, Proxy, StubPause, Stub
  <2> QED BY <2>1, <2>2, <2>3, WireFormsOnWire DEF WellPaired
<1>3. WellPaired(ProxyDhStatus.UnregisterSinkListener)
  <2>1. IpcHandlers["UNREG_DH_SINK_STATUS_LISTNER"] = StubPause["UNREG_DH_SINK_STATUS_LISTNER"]
    BY HandlerOf, StubDomains DEF IpcStubs, IpcServiceStubs, IpcCallbackStubs
  <2>2. /\ ProxyDhStatus.UnregisterSinkListener.code = "UNREG_DH_SINK_STATUS_LISTNER"
        /\ StubPause["UNREG_DH_SINK_STATUS_LISTNER"].reads = ProxyDhStatus.UnregisterSinkListener.writes
        /\ ProxyDhStatus.UnregisterSinkListener.writes \in WireForms
    BY DEF ProxyDhStatus, Proxy, StubPause, Stub, WireForms
  <2>3. ReplyOnWire(ProxyDhStatus.UnregisterSinkListener.reads, StubPause["UNREG_DH_SINK_STATUS_LISTNER"].writes)
    BY DEF ReplyOnWire, ToSet, ProxyDhStatus, Proxy, StubPause, Stub
  <2> QED BY <2>1, <2>2, <2>3, WireFormsOnWire DEF WellPaired
<1> QED BY <1>1, <1>2, <1>3 DEF ProxyDhStatus

\* Every call of ProxySource is paired.
LEMMA PairedSource == \A m \in DOMAIN ProxySource : WellPaired(ProxySource[m])
PROOF
<1>1. WellPaired(ProxySource.RegisterSourceListener)
  <2>1. IpcHandlers["REG_DH_SOURCE_STATUS_LISTNER"] = StubSource["REG_DH_SOURCE_STATUS_LISTNER"]
    BY HandlerOf, StubDomains DEF IpcStubs, IpcServiceStubs, IpcCallbackStubs
  <2>2. /\ ProxySource.RegisterSourceListener.code = "REG_DH_SOURCE_STATUS_LISTNER"
        /\ StubSource["REG_DH_SOURCE_STATUS_LISTNER"].reads = ProxySource.RegisterSourceListener.writes
        /\ ProxySource.RegisterSourceListener.writes \in WireForms
    BY DEF ProxySource, Proxy, StubSource, Stub, WireForms
  <2>3. ReplyOnWire(ProxySource.RegisterSourceListener.reads, StubSource["REG_DH_SOURCE_STATUS_LISTNER"].writes)
    BY DEF ReplyOnWire, ToSet, ProxySource, Proxy, StubSource, Stub
  <2> QED BY <2>1, <2>2, <2>3, WireFormsOnWire DEF WellPaired
<1>2. WellPaired(ProxySource.UnregisterSourceListener)
  <2>1. IpcHandlers["UNREG_DH_SOURCE_STATUS_LISTNER"] = StubSource["UNREG_DH_SOURCE_STATUS_LISTNER"]
    BY HandlerOf, StubDomains DEF IpcStubs, IpcServiceStubs, IpcCallbackStubs
  <2>2. /\ ProxySource.UnregisterSourceListener.code = "UNREG_DH_SOURCE_STATUS_LISTNER"
        /\ StubSource["UNREG_DH_SOURCE_STATUS_LISTNER"].reads = ProxySource.UnregisterSourceListener.writes
        /\ ProxySource.UnregisterSourceListener.writes \in WireForms
    BY DEF ProxySource, Proxy, StubSource, Stub, WireForms
  <2>3. ReplyOnWire(ProxySource.UnregisterSourceListener.reads, StubSource["UNREG_DH_SOURCE_STATUS_LISTNER"].writes)
    BY DEF ReplyOnWire, ToSet, ProxySource, Proxy, StubSource, Stub
  <2> QED BY <2>1, <2>2, <2>3, WireFormsOnWire DEF WellPaired
<1>3. WellPaired(ProxySource.EnableSink)
  <2>1. IpcHandlers["ENABLE_SINK"] = StubSource["ENABLE_SINK"]
    BY HandlerOf, StubDomains DEF IpcStubs, IpcServiceStubs, IpcCallbackStubs
  <2>2. /\ ProxySource.EnableSink.code = "ENABLE_SINK"
        /\ StubSource["ENABLE_SINK"].reads = ProxySource.EnableSink.writes
        /\ ProxySource.EnableSink.writes \in WireForms
    BY DEF ProxySource, Proxy, StubSource, Stub, WireForms
  <2>3. ReplyOnWire(ProxySource.EnableSink.reads, StubSource["ENABLE_SINK"].writes)
    BY DEF ReplyOnWire, ToSet, ProxySource, Proxy, StubSource, Stub
  <2> QED BY <2>1, <2>2, <2>3, WireFormsOnWire DEF WellPaired
<1>4. WellPaired(ProxySource.DisableSink)
  <2>1. IpcHandlers["DISABLE_SINK"] = StubSource["DISABLE_SINK"]
    BY HandlerOf, StubDomains DEF IpcStubs, IpcServiceStubs, IpcCallbackStubs
  <2>2. /\ ProxySource.DisableSink.code = "DISABLE_SINK"
        /\ StubSource["DISABLE_SINK"].reads = ProxySource.DisableSink.writes
        /\ ProxySource.DisableSink.writes \in WireForms
    BY DEF ProxySource, Proxy, StubSource, Stub, WireForms
  <2>3. ReplyOnWire(ProxySource.DisableSink.reads, StubSource["DISABLE_SINK"].writes)
    BY DEF ReplyOnWire, ToSet, ProxySource, Proxy, StubSource, Stub
  <2> QED BY <2>1, <2>2, <2>3, WireFormsOnWire DEF WellPaired
<1> QED BY <1>1, <1>2, <1>3, <1>4 DEF ProxySource

\* Every call of ProxyEnable is paired.
LEMMA PairedEnable == \A m \in DOMAIN ProxyEnable : WellPaired(ProxyEnable[m])
PROOF
<1>1. WellPaired(ProxyEnable.EnableSource)
  <2>1. IpcHandlers["ENABLE_SOURCE"] = StubSource["ENABLE_SOURCE"]
    BY HandlerOf, StubDomains DEF IpcStubs, IpcServiceStubs, IpcCallbackStubs
  <2>2. /\ ProxyEnable.EnableSource.code = "ENABLE_SOURCE"
        /\ StubSource["ENABLE_SOURCE"].reads = ProxyEnable.EnableSource.writes
        /\ ProxyEnable.EnableSource.writes \in WireForms
    BY DEF ProxyEnable, Proxy, StubSource, Stub, WireForms
  <2>3. ReplyOnWire(ProxyEnable.EnableSource.reads, StubSource["ENABLE_SOURCE"].writes)
    BY DEF ReplyOnWire, ToSet, ProxyEnable, Proxy, StubSource, Stub
  <2> QED BY <2>1, <2>2, <2>3, WireFormsOnWire DEF WellPaired
<1>2. WellPaired(ProxyEnable.DisableSource)
  <2>1. IpcHandlers["DISABLE_SOURCE"] = StubSource["DISABLE_SOURCE"]
    BY HandlerOf, StubDomains DEF IpcStubs, IpcServiceStubs, IpcCallbackStubs
  <2>2. /\ ProxyEnable.DisableSource.code = "DISABLE_SOURCE"
        /\ StubSource["DISABLE_SOURCE"].reads = ProxyEnable.DisableSource.writes
        /\ ProxyEnable.DisableSource.writes \in WireForms
    BY DEF ProxyEnable, Proxy, StubSource, Stub, WireForms
  <2>3. ReplyOnWire(ProxyEnable.DisableSource.reads, StubSource["DISABLE_SOURCE"].writes)
    BY DEF ReplyOnWire, ToSet, ProxyEnable, Proxy, StubSource, Stub
  <2> QED BY <2>1, <2>2, <2>3, WireFormsOnWire DEF WellPaired
<1>3. WellPaired(ProxyEnable.LoadDistributedHDF)
  <2>1. IpcHandlers["LOAD_HDF"] = StubHdfAndAccess["LOAD_HDF"]
    BY HandlerOf, StubDomains DEF IpcStubs, IpcServiceStubs, IpcCallbackStubs
  <2>2. /\ ProxyEnable.LoadDistributedHDF.code = "LOAD_HDF"
        /\ StubHdfAndAccess["LOAD_HDF"].reads = ProxyEnable.LoadDistributedHDF.writes
        /\ ProxyEnable.LoadDistributedHDF.writes \in WireForms
    BY DEF ProxyEnable, Proxy, StubHdfAndAccess, Stub, WireForms
  <2>3. ReplyOnWire(ProxyEnable.LoadDistributedHDF.reads, StubHdfAndAccess["LOAD_HDF"].writes)
    BY DEF ReplyOnWire, ToSet, ProxyEnable, Proxy, StubHdfAndAccess, Stub
  <2> QED BY <2>1, <2>2, <2>3, WireFormsOnWire DEF WellPaired
<1>4. WellPaired(ProxyEnable.UnLoadDistributedHDF)
  <2>1. IpcHandlers["UNLOAD_HDF"] = StubHdfAndAccess["UNLOAD_HDF"]
    BY HandlerOf, StubDomains DEF IpcStubs, IpcServiceStubs, IpcCallbackStubs
  <2>2. /\ ProxyEnable.UnLoadDistributedHDF.code = "UNLOAD_HDF"
        /\ StubHdfAndAccess["UNLOAD_HDF"].reads = ProxyEnable.UnLoadDistributedHDF.writes
        /\ ProxyEnable.UnLoadDistributedHDF.writes \in WireForms
    BY DEF ProxyEnable, Proxy, StubHdfAndAccess, Stub, WireForms
  <2>3. ReplyOnWire(ProxyEnable.UnLoadDistributedHDF.reads, StubHdfAndAccess["UNLOAD_HDF"].writes)
    BY DEF ReplyOnWire, ToSet, ProxyEnable, Proxy, StubHdfAndAccess, Stub
  <2> QED BY <2>1, <2>2, <2>3, WireFormsOnWire DEF WellPaired
<1> QED BY <1>1, <1>2, <1>3, <1>4 DEF ProxyEnable

\* Every call of ProxyAccess is paired.
LEMMA PairedAccess == \A m \in DOMAIN ProxyAccess : WellPaired(ProxyAccess[m])
PROOF
<1>1. WellPaired(ProxyAccess.LoadSinkDMSDPService)
  <2>1. IpcHandlers["INIT_SINK_DMSDP"] = StubDmsdp["INIT_SINK_DMSDP"]
    BY HandlerOf, StubDomains DEF IpcStubs, IpcServiceStubs, IpcCallbackStubs
  <2>2. /\ ProxyAccess.LoadSinkDMSDPService.code = "INIT_SINK_DMSDP"
        /\ StubDmsdp["INIT_SINK_DMSDP"].reads = ProxyAccess.LoadSinkDMSDPService.writes
        /\ ProxyAccess.LoadSinkDMSDPService.writes \in WireForms
    BY DEF ProxyAccess, Proxy, StubDmsdp, Stub, WireForms
  <2>3. ReplyOnWire(ProxyAccess.LoadSinkDMSDPService.reads, StubDmsdp["INIT_SINK_DMSDP"].writes)
    BY DEF ReplyOnWire, ToSet, ProxyAccess, Proxy, StubDmsdp, Stub
  <2> QED BY <2>1, <2>2, <2>3, WireFormsOnWire DEF WellPaired
<1>2. WellPaired(ProxyAccess.NotifySinkRemoteSourceStarted)
  <2>1. IpcHandlers["NOTIFY_SINK_DEVICE_REMOTE_DMSDP_STARTED"] = StubDmsdp["NOTIFY_SINK_DEVICE_REMOTE_DMSDP_STARTED"]
    BY HandlerOf, StubDomains DEF IpcStubs, IpcServiceStubs, IpcCallbackStubs
  <2>2. /\ ProxyAccess.NotifySinkRemoteSourceStarted.code = "NOTIFY_SINK_DEVICE_REMOTE_DMSDP_STARTED"
        /\ StubDmsdp["NOTIFY_SINK_DEVICE_REMOTE_DMSDP_STARTED"].reads = ProxyAccess.NotifySinkRemoteSourceStarted.writes
        /\ ProxyAccess.NotifySinkRemoteSourceStarted.writes \in WireForms
    BY DEF ProxyAccess, Proxy, StubDmsdp, Stub, WireForms
  <2>3. ReplyOnWire(ProxyAccess.NotifySinkRemoteSourceStarted.reads, StubDmsdp["NOTIFY_SINK_DEVICE_REMOTE_DMSDP_STARTED"].writes)
    BY DEF ReplyOnWire, ToSet, ProxyAccess, Proxy, StubDmsdp, Stub
  <2> QED BY <2>1, <2>2, <2>3, WireFormsOnWire DEF WellPaired
<1>3. WellPaired(ProxyAccess.RegisterHardwareAccessListener)
  <2>1. IpcHandlers["REGISTER_HARDWARE_ACCESS_LISTENER"] = StubHdfAndAccess["REGISTER_HARDWARE_ACCESS_LISTENER"]
    BY HandlerOf, StubDomains DEF IpcStubs, IpcServiceStubs, IpcCallbackStubs
  <2>2. /\ ProxyAccess.RegisterHardwareAccessListener.code = "REGISTER_HARDWARE_ACCESS_LISTENER"
        /\ StubHdfAndAccess["REGISTER_HARDWARE_ACCESS_LISTENER"].reads = ProxyAccess.RegisterHardwareAccessListener.writes
        /\ ProxyAccess.RegisterHardwareAccessListener.writes \in WireForms
    BY DEF ProxyAccess, Proxy, StubHdfAndAccess, Stub, WireForms
  <2>3. ReplyOnWire(ProxyAccess.RegisterHardwareAccessListener.reads, StubHdfAndAccess["REGISTER_HARDWARE_ACCESS_LISTENER"].writes)
    BY DEF ReplyOnWire, ToSet, ProxyAccess, Proxy, StubHdfAndAccess, Stub
  <2> QED BY <2>1, <2>2, <2>3, WireFormsOnWire DEF WellPaired
<1>4. WellPaired(ProxyAccess.UnregisterHardwareAccessListener)
  <2>1. IpcHandlers["UNREGISTER_HARDWARE_ACCESS_LISTENER"] = StubHdfAndAccess["UNREGISTER_HARDWARE_ACCESS_LISTENER"]
    BY HandlerOf, StubDomains DEF IpcStubs, IpcServiceStubs, IpcCallbackStubs
  <2>2. /\ ProxyAccess.UnregisterHardwareAccessListener.code = "UNREGISTER_HARDWARE_ACCESS_LISTENER"
        /\ StubHdfAndAccess["UNREGISTER_HARDWARE_ACCESS_LISTENER"].reads = ProxyAccess.UnregisterHardwareAccessListener.writes
        /\ ProxyAccess.UnregisterHardwareAccessListener.writes \in WireForms
    BY DEF ProxyAccess, Proxy, StubHdfAndAccess, Stub, WireForms
  <2>3. ReplyOnWire(ProxyAccess.UnregisterHardwareAccessListener.reads, StubHdfAndAccess["UNREGISTER_HARDWARE_ACCESS_LISTENER"].writes)
    BY DEF ReplyOnWire, ToSet, ProxyAccess, Proxy, StubHdfAndAccess, Stub
  <2> QED BY <2>1, <2>2, <2>3, WireFormsOnWire DEF WellPaired
<1> QED BY <1>1, <1>2, <1>3, <1>4 DEF ProxyAccess

\* Every call of ProxyAuthorization is paired.
LEMMA PairedAuthorization == \A m \in DOMAIN ProxyAuthorization : WellPaired(ProxyAuthorization[m])
PROOF
<1>1. WellPaired(ProxyAuthorization.SetAuthorizationResult)
  <2>1. IpcHandlers["SET_AUTHORIZATION_RESULT"] = StubHdfAndAccess["SET_AUTHORIZATION_RESULT"]
    BY HandlerOf, StubDomains DEF IpcStubs, IpcServiceStubs, IpcCallbackStubs
  <2>2. /\ ProxyAuthorization.SetAuthorizationResult.code = "SET_AUTHORIZATION_RESULT"
        /\ StubHdfAndAccess["SET_AUTHORIZATION_RESULT"].reads = ProxyAuthorization.SetAuthorizationResult.writes
        /\ ProxyAuthorization.SetAuthorizationResult.writes \in WireForms
    BY DEF ProxyAuthorization, Proxy, StubHdfAndAccess, Stub, WireForms
  <2>3. ReplyOnWire(ProxyAuthorization.SetAuthorizationResult.reads, StubHdfAndAccess["SET_AUTHORIZATION_RESULT"].writes)
    BY DEF ReplyOnWire, ToSet, ProxyAuthorization, Proxy, StubHdfAndAccess, Stub
  <2> QED BY <2>1, <2>2, <2>3, WireFormsOnWire DEF WellPaired
<1> QED BY <1>1 DEF ProxyAuthorization

\* Every call of ProxyStatusCallbacks is paired.
LEMMA PairedStatusCallbacks == \A m \in DOMAIN ProxyStatusCallbacks : WellPaired(ProxyStatusCallbacks[m])
PROOF
<1>1. WellPaired(ProxyStatusCallbacks.SinkOnEnable)
  <2>1. IpcHandlers["SINK_ON_ENABLE"] = StubSinkStatusCallback["SINK_ON_ENABLE"]
    BY HandlerOf, StubDomains DEF IpcStubs, IpcServiceStubs, IpcCallbackStubs
  <2>2. /\ ProxyStatusCallbacks.SinkOnEnable.code = "SINK_ON_ENABLE"
        /\ StubSinkStatusCallback["SINK_ON_ENABLE"].reads = ProxyStatusCallbacks.SinkOnEnable.writes
        /\ ProxyStatusCallbacks.SinkOnEnable.writes \in WireForms
    BY DEF ProxyStatusCallbacks, Proxy, StubSinkStatusCallback, Stub, WireForms
  <2>3. ReplyOnWire(ProxyStatusCallbacks.SinkOnEnable.reads, StubSinkStatusCallback["SINK_ON_ENABLE"].writes)
    BY DEF ReplyOnWire, ToSet, ProxyStatusCallbacks, Proxy, StubSinkStatusCallback, Stub
  <2> QED BY <2>1, <2>2, <2>3, WireFormsOnWire DEF WellPaired
<1>2. WellPaired(ProxyStatusCallbacks.SinkOnDisable)
  <2>1. IpcHandlers["SINK_ON_DISABLE"] = StubSinkStatusCallback["SINK_ON_DISABLE"]
    BY HandlerOf, StubDomains DEF IpcStubs, IpcServiceStubs, IpcCallbackStubs
  <2>2. /\ ProxyStatusCallbacks.SinkOnDisable.code = "SINK_ON_DISABLE"
        /\ StubSinkStatusCallback["SINK_ON_DISABLE"].reads = ProxyStatusCallbacks.SinkOnDisable.writes
        /\ ProxyStatusCallbacks.SinkOnDisable.writes \in WireForms
    BY DEF ProxyStatusCallbacks, Proxy, StubSinkStatusCallback, Stub, WireForms
  <2>3. ReplyOnWire(ProxyStatusCallbacks.SinkOnDisable.reads, StubSinkStatusCallback["SINK_ON_DISABLE"].writes)
    BY DEF ReplyOnWire, ToSet, ProxyStatusCallbacks, Proxy, StubSinkStatusCallback, Stub
  <2> QED BY <2>1, <2>2, <2>3, WireFormsOnWire DEF WellPaired
<1>3. WellPaired(ProxyStatusCallbacks.SourceOnEnable)
  <2>1. IpcHandlers["SOURCE_ON_ENABLE"] = StubSourceStatusCallback["SOURCE_ON_ENABLE"]
    BY HandlerOf, StubDomains DEF IpcStubs, IpcServiceStubs, IpcCallbackStubs
  <2>2. /\ ProxyStatusCallbacks.SourceOnEnable.code = "SOURCE_ON_ENABLE"
        /\ StubSourceStatusCallback["SOURCE_ON_ENABLE"].reads = ProxyStatusCallbacks.SourceOnEnable.writes
        /\ ProxyStatusCallbacks.SourceOnEnable.writes \in WireForms
    BY DEF ProxyStatusCallbacks, Proxy, StubSourceStatusCallback, Stub, WireForms
  <2>3. ReplyOnWire(ProxyStatusCallbacks.SourceOnEnable.reads, StubSourceStatusCallback["SOURCE_ON_ENABLE"].writes)
    BY DEF ReplyOnWire, ToSet, ProxyStatusCallbacks, Proxy, StubSourceStatusCallback, Stub
  <2> QED BY <2>1, <2>2, <2>3, WireFormsOnWire DEF WellPaired
<1>4. WellPaired(ProxyStatusCallbacks.SourceOnDisable)
  <2>1. IpcHandlers["SOURCE_ON_DISABLE"] = StubSourceStatusCallback["SOURCE_ON_DISABLE"]
    BY HandlerOf, StubDomains DEF IpcStubs, IpcServiceStubs, IpcCallbackStubs
  <2>2. /\ ProxyStatusCallbacks.SourceOnDisable.code = "SOURCE_ON_DISABLE"
        /\ StubSourceStatusCallback["SOURCE_ON_DISABLE"].reads = ProxyStatusCallbacks.SourceOnDisable.writes
        /\ ProxyStatusCallbacks.SourceOnDisable.writes \in WireForms
    BY DEF ProxyStatusCallbacks, Proxy, StubSourceStatusCallback, Stub, WireForms
  <2>3. ReplyOnWire(ProxyStatusCallbacks.SourceOnDisable.reads, StubSourceStatusCallback["SOURCE_ON_DISABLE"].writes)
    BY DEF ReplyOnWire, ToSet, ProxyStatusCallbacks, Proxy, StubSourceStatusCallback, Stub
  <2> QED BY <2>1, <2>2, <2>3, WireFormsOnWire DEF WellPaired
<1> QED BY <1>1, <1>2, <1>3, <1>4 DEF ProxyStatusCallbacks

\* Every call of ProxyPublisherCallback is paired.
LEMMA PairedPublisherCallback == \A m \in DOMAIN ProxyPublisherCallback : WellPaired(ProxyPublisherCallback[m])
PROOF
<1>1. WellPaired(ProxyPublisherCallback.OnMessage)
  <2>1. IpcHandlers["ON_MESSAGE"] = StubPublisherCallback["ON_MESSAGE"]
    BY HandlerOf, StubDomains DEF IpcStubs, IpcServiceStubs, IpcCallbackStubs
  <2>2. /\ ProxyPublisherCallback.OnMessage.code = "ON_MESSAGE"
        /\ StubPublisherCallback["ON_MESSAGE"].reads = ProxyPublisherCallback.OnMessage.writes
        /\ ProxyPublisherCallback.OnMessage.writes \in WireForms
    BY DEF ProxyPublisherCallback, Proxy, StubPublisherCallback, Stub, WireForms
  <2>3. ReplyOnWire(ProxyPublisherCallback.OnMessage.reads, StubPublisherCallback["ON_MESSAGE"].writes)
    BY DEF ReplyOnWire, ToSet, ProxyPublisherCallback, Proxy, StubPublisherCallback, Stub
  <2> QED BY <2>1, <2>2, <2>3, WireFormsOnWire DEF WellPaired
<1> QED BY <1>1 DEF ProxyPublisherCallback

\* Every call of ProxyGetDhCallback is paired.
LEMMA PairedGetDhCallback == \A m \in DOMAIN ProxyGetDhCallback : WellPaired(ProxyGetDhCallback[m])
PROOF
<1>1. WellPaired(ProxyGetDhCallback.OnSuccess)
  <2>1. IpcHandlers["ON_SUCCESS"] = StubGetDhCallback["ON_SUCCESS"]
    BY HandlerOf, StubDomains DEF IpcStubs, IpcServiceStubs, IpcCallbackStubs
  <2>2. /\ ProxyGetDhCallback.OnSuccess.code = "ON_SUCCESS"
        /\ StubGetDhCallback["ON_SUCCESS"].reads = ProxyGetDhCallback.OnSuccess.writes
        /\ ProxyGetDhCallback.OnSuccess.writes \in WireForms
    BY DEF ProxyGetDhCallback, Proxy, StubGetDhCallback, Stub, WireForms
  <2>3. ReplyOnWire(ProxyGetDhCallback.OnSuccess.reads, StubGetDhCallback["ON_SUCCESS"].writes)
    BY DEF ReplyOnWire, ToSet, ProxyGetDhCallback, Proxy, StubGetDhCallback, Stub
  <2> QED BY <2>1, <2>2, <2>3, WireFormsOnWire DEF WellPaired
<1>2. WellPaired(ProxyGetDhCallback.OnError)
  <2>1. IpcHandlers["ON_ERROR"] = StubGetDhCallback["ON_ERROR"]
    BY HandlerOf, StubDomains DEF IpcStubs, IpcServiceStubs, IpcCallbackStubs
  <2>2. /\ ProxyGetDhCallback.OnError.code = "ON_ERROR"
        /\ StubGetDhCallback["ON_ERROR"].reads = ProxyGetDhCallback.OnError.writes
        /\ ProxyGetDhCallback.OnError.writes \in WireForms
    BY DEF ProxyGetDhCallback, Proxy, StubGetDhCallback, Stub, WireForms
  <2>3. ReplyOnWire(ProxyGetDhCallback.OnError.reads, StubGetDhCallback["ON_ERROR"].writes)
    BY DEF ReplyOnWire, ToSet, ProxyGetDhCallback, Proxy, StubGetDhCallback, Stub
  <2> QED BY <2>1, <2>2, <2>3, WireFormsOnWire DEF WellPaired
<1> QED BY <1>1, <1>2 DEF ProxyGetDhCallback

\* Every call of ProxyAuthorizationCallback is paired.
LEMMA PairedAuthorizationCallback == \A m \in DOMAIN ProxyAuthorizationCallback : WellPaired(ProxyAuthorizationCallback[m])
PROOF
<1>1. WellPaired(ProxyAuthorizationCallback.OnAuthorizationResult)
  <2>1. IpcHandlers["ON_AUTHORIZATION_RESULT"] = StubAuthorizationCallback["ON_AUTHORIZATION_RESULT"]
    BY HandlerOf, StubDomains DEF IpcStubs, IpcServiceStubs, IpcCallbackStubs
  <2>2. /\ ProxyAuthorizationCallback.OnAuthorizationResult.code = "ON_AUTHORIZATION_RESULT"
        /\ StubAuthorizationCallback["ON_AUTHORIZATION_RESULT"].reads = ProxyAuthorizationCallback.OnAuthorizationResult.writes
        /\ ProxyAuthorizationCallback.OnAuthorizationResult.writes \in WireForms
    BY DEF ProxyAuthorizationCallback, Proxy, StubAuthorizationCallback, Stub, WireForms
  <2>3. ReplyOnWire(ProxyAuthorizationCallback.OnAuthorizationResult.reads, StubAuthorizationCallback["ON_AUTHORIZATION_RESULT"].writes)
    BY DEF ReplyOnWire, ToSet, ProxyAuthorizationCallback, Proxy, StubAuthorizationCallback, Stub
  <2> QED BY <2>1, <2>2, <2>3, WireFormsOnWire DEF WellPaired
<1> QED BY <1>1 DEF ProxyAuthorizationCallback

\* Every call of ProxyAccessCallback is paired.
LEMMA PairedAccessCallback == \A m \in DOMAIN ProxyAccessCallback : WellPaired(ProxyAccessCallback[m])
PROOF
<1>1. WellPaired(ProxyAccessCallback.OnRequestHardwareAccess)
  <2>1. IpcHandlers["ON_REQUEST_HARDWARE_ACCESS"] = StubAccessCallback["ON_REQUEST_HARDWARE_ACCESS"]
    BY HandlerOf, StubDomains DEF IpcStubs, IpcServiceStubs, IpcCallbackStubs
  <2>2. /\ ProxyAccessCallback.OnRequestHardwareAccess.code = "ON_REQUEST_HARDWARE_ACCESS"
        /\ StubAccessCallback["ON_REQUEST_HARDWARE_ACCESS"].reads = ProxyAccessCallback.OnRequestHardwareAccess.writes
        /\ ProxyAccessCallback.OnRequestHardwareAccess.writes \in WireForms
    BY DEF ProxyAccessCallback, Proxy, StubAccessCallback, Stub, WireForms
  <2>3. ReplyOnWire(ProxyAccessCallback.OnRequestHardwareAccess.reads, StubAccessCallback["ON_REQUEST_HARDWARE_ACCESS"].writes)
    BY DEF ReplyOnWire, ToSet, ProxyAccessCallback, Proxy, StubAccessCallback, Stub
  <2> QED BY <2>1, <2>2, <2>3, WireFormsOnWire DEF WellPaired
<1> QED BY <1>1 DEF ProxyAccessCallback

\* A function on 1..n is a sequence of length n.
LEMMA FunctionIsSequence ==
  ASSUME NEW S, NEW n \in Nat, NEW f, f = [k \in 1..n |-> f[k]], \A k \in 1..n : f[k] \in S
  PROVE  f \in Seq(S) /\ Len(f) = n
PROOF
<1>1. f \in [1..n -> S]
  OBVIOUS
<1>2. f \in Seq(S)
  BY <1>1, SeqDef
<1> QED BY <1>1, <1>2

\* Where the cells of a concatenation lie.
LEMMA ThreeParts == ASSUME NEW a \in Nat, NEW b \in Nat, NEW c \in Nat, NEW A, NEW L, NEW B,
         A = [k \in 1..a |-> A[k]], L = [k \in 1..b |-> L[k]], B = [k \in 1..c |-> B[k]]
  PROVE  /\ Len(A \o L \o B) = a + b + c
         /\ \A k \in 1..a : (A \o L \o B)[k] = A[k]
         /\ \A k \in 1..b : (A \o L \o B)[a + k] = L[k]
         /\ \A k \in 1..c : (A \o L \o B)[a + b + k] = B[k]
PROOF
<1> DEFINE S == {A[k] : k \in 1..a} \cup {L[k] : k \in 1..b} \cup {B[k] : k \in 1..c}
<1>1. A \in Seq(S) /\ L \in Seq(S) /\ B \in Seq(S) /\ Len(A) = a /\ Len(L) = b /\ Len(B) = c
  <2>1. (\A k \in 1..a : A[k] \in S) /\ (\A k \in 1..b : L[k] \in S) /\ (\A k \in 1..c : B[k] \in S)
    OBVIOUS
  <2> HIDE DEF S
  <2> QED BY <2>1, FunctionIsSequence
<1> HIDE DEF S
<1>2. A \o L \in Seq(S) /\ Len(A \o L) = a + b
  BY <1>1, ConcatProperties
<1>3. /\ Len(A \o L \o B) = a + b + c
      /\ \A k \in 1 .. a + b + c : (A \o L \o B)[k] = IF k <= a + b THEN (A \o L)[k] ELSE B[k - (a + b)]
  BY <1>1, <1>2, ConcatProperties
<1>4. \A k \in 1 .. a + b : (A \o L)[k] = IF k <= a THEN A[k] ELSE L[k - a]
  BY <1>1, <1>2, ConcatProperties
<1>5. ASSUME NEW k \in 1..a PROVE (A \o L \o B)[k] = A[k]
  BY <1>3, <1>4
<1>6. ASSUME NEW k \in 1..b PROVE (A \o L \o B)[a + k] = L[k]
  <2>1. a + k \in 1 .. a + b /\ a + k \in 1 .. a + b + c /\ ~(a + k <= a) /\ (a + k) - a = k
    OBVIOUS
  <2> QED BY <2>1, <1>3, <1>4
<1>7. ASSUME NEW k \in 1..c PROVE (A \o L \o B)[a + b + k] = B[k]
  <2>1. a + b + k \in 1 .. a + b + c /\ ~(a + b + k <= a + b) /\ (a + b + k) - (a + b) = k
    OBVIOUS
  <2> QED BY <2>1, <1>3
<1> QED BY <1>3, <1>5, <1>6, <1>7

\* Where WriteDescriptors puts the members of the i-th descriptor.
LEMMA DescriptorCells == ASSUME NEW n \in Nat, NEW ds \in [1..n -> IpcDescriptors]
  PROVE  /\ PutDescriptors(ds) = [k \in 1 .. 1 + 4 * n |-> PutDescriptors(ds)[k]]
         /\ PutDescriptors(ds)[1] = <<"word", n>>
         /\ \A i \in 1..n : /\ PutDescriptors(ds)[4 * i - 2] = <<"word", ds[i].dhType>>
                            /\ PutDescriptors(ds)[4 * i - 1] = <<"str", ds[i].id>>
                            /\ PutDescriptors(ds)[4 * i] = <<"str", ds[i].customParams>>
                            /\ PutDescriptors(ds)[4 * i + 1] = <<"word", ds[i].token>>
PROOF
<1> DEFINE cells(d) == <<<<"word", d.dhType>>, <<"str", d.id>>, <<"str", d.customParams>>, <<"word", d.token>>>>
           tail == [k \in 1 .. 4 * n |-> cells(ds[(k + 3) \div 4])[((k - 1) % 4) + 1]]
           S == {tail[k] : k \in 1 .. 4 * n} \cup {<<"word", n>>}
<1>1. Len(ds) = n
  OBVIOUS
<1>2. PutDescriptors(ds) = <<<<"word", n>>>> \o tail
  BY <1>1 DEF PutDescriptors
<1>3. tail \in Seq(S) /\ <<<<"word", n>>>> \in Seq(S) /\ Len(tail) = 4 * n /\ Len(<<<<"word", n>>>>) = 1
  <2>1. 4 * n \in Nat
    OBVIOUS
  <2>2. tail = [k \in 1 .. 4 * n |-> tail[k]]
    <3> HIDE DEF cells
    <3> QED OBVIOUS
  <2> HIDE DEF tail
  <2>3. <<"word", n>> \in S /\ \A k \in 1 .. 4 * n : tail[k] \in S
    OBVIOUS
  <2> HIDE DEF S
  <2>4. tail \in Seq(S) /\ Len(tail) = 4 * n
    BY <2>1, <2>2, <2>3, FunctionIsSequence
  <2> QED BY <2>3, <2>4
<1>4. ASSUME NEW i \in 1..n
      PROVE  /\ tail[4 * i - 3] = <<"word", ds[i].dhType>>
             /\ tail[4 * i - 2] = <<"str", ds[i].id>>
             /\ tail[4 * i - 1] = <<"str", ds[i].customParams>>
             /\ tail[4 * i] = <<"word", ds[i].token>>
  <2> DEFINE at(k) == cells(ds[(k + 3) \div 4])[((k - 1) % 4) + 1]
  <2>1. /\ 4 * i - 3 \in 1 .. 4 * n /\ 4 * i - 2 \in 1 .. 4 * n
        /\ 4 * i - 1 \in 1 .. 4 * n /\ 4 * i \in 1 .. 4 * n
    OBVIOUS
  <2>2. /\ tail[4 * i - 3] = at(4 * i - 3) /\ tail[4 * i - 2] = at(4 * i - 2)
        /\ tail[4 * i - 1] = at(4 * i - 1) /\ tail[4 * i] = at(4 * i)
    <3> HIDE DEF cells
    <3> QED BY <2>1
  <2>3. /\ ((4 * i - 3) + 3) \div 4 = i /\ ((4 * i - 3) - 1) % 4 = 0
        /\ ((4 * i - 2) + 3) \div 4 = i /\ ((4 * i - 2) - 1) % 4 = 1
        /\ ((4 * i - 1) + 3) \div 4 = i /\ ((4 * i - 1) - 1) % 4 = 2
        /\ (4 * i + 3) \div 4 = i /\ (4 * i - 1) % 4 = 3
    OBVIOUS
  <2>4. /\ cells(ds[i])[1] = <<"word", ds[i].dhType>> /\ cells(ds[i])[2] = <<"str", ds[i].id>>
        /\ cells(ds[i])[3] = <<"str", ds[i].customParams>> /\ cells(ds[i])[4] = <<"word", ds[i].token>>
    OBVIOUS
  <2>5. 0 + 1 = 1 /\ 1 + 1 = 2 /\ 2 + 1 = 3 /\ 3 + 1 = 4
    OBVIOUS
  <2> HIDE DEF cells, tail
  <2>6. /\ at(4 * i - 3) = cells(ds[i])[1] /\ at(4 * i - 2) = cells(ds[i])[2]
        /\ at(4 * i - 1) = cells(ds[i])[3] /\ at(4 * i) = cells(ds[i])[4]
    BY <2>3, <2>5, Zenon
  <2> QED BY <2>2, <2>4, <2>6, Zenon
<1> HIDE DEF tail, S
<1>5. /\ Len(PutDescriptors(ds)) = 1 + 4 * n
      /\ PutDescriptors(ds) \in Seq(S)
      /\ \A k \in 1 .. 1 + 4 * n : PutDescriptors(ds)[k] = IF k <= 1 THEN <<<<"word", n>>>>[k] ELSE tail[k - 1]
  BY <1>2, <1>3, ConcatProperties
<1> DEFINE P == PutDescriptors(ds)
<1> HIDE DEF P, cells
<1>6. \A k \in 1 .. 4 * n : P[k + 1] = tail[k]
  <2> SUFFICES ASSUME NEW k \in 1 .. 4 * n PROVE P[k + 1] = tail[k]
    OBVIOUS
  <2>1. k + 1 \in 1 .. 1 + 4 * n /\ ~(k + 1 <= 1) /\ (k + 1) - 1 = k
    OBVIOUS
  <2> QED BY <2>1, <1>5, Zenon DEF P
<1>7. ASSUME NEW i \in 1..n
      PROVE  /\ P[4 * i - 2] = <<"word", ds[i].dhType>>
             /\ P[4 * i - 1] = <<"str", ds[i].id>>
             /\ P[4 * i] = <<"str", ds[i].customParams>>
             /\ P[4 * i + 1] = <<"word", ds[i].token>>
  <2>1. /\ 4 * i - 3 \in 1 .. 4 * n /\ 4 * i - 2 \in 1 .. 4 * n
        /\ 4 * i - 1 \in 1 .. 4 * n /\ 4 * i \in 1 .. 4 * n
    OBVIOUS
  <2>2. (4 * i - 3) + 1 = 4 * i - 2 /\ (4 * i - 2) + 1 = 4 * i - 1 /\ (4 * i - 1) + 1 = 4 * i
    OBVIOUS
  <2> QED BY <1>4, <1>6, <2>1, <2>2, Zenon
<1>8. PutDescriptors(ds)[1] = <<"word", n>>
  <2>1. 1 \in 1 .. 1 + 4 * n /\ 1 <= 1
    OBVIOUS
  <2>2. <<<<"word", n>>>>[1] = <<"word", n>>
    OBVIOUS
  <2> QED BY Zenon, <2>1, <2>2, <1>5
<1>9. PutDescriptors(ds) = [k \in 1 .. 1 + 4 * n |-> PutDescriptors(ds)[k]]
  BY <1>5
<1> QED BY <1>7, <1>8, <1>9, Zenon DEF P
\* The same for the two members that a callback carries.
LEMMA BriefCells == ASSUME NEW n \in Nat, NEW ds \in [1..n -> IpcBriefs]
  PROVE  /\ PutBriefs(ds) = [k \in 1 .. 1 + 2 * n |-> PutBriefs(ds)[k]]
         /\ PutBriefs(ds)[1] = <<"word", n>>
         /\ \A i \in 1..n : /\ PutBriefs(ds)[2 * i] = <<"word", ds[i].dhType>>
                            /\ PutBriefs(ds)[2 * i + 1] = <<"str", ds[i].id>>
PROOF
<1> DEFINE cells(d) == <<<<"word", d.dhType>>, <<"str", d.id>>>>
           tail == [k \in 1 .. 2 * n |-> cells(ds[(k + 1) \div 2])[((k - 1) % 2) + 1]]
           S == {tail[k] : k \in 1 .. 2 * n} \cup {<<"word", n>>}
<1>1. Len(ds) = n
  OBVIOUS
<1>2. PutBriefs(ds) = <<<<"word", n>>>> \o tail
  BY <1>1 DEF PutBriefs
<1>3. tail \in Seq(S) /\ <<<<"word", n>>>> \in Seq(S) /\ Len(tail) = 2 * n /\ Len(<<<<"word", n>>>>) = 1
  <2>1. 2 * n \in Nat
    OBVIOUS
  <2>2. tail = [k \in 1 .. 2 * n |-> tail[k]]
    <3> HIDE DEF cells
    <3> QED OBVIOUS
  <2> HIDE DEF tail
  <2>3. <<"word", n>> \in S /\ \A k \in 1 .. 2 * n : tail[k] \in S
    OBVIOUS
  <2> HIDE DEF S
  <2>4. tail \in Seq(S) /\ Len(tail) = 2 * n
    BY <2>1, <2>2, <2>3, FunctionIsSequence
  <2> QED BY <2>3, <2>4
<1>4. ASSUME NEW i \in 1..n
      PROVE  tail[2 * i - 1] = <<"word", ds[i].dhType>> /\ tail[2 * i] = <<"str", ds[i].id>>
  <2> DEFINE at(k) == cells(ds[(k + 1) \div 2])[((k - 1) % 2) + 1]
  <2>1. 2 * i - 1 \in 1 .. 2 * n /\ 2 * i \in 1 .. 2 * n
    OBVIOUS
  <2>2. tail[2 * i - 1] = at(2 * i - 1) /\ tail[2 * i] = at(2 * i)
    <3> HIDE DEF cells
    <3> QED BY <2>1
  <2>3. /\ ((2 * i - 1) + 1) \div 2 = i /\ ((2 * i - 1) - 1) % 2 = 0
        /\ (2 * i + 1) \div 2 = i /\ (2 * i - 1) % 2 = 1
    OBVIOUS
  <2>4. cells(ds[i])[1] = <<"word", ds[i].dhType>> /\ cells(ds[i])[2] = <<"str", ds[i].id>>
    OBVIOUS
  <2>5. 0 + 1 = 1 /\ 1 + 1 = 2
    OBVIOUS
  <2> HIDE DEF cells, tail
  <2>6. at(2 * i - 1) = cells(ds[i])[1] /\ at(2 * i) = cells(ds[i])[2]
    BY <2>3, <2>5, Zenon
  <2> QED BY <2>2, <2>4, <2>6, Zenon
<1> HIDE DEF tail, S
<1>5. /\ Len(PutBriefs(ds)) = 1 + 2 * n
      /\ PutBriefs(ds) \in Seq(S)
      /\ \A k \in 1 .. 1 + 2 * n : PutBriefs(ds)[k] = IF k <= 1 THEN <<<<"word", n>>>>[k] ELSE tail[k - 1]
  BY <1>2, <1>3, ConcatProperties
<1> DEFINE P == PutBriefs(ds)
<1> HIDE DEF P, cells
<1>6. \A k \in 1 .. 2 * n : P[k + 1] = tail[k]
  <2> SUFFICES ASSUME NEW k \in 1 .. 2 * n PROVE P[k + 1] = tail[k]
    OBVIOUS
  <2>1. k + 1 \in 1 .. 1 + 2 * n /\ ~(k + 1 <= 1) /\ (k + 1) - 1 = k
    OBVIOUS
  <2> QED BY <2>1, <1>5, Zenon DEF P
<1>7. ASSUME NEW i \in 1..n
      PROVE  P[2 * i] = <<"word", ds[i].dhType>> /\ P[2 * i + 1] = <<"str", ds[i].id>>
  <2>1. 2 * i - 1 \in 1 .. 2 * n /\ 2 * i \in 1 .. 2 * n
    OBVIOUS
  <2>2. (2 * i - 1) + 1 = 2 * i
    OBVIOUS
  <2> QED BY <1>4, <1>6, <2>1, <2>2, Zenon
<1>8. PutBriefs(ds)[1] = <<"word", n>>
  <2>1. 1 \in 1 .. 1 + 2 * n /\ 1 <= 1
    OBVIOUS
  <2>2. <<<<"word", n>>>>[1] = <<"word", n>>
    OBVIOUS
  <2> QED BY Zenon, <2>1, <2>2, <1>5
<1>9. PutBriefs(ds) = [k \in 1 .. 1 + 2 * n |-> PutBriefs(ds)[k]]
  BY <1>5
<1> QED BY <1>7, <1>8, <1>9, Zenon DEF P

\* ReadDescriptors finds a list that WriteDescriptors wrote, wherever it begins.
LEMMA TakesDescriptors ==
  ASSUME NEW n \in 0 .. IpcMaxDescriptors, NEW ds \in [1..n -> IpcDescriptors], NEW p, NEW pos \in Nat \ {0},
         Len(p) \in Nat, pos + 4 * n <= Len(p),
         \A k \in 1 .. 1 + 4 * n : p[(pos - 1) + k] = PutDescriptors(ds)[k]
  PROVE  TakeDescriptors(p, pos) = [val |-> ds, next |-> pos + 1 + 4 * n]
PROOF
<1> USE IpcBounds
<1> DEFINE at(i) == pos + 1 + 4 * (i - 1)
<1>6. n \in Nat
  OBVIOUS
<1>0. /\ PutDescriptors(ds) = [k \in 1 .. 1 + 4 * n |-> PutDescriptors(ds)[k]]
      /\ PutDescriptors(ds)[1] = <<"word", n>>
      /\ \A i \in 1..n : /\ PutDescriptors(ds)[4 * i - 2] = <<"word", ds[i].dhType>>
                         /\ PutDescriptors(ds)[4 * i - 1] = <<"str", ds[i].id>>
                         /\ PutDescriptors(ds)[4 * i] = <<"str", ds[i].customParams>>
                         /\ PutDescriptors(ds)[4 * i + 1] = <<"word", ds[i].token>>
  BY <1>6, DescriptorCells
<1>1. IpcRead("word", p, pos) = n
  <2>1. (pos - 1) + 1 = pos /\ pos <= Len(p) /\ 1 \in 1 .. 1 + 4 * n
    OBVIOUS
  <2>2. p[pos] = <<"word", n>>
    BY <2>1, <1>0, Zenon
  <2> QED BY <2>1, <2>2 DEF IpcRead
<1>2. ASSUME NEW i \in 1..n
      PROVE  [dhType |-> IpcRead("word", p, at(i)), id |-> IpcRead("str", p, at(i) + 1),
              customParams |-> IpcRead("str", p, at(i) + 2), token |-> IpcRead("word", p, at(i) + 3)] = ds[i]
  <2>1. /\ at(i) = (pos - 1) + (4 * i - 2) /\ at(i) + 1 = (pos - 1) + (4 * i - 1)
        /\ at(i) + 2 = (pos - 1) + 4 * i /\ at(i) + 3 = (pos - 1) + (4 * i + 1)
    OBVIOUS
  <2>2. /\ 4 * i - 2 \in 1 .. 1 + 4 * n /\ 4 * i - 1 \in 1 .. 1 + 4 * n
        /\ 4 * i \in 1 .. 1 + 4 * n /\ 4 * i + 1 \in 1 .. 1 + 4 * n
    OBVIOUS
  <2>3. at(i) <= Len(p) /\ at(i) + 1 <= Len(p) /\ at(i) + 2 <= Len(p) /\ at(i) + 3 <= Len(p)
    OBVIOUS
  <2> HIDE DEF at
  <2>4. /\ p[at(i)] = <<"word", ds[i].dhType>> /\ p[at(i) + 1] = <<"str", ds[i].id>>
        /\ p[at(i) + 2] = <<"str", ds[i].customParams>> /\ p[at(i) + 3] = <<"word", ds[i].token>>
    BY <2>1, <2>2, <1>0, Zenon
  <2>5. /\ IpcRead("word", p, at(i)) = ds[i].dhType /\ IpcRead("str", p, at(i) + 1) = ds[i].id
        /\ IpcRead("str", p, at(i) + 2) = ds[i].customParams /\ IpcRead("word", p, at(i) + 3) = ds[i].token
    BY <2>3, <2>4 DEF IpcRead
  <2>6. ds[i] \in [dhType : Nat, id : STRING, customParams : STRING, token : Nat]
    BY IpcDescriptorShape
  <2>7. ds[i] = [dhType |-> ds[i].dhType, id |-> ds[i].id, customParams |-> ds[i].customParams,
                 token |-> ds[i].token]
    BY <2>6
  <2> QED BY <2>5, <2>7, Zenon
<1>3. ds = [i \in 1..n |-> ds[i]]
  OBVIOUS
<1>4. [i \in 1..n |-> [dhType |-> IpcRead("word", p, at(i)), id |-> IpcRead("str", p, at(i) + 1),
                       customParams |-> IpcRead("str", p, at(i) + 2), token |-> IpcRead("word", p, at(i) + 3)]]
        = ds
  <2> HIDE DEF at
  <2> QED BY <1>2, <1>3, Zenon
<1>5. at(n + 1) = pos + 1 + 4 * n /\ ~(n > IpcMaxDescriptors)
  OBVIOUS
<1> QED BY <1>1, <1>4, <1>5, Zenon DEF TakeDescriptors

\* The same for the list of a callback.
LEMMA TakesBriefs ==
  ASSUME NEW n \in 0 .. IpcMaxDescriptors, NEW ds \in [1..n -> IpcBriefs], NEW p, NEW pos \in Nat \ {0},
         Len(p) \in Nat, pos + 2 * n <= Len(p),
         \A k \in 1 .. 1 + 2 * n : p[(pos - 1) + k] = PutBriefs(ds)[k]
  PROVE  TakeBriefs(p, pos) = [val |-> ds, next |-> pos + 1 + 2 * n]
PROOF
<1> USE IpcBounds
<1> DEFINE at(i) == pos + 1 + 2 * (i - 1)
<1>0. /\ n \in Nat
      /\ PutBriefs(ds)[1] = <<"word", n>>
      /\ \A i \in 1..n : /\ PutBriefs(ds)[2 * i] = <<"word", ds[i].dhType>>
                          /\ PutBriefs(ds)[2 * i + 1] = <<"str", ds[i].id>>
  <2>1. n \in Nat
    OBVIOUS
  <2> QED BY <2>1, BriefCells, Zenon
<1>1. IpcRead("word", p, pos) = n
  <2>1. (pos - 1) + 1 = pos /\ pos <= Len(p) /\ 1 \in 1 .. 1 + 2 * n
    OBVIOUS
  <2>2. p[pos] = <<"word", n>>
    BY <2>1, <1>0, Zenon
  <2> QED BY <2>1, <2>2 DEF IpcRead
<1>2. ASSUME NEW i \in 1..n
      PROVE  [dhType |-> IpcRead("word", p, at(i)), id |-> IpcRead("str", p, at(i) + 1)] = ds[i]
  <2>1. at(i) = (pos - 1) + 2 * i /\ at(i) + 1 = (pos - 1) + (2 * i + 1)
    OBVIOUS
  <2>2. 2 * i \in 1 .. 1 + 2 * n /\ 2 * i + 1 \in 1 .. 1 + 2 * n
    OBVIOUS
  <2>3. at(i) <= Len(p) /\ at(i) + 1 <= Len(p)
    OBVIOUS
  <2> HIDE DEF at
  <2>4. p[at(i)] = <<"word", ds[i].dhType>> /\ p[at(i) + 1] = <<"str", ds[i].id>>
    BY <2>1, <2>2, <1>0, Zenon
  <2>5. IpcRead("word", p, at(i)) = ds[i].dhType /\ IpcRead("str", p, at(i) + 1) = ds[i].id
    BY <2>3, <2>4 DEF IpcRead
  <2>6. ds[i] = [dhType |-> ds[i].dhType, id |-> ds[i].id]
    BY DEF IpcBriefs
  <2> QED BY <2>5, <2>6, Zenon
<1>3. ds = [i \in 1..n |-> ds[i]]
  OBVIOUS
<1>4. [i \in 1..n |-> [dhType |-> IpcRead("word", p, at(i)), id |-> IpcRead("str", p, at(i) + 1)]] = ds
  <2> HIDE DEF at
  <2> QED BY <1>2, <1>3, Zenon
<1>5. at(n + 1) = pos + 1 + 2 * n /\ ~(n > IpcMaxDescriptors)
  OBVIOUS
<1> QED BY <1>1, <1>4, <1>5, Zenon DEF TakeBriefs

\* What a proxy passes on: an argument for every field, and lists that the limit admits.
Sendable(fields, args) ==
    /\ args = [param \in IpcParams(fields) |-> args[param]]
    /\ \A i \in 1..Len(fields) :
          /\ fields[i][1] = "descs" => \E n \in 0 .. IpcMaxDescriptors : args[fields[i][2]] \in [1..n -> IpcDescriptors]
          /\ fields[i][1] = "briefs" => \E n \in 0 .. IpcMaxDescriptors : args[fields[i][2]] \in [1..n -> IpcBriefs]

\* A single cell is read as it was written.
LEMMA SingleCellArrives ==
  ASSUME NEW type, type \notin {"descs", "briefs"}, NEW p, NEW pos, pos <= Len(p), NEW v,
         p[pos] = <<IpcCell(type), v>>
  PROVE  IpcTake(type, p, pos).val = v
PROOF
<1>1. IpcTake(type, p, pos) = [val |-> IpcRead(IpcCell(type), p, pos), next |-> pos + 1]
  BY DEF IpcTake
<1>2. IpcRead(IpcCell(type), p, pos) = v
  BY DEF IpcRead
<1> QED BY <1>1, <1>2

\* A list takes m cells; a reader that finds them somewhere reads the list and goes on behind it.
ReadsBack(type, ds, m) ==
    /\ IpcPutList(type, ds) = [k \in 1..m |-> IpcPutList(type, ds)[k]]
    /\ \A p, pos : /\ pos \in Nat \ {0} /\ Len(p) \in Nat /\ pos + m - 1 <= Len(p)
                   /\ \A k \in 1..m : p[(pos - 1) + k] = IpcPutList(type, ds)[k]
                   => IpcTake(type, p, pos) = [val |-> ds, next |-> pos + m]

\* A list is read as it was written, wherever it begins, and the reader goes on behind it.
LEMMA ListArrives ==
  ASSUME NEW type \in {"descs", "briefs"}, NEW ds,
         type = "descs" => \E n \in 0 .. IpcMaxDescriptors : ds \in [1..n -> IpcDescriptors],
         type = "briefs" => \E n \in 0 .. IpcMaxDescriptors : ds \in [1..n -> IpcBriefs]
  PROVE  \E m \in Nat \ {0} : ReadsBack(type, ds, m)
PROOF
<1> USE IpcBounds
<1>1. CASE type = "descs"
  <2>1. PICK n \in 0 .. IpcMaxDescriptors : ds \in [1..n -> IpcDescriptors]
    BY <1>1
  <2>2. n \in Nat
    OBVIOUS
  <2>3. IpcPutList(type, ds) = PutDescriptors(ds)
    BY <1>1 DEF IpcPutList
  <2>4. PutDescriptors(ds) = [k \in 1 .. 1 + 4 * n |-> PutDescriptors(ds)[k]]
    BY <2>1, <2>2, DescriptorCells
  <2>5. ASSUME NEW p, NEW pos \in Nat \ {0}, Len(p) \in Nat, pos + (1 + 4 * n) - 1 <= Len(p),
               \A k \in 1 .. 1 + 4 * n : p[(pos - 1) + k] = PutDescriptors(ds)[k]
        PROVE  IpcTake(type, p, pos) = [val |-> ds, next |-> pos + (1 + 4 * n)]
    <3>1. pos + 4 * n <= Len(p) /\ pos + 1 + 4 * n = pos + (1 + 4 * n)
      BY <2>2, <2>5
    <3>2. TakeDescriptors(p, pos) = [val |-> ds, next |-> pos + 1 + 4 * n]
      BY <2>1, <2>5, <3>1, TakesDescriptors
    <3> QED BY <1>1, <3>1, <3>2 DEF IpcTake
  <2>6. 1 + 4 * n \in Nat \ {0}
    BY <2>2
  <2>7. ReadsBack(type, ds, 1 + 4 * n)
    BY <2>3, <2>4, <2>5, Zenon DEF ReadsBack
  <2> QED BY <2>6, <2>7, Zenon
<1>2. CASE type = "briefs"
  <2>1. PICK n \in 0 .. IpcMaxDescriptors : ds \in [1..n -> IpcBriefs]
    BY <1>2
  <2>2. n \in Nat
    OBVIOUS
  <2>3. IpcPutList(type, ds) = PutBriefs(ds)
    BY <1>2 DEF IpcPutList
  <2>4. PutBriefs(ds) = [k \in 1 .. 1 + 2 * n |-> PutBriefs(ds)[k]]
    BY <2>1, <2>2, BriefCells
  <2>5. ASSUME NEW p, NEW pos \in Nat \ {0}, Len(p) \in Nat, pos + (1 + 2 * n) - 1 <= Len(p),
               \A k \in 1 .. 1 + 2 * n : p[(pos - 1) + k] = PutBriefs(ds)[k]
        PROVE  IpcTake(type, p, pos) = [val |-> ds, next |-> pos + (1 + 2 * n)]
    <3>1. pos + 2 * n <= Len(p) /\ pos + 1 + 2 * n = pos + (1 + 2 * n)
      BY <2>2, <2>5
    <3>2. TakeBriefs(p, pos) = [val |-> ds, next |-> pos + 1 + 2 * n]
      BY <2>1, <2>5, <3>1, TakesBriefs
    <3> QED BY <1>2, <3>1, <3>2 DEF IpcTake
  <2>6. 1 + 2 * n \in Nat \ {0}
    BY <2>2
  <2>7. ReadsBack(type, ds, 1 + 2 * n)
    BY <2>3, <2>4, <2>5, Zenon DEF ReadsBack
  <2> QED BY <2>6, <2>7, Zenon
<1> QED BY <1>1, <1>2

\* The handler reads what the proxy wrote, if it reads the same fields.
LEMMA ParcelArrives ==
  ASSUME NEW fields, FieldsOnWire(fields), NEW args, Sendable(fields, args)
  PROVE  IpcDecode(fields, IpcEncode(fields, args)) = args
PROOF
<1> DEFINE n == Len(fields)
           p == IpcEncode(fields, args)
           lists == IpcListsIn(fields)
<1>1. n \in Nat
  BY DEF FieldsOnWire
<1>2. ASSUME NEW i \in 1..n PROVE IpcFieldOf(fields, fields[i][2]) = i
  BY <1>2 DEF IpcFieldOf, FieldsOnWire
<1>3. ASSUME NEW i \in 1..n
      PROVE  IpcTake(fields[i][1], p, IpcPos(fields, i, p)).val = args[fields[i][2]]
  <2>1. i \in lists \/ fields[i][1] \notin {"descs", "briefs"}
    BY DEF IpcListsIn
  <2>2. CASE lists = {}
    <3>1. p = [k \in 1..n |-> <<IpcCell(fields[0 + k][1]), args[fields[0 + k][2]]>>]
      BY <2>2 DEF IpcEncode, IpcPutCells
    <3> HIDE DEF p
    <3>2. Len(p) = n /\ i <= Len(p) /\ 0 + i = i
      BY <1>1, <3>1
    <3>3. p[i] = <<IpcCell(fields[i][1]), args[fields[i][2]]>>
      BY <3>1, <3>2
    <3>4. IpcPos(fields, i, p) = i
      BY <2>2 DEF IpcPos
    <3> QED BY <2>1, <2>2, <3>2, <3>3, <3>4, SingleCellArrives
  <2>3. CASE lists # {}
    <3> DEFINE at == CHOOSE j \in lists : TRUE
               type == fields[at][1]
               ds == args[fields[at][2]]
               A == IpcPutCells(fields, 0, at - 1, args)
               L == IpcPutList(type, ds)
               B == IpcPutCells(fields, at, n - at, args)
    <3>1. at \in lists /\ at \in 1..n /\ type \in {"descs", "briefs"}
      BY <2>3 DEF IpcListsIn
    <3>2. \A j \in lists : j = at
      BY <3>1 DEF FieldsOnWire
    <3>3. p = A \o L \o B
      BY <2>3 DEF IpcEncode
    <3>4. PICK m \in Nat \ {0} : ReadsBack(type, ds, m)
      <4>1. /\ type = "descs" => \E k \in 0 .. IpcMaxDescriptors : ds \in [1..k -> IpcDescriptors]
            /\ type = "briefs" => \E k \in 0 .. IpcMaxDescriptors : ds \in [1..k -> IpcBriefs]
        BY <3>1 DEF Sendable
      <4> HIDE DEF type, ds
      <4> QED BY <3>1, <4>1, ListArrives
    <3>5. at - 1 \in Nat /\ n - at \in Nat
      BY <1>1, <3>1
    <3>6. /\ A = [k \in 1 .. at - 1 |-> <<IpcCell(fields[0 + k][1]), args[fields[0 + k][2]]>>]
          /\ B = [k \in 1 .. n - at |-> <<IpcCell(fields[at + k][1]), args[fields[at + k][2]]>>]
      BY DEF IpcPutCells
    <3> HIDE DEF p, A, L, B, at, type, ds, lists
    <3>7. /\ Len(p) = (at - 1) + m + (n - at)
          /\ \A k \in 1 .. at - 1 : p[k] = A[k]
          /\ \A k \in 1..m : p[(at - 1) + k] = L[k]
          /\ \A k \in 1 .. n - at : p[(at - 1) + m + k] = B[k]
      <4>1. A = [k \in 1 .. at - 1 |-> A[k]] /\ B = [k \in 1 .. n - at |-> B[k]]
        BY <3>6
      <4>2. L = [k \in 1..m |-> L[k]]
        BY <3>4 DEF ReadsBack, L
      <4>3. m \in Nat
        BY <3>4
      <4> DEFINE a == at - 1
                 c == n - at
      <4>4. a \in Nat /\ c \in Nat /\ A = [k \in 1..a |-> A[k]] /\ B = [k \in 1..c |-> B[k]]
        BY <3>5, <4>1
      <4> HIDE DEF a, c
      <4>5. /\ Len(A \o L \o B) = a + m + c
            /\ \A k \in 1..a : (A \o L \o B)[k] = A[k]
            /\ \A k \in 1..m : (A \o L \o B)[a + k] = L[k]
            /\ \A k \in 1..c : (A \o L \o B)[a + m + k] = B[k]
        BY <4>2, <4>3, <4>4, ThreeParts
      <4> QED BY <3>3, <4>5, Zenon DEF a, c
    <3>8. IpcTake(type, p, at) = [val |-> ds, next |-> at + m]
      <4>1. at \in Nat \ {0} /\ Len(p) \in Nat /\ at + m - 1 <= Len(p)
        BY <1>1, <3>1, <3>4, <3>7
      <4> QED BY <4>1, <3>4, <3>7, Zenon DEF ReadsBack, L
    <3>9. CASE i < at
      <4>1. {j \in lists : j < i} = {}
        <5> SUFFICES ASSUME NEW j \in lists, j < i PROVE FALSE
          OBVIOUS
        <5> QED BY <1>1, <3>1, <3>2, <3>9
      <4>2. IpcPos(fields, i, p) = i
        BY <4>1 DEF IpcPos, lists
      <4>3. i \in 1 .. at - 1 /\ 0 + i = i /\ i <= Len(p)
        BY <1>1, <3>1, <3>4, <3>7, <3>9
      <4>4. p[i] = <<IpcCell(fields[i][1]), args[fields[i][2]]>>
        BY <3>6, <3>7, <4>3
      <4>5. fields[i][1] \notin {"descs", "briefs"}
        BY <2>1, <3>1, <3>2, <3>9 
      <4> QED BY <4>2, <4>3, <4>4, <4>5, SingleCellArrives
    <3>10. CASE i = at
      <4>1. {j \in lists : j < i} = {}
        <5> SUFFICES ASSUME NEW j \in lists, j < i PROVE FALSE
          OBVIOUS
        <5> QED BY <1>1, <3>1, <3>2, <3>10
      <4>2. IpcPos(fields, i, p) = i
        BY <4>1 DEF IpcPos, lists
      <4> QED BY <3>8, <3>10, <4>2 DEF type, ds
    <3>11. CASE i > at
      <4>1. {j \in lists : j < i} = {at}
        BY <1>1, <3>1, <3>2, <3>11
      <4>2. (CHOOSE j \in {j \in lists : j < i} : TRUE) = at
        BY <4>1
      <4>3. IpcPos(fields, i, p) = IpcTake(fields[at][1], p, at).next + (i - at - 1)
        BY <4>1, <4>2 DEF IpcPos, lists
      <4>4. IpcPos(fields, i, p) = (at - 1) + m + (i - at)
        BY <1>1, <3>1, <3>4, <3>8, <4>3 DEF type
      <4>5. i - at \in 1 .. n - at /\ at + (i - at) = i /\ (at - 1) + m + (i - at) <= Len(p)
        BY <1>1, <3>1, <3>4, <3>7, <3>11
      <4>6. p[(at - 1) + m + (i - at)] = <<IpcCell(fields[i][1]), args[fields[i][2]]>>
        BY <3>6, <3>7, <4>5
      <4>7. fields[i][1] \notin {"descs", "briefs"}
        BY <1>1, <2>1, <3>1, <3>2, <3>11
      <4> QED BY <4>4, <4>5, <4>6, <4>7, SingleCellArrives
    <3> QED BY <1>1, <3>1, <3>9, <3>10, <3>11
  <2> QED BY <2>2, <2>3
<1> HIDE DEF p
<1>4. ASSUME NEW param \in IpcParams(fields)
      PROVE  IpcTake(fields[IpcFieldOf(fields, param)][1], p, IpcPos(fields, IpcFieldOf(fields, param), p)).val
                = args[param]
  BY <1>2, <1>3 DEF IpcParams
<1>5. IpcDecode(fields, p) = [param \in IpcParams(fields) |-> args[param]]
  BY <1>4 DEF IpcDecode
<1> QED BY <1>5 DEF Sendable, p

\* Every call is paired with its handler.
LEMMA CallsArePaired == \A method \in DOMAIN IpcMethods : WellPaired(IpcMethods[method])
PROOF
<1> SUFFICES ASSUME NEW method \in DOMAIN IpcMethods PROVE WellPaired(IpcMethods[method])
  OBVIOUS
<1>1. PICK t \in IpcProxies : method \in DOMAIN t /\ IpcMethods[method] = t[method]
  BY JoinFrom DEF IpcMethods
<1> QED BY <1>1, PairedPublisher, PairedAvCenter, PairedAvNotify, PairedPause, PairedDhStatus, PairedSource,
           PairedEnable, PairedAccess, PairedAuthorization, PairedStatusCallbacks, PairedPublisherCallback,
           PairedGetDhCallback, PairedAuthorizationCallback, PairedAccessCallback
        DEF IpcProxies

\* What a proxy does not refuse can be sent.
LEMMA UnrefusedIsSendable ==
  ASSUME NEW method \in DOMAIN IpcMethods, NEW args \in IpcArgs(method), ~ProxyRefuses(method, args)
  PROVE  Sendable(IpcMethods[method].writes, args)
PROOF
<1> DEFINE fields == IpcMethods[method].writes
           D(i) == IpcDomainAt(fields, i)
<1>1. FieldsOnWire(fields)
  BY CallsArePaired DEF WellPaired
<1>2. PICK v \in D(1) \X D(2) \X D(3) \X D(4) \X D(5) \X D(6) :
        args = [param \in IpcParams(fields) |-> v[IpcFieldOf(fields, param)]]
  BY DEF IpcArgs
<1> HIDE DEF fields
<1>3. args = [param \in IpcParams(fields) |-> args[param]]
  BY <1>2
<1>4. ASSUME NEW i \in 1..Len(fields) PROVE args[fields[i][2]] \in IpcDomain(fields[i][2])
  <2>1. i \in 1..6
    BY <1>1 DEF FieldsOnWire
  <2>2. IpcFieldOf(fields, fields[i][2]) = i
    BY <1>1 DEF IpcFieldOf, FieldsOnWire
  <2>3. fields[i][2] \in IpcParams(fields)
    BY DEF IpcParams
  <2>4. args[fields[i][2]] = v[i]
    BY <1>2, <2>2, <2>3
  <2>5. v[i] \in D(i)
    <3> HIDE DEF D
    <3>1. v[1] \in D(1) /\ v[2] \in D(2) /\ v[3] \in D(3) /\ v[4] \in D(4) /\ v[5] \in D(5) /\ v[6] \in D(6)
      OBVIOUS
    <3>2. i = 1 \/ i = 2 \/ i = 3 \/ i = 4 \/ i = 5 \/ i = 6
      BY <2>1
    <3> QED BY <3>1, <3>2
  <2> QED BY <2>4, <2>5 DEF IpcDomainAt
<1>5. ASSUME NEW i \in 1..Len(fields), NEW S, args[fields[i][2]] \in IpcLists(S),
             fields[i][2] \in {"descriptors", "briefs"}
      PROVE  \E n \in 0 .. IpcMaxDescriptors : args[fields[i][2]] \in [1..n -> S]
  <2>1. PICK n \in 0 .. IpcMaxDescriptors + 1 : args[fields[i][2]] \in [1..n -> S]
    BY <1>5 DEF IpcLists
  <2>2. n \in Nat /\ Len(args[fields[i][2]]) = n
    BY <2>1, IpcBounds
  <2>3. fields[i][2] \in DOMAIN args
    BY <1>3 DEF IpcParams
  <2>4. ~(n > IpcMaxDescriptors)
    BY <1>5, <2>2, <2>3 DEF ProxyRefuses
  <2> QED BY <2>1, <2>2, <2>4, IpcBounds
<1>6. ASSUME NEW i \in 1..Len(fields), fields[i][1] = "descs"
      PROVE  \E n \in 0 .. IpcMaxDescriptors : args[fields[i][2]] \in [1..n -> IpcDescriptors]
  <2>1. fields[i][2] = "descriptors"
    BY <1>1, <1>6 DEF FieldsOnWire
  <2>2. args[fields[i][2]] \in IpcLists(IpcDescriptors)
    BY <1>4, <2>1 DEF IpcDomain
  <2> QED BY <1>5, <2>1, <2>2
<1>7. ASSUME NEW i \in 1..Len(fields), fields[i][1] = "briefs"
      PROVE  \E n \in 0 .. IpcMaxDescriptors : args[fields[i][2]] \in [1..n -> IpcBriefs]
  <2>1. fields[i][2] = "briefs"
    BY <1>1, <1>7 DEF FieldsOnWire
  <2>2. args[fields[i][2]] \in IpcLists(IpcBriefs)
    BY <1>4, <2>1 DEF IpcDomain
  <2> QED BY <1>5, <2>1, <2>2
<1> QED BY <1>3, <1>6, <1>7 DEF Sendable, fields

\* The arguments that a proxy passes on.
SentArgs(method) == {args \in IpcArgs(method) : ~ProxyRefuses(method, args)}

\* Whatever a handler reads from the parcel of a call are the arguments of the call.
LEMMA HandlerReadsArguments ==
  ASSUME NEW method \in DOMAIN IpcMethods, NEW args \in SentArgs(method)
  PROVE  IpcDecode(IpcHandlers[IpcMethods[method].code].reads, IpcEncode(IpcMethods[method].writes, args)) = args
PROOF
<1>1. /\ IpcHandlers[IpcMethods[method].code].reads = IpcMethods[method].writes
      /\ FieldsOnWire(IpcMethods[method].writes)
  BY CallsArePaired DEF WellPaired
<1>2. Sendable(IpcMethods[method].writes, args)
  BY UnrefusedIsSendable DEF SentArgs
<1> QED BY <1>1, <1>2, ParcelArrives

\* The caller gets the result and the engine id of the service.
LEMMA ReplyArrives ==
  ASSUME NEW method \in DOMAIN IpcMethods, NEW outcome \in IpcServiceResults,
         "ret" \in ToSet(IpcMethods[method].reads),
         "ok" \in ToSet(IpcHandlers[IpcMethods[method].code].writes) => outcome.ret = 0,
         NEW back, back = IpcReadReply(IpcMethods[method].reads,
                                       IpcReplyOf(IpcHandlers[IpcMethods[method].code].writes, outcome)),
         back.ret = 0
  PROVE  /\ outcome.ret = 0
         /\ "engineId" \in ToSet(IpcMethods[method].reads) => back.engineId = outcome.engineId
PROOF
<1> DEFINE reads == IpcMethods[method].reads
           writes == IpcHandlers[IpcMethods[method].code].writes
<1>1. \/ reads = <<"ret">> /\ writes \in {<<"ret">>, <<"ok">>}
      \/ reads = <<"engineId", "ret">> /\ writes = reads
  BY CallsArePaired DEF WellPaired, ReplyOnWire
<1> HIDE DEF reads, writes
<1>2. CASE reads = <<"ret">> /\ writes = <<"ok">>
  <2>1. outcome.ret = 0 /\ "engineId" \notin ToSet(reads)
    BY <1>2 DEF writes, ToSet
  <2> QED BY <2>1 DEF reads
<1>3. CASE reads = <<"ret">> /\ writes = <<"ret">>
  <2>1. IpcReplyOf(writes, outcome) = <<<<"word", outcome.ret>>>>
    BY <1>3 DEF IpcReplyOf, IpcReplyType, IpcCell
  <2>2. back = IpcReadReply(reads, <<<<"word", outcome.ret>>>>)
    BY <2>1 DEF reads, writes
  <2>4. back.ret = IpcRead("word", <<<<"word", outcome.ret>>>>, 1)
    <3>1. Len(reads) = 1 /\ (\E i \in 1..Len(reads) : reads[i] = "ret")
          /\ (CHOOSE i \in 1..Len(reads) : reads[i] = "ret") = 1
      BY <1>3
    <3>2. IpcCell(IpcReplyType("ret")) = "word"
      BY DEF IpcReplyType, IpcCell
    <3> QED BY <2>2, <3>1, <3>2 DEF IpcReadReply
  <2>6. back.ret = outcome.ret
    BY <2>4 DEF IpcRead
  <2>5. "engineId" \notin ToSet(reads)
    BY <1>3 DEF ToSet
  <2> QED BY <2>5, <2>6 DEF reads
<1>4. CASE reads = <<"engineId", "ret">> /\ writes = reads
  <2>1. IpcReplyOf(writes, outcome) = <<<<"word", outcome.engineId>>, <<"word", outcome.ret>>>>
    BY <1>4 DEF IpcReplyOf, IpcReplyType, IpcCell
  <2>2. back = IpcReadReply(reads, <<<<"word", outcome.engineId>>, <<"word", outcome.ret>>>>)
    BY <2>1 DEF reads, writes
  <2> DEFINE p == <<<<"word", outcome.engineId>>, <<"word", outcome.ret>>>>
  <2>3. back = IpcReadReply(reads, p)
    BY <2>2
  <2>4. back.ret = IpcRead("word", p, 2) /\ back.engineId = IpcRead("word", p, 1)
    <3>1. /\ \E i \in 1..Len(reads) : reads[i] = "ret"
          /\ \E i \in 1..Len(reads) : reads[i] = "engineId"
          /\ (CHOOSE i \in 1..Len(reads) : reads[i] = "ret") = 2
          /\ (CHOOSE i \in 1..Len(reads) : reads[i] = "engineId") = 1
      BY <1>4
    <3>2. IpcCell(IpcReplyType("ret")) = "word" /\ IpcCell(IpcReplyType("engineId")) = "word"
      BY DEF IpcReplyType, IpcCell
    <3> HIDE DEF p
    <3> DEFINE at(name) == CHOOSE i \in 1..Len(reads) : reads[i] = name
    <3>3. /\ back.ret = IpcRead(IpcCell(IpcReplyType("ret")), p, at("ret"))
          /\ back.engineId = IpcRead(IpcCell(IpcReplyType("engineId")), p, at("engineId"))
      BY <2>3, <3>1 DEF IpcReadReply
    <3> QED BY <3>1, <3>2, <3>3, Zenon
  <2>5. back.ret = outcome.ret /\ back.engineId = outcome.engineId
    <3>1. Len(p) = 2 /\ p[1] = <<"word", outcome.engineId>> /\ p[2] = <<"word", outcome.ret>>
      BY DEF p
    <3> HIDE DEF p
    <3> QED BY <2>4, <3>1 DEF IpcRead
  <2> QED BY <2>5 DEF reads
<1> QED BY <1>1, <1>2, <1>3, <1>4

\* A parcel under way carries the arguments of its call, as its proxy wrote them.
Carried(method, args, wire) ==
    /\ method \in DOMAIN IpcMethods /\ args \in SentArgs(method)
    /\ wire = IpcEncode(IpcMethods[method].writes, args)

\* The one-way calls that can be under way.
SentCalls ==
    UNION {{[method |-> m, args |-> a, caller |-> c, wire |-> IpcEncode(IpcMethods[m].writes, a)] :
                a \in SentArgs(m), c \in IpcCallers} : m \in DOMAIN IpcMethods}

\* What the handler of a call writes to the reply.
HandlerWrites(method) == IpcHandlers[IpcMethods[method].code].writes

\* The reply under way is what the service returned to this call.
Replied ==
    /\ ipcCall.method \in DOMAIN IpcMethods
    /\ ipcService \in IpcServiceResults
    /\ "ok" \in ToSet(HandlerWrites(ipcCall.method)) => ipcService.ret = 0
    /\ ipcReply = IpcReplyOf(HandlerWrites(ipcCall.method), ipcService)
    /\ ipcGot # << >>

\* What lies on the wire belongs to the call that is under way.
IpcInv ==
    /\ ipcPc = "sent" => Carried(ipcCall.method, ipcCall.args, ipcWire)
    /\ ipcPc \in {"idle", "sent"} => ipcGot = << >>
    /\ ipcPc = "served" => Replied
    /\ ipcOneway \in Seq(SentCalls)
    /\ IpcRoundTrip

\* A call that fails claims nothing.
LEMMA RefusedKeepsRoundTrip ==
  ASSUME \A i \in DOMAIN ipcGot' : ipcGot'[i] = ipcCall'.args,
         \A i \in DOMAIN ipcHeard' : ipcHeard'[i].got = ipcHeard'[i].args,
         ipcBack' = IpcFailed
  PROVE  IpcRoundTrip'
PROOF
<1>1. IpcFailed.ret # 0
  BY ONLY DEF IpcFailed
<1> QED BY <1>1, Zenon DEF IpcRoundTrip

\* The first state has no call.
LEMMA IpcStart == IpcInit => IpcInv
PROOF
<1> SUFFICES ASSUME IpcInit PROVE IpcInv
  OBVIOUS
<1>1. ipcPc = "idle" /\ ipcGot = << >> /\ ipcHeard = << >> /\ ipcOneway = << >>
  BY DEF IpcInit
<1>2. ipcOneway \in Seq(SentCalls)
  BY <1>1, EmptySeq
<1>3. IpcRoundTrip
  BY <1>1 DEF IpcRoundTrip
<1> QED BY <1>1, <1>2, <1>3 DEF IpcInv

\* Every step of a call keeps the invariant.
LEMMA IpcStep == IpcInv /\ [IpcNext]_ipcVars => IpcInv'
PROOF
<1> SUFFICES ASSUME IpcInv, [IpcNext]_ipcVars PROVE IpcInv'
  OBVIOUS
<1> USE DEF IpcInv
<1>1. ASSUME NEW method \in DOMAIN IpcMethods, NEW args \in IpcArgs(method), NEW caller \in IpcCallers,
             IpcInvokeFails(method, args, caller)
      PROVE  IpcInv'
  <2>1. ipcGot' = << >> /\ ipcPc' = "back" /\ ipcBack' = IpcFailed /\ ipcHeard' = ipcHeard /\ ipcOneway' = ipcOneway
    BY <1>1 DEF IpcInvokeFails
  <2>2. IpcRoundTrip'
    BY <2>1, RefusedKeepsRoundTrip DEF IpcRoundTrip
  <2> QED BY <2>1, <2>2
<1>2. ASSUME NEW method \in DOMAIN IpcMethods, NEW args \in IpcArgs(method), NEW caller \in IpcCallers,
             IpcInvokeSync(method, args, caller)
      PROVE  IpcInv'
  <2>1. ipcGot' = << >> /\ ipcPc' = "sent" /\ ipcHeard' = ipcHeard /\ ipcOneway' = ipcOneway
    BY <1>2 DEF IpcInvokeSync
  <2>2. Carried(ipcCall'.method, ipcCall'.args, ipcWire')
    BY <1>2 DEF IpcInvokeSync, Carried, SentArgs
  <2>3. IpcRoundTrip'
    BY <2>1 DEF IpcRoundTrip
  <2> QED BY <2>1, <2>2, <2>3
<1>3. ASSUME NEW method \in DOMAIN IpcMethods, NEW args \in IpcArgs(method), NEW caller \in IpcCallers,
             IpcInvokeOneway(method, args, caller)
      PROVE  IpcInv'
  <2>1. ipcGot' = << >> /\ ipcPc' = "back" /\ ipcHeard' = ipcHeard /\ IpcMethods[ipcCall'.method].oneway
    BY <1>3 DEF IpcInvokeOneway
  <2> DEFINE call == [method |-> method, args |-> args, caller |-> caller,
                      wire |-> IpcEncode(IpcMethods[method].writes, args)]
  <2>2. args \in SentArgs(method)
    BY <1>3 DEF IpcInvokeOneway, SentArgs
  <2>3. call \in SentCalls
    BY <2>2 DEF SentCalls
  <2>4. ipcOneway' = Append(ipcOneway, call)
    BY <1>3 DEF IpcInvokeOneway
  <2> HIDE DEF call
  <2>5. ipcOneway' \in Seq(SentCalls)
    BY <2>3, <2>4, AppendProperties
  <2>6. IpcRoundTrip'
    BY <2>1 DEF IpcRoundTrip
  <2> QED BY <2>1, <2>5, <2>6
<1>4. CASE IpcServe
  <2> DEFINE handler == IpcHandlers[IpcMethods[ipcCall.method].code]
             got == IpcDecode(handler.reads, ipcWire)
  <2>1. got = ipcCall.args /\ ipcCall.method \in DOMAIN IpcMethods
    BY <1>4, HandlerReadsArguments DEF IpcServe, Carried
  <2>2. ipcCall' = ipcCall /\ ipcOneway' = ipcOneway /\ ipcHeard' = ipcHeard /\ ipcPc = "sent" /\ ipcGot = << >>
    BY <1>4 DEF IpcServe
  <2>3. CASE ipcPc' = "back" /\ ipcBack' = IpcFailed /\ ipcGot' = ipcGot
    <3>1. IpcRoundTrip'
      BY <2>2, <2>3, RefusedKeepsRoundTrip DEF IpcRoundTrip
    <3> QED BY <2>2, <2>3, <3>1
  <2>4. CASE /\ ipcPc' = "served" /\ ipcGot' = <<got>>
             /\ \E outcome \in IpcServiceResults :
                   /\ "ok" \in ToSet(handler.writes) => outcome.ret = 0
                   /\ ipcService' = outcome
                   /\ ipcReply' = IpcReplyOf(handler.writes, outcome)
    <3>1. Replied'
      BY <2>1, <2>2, <2>4 DEF Replied, HandlerWrites
    <3> HIDE DEF got
    <3>2. IpcRoundTrip'
      BY <2>1, <2>2, <2>4 DEF IpcRoundTrip
    <3> QED BY <2>2, <2>4, <3>1, <3>2
  <2> QED BY <1>4, <2>3, <2>4 DEF IpcServe
<1>5. CASE IpcServeOneway
  <2> DEFINE call == Head(ipcOneway)
             got == IpcDecode(IpcHandlers[IpcMethods[call.method].code].reads, call.wire)
  <2>1. call \in SentCalls /\ ipcOneway' \in Seq(SentCalls)
    BY <1>5, HeadTailProperties DEF IpcServeOneway
  <2>2. Carried(call.method, call.args, call.wire)
    <3> HIDE DEF call
    <3> QED BY <2>1 DEF SentCalls, Carried
  <2>3. got = call.args
    <3> HIDE DEF call
    <3> QED BY <2>2, HandlerReadsArguments DEF Carried
  <2>4. /\ \/ ipcHeard' = <<[method |-> call.method, args |-> call.args, got |-> got]>>
           \/ ipcHeard' = ipcHeard
        /\ UNCHANGED <<ipcPc, ipcCall, ipcWire, ipcGot, ipcService, ipcReply, ipcBack>>
    BY <1>5, Zenon DEF IpcServeOneway
  <2> HIDE DEF call, got
  <2>5. \A i \in DOMAIN ipcHeard' : ipcHeard'[i].got = ipcHeard'[i].args
    BY <2>3, <2>4 DEF IpcRoundTrip
  <2>6. IpcRoundTrip'
    BY <2>4, <2>5 DEF IpcRoundTrip
  <2> QED BY <2>1, <2>4, <2>6 DEF Carried, Replied
<1>6. CASE IpcReturn
  <2>1. /\ Replied /\ ipcPc' = "back"
        /\ ipcBack' = IpcReadReply(IpcMethods[ipcCall.method].reads, ipcReply)
        /\ UNCHANGED <<ipcCall, ipcWire, ipcGot, ipcService, ipcReply, ipcOneway, ipcHeard>>
    BY <1>6 DEF IpcReturn
  <2>2. ASSUME "ret" \in ToSet(IpcMethods[ipcCall.method].reads), ipcBack'.ret = 0
        PROVE  /\ ipcService.ret = 0
               /\ "engineId" \in ToSet(IpcMethods[ipcCall.method].reads) => ipcBack'.engineId = ipcService.engineId
    BY <2>1, <2>2, ReplyArrives DEF Replied, HandlerWrites
  <2>3. IpcRoundTrip'
    BY <2>1, <2>2 DEF IpcRoundTrip, Replied
  <2> QED BY <2>1, <2>3
<1>7. CASE IpcPeerDies
  <2>1. /\ ipcOneway' = << >> /\ UNCHANGED <<ipcCall, ipcGot, ipcService, ipcReply, ipcHeard>>
        /\ \/ ipcPc' = "back" /\ ipcBack' = IpcFailed
           \/ ipcPc \notin {"sent", "served"} /\ ipcPc' = ipcPc /\ ipcBack' = ipcBack
    BY <1>7 DEF IpcPeerDies
  <2>2. ipcOneway' \in Seq(SentCalls)
    BY <2>1, EmptySeq
  <2>3. IpcRoundTrip'
    <3>1. CASE ipcBack' = IpcFailed
      BY <2>1, <3>1, RefusedKeepsRoundTrip DEF IpcRoundTrip
    <3>2. CASE ipcPc' = ipcPc /\ ipcBack' = ipcBack
      BY <2>1, <3>2 DEF IpcRoundTrip
    <3> QED BY <2>1, <3>1, <3>2
  <2> QED BY <2>1, <2>2, <2>3
<1>8. CASE IpcNextCall
  <2>1. ipcPc' = "idle" /\ ipcGot' = << >> /\ ipcHeard' = << >> /\ ipcOneway' = ipcOneway
    BY <1>8 DEF IpcNextCall
  <2>2. IpcRoundTrip'
    BY <2>1 DEF IpcRoundTrip
  <2> QED BY <2>1, <2>2
<1>9. CASE UNCHANGED ipcVars
  BY <1>9 DEF ipcVars, IpcRoundTrip, Carried, Replied
<1> QED BY <1>1, <1>2, <1>3, <1>4, <1>5, <1>6, <1>7, <1>8, <1>9, Zenon DEF IpcNext

(* Every service function and every callback runs with the arguments that   *)
(* its caller passed to the proxy, and no refusal, lost reply or death of   *)
(* the service is taken for success: for any descriptors, any limit of a    *)
(* list and any number of one-way calls under way.                          *)
THEOREM RoundTrips == IpcInit /\ [][IpcNext]_ipcVars => []IpcRoundTrip
PROOF
<1>1. IpcInv => IpcRoundTrip
  BY DEF IpcInv
<1> QED BY <1>1, IpcStart, IpcStep, PTL
=============================================================================

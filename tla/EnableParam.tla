---------------------------- MODULE EnableParam -----------------------------
(***************************************************************************)
(* How ComponentManager::Enable finds the parameters of a peer's hardware: *)
(* GetEnableParam reads five stores one after the other, each under a lock *)
(* of its own, while notifications and the offline task change them; the   *)
(* fields of one EnableParam survive a failed attempt.  Built with         *)
(* DHARDWARE_CHECK_RESOURCE.                                               *)
(***************************************************************************)
EXTENDS Integers

CONSTANTS
  EpRetries,       \* ENABLE_RETRY_MAX_TIMES
  EpGens           \* bound: generations of the peer's data (upgrades)

Stores == {"cap", "local", "meta", "db", "cache"}
Blank == -1        \* a record whose version is the empty string
EpSubtypes == {"open", "sensitive"}

VARIABLES
  epSubtype, epSameAccount, epActive,  \* of the hardware, the peer and the call
  epOwnVersion,    \* the local source version can be found
  epStore,         \* per store the generation of the peer's record, 0 for none
  epGen,           \* generation of the peer's data
  epOnline,
  epPc, epTries,       \* the call of Enable
  epFound,           \* generation of the capability or meta record it works on
  epParam,           \* the EnableParam: 0 and "unset" stand for an unset field
  epResult

epCallVars == <<epPc, epTries, epFound, epParam, epResult>>
epFixed == <<epSubtype, epSameAccount, epActive, epOwnVersion>>
epVars == <<epFixed, epStore, epGen, epOnline, epCallVars>>

NoField == 0
NoParam == [sourceVersion |-> FALSE, sinkAttrs |-> NoField, sinkVersion |-> NoField, subtype |-> "unset"]

EpInit ==
  /\ epSubtype \in EpSubtypes /\ epSameAccount \in BOOLEAN /\ epActive \in BOOLEAN
  /\ epOwnVersion \in BOOLEAN
  /\ epStore = [s \in Stores |-> 0] /\ epGen = 1 /\ epOnline = TRUE
  /\ epPc = "idle" /\ epTries = 0 /\ epFound = 0 /\ epParam = NoParam /\ epResult = "none"

-----------------------------------------------------------------------------
\* The stores.

\* A notification of the capability, local or meta store.
RecordArrives(s) ==
  /\ epOnline /\ s \in {"cap", "local", "meta"} /\ epStore[s] # epGen
  /\ epStore' = [epStore EXCEPT ![s] = epGen]
  /\ UNCHANGED <<epFixed, epGen, epOnline, epCallVars>>

\* HandleVersionAddChange and HandleVersionUpdateChange also fill the cache.
VersionArrives ==
  /\ epOnline
  /\ \E v \in {epGen, Blank} :
       /\ epStore["db"] # v
       /\ epStore' = [epStore EXCEPT !["db"] = v, !["cache"] = v]
  /\ UNCHANGED <<epFixed, epGen, epOnline, epCallVars>>

\* The peer is upgraded; what the stores hold is old from then on.
PeerUpgraded ==
  /\ epGen < EpGens /\ epGen' = epGen + 1
  /\ UNCHANGED <<epFixed, epStore, epOnline, epCallVars>>

\* The offline task: ClearOffLineInfo.
PeerOffline ==
  /\ epOnline /\ epOnline' = FALSE
  /\ epStore' = [epStore EXCEPT !["cap"] = 0]
  /\ UNCHANGED <<epFixed, epGen, epCallVars>>

-----------------------------------------------------------------------------
\* The call.

Goes(to) == epPc' = to /\ UNCHANGED <<epTries, epResult>>

EnableBegins ==
  /\ epPc = "idle" /\ epResult = "none"
  /\ Goes("cap")
  /\ UNCHANGED <<epFixed, epStore, epGen, epOnline, epFound, epParam>>

\* GetCapParam: the capability store, then the local one.
GetCapParam ==
  LET gen == IF epStore["cap"] # 0 THEN epStore["cap"] ELSE epStore["local"] IN
  /\ epPc = "cap"
  /\ epFound' = gen
  /\ Goes(IF gen # 0 THEN "capSource" ELSE "meta")
  /\ UNCHANGED <<epFixed, epStore, epGen, epOnline, epParam>>

\* GetEnableCapParam up to the sink's attributes.
SourceOfCap ==
  /\ epPc = "capSource"
  /\ IF epOwnVersion
     THEN /\ epParam' = [epParam EXCEPT !.sourceVersion = TRUE, !.sinkAttrs = epFound]
          /\ Goes("version")
     ELSE Goes("meta") /\ UNCHANGED epParam
  /\ UNCHANGED <<epFixed, epStore, epGen, epOnline, epFound>>

\* GetVersionFromVerMgr: a cached version that is not empty.
VersionOfCache == epStore["cache"] > 0

\* GetVersion of the sink: the cache, then the database, whose record is cached
\* and accepted even when the version in it is empty; else the meta record.
GetVersion ==
  /\ epPc = "version"
  /\ \/ /\ VersionOfCache
        /\ epParam' = [epParam EXCEPT !.sinkVersion = epStore["cache"], !.subtype = epSubtype]
        /\ Goes("check") /\ UNCHANGED epStore
     \/ /\ ~VersionOfCache /\ epStore["db"] # 0
        /\ epStore' = [epStore EXCEPT !["cache"] = epStore["db"]]
        /\ epParam' = [epParam EXCEPT !.sinkVersion = epStore["db"], !.subtype = epSubtype]
        /\ Goes("check")
     \/ /\ ~VersionOfCache /\ epStore["db"] = 0
        /\ Goes("metaVersion") /\ UNCHANGED <<epStore, epParam>>
  /\ UNCHANGED <<epFixed, epGen, epOnline, epFound>>

MetaVersion ==
  /\ epPc = "metaVersion"
  /\ IF epStore["meta"] # 0
     THEN /\ epParam' = [epParam EXCEPT !.sinkVersion = epStore["meta"], !.subtype = epSubtype]
          /\ Goes("check")
     ELSE Goes("meta") /\ UNCHANGED epParam
  /\ UNCHANGED <<epFixed, epStore, epGen, epOnline, epFound>>

\* GetMetaParam.
GetMetaParam ==
  /\ epPc = "meta"
  /\ epFound' = epStore["meta"]
  /\ Goes(IF epStore["meta"] # 0 THEN "metaSource" ELSE "failed")
  /\ UNCHANGED <<epFixed, epStore, epGen, epOnline, epParam>>

\* GetEnableMetaParam.
GetEnableMetaParam ==
  /\ epPc = "metaSource"
  /\ IF epOwnVersion
     THEN /\ epParam' = [sourceVersion |-> TRUE, sinkAttrs |-> epFound, sinkVersion |-> epFound,
                       subtype |-> epSubtype]
          /\ Goes("check")
     ELSE Goes("failed") /\ UNCHANGED epParam
  /\ UNCHANGED <<epFixed, epStore, epGen, epOnline, epFound>>

\* RetryGetEnableParam: gives up on a device that is offline, and answers
\* success when the retries are used up.
RetryGetEnableParam ==
  /\ epPc = "failed"
  /\ \/ /\ epTries < EpRetries /\ ~epOnline
        /\ epPc' = "idle" /\ epResult' = "refused" /\ UNCHANGED epTries
     \/ /\ epTries < EpRetries /\ epOnline
        /\ epPc' = "cap" /\ epTries' = epTries + 1 /\ UNCHANGED epResult
     \/ epTries = EpRetries /\ Goes("check")
  /\ UNCHANGED <<epFixed, epStore, epGen, epOnline, epFound, epParam>>

\* IsIdenticalAccount, for a subtype the configuration marks as sensitive.
AccountFits(subtype) == subtype = "open" \/ epSameAccount

\* A plausible slip: a subtype the configuration does not know is let through.
CheckSubtypeKnownOnly == epParam.subtype = "unset" \/ AccountFits(epParam.subtype)

\* CheckSubtypeResource: the subtype must be one the configuration describes.
CheckSubtypeResource == epParam.subtype # "unset" /\ AccountFits(epParam.subtype)

\* Enable from CheckSubtypeResource on; an active enable does not check.
EnableChecks ==
  /\ epPc = "check"
  /\ epPc' = "idle" /\ UNCHANGED epTries
  /\ epResult' = IF epActive \/ CheckSubtypeResource THEN "enabled" ELSE "refused"
  /\ UNCHANGED <<epFixed, epStore, epGen, epOnline, epFound, epParam>>

EpStoreSteps == (\E s \in Stores : RecordArrives(s)) \/ VersionArrives \/ PeerUpgraded \/ PeerOffline
EpCallSteps ==
  EnableBegins \/ GetCapParam \/ SourceOfCap \/ GetVersion \/ MetaVersion \/ GetMetaParam
  \/ GetEnableMetaParam \/ RetryGetEnableParam \/ EnableChecks

EpNext == EpStoreSteps \/ EpCallSteps

EpSpec == EpInit /\ [][EpNext]_epVars

-----------------------------------------------------------------------------
(* The component is asked to enable a peer's hardware, other than for an    *)
(* active request, only with complete parameters and only when the account  *)
(* fits its subtype, although RetryGetEnableParam answers success after     *)
(* retries that all failed: param.subtype is the last field to be set and   *)
(* an unset subtype does not pass CheckSubtypeResource.                     *)
EpEnabledComplete ==
  (epResult = "enabled" /\ ~epActive) =>
    /\ epParam.sourceVersion /\ epParam.sinkAttrs # NoField /\ epParam.sinkVersion # NoField
    /\ AccountFits(epSubtype)
=============================================================================

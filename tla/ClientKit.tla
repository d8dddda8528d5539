------------------------------ MODULE ClientKit ------------------------------
(***************************************************************************)
(* The inner kit in a client process: DistributedHardwareFwkKit and        *)
(* DHFWKSAManager, with the part of the service they keep in step with     *)
(* (Publisher's listeners and the control center's callbacks).             *)
(*                                                                         *)
(* The service process may die and be started again.  DHFWKSAManager       *)
(* caches the proxy, forgets it on OnRemoveSystemAbility, and on           *)
(* OnAddSystemAbility registers every cached listener and callback again.  *)
(* SAMgr's notifications arrive late but in order.  A proxy of a service   *)
(* that died is stale: calls on it fail.  Each call of the kit runs on its *)
(* own thread, lock by lock and IPC by IPC.                                *)
(*                                                                         *)
(* Engine ids count up from BASE_ENGINE_ID in every run of the service,    *)
(* which refuses ids beyond rootEngineId_: those of an earlier run, until  *)
(* it has handed out as many.  Only which ids it admits is kept; a client  *)
(* uses ids of this run or of an earlier one.                              *)
(***************************************************************************)
EXTENDS Naturals, FiniteSets, Sequences

CONSTANTS
    KitThreads,       \* threads of the client that use the kit
    KitListeners,     \* (topic, publisher listener) pairs
    KitEngines,       \* engine ids with a control center callback
    KitBaseEngine,    \* BASE_ENGINE_ID
    KitMaxListeners,  \* MAX_LISTENER_SIZE
    KitRestarts,      \* bound on starts of the service
    KitCopies         \* bound on registrations of one listener at the service

ASSUME KitBounds ==
    /\ KitMaxListeners \in Nat /\ KitRestarts \in Nat /\ KitCopies \in Nat
    /\ KitListeners \cap KitEngines = {} /\ KitBaseEngine \in KitEngines
    /\ {"call", "none"} \cap (KitListeners \cup KitEngines) = {}

VARIABLES
    kitSa,          \* the service process: up or down
    kitStarts,      \* how often it was started
    kitAtService,   \* item -> how many registrations the service holds
    kitKnown,       \* engine ids up to the service's rootEngineId_
    kitRefused,     \* engine ids whose callback this run of the service refused last
    kitProxy,       \* dhfwkProxy_: null, live, stale
    kitCache,       \* publisherListenersCache_ and the keys of avTransControlCenterCbCache_
    kitEvents,      \* notifications of SAMgr still to come
    kitRestore,     \* the items RestoreListener still has to register, per phase
    kitOp,          \* thread -> the call it is in
    kitLoading,     \* the thread that holds dfwkLoadServiceMutex_
    kitRaced,       \* items with a call that overlapped a start, an end or a restore
    kitCrashed      \* a null proxy was dereferenced

svcVars == <<kitAtService, kitKnown, kitRefused>>
kitVars == <<kitSa, kitStarts, svcVars, kitProxy, kitCache, kitEvents, kitRestore, kitOp, kitLoading,
             kitRaced, kitCrashed>>

KitItems == KitListeners \cup KitEngines
KitNoThread == "none"
KitIdle == [kind |-> "idle", item |-> "none", pc |-> "idle", raced |-> FALSE]
KitNoRestore == [phase |-> "none", left |-> {}]

KitInit ==
    /\ kitSa \in {"up", "down"}
    /\ kitStarts = 0
    /\ kitAtService = [i \in KitItems |-> 0] /\ kitRefused = {}
    /\ kitKnown = IF kitSa = "up" THEN {KitBaseEngine} ELSE {}
    /\ kitProxy = "null"
    /\ kitCache = {}
    /\ kitEvents = IF kitSa = "up" THEN <<"add">> ELSE << >>   \* told on SubscribeSystemAbility
    /\ kitRestore = KitNoRestore
    /\ kitOp = [t \in KitThreads |-> KitIdle]
    /\ kitLoading = KitNoThread
    /\ kitRaced = {}
    /\ kitCrashed = FALSE

-----------------------------------------------------------------------------
\* GetDHFWKProxy: the cached proxy, or CheckSystemAbility when there is none
KitGetProxy == IF kitProxy = "null" /\ kitSa = "up" THEN "live" ELSE kitProxy

\* IsInvalidEngineId
SvcAdmits(i) == i \in KitListeners \cup kitKnown

\* Publisher::RegisterListener inserts a new proxy object for every call;
\* RegisterCtlCenterCallback keeps the callback it has
SvcAdd(i) ==
    /\ kitAtService' = [kitAtService EXCEPT ![i] = IF ~SvcAdmits(i) THEN @ ELSE IF i \in KitEngines THEN 1 ELSE @ + 1]
    /\ kitRefused' = IF SvcAdmits(i) THEN kitRefused \ {i} ELSE kitRefused \cup {i}
    /\ UNCHANGED kitKnown

\* PublisherItem::RemoveListener erases the first proxy of the same remote object
SvcRemove(i) ==
    /\ kitAtService' = [kitAtService EXCEPT ![i] = IF @ = 0 THEN 0 ELSE @ - 1]
    /\ UNCHANGED <<kitKnown, kitRefused>>

\* InitializeAVCenter hands out rootEngineId_ and raises it
SvcInitializeAVCenter ==
    /\ \E e \in KitEngines : kitKnown' = kitKnown \cup {e}
    /\ UNCHANGED <<kitAtService, kitRefused>>

KitOverlap(op) == [op EXCEPT !.raced = op.kind # "idle"]
KitAllOverlap == kitOp' = [t \in KitThreads |-> KitOverlap(kitOp[t])]

\* calls under way on the same item, or a restore, overlap the new call
KitRivals(i) == {t \in KitThreads : kitOp[t].item = i}

KitBegin(t, kind, i) ==
    /\ kitOp[t] = KitIdle
    /\ kitOp' = [u \in KitThreads |->
                   IF u = t THEN [kind |-> kind, item |-> i, pc |-> "get",
                                  raced |-> KitRivals(i) # {} \/ kitRestore # KitNoRestore]
                   ELSE IF u \in KitRivals(i) THEN KitOverlap(kitOp[u]) ELSE kitOp[u]]
    /\ UNCHANGED <<kitSa, kitStarts, svcVars, kitProxy, kitCache, kitEvents, kitRestore, kitLoading,
                   kitRaced, kitCrashed>>

KitGoto(t, pc) == kitOp' = [kitOp EXCEPT ![t].pc = pc]

\* the call returns: a call that nothing overlapped settles its item
KitEnd(t, ok) ==
    /\ kitOp' = [kitOp EXCEPT ![t] = KitIdle]
    /\ kitRaced' = IF kitOp[t].raced THEN kitRaced \cup {kitOp[t].item}
                   ELSE IF ok THEN kitRaced \ {kitOp[t].item} ELSE kitRaced

\* the first GetDHFWKProxy() of a call, tested for null
KitFirstGet(t, ifNull, ifProxy) ==
    /\ kitOp[t].pc = "get"
    /\ kitProxy' = KitGetProxy
    /\ IF KitGetProxy = "null"
       THEN IF ifNull = "return" THEN KitEnd(t, FALSE) ELSE KitGoto(t, ifNull) /\ UNCHANGED kitRaced
       ELSE KitGoto(t, ifProxy) /\ UNCHANGED kitRaced
    /\ UNCHANGED <<kitSa, kitStarts, svcVars, kitCache, kitEvents, kitRestore, kitLoading, kitCrashed>>

\* the second GetDHFWKProxy() is dereferenced without a test
KitDereferencesNull(t) ==
    /\ kitOp[t].pc = "call" /\ kitOp[t].kind \notin {"safe", "loads"}
    /\ KitGetProxy = "null"
    /\ kitCrashed' = TRUE
    /\ UNCHANGED <<kitSa, kitStarts, svcVars, kitProxy, kitCache, kitEvents, kitRestore, kitOp, kitLoading,
                   kitRaced>>

-----------------------------------------------------------------------------
(* RegisterPublisherListener, UnregisterPublisherListener.                 *)

KitRegister(t) ==
    /\ kitOp[t].kind = "register"
    /\ LET l == kitOp[t].item IN
       \/ KitFirstGet(t, "cache", "call")
       \/ /\ kitOp[t].pc = "call" /\ KitGetProxy # "null"
          /\ kitProxy' = KitGetProxy
          /\ IF KitGetProxy = "live"
             THEN SvcAdd(l) /\ KitGoto(t, "cache") /\ UNCHANGED kitRaced
             ELSE KitEnd(t, FALSE) /\ UNCHANGED svcVars
          /\ UNCHANGED <<kitSa, kitStarts, kitCache, kitEvents, kitRestore, kitLoading, kitCrashed>>
       \/ /\ kitOp[t].pc = "cache" /\ kitRestore.phase # "listeners"     \* publisherListenersMutex_
          /\ LET full == Cardinality(kitCache \cap KitListeners) >= KitMaxListeners IN
             /\ kitCache' = IF full THEN kitCache ELSE kitCache \cup {l}
             /\ KitEnd(t, ~full)
          /\ UNCHANGED <<kitSa, kitStarts, svcVars, kitProxy, kitEvents, kitRestore, kitLoading, kitCrashed>>

KitUnregister(t) ==
    /\ kitOp[t].kind = "unregister"
    /\ LET l == kitOp[t].item IN
       \/ KitFirstGet(t, "cache", "call")
       \/ /\ kitOp[t].pc = "call" /\ KitGetProxy # "null"
          /\ kitProxy' = KitGetProxy
          /\ IF KitGetProxy = "live" THEN SvcRemove(l) ELSE UNCHANGED svcVars
          /\ KitGoto(t, "cache")
          /\ UNCHANGED <<kitSa, kitStarts, kitCache, kitEvents, kitRestore, kitLoading, kitRaced, kitCrashed>>
       \/ /\ kitOp[t].pc = "cache" /\ kitRestore.phase # "listeners"
          /\ kitCache' = kitCache \ {l}
          /\ KitEnd(t, TRUE)
          /\ UNCHANGED <<kitSa, kitStarts, svcVars, kitProxy, kitEvents, kitRestore, kitLoading, kitCrashed>>

-----------------------------------------------------------------------------
(* RegisterCtlCenterCallback, ReleaseAVCenter: the cache first, then the   *)
(* service.                                                                *)

KitCallback(t, kind, caches) ==
    /\ kitOp[t].kind = kind
    /\ LET e == kitOp[t].item IN
       \/ KitFirstGet(t, "return", "cache")
       \/ /\ kitOp[t].pc = "cache" /\ kitRestore.phase # "engines"       \* avTransControlCenterCbMutex_
          /\ kitCache' = IF caches THEN kitCache \cup {e} ELSE kitCache \ {e}
          /\ KitGoto(t, "call")
          /\ UNCHANGED <<kitSa, kitStarts, svcVars, kitProxy, kitEvents, kitRestore, kitLoading, kitRaced,
                         kitCrashed>>
       \/ /\ kitOp[t].pc = "call" /\ KitGetProxy # "null"
          /\ kitProxy' = KitGetProxy
          /\ IF KitGetProxy = "live" THEN IF caches THEN SvcAdd(e) ELSE SvcRemove(e) ELSE UNCHANGED svcVars
          /\ KitEnd(t, KitGetProxy = "live" /\ SvcAdmits(e))
          /\ UNCHANGED <<kitSa, kitStarts, kitCache, kitEvents, kitRestore, kitLoading, kitCrashed>>

KitRegisterCtlCenterCallback(t) == KitCallback(t, "callback", TRUE)
KitReleaseAVCenter(t) == KitCallback(t, "release", FALSE)

-----------------------------------------------------------------------------
(* The other calls pass their arguments on.  "plain" ones test one proxy    *)
(* and dereference the next; "safe" ones keep the one they tested; "loads"  *)
(* ones have the service started when there is none.                        *)

KitForwarders == [plain |-> {"PublishMessage", "QueryLocalSysSpec", "InitializeAVCenter", "CreateControlChannel",
                             "NotifyAVCenter", "PauseDistributedHardware", "ResumeDistributedHardware",
                             "StopDistributedHardware", "RegisterDHStatusListener(sink)",
                             "UnregisterDHStatusListener", "EnableSink", "DisableSink", "EnableSource",
                             "DisableSource", "UnLoadDistributedHDF"},
                  safe |-> {"RegisterHardwareAccessListener", "UnregisterHardwareAccessListener",
                            "SetAuthorizationResult"},
                  loads |-> {"GetDistributedHardware", "RegisterDHStatusListener(source)", "LoadDistributedHDF"}]

KitForward(t) ==
    /\ kitOp[t].kind \in DOMAIN KitForwarders
    /\ \/ KitFirstGet(t, IF kitOp[t].kind = "loads" THEN "lock" ELSE "return", "call")
       \/ /\ kitOp[t].pc = "call" /\ (KitGetProxy # "null" \/ kitOp[t].kind \in {"safe", "loads"})
          /\ kitProxy' = KitGetProxy
          /\ UNCHANGED svcVars \/ (KitGetProxy = "live" /\ kitOp[t].kind = "plain" /\ SvcInitializeAVCenter)
          /\ KitEnd(t, KitGetProxy = "live")
          /\ UNCHANGED <<kitSa, kitStarts, kitCache, kitEvents, kitRestore, kitLoading, kitCrashed>>

\* LoadDistributedHardwareSA: under dfwkLoadServiceMutex_, until the load callback or WAIT_TIME_MILL
KitLoadSA(t) ==
    /\ UNCHANGED <<kitSa, kitStarts, svcVars, kitProxy, kitCache, kitEvents, kitRestore, kitCrashed>>
    /\ \/ /\ kitOp[t].pc = "lock" /\ kitLoading = KitNoThread
          /\ kitLoading' = t /\ KitGoto(t, "load") /\ UNCHANGED kitRaced
       \/ /\ kitOp[t].pc = "load" /\ kitLoading' = KitNoThread
          /\ \/ kitSa = "up" /\ KitGoto(t, "call") /\ UNCHANGED kitRaced
             \/ KitEnd(t, FALSE)           \* refused, OnLoadSystemAbilityFail, or the wait timed out

-----------------------------------------------------------------------------
(* The service process and the notifications of SAMgr.                     *)

KitServiceStarts ==
    /\ kitSa = "down" /\ kitStarts < KitRestarts
    /\ kitSa' = "up" /\ kitStarts' = kitStarts + 1
    /\ kitKnown' = {KitBaseEngine}
    /\ kitEvents' = Append(kitEvents, "add")
    /\ KitAllOverlap
    /\ UNCHANGED <<kitAtService, kitRefused, kitProxy, kitCache, kitRestore, kitLoading, kitRaced, kitCrashed>>

KitServiceDies ==
    /\ kitSa = "up"
    /\ kitSa' = "down"
    /\ kitAtService' = [i \in KitItems |-> 0] /\ kitKnown' = {} /\ kitRefused' = {}
    /\ kitProxy' = IF kitProxy = "live" THEN "stale" ELSE kitProxy
    /\ kitEvents' = Append(kitEvents, "remove")
    /\ KitAllOverlap
    /\ UNCHANGED <<kitStarts, kitCache, kitRestore, kitLoading, kitRaced, kitCrashed>>

\* InitializeAVCenter of another client
KitOtherClient ==
    /\ kitSa = "up" /\ SvcInitializeAVCenter
    /\ UNCHANGED <<kitSa, kitStarts, kitProxy, kitCache, kitEvents, kitRestore, kitOp, kitLoading, kitRaced,
                   kitCrashed>>

\* Faulty variant for mutation testing: the proxy of the dead service is kept.
KitKeepsProxy ==
    /\ kitEvents # << >> /\ Head(kitEvents) = "remove" /\ kitRestore = KitNoRestore
    /\ kitEvents' = Tail(kitEvents)
    /\ UNCHANGED <<kitSa, kitStarts, svcVars, kitProxy, kitCache, kitRestore, kitOp, kitLoading, kitRaced, kitCrashed>>

KitOnRemoveSystemAbility ==
    /\ kitEvents # << >> /\ Head(kitEvents) = "remove" /\ kitRestore = KitNoRestore
    /\ kitEvents' = Tail(kitEvents)
    /\ kitProxy' = "null"
    /\ UNCHANGED <<kitSa, kitStarts, svcVars, kitCache, kitRestore, kitOp, kitLoading, kitRaced, kitCrashed>>

\* RestoreListener gives up when there is no service
KitOnAddSystemAbility ==
    /\ kitEvents # << >> /\ Head(kitEvents) = "add" /\ kitRestore = KitNoRestore
    /\ kitEvents' = Tail(kitEvents)
    /\ kitProxy' = KitGetProxy
    /\ kitRestore' = IF KitGetProxy = "null" THEN KitNoRestore
                     ELSE [phase |-> "listeners", left |-> kitCache \cap KitListeners]
    /\ KitAllOverlap
    /\ UNCHANGED <<kitSa, kitStarts, svcVars, kitCache, kitLoading, kitRaced, kitCrashed>>

\* one RegisterPublisherListener or RegisterCtlCenterCallback of RestoreListener;
\* a callback that is refused is logged and stays in the cache
KitRestoreOne ==
    /\ \E i \in kitRestore.left :
          /\ kitProxy' = KitGetProxy
          /\ IF KitGetProxy = "live" THEN SvcAdd(i) ELSE UNCHANGED svcVars
          /\ kitRestore' = [kitRestore EXCEPT !.left = @ \ {i}]
    /\ KitAllOverlap
    /\ UNCHANGED <<kitSa, kitStarts, kitCache, kitEvents, kitLoading, kitRaced, kitCrashed>>

KitRestorePhase ==
    /\ kitRestore # KitNoRestore /\ kitRestore.left = {}
    /\ kitRestore' = IF kitRestore.phase = "listeners"
                     THEN [phase |-> "engines", left |-> kitCache \cap KitEngines] ELSE KitNoRestore
    /\ UNCHANGED <<kitSa, kitStarts, svcVars, kitProxy, kitCache, kitEvents, kitOp, kitLoading, kitRaced,
                   kitCrashed>>

-----------------------------------------------------------------------------
KitNext ==
    /\ ~kitCrashed
    /\ \/ \E t \in KitThreads :
            \/ \E l \in KitListeners : kitAtService[l] < KitCopies /\ KitBegin(t, "register", l)
            \/ \E l \in KitListeners : KitBegin(t, "unregister", l)
            \/ \E e \in KitEngines, kind \in {"callback", "release"} : KitBegin(t, kind, e)
            \/ \E kind \in DOMAIN KitForwarders : KitBegin(t, kind, "call")
            \/ KitRegister(t) \/ KitUnregister(t)
            \/ KitRegisterCtlCenterCallback(t) \/ KitReleaseAVCenter(t)
            \/ KitForward(t) \/ KitLoadSA(t) \/ KitDereferencesNull(t)
       \/ KitServiceStarts \/ KitServiceDies \/ KitOtherClient
       \/ KitOnRemoveSystemAbility \/ KitOnAddSystemAbility
       \/ KitRestoreOne \/ KitRestorePhase

KitSpec == KitInit /\ [][KitNext]_kitVars

KitSettled ==
    /\ kitSa = "up" /\ kitEvents = << >> /\ kitRestore = KitNoRestore
    /\ \A t \in KitThreads : kitOp[t] = KitIdle

(* Listeners survive a restart of the service: once SAMgr's notifications  *)
(* are handled, every publisher listener in the kit's cache is registered  *)
(* at the service that runs now, whichever service it was registered at,   *)
(* also when it was registered while there was none; and so is every       *)
(* control center callback, but for those this service has refused since   *)
(* it started, because their engine id was given by an earlier run and is  *)
(* beyond what it had handed out.  Calls that overlap a start, an end or a *)
(* restore are excepted (see the hazards): RegisterPublisherListener fills *)
(* the cache only after the service call, and a restore in between misses  *)
(* the listener.                                                           *)
KitListenersSurviveRestart ==
    KitSettled => \A i \in kitCache \ kitRaced :
        kitAtService[i] > 0 \/ (i \in KitEngines /\ i \in kitRefused)
=============================================================================

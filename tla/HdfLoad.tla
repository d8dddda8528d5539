------------------------------ MODULE HdfLoad ------------------------------
(***************************************************************************)
(* HdfOperateManager, which loads and unloads the driver host of a         *)
(* hardware type for the client processes that ask for it and keeps the    *)
(* service alive while one of them holds a driver.                         *)
(*                                                                         *)
(* An IPC call runs on its own thread: LoadDistributedHDFInner and         *)
(* UnLoadDistributedHDFInner are cut where the code takes or releases      *)
(* hdfOperateMapMutex_ and the operator's hdfLoadRefMutex_.  A client's    *)
(* death is notified on yet another thread, so a client has two slots:     *)
(* its own call and its obituary.                                          *)
(***************************************************************************)
EXTENDS Integers, FiniteSets

CONSTANTS
  HdfTypes,        \* hardware types with a driver: audio, camera
  HdfClients,      \* client processes
  HdfMaxUses,      \* bound: uses counted, leaked ones included
  HdfMaxOps,       \* bound: operators ever created
  HdfMaxDeaths     \* bound: deaths of a driver host

ASSUME HdfClientsFinite == IsFiniteSet(HdfClients)

HdfSlots == HdfClients \X {"call", "obit"}

VARIABLES
  opMap,           \* hdfOperateMap_: type -> operator, 0 when absent
  opRef,           \* hdfLoadRef_ of every operator created
  rigid,           \* refCount of sourceHandlerDataMap_, 0 when absent
  inuse,           \* hdfInuseRefCount_
  exitTask,        \* an EXIT_DFWK task is queued
  exited,          \* the service has asked to be unloaded
  online,          \* a device is online
  client,          \* what the client process believes
  watched,         \* clients with a death recipient
  job,             \* the call running in a slot
  hostDeaths,      \* driver hosts that died
  doubled          \* a client died inside its own unload

opVars == <<opMap, opRef, rigid, hostDeaths>>
useVars == <<inuse, exitTask, exited, online>>
clientVars == <<client, watched, doubled>>
hdfVars == <<opVars, useVars, clientVars, job>>

NoJob == [pc |-> "none", type |-> "none", op |-> 0, end |-> "none"]

HdfInit ==
  /\ opMap = [t \in HdfTypes |-> 0] /\ opRef = <<>>
  /\ rigid = [t \in HdfTypes |-> 0] /\ hostDeaths = 0
  /\ inuse = 0 /\ exitTask = FALSE /\ exited = FALSE /\ online = FALSE
  /\ client = [c \in HdfClients |-> "idle"] /\ watched = {} /\ doubled = FALSE
  /\ job = [s \in HdfSlots |-> NoJob]

-----------------------------------------------------------------------------
\* Loading a driver.

At(s, pc) == job[s].pc = pc
Goto(s, pc) == job' = [job EXCEPT ![s].pc = pc]
Done(s) == job' = [job EXCEPT ![s] = NoJob]
ClientOf(s) == s[1]

\* LoadDistributedHDF of the kit, the proxy, the stub and the service.
LoadBegins(c, t) ==
  /\ inuse < HdfMaxUses
  /\ client[c] = "idle" /\ job[<<c, "call">>] = NoJob
  /\ client' = [client EXCEPT ![c] = "loading"]
  /\ job' = [job EXCEPT ![<<c, "call">>] = [NoJob EXCEPT !.pc = "lfind", !.type = t]]
  /\ UNCHANGED <<opVars, useVars, watched, doubled>>

LoadFails(s) ==
  /\ Done(s)
  /\ client' = [client EXCEPT ![ClientOf(s)] = IF @ = "dead" THEN @ ELSE "idle"]

\* The source library comes from the loader, or is opened by RigidGetSourcePtr.
RigidGetSourcePtr(t) ==
  rigid' = [rigid EXCEPT ![t] = @ + 1]

SourceFound(t) ==
  UNCHANGED rigid \/ RigidGetSourcePtr(t)

\* LoadDistributedHDF, first critical section: find or create the operator.
LoadFinds(s) ==
  LET t == job[s].type IN
  /\ At(s, "lfind")
  /\ \/ /\ opMap[t] # 0
        /\ job' = [job EXCEPT ![s].pc = "load", ![s].op = opMap[t]]
        /\ UNCHANGED <<rigid, opMap, opRef, client>>
     \/ /\ opMap[t] = 0 /\ Cardinality(DOMAIN opRef) < HdfMaxOps
        /\ SourceFound(t)
        /\ LET o == Cardinality(DOMAIN opRef) + 1 IN
             /\ opRef' = [i \in 1..o |-> IF i = o THEN 0 ELSE opRef[i]]
             /\ opMap' = [opMap EXCEPT ![t] = o]
             /\ job' = [job EXCEPT ![s].pc = "load", ![s].op = o]
        /\ UNCHANGED client
     \/ /\ opMap[t] = 0
        /\ LoadFails(s)
        /\ UNCHANGED <<rigid, opMap, opRef>>
  /\ UNCHANGED <<hostDeaths, useVars, watched, doubled>>

\* HdfOperator::LoadDistributedHDF: only the first load reaches the driver host.
OperatorLoads(s) ==
  LET o == job[s].op IN
  /\ At(s, "load")
  /\ \/ /\ opRef' = [opRef EXCEPT ![o] = @ + 1]
        /\ Goto(s, "count")
        /\ UNCHANGED client
     \/ /\ opRef[o] <= 0
        /\ LoadFails(s)
        /\ UNCHANGED opRef
  /\ UNCHANGED <<opMap, rigid, hostDeaths, useVars, watched, doubled>>

\* A plausible slip: count the drivers loaded, not their users.
CountedUseFirst(s) == IF opRef[job[s].op] > 1 THEN inuse ELSE inuse + 1

\* hdfInuseRefCount_ counts the loads that succeeded.
CountedUse(s) == inuse + 1

LoadCounts(s) ==
  /\ At(s, "count")
  /\ inuse' = CountedUse(s)
  /\ Goto(s, "watch")
  /\ UNCHANGED <<opVars, exitTask, exited, online, clientVars>>

\* The stub adds the death recipient; a failure undoes the load.
AddDeathRecipient(s) ==
  LET c == ClientOf(s) IN
  /\ At(s, "watch")
  /\ \/ /\ client[c] # "dead"
        /\ watched' = watched \cup {c}
        /\ client' = [client EXCEPT ![c] = "held"]
        /\ Goto(s, "held")
     \/ /\ job' = [job EXCEPT ![s].pc = "ufind", ![s].end = "fail"]
        /\ UNCHANGED <<watched, client>>
  /\ UNCHANGED <<opVars, useVars, doubled>>

-----------------------------------------------------------------------------
\* Unloading a driver.

\* UnLoadDistributedHDF of the kit, the proxy, the stub and the service.
UnloadBegins(c) ==
  /\ client[c] = "held"
  /\ client' = [client EXCEPT ![c] = "leaving"]
  /\ job' = [job EXCEPT ![<<c, "call">>].pc = "ufind", ![<<c, "call">>].end = "unwatch"]
  /\ UNCHANGED <<opVars, useVars, watched, doubled>>

\* Where the caller of UnLoadDistributedHDF goes on after a success.
UnloadReturns(s) ==
  IF job[s].end = "unwatch" THEN Goto(s, "unwatch") /\ UNCHANGED client
  ELSE IF job[s].end = "fail" THEN LoadFails(s)
  ELSE Done(s) /\ UNCHANGED client

\* After an error the client still holds the driver and may try again.
UnloadErrs(s) ==
  IF job[s].end = "unwatch" /\ client[ClientOf(s)] # "dead"
  THEN Goto(s, "held") /\ client' = [client EXCEPT ![ClientOf(s)] = "held"]
  ELSE LoadFails(s)

\* First critical section: an operator that is gone is a success.
UnloadFinds(s) ==
  LET t == job[s].type IN
  /\ At(s, "ufind")
  /\ IF opMap[t] = 0 THEN UnloadReturns(s)
     ELSE job' = [job EXCEPT ![s].pc = "unload", ![s].op = opMap[t]] /\ UNCHANGED client
  /\ UNCHANGED <<opVars, useVars, watched, doubled>>

\* HdfOperator::UnLoadDistributedHDF: only the last unload reaches the host.
OperatorUnloads(s) ==
  LET o == job[s].op IN
  /\ At(s, "unload")
  /\ \/ /\ opRef[o] <= 0
        /\ Goto(s, "erase") /\ UNCHANGED <<opRef, client>>
     \/ /\ opRef[o] > 0
        /\ opRef' = [opRef EXCEPT ![o] = @ - 1]
        /\ Goto(s, "erase") /\ UNCHANGED client
     \/ /\ opRef[o] = 1
        /\ UnloadErrs(s)
        /\ UNCHANGED opRef
  /\ UNCHANGED <<opMap, rigid, hostDeaths, useVars, watched, doubled>>

\* RigidReleaseSourcePtr: the last reference closes the library, which may fail.
RigidReleaseSourcePtr(t) ==
  \/ rigid[t] > 0 /\ rigid' = [rigid EXCEPT ![t] = @ - 1]
  \/ rigid[t] <= 1 /\ UNCHANGED rigid

\* Last critical section: forget an unused operator, count down, and ask for
\* the service's exit when no use is left.
UnloadErases(s) ==
  LET t == job[s].type IN
  /\ At(s, "erase")
  /\ opMap' = IF opRef[job[s].op] <= 0 THEN [opMap EXCEPT ![t] = 0] ELSE opMap
  /\ RigidReleaseSourcePtr(t)
  /\ inuse' = inuse - 1
  /\ exitTask' = (exitTask \/ inuse' <= 0)
  /\ UnloadReturns(s)
  /\ UNCHANGED <<opRef, hostDeaths, exited, online, watched, doubled>>

RemoveDeathRecipient(s) ==
  LET c == ClientOf(s) IN
  /\ At(s, "unwatch")
  /\ \/ watched' = watched \ {c}
     \/ client[c] = "dead" /\ UNCHANGED watched
  /\ LoadFails(s)
  /\ UNCHANGED <<opVars, useVars, doubled>>

-----------------------------------------------------------------------------
\* Deaths.

\* HdfLoadRefRecipient::OnRemoteDied unloads for the dead client, whether or
\* not its own unload is under way.
ClientDies(c) ==
  /\ client[c] # "dead" /\ job[<<c, "obit">>] = NoJob
  /\ client' = [client EXCEPT ![c] = "dead"]
  /\ doubled' = (doubled \/ (c \in watched /\ client[c] = "leaving"))
  /\ job' = IF c \in watched
              THEN [job EXCEPT
                     ![<<c, "obit">>] = [NoJob EXCEPT !.pc = "ufind",
                                                      !.type = job[<<c, "call">>].type],
                     ![<<c, "call">>] = IF @.pc = "held" THEN NoJob ELSE @]
              ELSE job
  /\ UNCHANGED <<opVars, useVars, watched>>

\* The last device goes offline, or a first one comes online; Release of the
\* manager ends in CheckExitSAOrNot.
DeviceChanges ==
  /\ online' = ~online
  /\ exitTask' = (exitTask \/ online)
  /\ UNCHANGED <<opVars, inuse, exited, clientVars, job>>

\* CheckExitSAOrNot: unload the service when nothing needs it, else start again.
CheckExitSA ==
  /\ exitTask
  /\ exitTask' = FALSE
  /\ exited' = (~online /\ inuse <= 0)
  /\ UNCHANGED <<opVars, inuse, online, clientVars, job>>

\* OnHdfHostDied: ResetRefCount forgets every load of the operator in the map.
OnHdfHostDied(t) ==
  /\ hostDeaths < HdfMaxDeaths /\ opMap[t] # 0 /\ opRef[opMap[t]] > 0
  /\ opRef' = [opRef EXCEPT ![opMap[t]] = 0]
  /\ hostDeaths' = hostDeaths + 1
  /\ UNCHANGED <<opMap, rigid, useVars, clientVars, job>>

CallSteps ==
  \/ \E c \in HdfClients, t \in HdfTypes : LoadBegins(c, t)
  \/ \E c \in HdfClients : UnloadBegins(c)
  \/ \E s \in HdfSlots :
       \/ LoadFinds(s) \/ OperatorLoads(s) \/ LoadCounts(s) \/ AddDeathRecipient(s)
       \/ UnloadFinds(s) \/ OperatorUnloads(s) \/ UnloadErases(s)
       \/ RemoveDeathRecipient(s)

DeathSteps ==
  \/ \E c \in HdfClients : ClientDies(c)
  \/ \E t \in HdfTypes : OnHdfHostDied(t)

HdfNext == ~exited /\ (DeviceChanges \/ CheckExitSA \/ CallSteps \/ DeathSteps)

HdfSpec == HdfInit /\ [][HdfNext]_hdfVars

-----------------------------------------------------------------------------
HdfHolders == {c \in HdfClients : client[c] = "held"}

(* HdfOperateManager counts at least one use for every client that holds a  *)
(* driver, so the service never unloads itself under a holder: not when     *)
(* loads and unloads interleave, when an unload erases the operator another *)
(* load has just fetched, nor after the driver host died and the operator's *)
(* own count was reset.  The one exception is a client that dies inside its *)
(* own unload, which is then unloaded twice.                                *)
HdfHeldKeepsService ==
  ~doubled => /\ Cardinality(HdfHolders) <= inuse
              /\ exited => HdfHolders = {}
=============================================================================

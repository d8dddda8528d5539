--------------------------- MODULE DeviceLifecycle --------------------------
(***************************************************************************)
(* A remote device comes online and goes offline: the callbacks of         *)
(* AccessManager, the events of DistributedHardwareManagerFactory, the     *)
(* task pipeline (TaskFactory, TaskExecutor, TaskBoard and the tasks) and  *)
(* the release of the framework when the last device has gone.             *)
(*                                                                         *)
(* Each device has one hardware, named by the device; Local stands for the *)
(* hardware of this device, which the sink side serves.  The META tasks    *)
(* are the ENABLE and DISABLE of one more hardware and are not told apart. *)
(* What an ENABLE or a DISABLE does in ComponentManager is SourceStatus's  *)
(* and SinkStatus's subject: here it succeeds or fails as one step.        *)
(***************************************************************************)
EXTENDS Integers, Sequences, FiniteSets

CONSTANTS
    Device,     \* the remote devices
    Local,      \* this device
    MaxQueue,   \* MAX_TASK_QUEUE_LENGTH: a push is refused above it
    MaxOnline,  \* MAX_ONLINE_DEVICE_SIZE
    MaxEvents   \* bound: changes of the network

ASSUME LifecycleConstants ==
    /\ IsFiniteSet(Device) /\ Local \notin Device
    /\ MaxQueue \in Nat /\ MaxOnline \in Nat /\ MaxEvents \in Nat

VARIABLES
    dm,         \* devices that DeviceManager has online
    isomerism,  \* GetIsomerismConnectCount() > 0
    notify,     \* callbacks of DeviceManager on their way, in order
    calls,      \* SendOnLineEvent calls past their checks
    resend,     \* SendOnLineEvent threads that CheckExitSAOrNot started
    entries,    \* devIdEntrySet_: what IsDeviceOnline looks at
    realTime,   \* realTimeOnLineNetworkIdSet_
    isInit, flagUnInit, released,  \* isInit_, flagUnInit_, releaseStatus_
    exited,     \* UnloadSystemAbility has been called
    queue,      \* taskQueue_ and the tasks posted to the event handler
    running,    \* ENABLE and DISABLE tasks that run
    offline,    \* OFF_LINE tasks that run
    made,       \* number of ON_LINE and OFF_LINE tasks so far
    enabled,    \* hardware that the framework has enabled
    events,     \* history: changes of the network so far
    flaws       \* history: what went wrong

device == <<dm, isomerism, notify, events>>
context == <<entries, realTime>>
factory == <<isInit, flagUnInit, released, exited>>
tasks == <<queue, running, offline, made>>
vars == <<device, calls, resend, context, factory, tasks, enabled, flaws>>

Hardware == Device \cup {Local}

\* A task that is queued or runs is [type, n, hw]: ENABLE, DISABLE, ON_LINE or
\* OFF_LINE, the number of its ON_LINE or OFF_LINE task, and the hardware (the
\* device, for the latter two).  A running OFF_LINE task is [n, dev, kids, pc]:
\* the children it waits for, and create, wait, clear, uninit, flags or check.
\*
\* flaws holds
\*   "dropped"   a push met a full queue
\*   "unnamed"   DeviceManager had no uuid or udid for a device it announced
\*   "oversize"  a list of devices was longer than MaxOnline
\*   "failed"    an ENABLE or a DISABLE failed
\*   "parallel"  an ENABLE and a DISABLE of one hardware ran together
\*   "early"     a device came back before an OFF_LINE task had forgotten it
\*   "ghost"     a device was recorded online after it was reported offline
\*   "late"      the framework was released while a device was online

Init ==
    /\ dm = {} /\ isomerism = FALSE /\ notify = <<>> /\ events = 0
    /\ calls = {} /\ resend = {} /\ entries = {} /\ realTime = {}
    /\ isInit = FALSE /\ flagUnInit = FALSE /\ released = FALSE /\ exited = FALSE
    /\ queue = <<>> /\ running = {} /\ offline = {} /\ made = 0
    /\ enabled = {} /\ flaws = {}

-----------------------------------------------------------------------------
(* The network.                                                            *)

DmOnline(d) ==
    /\ d \notin dm /\ events < MaxEvents
    /\ dm' = dm \cup {d}
    /\ notify' = Append(notify, [on |-> TRUE, dev |-> d])
    /\ events' = events + 1
    /\ UNCHANGED <<isomerism, calls, resend, context, factory, tasks, enabled, flaws>>

DmOffline(d) ==
    /\ d \in dm /\ events < MaxEvents
    /\ dm' = dm \ {d}
    /\ notify' = Append(notify, [on |-> FALSE, dev |-> d])
    /\ events' = events + 1
    /\ UNCHANGED <<isomerism, calls, resend, context, factory, tasks, enabled, flaws>>

\* AddIsomerismConnectDev and DelIsomerismConnectDev.
IsomerismChanges ==
    /\ events < MaxEvents
    /\ isomerism' = ~isomerism
    /\ events' = events + 1
    /\ UNCHANGED <<dm, notify, calls, resend, context, factory, tasks, enabled, flaws>>

-----------------------------------------------------------------------------
(* The task queue.                                                         *)

\* PushTask of each task of the sequence ts on queue q.  Tasks that the event
\* handler has already taken over do not count against the limit, so above it
\* a push may or may not be refused.  seen is a flaw of the caller.
Push(q, ts, seen) ==
    \/ queue' = q \o ts /\ flaws' = flaws \cup seen
    \/ \E k \in 0..(Len(ts) - 1) :
          /\ Len(q) + k > MaxQueue
          /\ queue' = q \o SubSeq(ts, 1, k)
          /\ flaws' = flaws \cup seen \cup {"dropped"}

\* The tasks of a kind that a father creates: for the device, then for Local.
Children(type, n, d) ==
    << [type |-> type, n |-> n, hw |-> d], [type |-> type, n |-> n, hw |-> Local] >>

NoDeviceLeft == realTime' = {} /\ ~isomerism

\* An OFF_LINE task of d has still to forget it; a callback about d is on its way.
Leaving(d) ==
    \/ \E o \in offline : o.dev = d /\ o.pc \in {"create", "wait"}
    \/ \E i \in 1..Len(queue) : queue[i].type = "OFF_LINE" /\ queue[i].hw = d
Reported(d) == \E i \in 1..Len(notify) : notify[i].dev = d

-----------------------------------------------------------------------------
(* AccessManager and DistributedHardwareManagerFactory.                    *)

\* The ids that DeviceManager gives and the checks of SendOnLineEvent: a device
\* whose uuid or udid is not valid is passed over.
CheckOnLine(by, d) ==
    \/ /\ calls' = IF flagUnInit \/ d \in entries THEN calls
                   ELSE calls \cup {[by |-> by, dev |-> d]}
       /\ flaws' = IF ~flagUnInit /\ d \in entries /\ Leaving(d)
                   THEN flaws \cup {"early"} ELSE flaws
    \/ calls' = calls /\ flaws' = flaws \cup {"unnamed"}

\* accessMutex_ is held until the call returns.
AccessFree == \A c \in calls : c.by # "dm"

OnDeviceOnline ==
    /\ ~exited /\ notify # <<>> /\ Head(notify).on /\ AccessFree
    /\ notify' = Tail(notify)
    /\ CheckOnLine("dm", Head(notify).dev)
    /\ UNCHANGED <<dm, isomerism, events, resend, context, factory, tasks, enabled>>

ResendOnLine(d) ==
    /\ ~exited /\ d \in resend
    /\ resend' = resend \ {d}
    /\ CheckOnLine("resend", d)
    /\ UNCHANGED <<device, context, factory, tasks, enabled>>

\* AddOnlineDevice, which a full set refuses without a word.
EntriesFull == Cardinality(entries) > MaxOnline

\* The rest of SendOnLineEvent: the device is recorded, the framework is
\* initialised if need be and the ON_LINE task is pushed.  Init() has no other
\* result than success: DistributedHardwareManager::Initialize ignores the
\* results of what it initialises.
SendOnLineEvent(c) ==
    /\ ~exited /\ c \in calls
    /\ calls' = calls \ {c}
    /\ entries' = IF EntriesFull THEN entries ELSE entries \cup {c.dev}
    /\ realTime' = realTime \cup {c.dev}
    /\ isInit' = TRUE
    /\ released' = IF isInit THEN released ELSE FALSE
    /\ made' = made + 1
    /\ Push(queue, << [type |-> "ON_LINE", n |-> made', hw |-> c.dev] >>,
            {f \in {"ghost", "early", "oversize"} :
                \/ f = "early" /\ Leaving(c.dev)
                \/ f = "ghost" /\ c.dev \notin dm /\ ~Reported(c.dev)
                \/ f = "oversize" /\ EntriesFull})
    /\ UNCHANGED <<device, resend, flagUnInit, exited, running, offline, enabled>>

\* OnDeviceOffline finds the uuid in the entries, or gives up.
OnDeviceOffline ==
    /\ ~exited /\ notify # <<>> /\ ~Head(notify).on /\ AccessFree
    /\ notify' = Tail(notify)
    /\ LET d == Head(notify).dev IN
       \/ /\ d \notin entries
          /\ UNCHANGED <<context, factory, tasks, flaws>>
       \/ /\ d \in entries
          /\ isInit' = TRUE
          /\ released' = IF isInit THEN released ELSE FALSE
          /\ realTime' = realTime \ {d}
          /\ flagUnInit' = (flagUnInit \/ NoDeviceLeft)
          /\ made' = made + 1
          /\ Push(queue, << [type |-> "OFF_LINE", n |-> made', hw |-> d] >>, {})
          /\ UNCHANGED <<entries, exited, running, offline>>
    /\ UNCHANGED <<dm, isomerism, events, calls, resend, enabled>>

-----------------------------------------------------------------------------
(* The event handler's thread takes the tasks one by one.  An ON_LINE task *)
(* runs on it; the others go on in threads of their own.                   *)

OnLineTask ==
    /\ ~exited /\ queue # <<>> /\ Head(queue).type = "ON_LINE"
    /\ Push(Tail(queue), Children("ENABLE", Head(queue).n, Head(queue).hw), {})
    /\ UNCHANGED <<device, calls, resend, context, factory, running, offline, made, enabled>>

\* Two tasks that the documentation says are never in parallel.
Opposite(t, u) == t.hw = u.hw /\ {t.type, u.type} = {"ENABLE", "DISABLE"}

StartTask ==
    LET t == Head(queue) IN
    /\ ~exited /\ queue # <<>> /\ t.type # "ON_LINE"
    /\ queue' = Tail(queue)
    /\ \/ /\ t.type = "OFF_LINE"
          /\ offline' = offline \cup
                {[n |-> t.n, dev |-> t.hw, kids |-> {}, pc |-> "create"]}
          /\ UNCHANGED <<running, flaws>>
       \/ /\ t.type # "OFF_LINE"
          /\ running' = running \cup {t}
          /\ flaws' = IF \E u \in running : Opposite(t, u)
                      THEN flaws \cup {"parallel"} ELSE flaws
          /\ UNCHANGED offline
    /\ UNCHANGED <<device, calls, resend, context, factory, made, enabled>>

EnableTask(t) ==
    /\ ~exited /\ t \in running /\ t.type = "ENABLE"
    /\ running' = running \ {t}
    /\ \/ enabled' = enabled \cup {t.hw} /\ UNCHANGED flaws
       \/ flaws' = flaws \cup {"failed"} /\ UNCHANGED enabled
    /\ UNCHANGED <<device, calls, resend, context, factory, queue, offline, made>>

\* Faulty variant for mutation testing: a sink's DISABLE does not notify.
NotifyFatherOfSource(t) ==
    offline' = {IF o.n = t.n /\ t.hw # Local THEN [o EXCEPT !.kids = @ \ {t.hw}] ELSE o
                : o \in offline}

\* NotifyFatherFinish, whatever the result was.
NotifyFatherFinish(t) ==
    offline' = {IF o.n = t.n THEN [o EXCEPT !.kids = @ \ {t.hw}] ELSE o : o \in offline}

\* The local hardware is left alone while a device is online.
DisableTask(t) ==
    /\ ~exited /\ t \in running /\ t.type = "DISABLE"
    /\ running' = running \ {t}
    /\ \/ /\ t.hw = Local /\ ~(realTime = {} /\ ~isomerism)
          /\ UNCHANGED <<enabled, flaws>>
       \/ /\ t.hw # Local \/ (realTime = {} /\ ~isomerism)
          /\ \/ enabled' = enabled \ {t.hw} /\ UNCHANGED flaws
             \/ flaws' = flaws \cup {"failed"} /\ UNCHANGED enabled
    /\ NotifyFatherFinish(t)
    /\ UNCHANGED <<device, calls, resend, context, factory, queue, made>>

-----------------------------------------------------------------------------
(* The OFF_LINE task.                                                      *)

Step(o, pc) == offline' = (offline \ {o}) \cup {[o EXCEPT !.pc = pc]}

\* RemoveTask from the TaskBoard: the task is over.
Finish(o) == offline' = offline \ {o}

\* CreateDisableTask and CreateDisableSinkTask.  A child whose push is refused
\* is waited for all the same.
CreateDisableTask(o) ==
    /\ o.pc = "create"
    /\ offline' = (offline \ {o}) \cup {[o EXCEPT !.pc = "wait", !.kids = {o.dev, Local}]}
    /\ Push(queue, Children("DISABLE", o.n, o.dev), {})
    /\ UNCHANGED <<context, factory, running, resend>>

\* Faulty variant for mutation testing: the children are not waited for.
WaitForNobody(o) ==
    /\ o.pc = "wait"
    /\ entries' = entries \ {o.dev}
    /\ Step(o, "clear")
    /\ UNCHANGED <<realTime, factory, queue, running, resend, flaws>>

\* WaitDisableTaskFinish has no timeout; then the entry is removed.
WaitDisableTaskFinish(o) ==
    /\ o.pc = "wait" /\ o.kids = {}
    /\ entries' = entries \ {o.dev}
    /\ Step(o, "clear")
    /\ UNCHANGED <<realTime, factory, queue, running, resend, flaws>>

\* ClearOffLineInfo; the framework is to be released when no device is left.
\* The poll of IsAllDisableTaskFinish before UnInit only delays it: after
\* RETRY_MAX_TIMES the result is taken for granted.
ClearOffLineInfo(o) ==
    /\ o.pc = "clear"
    /\ \/ realTime = {} /\ ~isomerism /\ Step(o, "uninit")
       \/ ~(realTime = {} /\ ~isomerism) /\ Finish(o)
    /\ UNCHANGED <<context, factory, queue, running, resend, flaws>>

ReleaseFree == \A o \in offline : o.pc \notin {"flags", "check"}

\* UnInit under releaseProcessMutex_: the components are released, then the
\* flags are cleared, then CheckExitSAOrNot exits or starts again.
UnInit(o) ==
    /\ o.pc = "uninit" /\ ReleaseFree
    /\ \/ released /\ Finish(o) /\ UNCHANGED <<released, flaws>>
       \/ /\ ~released
          /\ released' = TRUE
          /\ flaws' = IF realTime # {} THEN flaws \cup {"late"} ELSE flaws
          /\ Step(o, "flags")
    /\ UNCHANGED <<context, isInit, flagUnInit, exited, queue, running, resend>>

ClearFlags(o) ==
    /\ o.pc = "flags"
    /\ isInit' = FALSE /\ flagUnInit' = FALSE
    /\ Step(o, "check")
    /\ UNCHANGED <<context, released, exited, queue, running, resend, flaws>>

\* Faulty variant for mutation testing: the devices that came online during
\* the release are not announced again.
CheckExitNoResend(o) ==
    /\ o.pc = "check"
    /\ Finish(o)
    /\ \/ /\ dm = {} /\ ~isomerism
          /\ exited' = TRUE
          /\ UNCHANGED <<isInit, released, resend>>
       \/ /\ isInit' = TRUE /\ released' = FALSE
          /\ UNCHANGED <<exited, resend>>
    /\ UNCHANGED <<context, flagUnInit, queue, running, flaws>>

\* A driver of the HDF that is in use keeps the framework from exiting.  A list
\* of devices over size is left alone, after Init.
CheckExitSAOrNot(o) ==
    /\ o.pc = "check"
    /\ Finish(o)
    /\ \/ /\ dm = {} /\ ~isomerism
          /\ exited' = TRUE
          /\ UNCHANGED <<isInit, released, resend, flaws>>
       \/ /\ isInit' = TRUE /\ released' = FALSE /\ UNCHANGED exited
          /\ \/ Cardinality(dm) <= MaxOnline /\ resend' = resend \cup dm /\ UNCHANGED flaws
             \/ /\ Cardinality(dm) > MaxOnline /\ UNCHANGED resend
                /\ flaws' = flaws \cup {"oversize"}
    /\ UNCHANGED <<context, flagUnInit, queue, running>>

OffLineStep(o) ==
    /\ ~exited /\ o \in offline
    /\ \/ CreateDisableTask(o)
       \/ WaitDisableTaskFinish(o)
       \/ ClearOffLineInfo(o)
       \/ UnInit(o)
       \/ ClearFlags(o)
       \/ CheckExitSAOrNot(o)
    /\ UNCHANGED <<device, calls, made, enabled>>

-----------------------------------------------------------------------------
Network == IsomerismChanges \/ \E d \in Device : DmOnline(d) \/ DmOffline(d)

Callbacks ==
    \/ OnDeviceOnline
    \/ OnDeviceOffline
    \/ \E d \in resend : ResendOnLine(d)
    \/ \E c \in calls : SendOnLineEvent(c)

Next ==
    \/ Network
    \/ Callbacks
    \/ OnLineTask
    \/ StartTask
    \/ \E t \in running : EnableTask(t) \/ DisableTask(t)
    \/ \E o \in offline : OffLineStep(o)

\* Every thread of the framework goes on while it can; the network need not
\* change.
Spec ==
    /\ Init /\ [][Next]_vars
    /\ WF_vars(Callbacks)
    /\ WF_vars(OnLineTask \/ StartTask)
    /\ WF_vars(\E t \in running : EnableTask(t) \/ DisableTask(t))
    /\ WF_vars(\E o \in offline : OffLineStep(o))

-----------------------------------------------------------------------------
(* Properties.                                                             *)

\* No task, call or callback is under way.
Settled ==
    /\ notify = <<>> /\ calls = {} /\ resend = {}
    /\ queue = <<>> /\ running = {} /\ offline = {}

\* A device is forgotten, and its data cleared, only when the hardware that its
\* OFF_LINE task wanted disabled has been dealt with, whatever a full queue refused.
ForgottenOnlyAfterDisable ==
    \A o \in offline : o.pc \notin {"create", "wait"} =>
        \A t \in running \cup {queue[i] : i \in 1..Len(queue)} :
            t.type = "DISABLE" => t.n # o.n

\* Where nothing failed, every device announced had its ids, and the two rules
\* of the documentation on the order of tasks were met, the framework ends up with exactly the hardware of the
\* devices it knows enabled, and knows exactly the devices that are online,
\* unless it waits to be released and refuses devices until then.
SettledMatchesNetwork ==
    (Settled /\ flaws = {} /\ ~exited) =>
        /\ enabled \cap Device = entries
        /\ realTime = entries
        /\ entries # {} => Local \in enabled
        /\ flagUnInit \/ entries = dm

\* An OFF_LINE task waits for its children without a timeout, and still ends:
\* every child that was pushed is run and notifies it.
OffLineTaskEnds ==
    (offline # {}) ~> (offline = {} \/ exited \/ "dropped" \in flaws)

\* "Enable/Disable tasks of the same networkId and dhId must not run in
\* parallel; TaskBoard blocks the later one until the earlier is done."
EnableDisableNotParallel == "parallel" \notin flaws

\* "all devices are offline and all disable tasks are finished, start to free
\* the resource": the framework is released only when no device is online.
ReleasedOnlyWhenAllOffline == "late" \notin flaws

=============================================================================

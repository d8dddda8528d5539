------------------------------- MODULE IpcWire -------------------------------
(***************************************************************************)
(* The wire between the processes of the framework: every call of          *)
(* DistributedHardwareProxy and of the callback proxies, the parcel it     *)
(* writes, the stub that reads it, and the reply that travels back.        *)
(*                                                                         *)
(* A parcel is a sequence of untyped cells <<kind, value>>.  A proxy table *)
(* says which arguments a call refuses and in which order it writes the    *)
(* others; a stub table says in which order the handler reads them, what   *)
(* it demands of the caller and which values it refuses.  Reading past the *)
(* end of a parcel, or a cell of another kind, yields 0, "" or a null      *)
(* object, as MessageParcel does.  Any write may fail, SendRequest may     *)
(* fail, and the serving process may die while a call is under way.        *)
(***************************************************************************)
EXTENDS Naturals, Sequences, SequencesExt

CONSTANTS
    IpcDescriptors,       \* the descriptors that calls carry: [dhType, id, customParams, token]
    IpcMaxDescriptors,    \* MAX_DH_DESCRIPTOR_ARRAY_SIZE
    IpcQueueBound         \* bound on one-way calls under way

ASSUME IpcDescriptorShape ==
    IpcDescriptors \subseteq [dhType : Nat, id : STRING, customParams : STRING, token : Nat]

ASSUME IpcBounds == IpcMaxDescriptors \in Nat /\ IpcQueueBound \in Nat \ {0}

VARIABLES
    ipcPc,        \* the calling thread: idle, sent, served, back
    ipcCall,      \* [method, args, caller] of its call
    ipcWire,      \* the parcel of a synchronous call under way
    ipcGot,       \* what the handler read from the parcel of that call
    ipcService,   \* what the service function returned: [ret, engineId, spec]
    ipcReply,     \* the reply parcel
    ipcBack,      \* what the proxy returned to its caller
    ipcOneway,    \* one-way calls under way, oldest first
    ipcHeard      \* the last one-way call that was served: [method, args, got]

ipcVars == <<ipcPc, ipcCall, ipcWire, ipcGot, ipcService, ipcReply, ipcBack, ipcOneway, ipcHeard>>

-----------------------------------------------------------------------------
(* Arguments: numbers where the wire carries a number.  A topic lies        *)
(* strictly between TOPIC_MIN and TOPIC_MAX; a system spec between its MIN  *)
(* and MAX.                                                                 *)

TopicMin == 0
TopicMax == 2

\* a callback carries only these two members of a descriptor
IpcBriefs == {[dhType |-> d.dhType, id |-> d.id] : d \in IpcDescriptors}

\* lists of every admitted length, and of one more
IpcLists(S) == UNION {[1..n -> S] : n \in 0 .. IpcMaxDescriptors + 1}

IpcDomain(param) ==
    CASE param = "topic" -> TopicMin .. TopicMax
      [] param = "spec" -> TopicMin .. TopicMax
      [] param = "listener" -> {"listener", "null"}
      [] param = "networkId" -> {"network", "", "toolong"}
      [] param = "msg" -> {"message", ""}
      [] param = "descriptors" -> IpcLists(IpcDescriptors)
      [] param = "briefs" -> IpcLists(IpcBriefs)
      [] param \in {"dhType", "engineId", "role", "step", "event", "timeOut", "error", "granted", "deviceType"}
           -> {3}
      [] param = "stub" -> {"stub"}
      [] param = "content" -> {"content"}
      [] param = "peerDevId" -> {"peer"}
      [] param = "requestId" -> {"request"}
      [] param = "pkgName" -> {"pkg"}
      [] param = "deviceName" -> {"name"}
      [] param = "dhId" -> {"dh"}

\* IsIdLengthValid, IsMessageLengthValid, ValidTopic, ValidQueryLocalSpec, a null check
IpcValid(param, v) ==
    CASE param \in {"topic", "spec"} -> TopicMin < v /\ v < TopicMax
      [] param = "listener" -> v # "null"
      [] param \in {"networkId", "msg"} -> v \notin {"", "toolong"}
      [] OTHER -> TRUE

\* the one table of several that share no name
IpcJoin(tables) ==
    [name \in UNION {DOMAIN t : t \in tables} |-> (CHOOSE t \in tables : name \in DOMAIN t)[name]]

-----------------------------------------------------------------------------
(* Proxies: [code, the arguments checked, the fields in the order they are *)
(* written, the fields read from the reply, one-way or not].               *)

Proxy(code, checks, writes, reads) ==
    [code |-> code, checks |-> checks, writes |-> writes, reads |-> reads, oneway |-> FALSE]
OnewayProxy(code, writes) ==
    [code |-> code, checks |-> {}, writes |-> writes, reads |-> <<"ret">>, oneway |-> TRUE]

ProxyPublisher ==
    [RegisterPublisherListener |-> Proxy("REG_PUBLISHER_LISTNER", {"listener", "topic"},
        <<<<"u32", "topic">>, <<"obj", "listener">>>>, <<"ret">>),
     UnregisterPublisherListener |-> Proxy("UNREG_PUBLISHER_LISTENER", {"listener", "topic"},
        <<<<"u32", "topic">>, <<"obj", "listener">>>>, <<"ret">>),
     PublishMessage |-> Proxy("PUBLISH_MESSAGE", {"topic", "msg"},
        <<<<"u32", "topic">>, <<"str", "msg">>>>, <<"ret">>)]

ProxyAvCenter ==
    [QueryLocalSysSpec |-> Proxy("QUERY_LOCAL_SYS_SPEC", {"spec"}, <<<<"u32", "spec">>>>, <<"spec">>),
     InitializeAVCenter |-> Proxy("INIT_CTL_CEN", {}, <<<<"u32", "role">>>>, <<"engineId", "ret">>),
     ReleaseAVCenter |-> OnewayProxy("RELEASE_CTL_CEN", <<<<"i32", "engineId">>>>),
     CreateControlChannel |-> OnewayProxy("CREATE_CTL_CEN_CHANNEL",
        <<<<"i32", "engineId">>, <<"str", "peerDevId">>>>)]

ProxyAvNotify ==
    [NotifyAVCenter |-> OnewayProxy("NOTIFY_AV_EVENT",
        <<<<"i32", "engineId">>, <<"u32", "event">>, <<"str", "content">>, <<"str", "peerDevId">>>>),
     RegisterCtlCenterCallback |-> Proxy("REGISTER_CTL_CEN_CALLBACK", {"listener"},
        <<<<"i32", "engineId">>, <<"obj", "listener">>>>, <<"ret">>),
     NotifySourceRemoteSinkStarted |-> Proxy("NOTIFY_SOURCE_DEVICE_REMOTE_DMSDP_STARTED", {},
        <<<<"str", "networkId">>>>, <<"ret">>)]

ProxyPause ==
    [PauseDistributedHardware |-> Proxy("PAUSE_DISTRIBUTED_HARDWARE", {"networkId"},
        <<<<"i32", "dhType">>, <<"str", "networkId">>>>, <<"ret">>),
     ResumeDistributedHardware |-> Proxy("RESUME_DISTRIBUTED_HARDWARE", {"networkId"},
        <<<<"i32", "dhType">>, <<"str", "networkId">>>>, <<"ret">>),
     StopDistributedHardware |-> Proxy("STOP_DISTRIBUTED_HARDWARE", {"networkId"},
        <<<<"i32", "dhType">>, <<"str", "networkId">>>>, <<"ret">>)]

ProxyDhStatus ==
    [GetDistributedHardware |-> Proxy("GET_DISTRIBUTED_HARDWARE", {"networkId", "listener"},
        <<<<"str", "networkId">>, <<"u32", "step">>, <<"obj", "listener">>>>, <<"ret">>),
     RegisterSinkListener |-> Proxy("REG_DH_SINK_STATUS_LISTNER", {"listener"},
        <<<<"obj", "listener">>>>, <<"ret">>),
     UnregisterSinkListener |-> Proxy("UNREG_DH_SINK_STATUS_LISTNER", {"listener"},
        <<<<"obj", "listener">>>>, <<"ret">>)]

ProxySource ==
    [RegisterSourceListener |-> Proxy("REG_DH_SOURCE_STATUS_LISTNER", {"listener", "networkId"},
        <<<<"str", "networkId">>, <<"obj", "listener">>>>, <<"ret">>),
     UnregisterSourceListener |-> Proxy("UNREG_DH_SOURCE_STATUS_LISTNER", {"listener", "networkId"},
        <<<<"str", "networkId">>, <<"obj", "listener">>>>, <<"ret">>),
     EnableSink |-> Proxy("ENABLE_SINK", {}, <<<<"descs", "descriptors">>>>, <<"ret">>),
     DisableSink |-> Proxy("DISABLE_SINK", {}, <<<<"descs", "descriptors">>>>, <<"ret">>)]

ProxyEnable ==
    [EnableSource |-> Proxy("ENABLE_SOURCE", {"networkId"},
        <<<<"str", "networkId">>, <<"descs", "descriptors">>>>, <<"ret">>),
     DisableSource |-> Proxy("DISABLE_SOURCE", {"networkId"},
        <<<<"str", "networkId">>, <<"descs", "descriptors">>>>, <<"ret">>),
     LoadDistributedHDF |-> Proxy("LOAD_HDF", {}, <<<<"u32", "dhType">>, <<"obj", "stub">>>>, <<"ret">>),
     UnLoadDistributedHDF |-> Proxy("UNLOAD_HDF", {}, <<<<"u32", "dhType">>, <<"obj", "stub">>>>, <<"ret">>)]

ProxyAccess ==
    [LoadSinkDMSDPService |-> Proxy("INIT_SINK_DMSDP", {}, <<<<"str", "networkId">>>>, <<"ret">>),
     NotifySinkRemoteSourceStarted |-> Proxy("NOTIFY_SINK_DEVICE_REMOTE_DMSDP_STARTED", {},
        <<<<"str", "networkId">>>>, <<"ret">>),
     RegisterHardwareAccessListener |-> Proxy("REGISTER_HARDWARE_ACCESS_LISTENER", {"listener"},
        <<<<"u32", "dhType">>, <<"obj", "listener">>, <<"i32", "timeOut">>, <<"str", "pkgName">>>>, <<"ret">>),
     UnregisterHardwareAccessListener |-> Proxy("UNREGISTER_HARDWARE_ACCESS_LISTENER", {"listener"},
        <<<<"u32", "dhType">>, <<"obj", "listener">>, <<"str", "pkgName">>>>, <<"ret">>)]

ProxyAuthorization ==
    [SetAuthorizationResult |-> Proxy("SET_AUTHORIZATION_RESULT", {},
        <<<<"u32", "dhType">>, <<"str", "requestId">>, <<"bool", "granted">>>>, <<>>)]

\* HDSinkStatusListenerProxy, HDSourceStatusListenerProxy: called by the service
ProxyStatusCallbacks ==
    [SinkOnEnable |-> Proxy("SINK_ON_ENABLE", {}, <<<<"u32", "dhType">>, <<"str", "dhId">>>>, <<>>),
     SinkOnDisable |-> Proxy("SINK_ON_DISABLE", {}, <<<<"u32", "dhType">>, <<"str", "dhId">>>>, <<>>),
     SourceOnEnable |-> Proxy("SOURCE_ON_ENABLE", {"networkId"},
        <<<<"str", "networkId">>, <<"u32", "dhType">>, <<"str", "dhId">>>>, <<>>),
     SourceOnDisable |-> Proxy("SOURCE_ON_DISABLE", {"networkId"},
        <<<<"str", "networkId">>, <<"u32", "dhType">>, <<"str", "dhId">>>>, <<>>)]

ProxyPublisherCallback ==
    [OnMessage |-> Proxy("ON_MESSAGE", {"topic", "msg"}, <<<<"u32", "topic">>, <<"str", "msg">>>>, <<>>)]

\* the callback carries type and id of a descriptor, not its parameters or token
ProxyGetDhCallback ==
    [OnSuccess |-> Proxy("ON_SUCCESS", {},
        <<<<"str", "networkId">>, <<"briefs", "briefs">>, <<"u32", "step">>>>, <<>>),
     OnError |-> Proxy("ON_ERROR", {}, <<<<"str", "networkId">>, <<"i32", "error">>>>, <<>>)]

ProxyAuthorizationCallback ==
    [OnAuthorizationResult |-> Proxy("ON_AUTHORIZATION_RESULT", {},
        <<<<"str", "networkId">>, <<"str", "requestId">>>>, <<>>)]

ProxyAccessCallback ==
    [OnRequestHardwareAccess |-> Proxy("ON_REQUEST_HARDWARE_ACCESS", {},
        <<<<"str", "requestId">>, <<"str", "networkId">>, <<"str", "deviceName">>, <<"u16", "deviceType">>,
          <<"u32", "dhType">>, <<"str", "pkgName">>>>, <<>>)]

IpcProxies == {ProxyPublisher, ProxyAvCenter, ProxyAvNotify, ProxyPause, ProxyDhStatus, ProxySource, ProxyEnable,
    ProxyAccess, ProxyAuthorization, ProxyStatusCallbacks, ProxyPublisherCallback, ProxyGetDhCallback,
    ProxyAuthorizationCallback, ProxyAccessCallback}

IpcMethods == IpcJoin(IpcProxies)

-----------------------------------------------------------------------------
(* Stubs: [the demands on the caller, the arguments checked, the fields in *)
(* the order they are read, the fields written to the reply].              *)

Stub(gate, checks, reads, writes) ==
    [gate |-> gate, checks |-> checks, reads |-> reads, writes |-> writes]

\* the publisher handlers drop the service's result and reply DH_FWK_SUCCESS
StubPublisher ==
    [REG_PUBLISHER_LISTNER |-> Stub({"permission"}, {"topic", "listener"},
        <<<<"u32", "topic">>, <<"obj", "listener">>>>, <<"ok">>),
     UNREG_PUBLISHER_LISTENER |-> Stub({"permission"}, {"topic", "listener"},
        <<<<"u32", "topic">>, <<"obj", "listener">>>>, <<"ok">>),
     PUBLISH_MESSAGE |-> Stub({"permission"}, {"topic"}, <<<<"u32", "topic">>, <<"str", "msg">>>>, <<"ok">>),
     QUERY_LOCAL_SYS_SPEC |-> Stub({"permission"}, {"spec"}, <<<<"u32", "spec">>>>, <<"spec">>),
     INIT_CTL_CEN |-> Stub({"permission"}, {}, <<<<"u32", "role">>>>, <<"engineId", "ret">>)]

StubAvCenter ==
    [RELEASE_CTL_CEN |-> Stub({"permission"}, {}, <<<<"i32", "engineId">>>>, <<"ret">>),
     CREATE_CTL_CEN_CHANNEL |-> Stub({"permission"}, {},
        <<<<"i32", "engineId">>, <<"str", "peerDevId">>>>, <<"ret">>),
     NOTIFY_AV_EVENT |-> Stub({"permission"}, {},
        <<<<"i32", "engineId">>, <<"u32", "event">>, <<"str", "content">>, <<"str", "peerDevId">>>>, <<"ret">>),
     REGISTER_CTL_CEN_CALLBACK |-> Stub({"permission"}, {"listener"},
        <<<<"i32", "engineId">>, <<"obj", "listener">>>>, <<"ret">>),
     NOTIFY_SOURCE_DEVICE_REMOTE_DMSDP_STARTED |-> Stub({}, {"networkId"}, <<<<"str", "networkId">>>>, <<"ret">>)]

StubPause ==
    [PAUSE_DISTRIBUTED_HARDWARE |-> Stub({"systemHap", "permission"}, {},
        <<<<"i32", "dhType">>, <<"str", "networkId">>>>, <<"ret">>),
     RESUME_DISTRIBUTED_HARDWARE |-> Stub({"systemHap", "permission"}, {},
        <<<<"i32", "dhType">>, <<"str", "networkId">>>>, <<"ret">>),
     STOP_DISTRIBUTED_HARDWARE |-> Stub({"systemHapOrNative", "permission"}, {},
        <<<<"i32", "dhType">>, <<"str", "networkId">>>>, <<"ret">>),
     GET_DISTRIBUTED_HARDWARE |-> Stub({"permission"}, {"listener"},
        <<<<"str", "networkId">>, <<"u32", "step">>, <<"obj", "listener">>>>, <<"ret">>),
     REG_DH_SINK_STATUS_LISTNER |-> Stub({"permission"}, {"listener"}, <<<<"obj", "listener">>>>, <<"ret">>),
     UNREG_DH_SINK_STATUS_LISTNER |-> Stub({"permission"}, {"listener"}, <<<<"obj", "listener">>>>, <<"ret">>)]

StubSource ==
    [REG_DH_SOURCE_STATUS_LISTNER |-> Stub({"permission"}, {"listener"},
        <<<<"str", "networkId">>, <<"obj", "listener">>>>, <<"ret">>),
     UNREG_DH_SOURCE_STATUS_LISTNER |-> Stub({"permission"}, {"listener"},
        <<<<"str", "networkId">>, <<"obj", "listener">>>>, <<"ret">>),
     ENABLE_SINK |-> Stub({"permission"}, {}, <<<<"descs", "descriptors">>>>, <<"ret">>),
     DISABLE_SINK |-> Stub({"permission"}, {}, <<<<"descs", "descriptors">>>>, <<"ret">>),
     ENABLE_SOURCE |-> Stub({"permission"}, {},
        <<<<"str", "networkId">>, <<"descs", "descriptors">>>>, <<"ret">>),
     DISABLE_SOURCE |-> Stub({"permission"}, {},
        <<<<"str", "networkId">>, <<"descs", "descriptors">>>>, <<"ret">>)]

\* the HDF handlers read the death listener after the service call succeeded
StubHdfAndAccess ==
    [LOAD_HDF |-> Stub({"permission"}, {}, <<<<"u32", "dhType">>, <<"obj", "stub">>>>, <<"ret">>),
     UNLOAD_HDF |-> Stub({"permission"}, {}, <<<<"u32", "dhType">>, <<"obj", "stub">>>>, <<"ret">>),
     REGISTER_HARDWARE_ACCESS_LISTENER |-> Stub({"permission"}, {"listener"},
        <<<<"u32", "dhType">>, <<"obj", "listener">>, <<"i32", "timeOut">>, <<"str", "pkgName">>>>, <<"ret">>),
     UNREGISTER_HARDWARE_ACCESS_LISTENER |-> Stub({"permission"}, {"listener"},
        <<<<"u32", "dhType">>, <<"obj", "listener">>, <<"str", "pkgName">>>>, <<"ret">>),
     SET_AUTHORIZATION_RESULT |-> Stub({"permission"}, {},
        <<<<"u32", "dhType">>, <<"str", "requestId">>, <<"bool", "granted">>>>, <<>>)]

StubDmsdp ==
    [INIT_SINK_DMSDP |-> Stub({}, {"networkId"}, <<<<"str", "networkId">>>>, <<"ret">>),
     NOTIFY_SINK_DEVICE_REMOTE_DMSDP_STARTED |-> Stub({}, {"networkId"}, <<<<"str", "networkId">>>>, <<"ret">>)]

StubSinkStatusCallback ==
    [code \in {"SINK_ON_ENABLE", "SINK_ON_DISABLE"} |->
        Stub({}, {}, <<<<"u32", "dhType">>, <<"str", "dhId">>>>, <<>>)]

StubSourceStatusCallback ==
    [code \in {"SOURCE_ON_ENABLE", "SOURCE_ON_DISABLE"} |->
        Stub({}, {}, <<<<"str", "networkId">>, <<"u32", "dhType">>, <<"str", "dhId">>>>, <<>>)]

StubPublisherCallback ==
    [ON_MESSAGE |-> Stub({}, {"topic", "msg"}, <<<<"u32", "topic">>, <<"str", "msg">>>>, <<>>)]

StubGetDhCallback ==
    [ON_SUCCESS |-> Stub({}, {}, <<<<"str", "networkId">>, <<"briefs", "briefs">>, <<"u32", "step">>>>, <<>>),
     ON_ERROR |-> Stub({}, {}, <<<<"str", "networkId">>, <<"i32", "error">>>>, <<>>)]

StubAuthorizationCallback ==
    [ON_AUTHORIZATION_RESULT |-> Stub({}, {}, <<<<"str", "networkId">>, <<"str", "requestId">>>>, <<>>)]

StubAccessCallback ==
    [ON_REQUEST_HARDWARE_ACCESS |-> Stub({}, {},
        <<<<"str", "requestId">>, <<"str", "networkId">>, <<"str", "deviceName">>, <<"u16", "deviceType">>,
          <<"u32", "dhType">>, <<"str", "pkgName">>>>, <<>>)]

IpcServiceStubs == {StubPublisher, StubAvCenter, StubPause, StubSource, StubHdfAndAccess, StubDmsdp}

IpcCallbackStubs == {StubSinkStatusCallback, StubSourceStatusCallback, StubPublisherCallback, StubGetDhCallback,
    StubAuthorizationCallback, StubAccessCallback}

IpcHandlers == IpcJoin(IpcServiceStubs \cup IpcCallbackStubs)

-----------------------------------------------------------------------------
(* Writing and reading a parcel.  No call carries more than one list of     *)
(* descriptors: what lies before the list and after it are single cells.    *)

IpcCell(type) == CASE type \in {"u32", "i32", "bool"} -> "word" [] type = "u16" -> "half" [] OTHER -> type

IpcListsIn(fields) == {i \in 1..Len(fields) : fields[i][1] \in {"descs", "briefs"}}

IpcParams(fields) == {fields[i][2] : i \in 1..Len(fields)}

IpcFieldOf(fields, param) == CHOOSE i \in 1..Len(fields) : fields[i][2] = param

\* WriteDescriptors: the size, then four fields of each descriptor
PutDescriptors(ds) ==
    LET cells(d) == <<<<"word", d.dhType>>, <<"str", d.id>>, <<"str", d.customParams>>, <<"word", d.token>>>>
    IN  <<<<"word", Len(ds)>>>> \o [k \in 1 .. 4 * Len(ds) |-> cells(ds[(k + 3) \div 4])[((k - 1) % 4) + 1]]

\* GetDhDescriptorsCallbackProxy::WriteDescriptors: type and id only
PutBriefs(ds) ==
    LET cells(d) == <<<<"word", d.dhType>>, <<"str", d.id>>>>
    IN  <<<<"word", Len(ds)>>>> \o [k \in 1 .. 2 * Len(ds) |-> cells(ds[(k + 1) \div 2])[((k - 1) % 2) + 1]]

IpcPutList(type, ds) == IF type = "descs" THEN PutDescriptors(ds) ELSE PutBriefs(ds)

\* the single cells of the n fields after the first ones
IpcPutCells(fields, first, n, args) ==
    [k \in 1..n |-> <<IpcCell(fields[first + k][1]), args[fields[first + k][2]]>>]

IpcEncode(fields, args) ==
    IF IpcListsIn(fields) = {} THEN IpcPutCells(fields, 0, Len(fields), args)
    ELSE LET at == CHOOSE i \in IpcListsIn(fields) : TRUE
         IN  IpcPutCells(fields, 0, at - 1, args) \o IpcPutList(fields[at][1], args[fields[at][2]])
                \o IpcPutCells(fields, at, Len(fields) - at, args)

\* one cell of a parcel, or what a failed read returns
IpcRead(kind, p, pos) ==
    IF pos <= Len(p) /\ p[pos][1] = kind THEN p[pos][2]
    ELSE CASE kind \in {"word", "half"} -> 0 [] kind = "str" -> "" [] kind = "obj" -> "null"

\* ReadDescriptors: a size above the limit leaves the list empty; the handlers ignore the error
TakeDescriptors(p, pos) ==
    LET size == IpcRead("word", p, pos)
        at(i) == pos + 1 + 4 * (i - 1)
    IN  IF size > IpcMaxDescriptors THEN [val |-> <<>>, next |-> pos + 1]
        ELSE [val |-> [i \in 1..size |->
                        [dhType |-> IpcRead("word", p, at(i)), id |-> IpcRead("str", p, at(i) + 1),
                         customParams |-> IpcRead("str", p, at(i) + 2), token |-> IpcRead("word", p, at(i) + 3)]],
              next |-> at(size + 1)]

TakeBriefs(p, pos) ==
    LET size == IpcRead("word", p, pos)
        at(i) == pos + 1 + 2 * (i - 1)
    IN  IF size > IpcMaxDescriptors THEN [val |-> <<>>, next |-> pos + 1]
        ELSE [val |-> [i \in 1..size |->
                        [dhType |-> IpcRead("word", p, at(i)), id |-> IpcRead("str", p, at(i) + 1)]],
              next |-> at(size + 1)]

IpcTake(type, p, pos) ==
    CASE type = "descs" -> TakeDescriptors(p, pos)
      [] type = "briefs" -> TakeBriefs(p, pos)
      [] OTHER -> [val |-> IpcRead(IpcCell(type), p, pos), next |-> pos + 1]

\* where a field begins: a list before it moves it on
IpcPos(fields, i, p) ==
    LET lists == {j \in IpcListsIn(fields) : j < i}
        j == CHOOSE j \in lists : TRUE
    IN  IF lists = {} THEN i ELSE IpcTake(fields[j][1], p, j).next + (i - j - 1)

IpcDecode(fields, p) ==
    [param \in IpcParams(fields) |->
        LET i == IpcFieldOf(fields, param) IN IpcTake(fields[i][1], p, IpcPos(fields, i, p)).val]

-----------------------------------------------------------------------------
(* Who calls: a system application, a native service, another local         *)
(* application, a local one without the permission, a remote device.        *)

IpcCallers == {"systemHap", "native", "app", "unpermitted", "remote"}

IpcServiceCodes == UNION {DOMAIN t : t \in IpcServiceStubs}

\* OnRemoteRequest: every code of the service but the three DMSDP ones demands a local caller
IpcLocalOnly(code) ==
    code \in IpcServiceCodes \ {"NOTIFY_SOURCE_DEVICE_REMOTE_DMSDP_STARTED", "INIT_SINK_DMSDP",
                                "NOTIFY_SINK_DEVICE_REMOTE_DMSDP_STARTED"}

\* HasAccessDHPermission, IsSystemHap, IsNativeSA
IpcPasses(demand, caller) ==
    CASE demand = "permission" -> caller # "unpermitted"
      [] demand = "systemHap" -> caller = "systemHap"
      [] demand = "systemHapOrNative" -> caller \in {"systemHap", "native"}

\* the handler runs the service function: the caller may call it and the values read are valid
IpcAccepts(code, caller, got) ==
    /\ IpcLocalOnly(code) => caller # "remote"
    /\ \A demand \in IpcHandlers[code].gate : IpcPasses(demand, caller)
    /\ \A param \in IpcHandlers[code].checks : IpcValid(param, got[param])

\* every way to choose the arguments of a call; no call has more than six
IpcDomainAt(fields, i) == IF i \in 1..Len(fields) THEN IpcDomain(fields[i][2]) ELSE {"none"}

IpcArgs(method) ==
    LET fields == IpcMethods[method].writes
        D(i) == IpcDomainAt(fields, i)
    IN  {[param \in IpcParams(fields) |-> v[IpcFieldOf(fields, param)]] :
            v \in D(1) \X D(2) \X D(3) \X D(4) \X D(5) \X D(6)}

\* the proxy refuses bad arguments, and a descriptor list above the limit
ProxyRefuses(method, args) ==
    \/ \E param \in IpcMethods[method].checks : ~IpcValid(param, args[param])
    \/ \E param \in DOMAIN args \cap {"descriptors", "briefs"} : Len(args[param]) > IpcMaxDescriptors

IpcReplyType(name) == IF name = "spec" THEN "str" ELSE "i32"

\* Faulty variant for mutation testing: InitializeAVCenterInner writes its result before the engine id
IpcReplyReversed(writes, result) ==
    Reverse([i \in 1..Len(writes) |-> IF writes[i] = "ok" THEN <<"word", 0>>
                              ELSE <<IpcCell(IpcReplyType(writes[i])), result[writes[i]]>>])

\* what the handler writes to the reply, and what the proxy makes of it
IpcReplyOf(writes, result) ==
    [i \in 1..Len(writes) |-> IF writes[i] = "ok" THEN <<"word", 0>>
                              ELSE <<IpcCell(IpcReplyType(writes[i])), result[writes[i]]>>]

IpcReadReply(reads, p) ==
    [name \in {"ret", "engineId", "spec"} |->
        IF \E i \in 1..Len(reads) : reads[i] = name
        THEN LET i == CHOOSE i \in 1..Len(reads) : reads[i] = name
             IN  IpcRead(IpcCell(IpcReplyType(name)), p, i)
        ELSE IF name = "spec" THEN "" ELSE 0]

IpcFailed == [ret |-> 1, engineId |-> 0, spec |-> ""]
IpcServiceResults == {IpcFailed, [ret |-> 0, engineId |-> 10, spec |-> "specValue"]}

-----------------------------------------------------------------------------
IpcInit ==
    /\ ipcPc = "idle"
    /\ ipcCall = [method |-> "none", args |-> << >>, caller |-> "app"]
    /\ ipcWire = << >> /\ ipcGot = << >> /\ ipcReply = << >>
    /\ ipcService = IpcFailed /\ ipcBack = IpcFailed
    /\ ipcOneway = << >> /\ ipcHeard = << >>

\* the proxy refuses, one of its writes fails, or SendRequest does
IpcInvokeFails(method, args, caller) ==
    /\ ipcPc = "idle"
    /\ ipcPc' = "back"
    /\ ipcCall' = [method |-> method, args |-> args, caller |-> caller]
    /\ ipcBack' = IpcFailed
    /\ UNCHANGED <<ipcWire, ipcGot, ipcService, ipcReply, ipcOneway, ipcHeard>>

\* TF_SYNC: the caller waits for the reply
IpcInvokeSync(method, args, caller) ==
    /\ ipcPc = "idle"
    /\ ~IpcMethods[method].oneway
    /\ ~ProxyRefuses(method, args)
    /\ ipcPc' = "sent"
    /\ ipcCall' = [method |-> method, args |-> args, caller |-> caller]
    /\ ipcWire' = IpcEncode(IpcMethods[method].writes, args)
    /\ UNCHANGED <<ipcGot, ipcService, ipcReply, ipcBack, ipcOneway, ipcHeard>>

\* TF_ASYNC: SendRequest returns at once and the proxy reads an empty reply
IpcInvokeOneway(method, args, caller) ==
    /\ ipcPc = "idle"
    /\ IpcMethods[method].oneway
    /\ ~ProxyRefuses(method, args)
    /\ Len(ipcOneway) < IpcQueueBound
    /\ ipcPc' = "back"
    /\ ipcCall' = [method |-> method, args |-> args, caller |-> caller]
    /\ ipcOneway' = Append(ipcOneway, [method |-> method, args |-> args, caller |-> caller,
                                      wire |-> IpcEncode(IpcMethods[method].writes, args)])
    /\ ipcBack' = IpcReadReply(IpcMethods[method].reads, << >>)
    /\ UNCHANGED <<ipcWire, ipcGot, ipcService, ipcReply, ipcHeard>>

\* OnRemoteRequest of a synchronous call
IpcServe ==
    LET code == IpcMethods[ipcCall.method].code
        handler == IpcHandlers[code]
        got == IpcDecode(handler.reads, ipcWire)
    IN  /\ ipcPc = "sent"
        /\ ipcWire' = << >>
        /\ \/ /\ ~IpcAccepts(code, ipcCall.caller, got)
              /\ ipcPc' = "back" /\ ipcBack' = IpcFailed
              /\ UNCHANGED <<ipcGot, ipcService, ipcReply>>
           \/ /\ IpcAccepts(code, ipcCall.caller, got)
              /\ ipcPc' = "served" /\ ipcGot' = <<got>>
              /\ \E result \in IpcServiceResults :
                    /\ "ok" \in ToSet(handler.writes) => result.ret = 0
                    /\ ipcService' = result
                    /\ ipcReply' = IpcReplyOf(handler.writes, result)
              /\ UNCHANGED ipcBack
        /\ UNCHANGED <<ipcCall, ipcOneway, ipcHeard>>

\* one-way calls to one object are served in the order they were sent
IpcServeOneway ==
    LET call == Head(ipcOneway)
        code == IpcMethods[call.method].code
        got == IpcDecode(IpcHandlers[code].reads, call.wire)
    IN  /\ ipcOneway # << >>
        /\ ipcOneway' = Tail(ipcOneway)
        /\ ipcHeard' = IF IpcAccepts(code, call.caller, got)
                       THEN <<[method |-> call.method, args |-> call.args, got |-> got]>> ELSE ipcHeard
        /\ UNCHANGED <<ipcPc, ipcCall, ipcWire, ipcGot, ipcService, ipcReply, ipcBack>>

\* the reply arrives and the proxy reads it
IpcReturn ==
    /\ ipcPc = "served"
    /\ ipcPc' = "back"
    /\ ipcBack' = IpcReadReply(IpcMethods[ipcCall.method].reads, ipcReply)
    /\ UNCHANGED <<ipcCall, ipcWire, ipcGot, ipcService, ipcReply, ipcOneway, ipcHeard>>

\* the serving process dies: SendRequest of a call under way fails, one-way calls are lost
IpcPeerDies ==
    /\ ipcPc \in {"sent", "served"} \/ ipcOneway # << >>
    /\ ipcPc' = IF ipcPc \in {"sent", "served"} THEN "back" ELSE ipcPc
    /\ ipcBack' = IF ipcPc \in {"sent", "served"} THEN IpcFailed ELSE ipcBack
    /\ ipcOneway' = << >> /\ ipcWire' = << >>
    /\ UNCHANGED <<ipcCall, ipcGot, ipcService, ipcReply, ipcHeard>>

\* the caller goes on to its next call
IpcNextCall ==
    /\ ipcPc = "back"
    /\ ipcPc' = "idle"
    /\ ipcCall' = [method |-> "none", args |-> << >>, caller |-> "app"]
    /\ ipcWire' = << >> /\ ipcGot' = << >> /\ ipcReply' = << >>
    /\ ipcService' = IpcFailed /\ ipcBack' = IpcFailed
    /\ ipcHeard' = << >>
    /\ UNCHANGED ipcOneway

IpcNext ==
    \/ /\ ipcPc = "idle"
       /\ \E method \in DOMAIN IpcMethods : \E args \in IpcArgs(method), caller \in IpcCallers :
          \/ IpcInvokeFails(method, args, caller)
          \/ IpcInvokeSync(method, args, caller)
          \/ IpcInvokeOneway(method, args, caller)
    \/ IpcServe \/ IpcServeOneway \/ IpcReturn \/ IpcPeerDies \/ IpcNextCall

-----------------------------------------------------------------------------
(* Every service function and every callback runs with the arguments its   *)
(* caller passed to the proxy, descriptor lists of every admitted length   *)
(* included; and a synchronous call that returns success was run by the    *)
(* service, which itself succeeded, and the engine id the caller gets      *)
(* (InitializeAVCenter) is the service's: no refusal, lost reply or death  *)
(* of the service is taken for success.                                    *)
IpcRoundTrip ==
    /\ \A i \in DOMAIN ipcGot : ipcGot[i] = ipcCall.args
    /\ \A i \in DOMAIN ipcHeard : ipcHeard[i].got = ipcHeard[i].args
    /\ ipcPc = "back" /\ ipcCall.method # "none" =>
        LET m == IpcMethods[ipcCall.method]
        IN  ~m.oneway /\ "ret" \in ToSet(m.reads) /\ ipcBack.ret = 0 =>
               /\ ipcGot # << >> /\ ipcService.ret = 0
               /\ "engineId" \in ToSet(m.reads) => ipcBack.engineId = ipcService.engineId
=============================================================================

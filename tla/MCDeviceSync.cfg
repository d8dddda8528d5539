SPECIFICATION Spec
CONSTANTS
    Request = {r1, r2}
    Device = {d1}
    Socket = {s1, s2}
    NoSocket = NoSocket
    NoDevice = NoDevice
    Steps = {"DISABLE"}
    CarBuilds = {FALSE}
    MaxRetry = 0
    MaxTrigger = 1
    MaxRelease = 1
    MaxMessage = 1
SYMMETRY Symmetry
INVARIANTS EntryHasTimer ClosedSocketIsForgotten
PROPERTY PromiseKept
CHECK_DEADLOCK FALSE

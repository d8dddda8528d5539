SPECIFICATION Spec
CONSTANTS
    Request = {r1, r2}
    Device = {d1}
    Socket = {}
    NoSocket = NoSocket
    NoDevice = NoDevice
    Steps = {"ENABLE_SOURCE", "ENABLE_SINK", "DISABLE"}
    CarBuilds = {TRUE, FALSE}
    MaxRetry = 1
    MaxTrigger = 0
    MaxRelease = 1
    MaxMessage = 0
INVARIANTS QueueIsWatched
PROPERTY AnsweredUnlessUntimed
CHECK_DEADLOCK FALSE

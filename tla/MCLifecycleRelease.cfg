SPECIFICATION Spec
CONSTANTS
    Device = {d1}
    Local = local
    MaxQueue = 256
    MaxOnline = 1
    MaxEvents = 5
INVARIANT ReleasedOnlyWhenAllOffline
CHECK_DEADLOCK FALSE

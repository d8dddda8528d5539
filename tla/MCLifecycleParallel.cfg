SPECIFICATION Spec
CONSTANTS
    Device = {d1}
    Local = local
    MaxQueue = 256
    MaxOnline = 1
    MaxEvents = 2
INVARIANT EnableDisableNotParallel
CHECK_DEADLOCK FALSE

SPECIFICATION Spec
CONSTANTS
    Device = {d1}
    Local = local
    MaxQueue = 2
    MaxOnline = 1
    MaxEvents = 4
PROPERTY OffLineTaskEnds
CHECK_DEADLOCK FALSE

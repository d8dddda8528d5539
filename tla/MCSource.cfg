SPECIFICATION Spec
CONSTANTS
    Id = {i1, i2}
    Key = {auto, k1}
    AutoKey = auto
    IsModem = TRUE
    Faults = {"load", "init", "release", "unload", "timeout", "enable", "disable", "peer", "watch", "queue"}
    MaxRecover = 1
SYMMETRY Symmetry
INVARIANTS CountsExact SettledSourceServesHolders HardwareOnlyWhileHeld
CHECK_DEADLOCK FALSE

SPECIFICATION Spec
CONSTANTS
    DhId = {i1, i2}
    Key = {auto, k1}
    AutoKey = auto
    Faults = {"load", "init", "release", "unload", "timeout", "peer", "watch", "queue"}
    MaxRecover = 2
SYMMETRY Symmetry
INVARIANTS CountsExact SettledSinkServesHolders
PROPERTY UnloadOnlyWhenUnheld
CHECK_DEADLOCK FALSE

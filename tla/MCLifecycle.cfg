SPECIFICATION Spec
CONSTANTS
    Device = {d1, d2}
    Local = local
    MaxQueue = 3
    MaxOnline = 1
    MaxEvents = 4
INVARIANTS ForgottenOnlyAfterDisable SettledMatchesNetwork
CHECK_DEADLOCK FALSE
SYMMETRY Symmetry

SPECIFICATION Spec
CONSTANTS
    RetryMax = 3
INVARIANTS SuccessIsDone AtMostOneRequestOffline
PROPERTY CallReturns
CHECK_DEADLOCK FALSE

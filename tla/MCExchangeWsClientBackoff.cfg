CONSTANTS
    MaxAttempts = 4
    InitialDelay = 1
    MaxDelay = 8
SPECIFICATION Spec
INVARIANT IoServiceNotBlocked
CHECK_DEADLOCK FALSE

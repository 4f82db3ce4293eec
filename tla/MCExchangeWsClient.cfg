CONSTANTS
    MaxAttempts = 4
    InitialDelay = 2
    MaxDelay = 3
SPECIFICATION FairSpec
INVARIANTS TypeOK OneLink DisconnectLeavesNothing
PROPERTIES LinkRestored DisconnectReturns
CHECK_DEADLOCK FALSE

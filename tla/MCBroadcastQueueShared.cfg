CONSTANTS
    mainLoop = mainLoop
    binanceIo = binanceIo
    Producers <- TwoProducers
    Capacity = 2
    MaxCalls = 4
SPECIFICATION Spec
INVARIANTS
    AcceptedAccounted

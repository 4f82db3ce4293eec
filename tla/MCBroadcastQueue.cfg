CONSTANTS
    mainLoop = mainLoop
    binanceIo = binanceIo
    Producers <- OneProducer
    Capacity = 2
    MaxCalls = 7
SPECIFICATION FairSpec
INVARIANTS
    TypeOK
    NoSlotRace
    AcceptedAccounted
PROPERTIES
    ImplementsBoundedQueue
    AcceptedIsDelivered

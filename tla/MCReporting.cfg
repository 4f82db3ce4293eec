CONSTANTS
    t1 = t1
    t2 = t2
    e1 = e1
    e2 = e2
    btc = btc
    eth = eth
    doge = doge
    Trades <- MCTrades
    Earlier = {e1, e2}
    KeptFiles <- MCKeptFiles
    Pairs = {btc, eth}
    PairOf <- MCPairOf
    Nobody = Nobody
    MaxFaults = 1
    Clients = {c}
    Capacity = 1
    MaxSendFaults = 3
    MaxOpens = 1
    MaxTicks = 1
SPECIFICATION Spec
INVARIANTS
    LostIsBounded
    ReportIsOrdered
    SlowIsClosed
PROPERTY ShutdownReachesAdapters
CHECK_DEADLOCK FALSE

CONSTANTS
    Unit = 100
    MinNet = 3
    MaxIterations = 8
    Epsilon = 2
    NExchanges = 2
    FetchedFee <- MCFetchedFee
    DefaultFee <- MCDefaultFee
    NoFee = NoFee
    MayFail <- MCMayFail
    MaxRefreshes = 3
    Quotes <- MCQuotes
    MaxAge = 1
    Cooldown = 1
    MinTrade = 30
    MaxTrade = 120
    MaxTime = 2
    MaxUpdates = 2
    None = None
SPECIFICATION Spec
INVARIANTS
    FiredIsSound
    RateOfOneRefresh
    CooldownKept
    NoUpdateMissed
CHECK_DEADLOCK FALSE

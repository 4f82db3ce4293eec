CONSTANTS
    Exchanges <- Names
    Adapter <- Named
    Opportunities <- Every
    Quantity = 2
    RetryCount = 1
    MaxTrades = 1
    MaxFaults = 2
SPECIFICATION Spec
INVARIANTS NoOrphan UnmatchedIsWithdrawn FilledIsFlat
PROPERTY ExecuteReturns
CHECK_DEADLOCK FALSE

CONSTANTS
    Unit = 10000
    MinNet = 2
    MaxIterations = 1
    Epsilon = 2
    Width = 3
    Times = 3
    Sides <- MCSides
    NExchanges = 2
    SimFee <- MCSimFee
    Slack = 10
    MinTrade = 4000
    InitialBase = 8
    InitialQuote = 8011
    None = None
SPECIFICATION BacktestSpec
INVARIANTS
    PnlAccounted
    NothingOverdrawn
    BookOfTheTime
    OnlyWinsAreReported
CHECK_DEADLOCK FALSE

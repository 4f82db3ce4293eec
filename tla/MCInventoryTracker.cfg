CONSTANTS
    a = a
    b = b
    Absent = Absent
    Accounts = {a, b}
    Throwing = {a}
    Deposits <- TwoEach
    Changes <- UpAndDown
    DriftThreshold = 100
    MaxFills = 2
    MaxFailures = 1
SPECIFICATION TrackerSpec
INVARIANTS FillsAreCounted
PROPERTIES AlertIsReal Converges StopReturns
CHECK_DEADLOCK FALSE

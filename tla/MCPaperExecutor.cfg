CONSTANTS
    a = a
    b = b
    c = c
    Threads = {t1, t2}
    Exchanges = {a, b, c}
    Deposits <- TwoTrades
    Opportunities <- Market
    Fills <- Partial
    TakerFee <- DearAtB
    FeeScale = 10
    MaxTrades = 4
SPECIFICATION Spec
INVARIANTS BaseAccounted QuoteAccounted OverdraftIsBounded
SYMMETRY ThreadSymmetry

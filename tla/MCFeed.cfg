CONSTANTS
    Pairs = {btc, eth}
    Prices <- MCPrices
    Kinds = {"binance", "okx", "bybit", "mexc", "gateio"}
    Markets <- MCMarkets
    MaxChanges = 2
    MaxLinks = 2
    MaxDrops = 1
SPECIFICATION FeedSpec
INVARIANTS
    BookIsCurrent
    SidesSorted
PROPERTY BooksCatchUp
CHECK_DEADLOCK FALSE

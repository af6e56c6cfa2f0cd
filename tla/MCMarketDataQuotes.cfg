CONSTANTS
    s1 = s1
    Stocks = {s1}
    Prices = {90, 100, 110}
    Down = 0
    Held = {s1}
    Shared = {s1}
    Orders = {1, 2}
    Terms <- BuyAndSell
    HighAmount = 0
    RedisTTL = 5
    FeedTTL = 5
    PollPeriod = 7
    MaxPolls = 2
SPECIFICATION FairSpec
INVARIANTS
    QuoteIsRecent
    BookIsNotCrossed
PROPERTIES
    OnlyRefreshMovesPrices
    MetOrdersExecuteUncached

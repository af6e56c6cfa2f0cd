CONSTANTS
    s1 = s1
    Stocks = {s1}
    Prices = {90, 100}
    Down = 0
    Held = {s1}
    Shared = {}
    Orders = {1}
    Terms <- BuyOnly
    HighAmount = 0
    RedisTTL = 5
    FeedTTL = 5
    PollPeriod = 7
    MaxPolls = 1
SPECIFICATION FairSpec
PROPERTIES
    MetOrdersExecute

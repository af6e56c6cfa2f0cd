CONSTANTS
    u1 = u1
    u2 = u2
    s1 = s1
    s2 = s2
    r1 = r1
    r2 = r2
    Users = {u1, u2}
    Stocks = {s1, s2}
    Prices = {9990, 10000}
    Books <- Books2
    HighAmount = 20000
    OpeningCash <- Cash20
    OpeningShares <- OneShare
    MaxOrders = 2
    Requests = {r1, r2}
    Kinds = {"submit", "refresh", "cancel", "approve", "block"}
SPECIFICATION FairSpec
INVARIANTS
    IInv
    NoOverdraft
    ExecutedHasTraded
    LedgerBalanced
    NoShortPosition
    StatusMatchesDecision
PROPERTIES
    MoneyMovesWithTrades
    EveryRequestEnds

\* One user, one stock, two orders, every order reviewed in every way.
CONSTANTS
    u1 = u1
    s1 = s1
    Users = {u1}
    Stocks = {s1}
    Prices = {10, 10000}
    Quantities = {1, 2}
    OpeningCash <- OneUserCash
    HighAmount = 20000
    HighValue = 20000
    Scores = {0, 60, 80}
    Views <- AllViews
    NoTerms = NoTerms
    MaxOrders = 2
    MaxFills = 2
SPECIFICATION AuditSpec
INVARIANTS
    IInv
    LedgerBalanced
    StatusMatchesDecision
    TrailTellsStatus
PROPERTIES
    FillIsAuthorised
    LockFreezesOrders
    RefreshIsDecisive
    ImplementsBrokerage

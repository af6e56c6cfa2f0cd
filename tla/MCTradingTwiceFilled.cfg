\* A filled order blocked and approved again.
CONSTANTS
    u1 = u1
    s1 = s1
    Users = {u1}
    Stocks = {s1}
    Prices = {10, 10000}
    Quantities = {1, 2}
    OpeningCash <- OneUserCash
    HighAmount = 20000
    HighValue = 20000
    Scores = {0, 60, 80}
    Views <- TrustedView
    NoTerms = NoTerms
    MaxOrders = 1
    MaxFills = 2
SPECIFICATION AuditSpec
INVARIANT
    ExecutedQuantityTracked

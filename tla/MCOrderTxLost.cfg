CONSTANTS
    u1 = u1
    u2 = u2
    s1 = s1
    s2 = s2
    r1 = r1
    r2 = r2
    Users = {u1}
    Stocks = {s1}
    Prices = {9990, 10000}
    Books <- OneLimit
    HighAmount = 20000
    OpeningCash <- Cash20
    OpeningShares <- OneShare
    MaxOrders = 1
    Requests = {r1, r2}
    Kinds = {"refresh"}
SPECIFICATION Spec
INVARIANT
    BalanceReflectsOrders

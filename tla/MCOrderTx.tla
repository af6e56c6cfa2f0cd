----------------------------- MODULE MCOrderTx -----------------------------
(***************************************************************************)
(* Instances of OrderTx for TLC.  20,000 won pays for two shares at 9,990  *)
(* with a tick of slippage, and for two at 10,000 without; each user holds *)
(* one share of each stock.                                                *)
(***************************************************************************)
EXTENDS OrderTx

CONSTANTS u1, u2, s1, s2, r1, r2

Cash20 == [u \in Users |-> 20000]
OneShare == [u \in Users |-> [s \in Stocks |-> 1]]

Limit(u, s, side, p) ==
    [user |-> u, stock |-> s, side |-> side, quantity |-> 1, type |-> "LIMIT", price |-> p]
Market(u, s, side, n) ==
    [user |-> u, stock |-> s, side |-> side, quantity |-> n, type |-> "MARKET", price |-> NoPrice]

Books2 == {
    \* two limits that compete for the cash, on two stocks whose rows
    \* refreshes lock in between
    <<Limit(u1, s1, "BUY", 9990), Limit(u1, s2, "BUY", 9990)>>,
    \* purchases with slippage: two shares at 10,000 can be paid for as quoted,
    \* not as executed
    <<Market(u1, s1, "BUY", 2), Market(u1, s1, "BUY", 1)>>,
    \* two sales of one share
    <<Limit(u1, s1, "SELL", 10000), Limit(u1, s1, "SELL", 9990)>>,
    \* two users at one stock
    <<Limit(u1, s1, "BUY", 10000), Limit(u2, s1, "SELL", 9990)>>}

OneLimit == {<<Limit(u1, s1, "BUY", 9990)>>}
=============================================================================

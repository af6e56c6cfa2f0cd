----------------------------- MODULE Brokerage -----------------------------
(***************************************************************************)
(* What the trading back end promises about money and shares, with orders, *)
(* statuses and risk events left out: an account changes only by a trade   *)
(* at one of the prices the market can give, the whole order is traded at  *)
(* once, a purchase is covered by the cash of the account and a sale by    *)
(* the shares its owner holds.  Trading is shown to implement it.          *)
(***************************************************************************)
EXTENDS Integers

CONSTANTS Users, Stocks, Quantities, FillPrices, OpeningCash

VARIABLES cash, position

accounts == <<cash, position>>

Init ==
    /\ cash = OpeningCash
    /\ position = [u \in Users |-> [s \in Stocks |-> 0]]

Buy(u, s, q, p) ==
    /\ p * q <= cash[u]
    /\ cash' = [cash EXCEPT ![u] = @ - p * q]
    /\ position' = [position EXCEPT ![u][s] = @ + q]

Sell(u, s, q, p) ==
    /\ q <= position[u][s]
    /\ cash' = [cash EXCEPT ![u] = @ + p * q]
    /\ position' = [position EXCEPT ![u][s] = @ - q]

Next == \E u \in Users, s \in Stocks, q \in Quantities, p \in FillPrices :
            Buy(u, s, q, p) \/ Sell(u, s, q, p)

Spec == Init /\ [][Next]_accounts
=============================================================================

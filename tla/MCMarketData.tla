---------------------------- MODULE MCMarketData ----------------------------
(***************************************************************************)
(* Instances of MarketData for TLC: the times are those of the code, and a *)
(* purchase and a sale wait on either side of the market.                  *)
(***************************************************************************)
EXTENDS MarketData

CONSTANTS s1

Buy == [stock |-> s1, side |-> "BUY", type |-> "LIMIT", price |-> 90]
Sell == [stock |-> s1, side |-> "SELL", type |-> "LIMIT", price |-> 110]

BuyOnly == <<Buy>>
BuyAndSell == <<Buy, Sell>>
=============================================================================

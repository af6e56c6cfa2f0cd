------------------------------ MODULE Pricing -------------------------------
(***************************************************************************)
(* What an order costs, as trading_service computes it: the tick of a      *)
(* price, the slippage of a market order, the comparison of a limit with   *)
(* the market.  t is the terms of an order, cur the stock's current price. *)
(***************************************************************************)
EXTENDS Integers

CONSTANT HighAmount     \* settings.high_amount_threshold

\* orders.price of an order submitted without one.
NoPrice == 0

TickSize(cur) ==
    IF cur >= 500000 THEN 1000
    ELSE IF cur >= 100000 THEN 500
    ELSE IF cur >= 50000 THEN 100
    ELSE IF cur >= 10000 THEN 50
    ELSE 10

Slippage(t, cur) ==
    TickSize(cur) * (IF cur * t.quantity >= HighAmount THEN 2 ELSE 1)

\* A market sale is floored at one tick.
MarketExecutionPrice(t, cur) ==
    IF t.side = "BUY" THEN cur + Slippage(t, cur)
    ELSE IF cur - Slippage(t, cur) > TickSize(cur)
         THEN cur - Slippage(t, cur)
         ELSE TickSize(cur)

\* An order that is not marketable waits in the book.
Marketable(t, cur) ==
    \/ t.type = "MARKET"
    \/ t.side = "BUY" /\ t.price >= cur
    \/ t.side = "SELL" /\ t.price <= cur

FillPrice(t, cur) ==
    IF t.type = "MARKET" THEN MarketExecutionPrice(t, cur) ELSE cur

\* The amount the screening rules compare with their thresholds.
OrderAmount(t, cur) ==
    (IF t.price = NoPrice THEN cur ELSE t.price) * t.quantity
=============================================================================

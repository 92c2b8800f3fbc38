-------------------------- MODULE MCPaperLifecycle --------------------------
(***************************************************************************)
(* PaperLifecycle on one market: two buys and two sells of quantities that *)
(* do not divide, so that sales split lots and every product truncates.    *)
(***************************************************************************)
EXTENDS PaperEvidence

MCSymbols == {"BTCUSDT"}
MCBase == [s \in MCSymbols |-> "BTC"]
MCQuote == [s \in MCSymbols |-> "USDT"]
MCCurrencies == {"BTC", "USDT"}

Request(side, price, quantity) ==
  [symbol |-> "BTCUSDT", side |-> side, type |-> "limit",
   price |-> price, quantity |-> quantity]

\* Prices 0.7 and 0.9; the last two requests are refused: the first rounds to
\* a notional of nothing, the other is not a limit order.
MCOrders ==
  {Request("buy", 7, 90), Request("buy", 9, 70),
   Request("sell", 7, 81), Request("sell", 9, 33), Request("buy", 9, 1),
   [Request("buy", 9, 70) EXCEPT !.type = "market"]}

MCBar(i, e, l) == [symbol |-> "BTCUSDT", interval |-> i, end |-> e, low |-> l, high |-> l + 2]
MCBars ==
  {MCBar("1m", 1, 6), MCBar("1m", 1, 8), MCBar("1m", 2, 6),
   MCBar("5m", 2, 7)}

MCNoBase == [c \in MCCurrencies |-> IF c = "USDT" THEN 130 ELSE 0]
=============================================================================

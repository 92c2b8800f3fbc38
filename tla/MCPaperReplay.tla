---------------------------- MODULE MCPaperReplay ----------------------------
(***************************************************************************)
(* PaperReplay on one market whose bars differ in range.  With a fee       *)
(* rate of 100%, which WithPaperLifecycleFeeRate accepts, every buy fails  *)
(* when it is filled and sells go through: bars are abandoned half done,   *)
(* and advanced again.                                                     *)
(***************************************************************************)
EXTENDS PaperReplay

MCSymbols == {"BTCUSDT"}
MCBase == [s \in MCSymbols |-> "BTC"]
MCQuote == [s \in MCSymbols |-> "USDT"]
MCCurrencies == {"BTC", "USDT"}

Request(side, price, quantity) ==
  [symbol |-> "BTCUSDT", side |-> side, type |-> "limit",
   price |-> price, quantity |-> quantity]
MCOrders ==
  {Request("sell", 9, 30), Request("buy", 7, 40), Request("sell", 7, 20)}

MCRanges == {[low |-> 6, high |-> 8], [low |-> 8, high |-> 10]}
MCBars ==
  {[symbol |-> s, interval |-> "1m", end |-> e, low |-> l, high |-> h] :
     s \in MCSymbols, e \in 1..3, l \in {6, 8}, h \in {8, 10}}

MCQueries ==
  {[from |-> 0, to |-> 0, limit |-> 0], [from |-> 0, to |-> 0, limit |-> 1],
   [from |-> 2, to |-> 2, limit |-> 0]}

MCStart == [c \in MCCurrencies |-> IF c = "USDT" THEN 50 ELSE 60]
=============================================================================

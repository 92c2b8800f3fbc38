--------------------------- MODULE PaperEvidence ----------------------------
(***************************************************************************)
(* The evidence of a finished paper run: what ExportPaperLifecycleEvidence *)
(* (pkg/exchanges/htx/paper_evidence.go) reports of a session, and what    *)
(* the cumulative readback of paper_evidence_recorder.go computes from the *)
(* retained report alone, without the session.                             *)
(*                                                                         *)
(* Everything here is a function of the state of PaperLifecycle: an export *)
(* changes nothing.  Rows keep the amounts of their source; their text     *)
(* form is exact and left out.  The file they are written to is            *)
(* EvidenceStore.                                                          *)
(***************************************************************************)
EXTENDS PaperLifecycle

-----------------------------------------------------------------------------
(* Export                                                                  *)

\* The balances the ledger leads to from the opening ones.
Expected(c) ==
  LET mine == {i \in DOMAIN ledger : ledger[i].currency = c}
  IN [available |-> StartBalance[c] + SumOver(mine, LAMBDA i : ledger[i].available),
      locked    |-> SumOver(mine, LAMBDA i : ledger[i].locked)]

Drift == {c \in Currencies : balances[c] # Expected(c)}

\* A run is exported when nothing of it is pending and something was closed.
Exportable ==
  /\ call = Idle
  /\ \E id \in OrderIds : orders[id].status # "none"
  /\ Drift = {}
  /\ \A c \in Currencies : balances[c].locked = 0
  /\ \A id \in OrderIds : ~orders[id].working
  /\ closed # <<>>

FeeCurrency(t) == IF t.side = "buy" THEN Base[t.symbol] ELSE Quote[t.symbol]
FeeIn(t, c) == IF FeeCurrency(t) = c THEN t.fee ELSE 0

\* Mutant: the fee taken in base is not deducted from what was bought.
TradeRowGrossBase(t) ==
  LET sign == IF t.side = "buy" THEN 1 ELSE -1
  IN [order |-> t.order, symbol |-> t.symbol, side |-> t.side, gross |-> t.notional,
      fee |-> t.fee, feeCurrency |-> FeeCurrency(t),
      base |-> sign * t.quantity,
      quote |-> -sign * t.notional - FeeIn(t, Quote[t.symbol])]

\* A trade row: the signed change of each currency, net of the fee taken in it.
paperEvidenceTrade(t) ==
  LET sign == IF t.side = "buy" THEN 1 ELSE -1
  IN [order |-> t.order, symbol |-> t.symbol, side |-> t.side, gross |-> t.notional,
      fee |-> t.fee, feeCurrency |-> FeeCurrency(t),
      base |-> sign * t.quantity - FeeIn(t, Base[t.symbol]),
      quote |-> -sign * t.notional - FeeIn(t, Quote[t.symbol])]

\* One row per trade, by order and place among the order's trades.
TradeRows ==
  [at \in UNION {{id} \X DOMAIN trades[id] : id \in OrderIds} |->
     paperEvidenceTrade(trades[at[1]][at[2]])]

\* A closed trade names the market's quote currency as the currency of both fees.
ClosedRows ==
  [i \in DOMAIN closed |->
     [symbol |-> closed[i].symbol, entry |-> closed[i].entry, exit |-> closed[i].exit,
      quantity |-> closed[i].quantity,
      entryFee |-> closed[i].entryFee, entryFeeCurrency |-> Quote[closed[i].symbol],
      exitFee |-> closed[i].exitFee, exitFeeCurrency |-> Quote[closed[i].symbol],
      gross |-> closed[i].exitNotional - closed[i].entryNotional,
      net |-> closed[i].pnl]]

SumRows(rows, Test(_), f(_)) ==
  SumOver({i \in DOMAIN rows : Test(rows[i])}, LAMBDA i : f(rows[i]))

\* Totals per currency, where QuoteOf says which currency a row's symbol is
\* quoted in: the export and the readback find that out in different ways.
Totals(rows, deals, QuoteOf(_)) ==
  [c \in Currencies |->
    [turnover |-> SumRows(rows, LAMBDA r : QuoteOf(r.symbol) = c, LAMBDA r : r.gross),
     bought   |-> SumRows(rows, LAMBDA r : QuoteOf(r.symbol) = c /\ r.side = "buy", LAMBDA r : r.gross),
     sold     |-> SumRows(rows, LAMBDA r : QuoteOf(r.symbol) = c /\ r.side = "sell", LAMBDA r : r.gross),
     fees     |-> SumRows(rows, LAMBDA r : r.feeCurrency = c, LAMBDA r : r.fee),
     entryFees |-> SumRows(deals, LAMBDA d : d.entryFeeCurrency = c, LAMBDA d : d.entryFee),
     exitFees |-> SumRows(deals, LAMBDA d : d.exitFeeCurrency = c, LAMBDA d : d.exitFee),
     grossPnL |-> SumRows(deals, LAMBDA d : QuoteOf(d.symbol) = c, LAMBDA d : d.gross),
     netPnL   |-> SumRows(deals, LAMBDA d : QuoteOf(d.symbol) = c, LAMBDA d : d.net)]]

paperEvidenceSummary(rows, deals) == Totals(rows, deals, LAMBDA s : Quote[s])

ExportPaperLifecycleEvidence ==
  [trades |-> TradeRows, closed |-> ClosedRows,
   summary |-> paperEvidenceSummary(TradeRows, ClosedRows)]

-----------------------------------------------------------------------------
(* Readback                                                                *)

NoQuote == "QUOTE"

\* Mutant: the entry row's side of the market is taken for its quote.
QuoteFromTradeFee(evidence, symbol) ==
  LET rows == {i \in DOMAIN evidence.trades : evidence.trades[i].symbol = symbol}
  IN evidence.trades[CHOOSE at \in rows : TRUE].feeCurrency

\* The report holds no markets: the quote currency of a symbol is the fee
\* currency of one of its closed trades, or a turnover currency the symbol
\* ends in.
paperLifecycleEvidenceQuoteCurrency(evidence, symbol) ==
  LET deals == {i \in DOMAIN evidence.closed : evidence.closed[i].symbol = symbol}
  IN IF deals # {} THEN evidence.closed[Min(deals)].exitFeeCurrency
     ELSE IF evidence.summary[Quote[symbol]].turnover # 0 THEN Quote[symbol]
     ELSE NoQuote

aggregatePaperLifecycleRecordedRuns(evidence) ==
  Totals(evidence.trades, evidence.closed,
         LAMBDA s : paperLifecycleEvidenceQuoteCurrency(evidence, s))

\* Mutant: the fee a buyer paid in base stays exposed for ever.
ResidualGross(evidence, id) ==
  SumRows(evidence.trades, LAMBDA r : r.order = id,
          LAMBDA r : IF r.side = "buy" THEN r.base + r.fee ELSE -r.base)

\* The base quantity an order's trades moved.
Residual(evidence, id) ==
  SumRows(evidence.trades, LAMBDA r : r.order = id,
          LAMBDA r : IF r.base < 0 THEN -r.base ELSE r.base)

\* What closed trades allocate back to an order, as entry and as exit.
Allocated(evidence, id) ==
  SumRows(evidence.closed, LAMBDA d : d.entry = id, LAMBDA d : d.quantity)
  + SumRows(evidence.closed, LAMBDA d : d.exit = id, LAMBDA d : d.quantity)

\* The readback refuses a report that closes more than was traded.
Consumable(evidence) ==
  \A id \in OrderIds : Allocated(evidence, id) <= Residual(evidence, id)

\* An order has at most one trade (OneFillPerOrder), hence at most one row.
paperLifecycleEvidenceOpenTradeCount(evidence) ==
  Cardinality({id \in OrderIds : Allocated(evidence, id) < Residual(evidence, id)})

-----------------------------------------------------------------------------
(* Properties                                                              *)

\* Balances, ledger and trades tell the same story: replaying the ledger from
\* the opening balances leaves no drift (ReconcileLedger), and the trade rows
\* alone explain every balance, their net changes summing up to its change
\* since the session started.  The rows recompute from side and fee currency
\* what fillOrder settled and the ledger recorded on the way.
TradesExplainBalances ==
  /\ Drift = {}
  /\ \A c \in Currencies :
       Total(c) - StartBalance[c] =
         SumRows(TradeRows, LAMBDA r : Base[r.symbol] = c, LAMBDA r : r.base)
         + SumRows(TradeRows, LAMBDA r : Quote[r.symbol] = c, LAMBDA r : r.quote)

\* A finished run is always accepted by the readback, which counts exactly the
\* open lots and the sales that found no lot to close, without knowing them
\* (paperLifecycleEvidenceOpenTradeCount).
OpenTradesAreOpenLots ==
  Exportable =>
    LET evidence == ExportPaperLifecycleEvidence
        lots == SumOver(Symbols, LAMBDA s : Len(positions[s]))
        unmatched(t) == t.side = "sell"
                        /\ SumClosed(LAMBDA d : d.exit = t.order, LAMBDA d : d.quantity) < t.quantity
    IN /\ Consumable(evidence)
       /\ paperLifecycleEvidenceOpenTradeCount(evidence) =
            lots + Cardinality({t \in AllTrades : unmatched(t)})

\* The totals recomputed from one retained run are the ones it was exported
\* with: turnover, fees and profit land in the same currencies although the
\* readback has to guess each symbol's quote currency.
ReadbackAgreesWithExport ==
  Exportable =>
    LET evidence == ExportPaperLifecycleEvidence
    IN aggregatePaperLifecycleRecordedRuns(evidence) = evidence.summary
=============================================================================

--------------------------- MODULE PaperLifecycle ---------------------------
(***************************************************************************)
(* The credential-free HTX paper account of                                *)
(* pkg/exchanges/htx/paper_lifecycle.go: limit orders lock funds, closed   *)
(* k-line bars fill them, every balance change is journalled in a ledger,  *)
(* bought quantity is kept as FIFO lots and every sale closes lots into    *)
(* realised trades.                                                        *)
(*                                                                         *)
(* A session is confined to one goroutine, so calls do not interleave.     *)
(* SubmitOrder and CancelOrder are single steps.  AdvanceKLines is split   *)
(* where the code can leave it early: one bar at a time, and inside a bar  *)
(* one order at a time (`call`), because a fill error abandons the bar     *)
(* with the earlier fills applied and the bar's cursor not moved.  A batch *)
(* of bars is a run of one-bar calls: nothing else happens between them    *)
(* and a cancelled context may end the batch after any of them.            *)
(*                                                                         *)
(* Amounts are fixed-point integers, Scale units to 1.0; products and      *)
(* quotients truncate.                                                     *)
(***************************************************************************)
EXTENDS Integers, Sequences, FiniteSetsExt

CONSTANTS
  Symbols,      \* configured markets
  Base, Quote,  \* [Symbols -> Currencies]
  Currencies,
  Intervals,    \* k-line intervals the caller asks for
  OrderIds,     \* ids handed out; bounds the number of submitted orders
  Orders,       \* submit requests: [symbol, side, type, price, quantity]
  Bars,         \* klines the source can return: [symbol, interval, end, low, high]
  MaxTime,      \* bounds the session clock
  MaxTradeID,   \* bounds the trade ids, so the retries of a failing bar
  StartBalance, \* [Currencies -> Nat], the opening available balances
  Scale,        \* fixed-point units in 1.0
  FeeRate,      \* taker fee, in units
  TickSize, StepSize, MinQuantity, MinNotional

Sides == {"buy", "sell"}
Submittable == [symbol: Symbols, side: Sides, type: {"limit", "market"},
                price: Nat, quantity: Nat]
Bar == [symbol: Symbols, interval: Intervals, end: Nat, low: Nat, high: Nat]

ASSUME MarketAssumption ==
  /\ Base \in [Symbols -> Currencies]
  /\ Quote \in [Symbols -> Currencies]
  /\ \A s \in Symbols : Base[s] # Quote[s]
ASSUME MarketsAssumption == IsFiniteSet(Symbols)
ASSUME InputAssumption ==
  /\ OrderIds \subseteq Nat \ {0}
  /\ Orders \subseteq Submittable
  /\ Bars \subseteq Bar
  /\ \A b \in Bars : b.end > 0
ASSUME AmountAssumption ==
  /\ StartBalance \in [Currencies -> Nat]
  /\ Scale \in Nat \ {0}
  /\ FeeRate \in Nat
  /\ TickSize \in Nat \ {0}
  /\ StepSize \in Nat \ {0}
  /\ MinQuantity \in Nat
  /\ MinNotional \in Nat
  /\ MaxTime \in Nat
  /\ MaxTradeID \in Nat

VARIABLES
  balances,   \* [Currencies -> [available, locked]]
  orders,     \* [OrderIds -> order record]; status "none" before submission
  trades,     \* [OrderIds -> Seq(trade)]
  ledger,     \* the journal, in sequence order
  positions,  \* [Symbols -> Seq(lot)]
  closed,     \* realised trades
  processed,  \* [Symbols -> [Intervals -> last processed bar end, 0 if none]]
  nextOrder,
  nextTrade,
  now,        \* the session clock
  call        \* the bar being advanced and the orders still to visit, or Idle

vars == <<balances, orders, trades, ledger, positions, closed, processed,
          nextOrder, nextTrade, now, call>>
money == <<balances, ledger>>
books == <<orders, trades, positions, closed>>

NoBar == [symbol |-> "none", interval |-> "none", end |-> 0, low |-> 0, high |-> 0]
Idle == [bar |-> NoBar, ids |-> {}]
-----------------------------------------------------------------------------
(* Fixed-point arithmetic, truncating as bbgo's int64 fixedpoint does.     *)

Mul(a, b) == (a * b) \div Scale
Quotient(a, b) == (a * Scale) \div b

SumOver(S, f(_)) == SumFunctionOnSet([x \in S |-> f(x)], S)

-----------------------------------------------------------------------------
(* Balances and ledger                                                     *)

applyPaperBalanceDelta(bals, c, available, locked) ==
  [bals EXCEPT ![c] = [available |-> @.available + available,
                       locked    |-> @.locked + locked]]

\* Mutant: only the locked balance is tested.
CoveredLockedOnly(bals, c, available, locked) == bals[c].locked + locked >= 0

\* The test applyBalanceDelta makes before it commits a change.
Covered(bals, c, available, locked) ==
  /\ bals[c].available + available >= 0
  /\ bals[c].locked + locked >= 0

LedgerEntry(kind, id, tradeID, c, available, locked, bals) ==
  [kind |-> kind, order |-> id, trade |-> tradeID, currency |-> c,
   available |-> available, locked |-> locked, balance |-> bals[c]]

\* One committed applyBalanceDelta: the balance and its ledger entry.
applyBalanceDelta(kind, id, tradeID, c, available, locked) ==
  /\ Covered(balances, c, available, locked)
  /\ balances' = applyPaperBalanceDelta(balances, c, available, locked)
  /\ ledger' = Append(ledger, LedgerEntry(kind, id, tradeID, c, available,
                                          locked, balances'))

reserveCurrency(order) ==
  IF order.side = "buy" THEN Quote[order.symbol] ELSE Base[order.symbol]

\* Mutant: a buy reserves its notional net of the fee.
ReserveNetOfFee(order, remaining) ==
  IF order.side = "buy" THEN Mul(order.price, remaining - Mul(remaining, FeeRate)) ELSE remaining

paperReserveForRemaining(order, remaining) ==
  IF order.side = "buy" THEN Mul(order.price, remaining) ELSE remaining

paperReserveForOrder(order) == paperReserveForRemaining(order, order.quantity)

-----------------------------------------------------------------------------
(* Submitting and cancelling                                               *)

validateSubmitOrder(order) ==
  /\ order.type = "limit"
  /\ order.price > 0
  /\ order.quantity > 0
  /\ order.price % TickSize = 0
  /\ order.quantity % StepSize = 0
  /\ order.quantity >= MinQuantity
  /\ Mul(order.price, order.quantity) >= MinNotional

NoOrder == [symbol |-> "none", side |-> "none", price |-> 0, quantity |-> 0,
            executed |-> 0, status |-> "none", working |-> FALSE, created |-> 0]

NewOrder(order, at) ==
  [symbol |-> order.symbol, side |-> order.side, price |-> order.price,
   quantity |-> order.quantity, executed |-> 0, status |-> "new",
   working |-> TRUE, created |-> at]

\* A valid submission takes an id first; the id is spent even when the
\* funds cannot be locked.
SubmitOrder(order) ==
  LET c == reserveCurrency(order)
      reserve == paperReserveForOrder(order)
  IN
  /\ call = Idle
  /\ validateSubmitOrder(order)
  /\ nextOrder \in OrderIds
  /\ nextOrder' = nextOrder + 1
  /\ \/ /\ applyBalanceDelta("submit-lock", nextOrder, 0, c, -reserve, reserve)
        /\ orders' = [orders EXCEPT ![nextOrder] = NewOrder(order, now)]
     \/ /\ ~Covered(balances, c, -reserve, reserve)
        /\ UNCHANGED <<money, orders>>
  /\ UNCHANGED <<trades, positions, closed, processed, nextTrade, now, call>>

\* Mutant: a cancelled order keeps working.
CancelledStillWorking(o) == [o EXCEPT !.status = "canceled"]

\* The status CancelOrder leaves.
CancelledOrder(o) ==
  [o EXCEPT !.status = IF o.executed > 0 THEN "partial-canceled" ELSE "canceled",
            !.working = FALSE]

CancelOrder(id) ==
  LET o == orders[id]
      reserve == paperReserveForRemaining(o, o.quantity - o.executed)
  IN
  /\ call = Idle
  /\ o.working
  /\ \/ /\ reserve > 0
        /\ applyBalanceDelta("cancel-unlock", id, 0, reserveCurrency(o), reserve, -reserve)
     \/ /\ reserve = 0
        /\ UNCHANGED money
  /\ orders' = [orders EXCEPT ![id] = CancelledOrder(o)]
  /\ UNCHANGED <<trades, positions, closed, processed, nextOrder, nextTrade, now, call>>

-----------------------------------------------------------------------------
(* Advancing one bar                                                       *)

\* Mutant: the last processed bar may be processed again.
CursorInclusive(bar) == bar.end >= processed[bar.symbol][bar.interval]

\* A bar is processed at most once per symbol and interval, in time order.
nextKLineCursor(bar) == bar.end > processed[bar.symbol][bar.interval]

WorkingOn(symbol) ==
  {id \in OrderIds : orders[id].working /\ orders[id].symbol = symbol}

paperOrderCrossesKLine(o, bar) ==
  \/ o.side = "buy"  /\ bar.low <= o.price
  \/ o.side = "sell" /\ bar.high >= o.price

\* Mutant: the order's age is not looked at.
FillableAtAnyAge(o, bar) == paperOrderCrossesKLine(o, bar)

\* An order is visited only if the bar did not end before it was created.
FillableBy(o, bar) ==
  /\ bar.end >= o.created
  /\ paperOrderCrossesKLine(o, bar)

AdvanceKLine(bar) ==
  /\ call = Idle
  /\ nextTrade <= MaxTradeID
  /\ nextKLineCursor(bar)
  /\ call' = [bar |-> bar, ids |-> WorkingOn(bar.symbol)]
  /\ UNCHANGED <<money, books, processed, nextOrder, nextTrade, now>>

\* The ids are visited in ascending order.
Visiting(id) ==
  /\ call # Idle
  /\ id \in call.ids
  /\ \A other \in call.ids : id <= other

SkipOrder(id) ==
  /\ Visiting(id)
  /\ ~FillableBy(orders[id], call.bar)
  /\ call' = [call EXCEPT !.ids = @ \ {id}]
  /\ UNCHANGED <<money, books, processed, nextOrder, nextTrade, now>>

-----------------------------------------------------------------------------
(* Filling one order: always the whole remaining quantity, at its price    *)

fillQuantity(o) == o.quantity - o.executed
fillNotional(o) == Mul(o.price, fillQuantity(o))
fillFee(o) ==
  Mul(IF o.side = "buy" THEN fillQuantity(o) ELSE fillNotional(o), FeeRate)
\* What the fill credits: base net of fee to a buyer, quote net of fee to a seller.
fillCredit(o) ==
  (IF o.side = "buy" THEN fillQuantity(o) ELSE fillNotional(o)) - fillFee(o)
creditCurrency(o) == IF o.side = "buy" THEN Base[o.symbol] ELSE Quote[o.symbol]

\* Mutant: a buy is debited at the bar's low instead of its limit.
DebitAtBarPrice(o) ==
  IF o.side = "buy" THEN Mul(call.bar.low, fillQuantity(o)) ELSE fillQuantity(o)

\* What the fill takes out of the locked balance.
fillDebit(o) == IF o.side = "buy" THEN fillNotional(o) ELSE fillQuantity(o)

fillAllowed(o) ==
  /\ fillQuantity(o) > 0
  /\ IF o.side = "buy" THEN fillCredit(o) > 0 ELSE fillCredit(o) >= 0

Fill(id, tradeID, at) ==
  LET o == orders[id]
  IN [id |-> tradeID, order |-> id, side |-> o.side, symbol |-> o.symbol,
      price |-> o.price, quantity |-> fillQuantity(o), notional |-> fillNotional(o),
      fee |-> fillFee(o), interval |-> call.bar.interval, time |-> at]

FilledOrder(o) ==
  [o EXCEPT !.executed = o.quantity, !.status = "filled", !.working = FALSE]

\* Mutant: the lot keeps the quantity the fee was taken from.
BoughtLotGross(o, id) ==
  [order |-> id, quantity |-> fillQuantity(o),
   entryNotional |-> Mul(o.price, fillCredit(o)),
   entryFee |-> Mul(o.price, fillFee(o))]

BoughtLot(o, id) ==
  [order |-> id, quantity |-> fillCredit(o),
   entryNotional |-> Mul(o.price, fillCredit(o)),
   entryFee |-> Mul(o.price, fillFee(o))]

\* Mutant: the newest lot goes to the front of the queue.
OpenLotFirst(lots, lot) == <<lot>> \o lots

OpenLot(lots, lot) == Append(lots, lot)

\* Lots are consumed oldest first: Ahead(lots, i) is the quantity ahead of
\* lot i, and a sale of q takes CloseQuantity(lots, q, i) of it.
Ahead(lots, i) == SumOver(1..(i - 1), LAMBDA j : lots[j].quantity)

CloseQuantity(lots, q, i) == Min({lots[i].quantity, Max({0, q - Ahead(lots, i)})})

\* The part of an amount that belongs to quantity part of quantity whole.
Allocate(amount, part, whole) ==
  IF part < whole THEN Quotient(Mul(amount, part), whole) ELSE amount

ClosedPart(lot, part, trade) ==
  LET entryNotional == Allocate(lot.entryNotional, part, lot.quantity)
      entryFee == Allocate(lot.entryFee, part, lot.quantity)
      exitNotional == Mul(trade.price, part)
      exitFee == Allocate(trade.fee, part, trade.quantity)
  IN [symbol |-> trade.symbol, entry |-> lot.order, exit |-> trade.order,
      quantity |-> part, entryNotional |-> entryNotional, entryFee |-> entryFee,
      exitNotional |-> exitNotional, exitFee |-> exitFee,
      pnl |-> exitNotional - exitFee - entryNotional - entryFee]

\* Mutant: a partly closed lot keeps its whole entry cost.
LotAfterFullCost(lot, part) == [lot EXCEPT !.quantity = @ - part]

LotAfter(lot, part) ==
  [lot EXCEPT !.quantity = @ - part,
              !.entryNotional = @ - Allocate(@, part, lot.quantity),
              !.entryFee = @ - Allocate(@, part, lot.quantity)]

\* The lots a sale touches are a prefix; only the last can be left over.
closePositionLots(trade) ==
  LET lots == positions[trade.symbol]
      part(i) == CloseQuantity(lots, trade.quantity, i)
      touched == Cardinality({i \in DOMAIN lots : part(i) > 0})
      survivor(i) == i > touched \/ part(i) < lots[i].quantity
      first == Cardinality({i \in DOMAIN lots : ~survivor(i)}) + 1
      rest == [i \in DOMAIN lots |-> LotAfter(lots[i], part(i))]
  IN /\ closed' = closed \o [i \in 1..touched |-> ClosedPart(lots[i], part(i), trade)]
     /\ positions' = [positions EXCEPT ![trade.symbol] = SubSeq(rest, first, Len(lots))]

\* The two ledger movements of a fill: the reserve leaves the locked
\* balance, the net proceeds become available.
Settle(id, tradeID) ==
  LET o == orders[id]
      in == creditCurrency(o)
      out == reserveCurrency(o)
      debited == applyPaperBalanceDelta(balances, out, 0, -fillDebit(o))
  IN /\ Covered(balances, out, 0, -fillDebit(o))
     /\ balances' = applyPaperBalanceDelta(debited, in, fillCredit(o), 0)
     /\ ledger' = ledger \o
          <<LedgerEntry("fill-debit", id, tradeID, out, 0, -fillDebit(o), debited),
            LedgerEntry("fill-credit", id, tradeID, in, fillCredit(o), 0, balances')>>

\* A fill consumes the trade id, settles, books the lot or closes lots, and
\* closes the order.
fillOrder(id) ==
  LET o == orders[id]
      trade == Fill(id, nextTrade, call.bar.end)
  IN
  /\ Visiting(id)
  /\ FillableBy(o, call.bar)
  /\ fillAllowed(o)
  /\ Settle(id, nextTrade)
  /\ nextTrade' = nextTrade + 1
  /\ IF o.side = "buy"
     THEN /\ positions' = [positions EXCEPT ![o.symbol] = OpenLot(@, BoughtLot(o, id))]
          /\ UNCHANGED closed
     ELSE closePositionLots(trade)
  /\ orders' = [orders EXCEPT ![id] = FilledOrder(o)]
  /\ trades' = [trades EXCEPT ![id] = Append(@, trade)]
  /\ call' = [call EXCEPT !.ids = @ \ {id}]
  /\ UNCHANGED <<processed, nextOrder, now>>

\* A fill that cannot be paid or whose fee eats the quantity abandons the
\* bar: the trade id is spent, earlier fills stay, the cursor does not move.
FillError(id) ==
  LET o == orders[id]
  IN
  /\ Visiting(id)
  /\ FillableBy(o, call.bar)
  /\ \/ ~fillAllowed(o)
     \/ ~Covered(balances, reserveCurrency(o), 0, -fillDebit(o))

\* Mutant: a failing order is skipped and the bar goes on.
SkipFailingOrder(id) ==
  /\ FillError(id)
  /\ nextTrade' = nextTrade + 1
  /\ call' = [call EXCEPT !.ids = @ \ {id}]
  /\ UNCHANGED <<money, books, processed, nextOrder, now>>

AbandonBar(id) ==
  /\ FillError(id)
  /\ nextTrade' = nextTrade + 1
  /\ call' = Idle
  /\ UNCHANGED <<money, books, processed, nextOrder, now>>

\* The bar goes on to its next order unless fillOrder failed.
AdvanceOrder(id) == IF FillError(id) THEN AbandonBar(id) ELSE fillOrder(id)

markKLineProcessed ==
  /\ call # Idle
  /\ call.ids = {}
  /\ processed' = [processed EXCEPT ![call.bar.symbol][call.bar.interval] = call.bar.end]
  /\ call' = Idle
  /\ UNCHANGED <<money, books, nextOrder, nextTrade, now>>

-----------------------------------------------------------------------------
Tick ==
  /\ call = Idle
  /\ now < MaxTime
  /\ now' = now + 1
  /\ UNCHANGED <<money, books, processed, nextOrder, nextTrade, call>>

Init ==
  /\ balances = [c \in Currencies |-> [available |-> StartBalance[c], locked |-> 0]]
  /\ orders = [id \in OrderIds |-> NoOrder]
  /\ trades = [id \in OrderIds |-> <<>>]
  /\ ledger = <<>>
  /\ positions = [s \in Symbols |-> <<>>]
  /\ closed = <<>>
  /\ processed = [s \in Symbols |-> [i \in Intervals |-> 0]]
  /\ nextOrder = 1
  /\ nextTrade = 1
  /\ now = 1
  /\ call = Idle

Next ==
  \/ \E order \in Orders : SubmitOrder(order)
  \/ \E id \in OrderIds : CancelOrder(id)
  \/ \E bar \in Bars : AdvanceKLine(bar)
  \/ \E id \in OrderIds : SkipOrder(id) \/ AdvanceOrder(id)
  \/ markKLineProcessed
  \/ Tick

Spec == Init /\ [][Next]_vars

-----------------------------------------------------------------------------
(* Properties                                                              *)

Order == [symbol: Symbols, side: Sides, price: Nat, quantity: Nat, executed: Nat,
          status: {"new", "filled", "canceled", "partial-canceled"},
          working: BOOLEAN, created: Nat]
Trade == [id: Nat, order: OrderIds, side: Sides, symbol: Symbols, price: Nat,
          quantity: Nat, notional: Nat, fee: Nat, interval: Intervals, time: Nat]
Lot == [order: OrderIds, quantity: Nat, entryNotional: Nat, entryFee: Nat]
Entry == [kind: {"submit-lock", "cancel-unlock", "fill-debit", "fill-credit"},
          order: OrderIds, trade: Nat, currency: Currencies,
          available: Int, locked: Int, balance: [available: Nat, locked: Nat]]

\* The types the account itself depends on.
AccountTypeOK ==
  /\ balances \in [Currencies -> [available: Nat, locked: Nat]]
  /\ orders \in [OrderIds -> Order \cup {NoOrder}]
  /\ trades \in [OrderIds -> Seq(Trade)]
  /\ ledger \in Seq(Entry)
  /\ processed \in [Symbols -> [Intervals -> Nat]]
  /\ nextOrder \in Nat \ {0}
  /\ nextTrade \in Nat \ {0}
  /\ now \in Nat
  /\ \/ call = Idle
     \/ call.bar \in Bars /\ call.ids \subseteq WorkingOn(call.bar.symbol)
                          /\ call = [bar |-> call.bar, ids |-> call.ids]

\* Type invariant: the account, and its derived lots and realised trades.
TypeOK ==
  /\ AccountTypeOK
  /\ positions \in [Symbols -> Seq(Lot)]
  /\ \A i \in DOMAIN closed : closed[i].quantity > 0 /\ closed[i].pnl \in Int

Filled(id) == orders[id].status = "filled"
Total(c) == balances[c].available + balances[c].locked
AllTrades == UNION {{trades[id][i] : i \in DOMAIN trades[id]} : id \in OrderIds}
SumLots(s, f(_)) == SumOver(DOMAIN positions[s], LAMBDA i : f(positions[s][i]))
SumClosed(Test(_), f(_)) ==
  SumOver({i \in DOMAIN closed : Test(closed[i])}, LAMBDA i : f(closed[i]))

\* The locked balance of every currency is exactly what the working orders
\* reserved there: submit, cancel and fill agree on the amount, whatever the
\* rounding, so nothing stays locked for ever and no order spends another's
\* reserve (applyBalanceDelta, paperReserveForRemaining).  On a market with a
\* minimum notional a working order always has something locked.
LockedBacksWorkingOrders ==
  /\ \A c \in Currencies :
       balances[c].locked =
         SumOver({id \in OrderIds : orders[id].working /\ reserveCurrency(orders[id]) = c},
                 LAMBDA id : paperReserveForOrder(orders[id]))
  /\ \A id \in OrderIds :
       orders[id].working /\ MinNotional > 0 => paperReserveForOrder(orders[id]) > 0

\* A crossing order can always be settled: the error paths of fillOrder are
\* unreachable while the fee rate is below 100%.
FillsAlwaysSettle == \A id \in OrderIds : ~FillError(id)

\* An order is filled at most once, also when the bar that filled it is
\* abandoned by a later order's error and advanced again; it has a trade
\* exactly when it is filled, and never before it was submitted.
OneFillPerOrder ==
  \A id \in OrderIds :
    /\ Len(trades[id]) = IF Filled(id) THEN 1 ELSE 0
    /\ Filled(id) =>
         /\ trades[id][1].quantity = orders[id].quantity
         /\ trades[id][1].time >= orders[id].created

\* What OneFillPerOrder rests on: ids at or above nextOrder are unused, a
\* working order is wholly unfilled, and an advancing call still has to visit
\* every order its bar could fill.
BooksConsistent ==
  /\ \A id \in OrderIds :
       /\ id >= nextOrder => orders[id] = NoOrder
       /\ orders[id].working => orders[id].executed = 0 /\ orders[id].quantity > 0
       /\ orders[id].working <=> orders[id].status = "new"
       /\ Len(trades[id]) = IF Filled(id) THEN 1 ELSE 0
       /\ Filled(id) => trades[id][1].quantity = orders[id].quantity
       /\ Filled(id) => trades[id][1].time >= orders[id].created
  /\ call # Idle =>
       /\ call.bar.end > processed[call.bar.symbol][call.bar.interval]
       /\ \A id \in WorkingOn(call.bar.symbol) :
            FillableBy(orders[id], call.bar) => id \in call.ids

\* Every fill comes from a bar that had not been processed yet.
FillsComeFromFreshBars ==
  [][\A id \in OrderIds :
       trades'[id] # trades[id] =>
         call.bar.end > processed[call.bar.symbol][call.bar.interval]]_vars

\* When a bar's cursor moves, no order the bar could have filled is left
\* working: a fill error never lets the bar be committed over an order.
CommittedBarsLeaveNoCrossingOrder ==
  [][processed' # processed =>
       \A id \in WorkingOn(call.bar.symbol) : ~FillableBy(orders[id], call.bar)]_vars

\* A filled or cancelled order never changes again.
ClosedOrdersAreFinal ==
  [][\A id \in OrderIds :
       orders[id].status \in {"filled", "canceled"} => orders'[id] = orders[id]]_vars

\* The open lots of a market are backed by base currency held, and with the
\* opening balance they account for all of it: closing lots never loses or
\* invents quantity (closePositionLots).  Stated for a market whose base
\* currency no other market trades; no lot is ever empty in any market.
LotsMatchHoldings ==
  \A s \in Symbols :
    /\ \A i \in DOMAIN positions[s] : positions[s][i].quantity > 0
    /\ (\A r \in Symbols : r # s => Base[s] \notin {Base[r], Quote[r]})
         => LET open == SumLots(s, LAMBDA lot : lot.quantity)
            IN /\ open <= Total(Base[s])
               /\ Total(Base[s]) <= StartBalance[Base[s]] + open

\* Lots are closed first in, first out: in fill order of their entries.
ClosesOldestLotFirst ==
  \A i, j \in DOMAIN closed :
    i < j /\ closed[i].symbol = closed[j].symbol =>
      trades[closed[i].entry][1].id <= trades[closed[j].entry][1].id

\* Rounding the books may lose: a unit per bought lot (cost split between
\* notional and fee) and, per close, one for the exit notional and one, times
\* the scale over the sold quantity, for the share of the exit fee.
RoundingSlack(s) ==
  Cardinality({t \in AllTrades : t.symbol = s /\ t.side = "buy"})
  + SumClosed(LAMBDA c : c.symbol = s,
              LAMBDA c : 2 + Scale \div trades[c.exit][1].quantity)


\* The account seen from outside: free funds, what each order holds, and where
\* each order is in its life.
OrderPhase(o) == IF o.status = "none" THEN "none" ELSE IF o.working THEN "open" ELSE "done"
NoHold == [currency |-> "none", amount |-> 0]
Hold(o) ==
  IF o.working
  THEN [currency |-> reserveCurrency(o), amount |-> paperReserveForOrder(o)]
  ELSE NoHold

Account == INSTANCE PaperAccount WITH
  free  <- [c \in Currencies |-> balances[c].available],
  held  <- [id \in OrderIds |-> Hold(orders[id])],
  phase <- [id \in OrderIds |-> OrderPhase(orders[id])]

\* The session implements the abstract account: free funds move only by an
\* order reserving, getting back exactly what it reserved, or settling once.
ImplementsAccount == Account!Spec

\* The realised profit reported for a market is the cash it moved: change of
\* the quote balance = sum of closed-trade PnL - cost of the open lots, up to
\* rounding.  Stated for a market that has both its currencies to itself and
\* whose base started empty (every sale then closes lots).
RealizedPnLMatchesCash ==
  \A s \in Symbols :
    /\ StartBalance[Base[s]] = 0
    /\ \A r \in Symbols : r # s => {Base[s], Quote[s]} \cap {Base[r], Quote[r]} = {}
    => LET pnl == SumClosed(LAMBDA c : c.symbol = s, LAMBDA c : c.pnl)
           cost == SumLots(s, LAMBDA lot : lot.entryNotional + lot.entryFee)
           error == Total(Quote[s]) - StartBalance[Quote[s]] - (pnl - cost)
       IN -RoundingSlack(s) <= error /\ error <= RoundingSlack(s)
=============================================================================

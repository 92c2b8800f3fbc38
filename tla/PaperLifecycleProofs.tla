----------------------- MODULE PaperLifecycleProofs -----------------------
(***************************************************************************)
(* Proofs about PaperLifecycle, for any markets, orders, bars and amounts. *)
(* AccountTypeOK is inductive by itself; with BooksConsistent it is the    *)
(* invariant that the properties of fills, of the cursor and the           *)
(* refinement of PaperAccount follow from.  PaperReplay, the session with  *)
(* its sources of bars, implements PaperLifecycle: it only takes the       *)
(* session's steps, so all theorems about the session hold of it; and the  *)
(* batches it advances leave no crossing order behind.                     *)
(***************************************************************************)
EXTENDS PaperReplay, TLAPS

\* A product of amounts is an amount.
LEMMA MulIsAmount == ASSUME NEW a \in Nat, NEW b \in Nat PROVE Mul(a, b) \in Nat
<1>1. a * b \in Nat
  OBVIOUS
<1>2. QED
  BY <1>1, AmountAssumption DEF Mul

\* What a submission locks is an amount.
LEMMA ReserveIsAmount ==
  ASSUME NEW o, o.price \in Nat, o.quantity \in Nat
  PROVE  paperReserveForOrder(o) \in Nat
BY MulIsAmount DEF paperReserveForOrder, paperReserveForRemaining

\* The currencies an order reserves and is credited in are the market's two.
LEMMA OrderCurrencies ==
  ASSUME NEW o, o.symbol \in Symbols
  PROVE  /\ reserveCurrency(o) \in Currencies
         /\ creditCurrency(o) \in Currencies
         /\ creditCurrency(o) # reserveCurrency(o)
BY MarketAssumption DEF reserveCurrency, creditCurrency

\* The amounts of a fill that the code lets through.
LEMMA FillAmounts ==
  ASSUME NEW o \in Order, fillAllowed(o)
  PROVE  /\ fillQuantity(o) \in Nat
         /\ fillNotional(o) \in Nat
         /\ fillFee(o) \in Nat
         /\ fillDebit(o) \in Nat
         /\ fillCredit(o) \in Nat
<1>1. fillQuantity(o) \in Nat
  BY DEF Order, fillAllowed, fillQuantity
<1>2. fillNotional(o) \in Nat
  BY <1>1, MulIsAmount DEF Order, fillNotional
<1>3. fillFee(o) \in Nat
  BY <1>1, <1>2, MulIsAmount, AmountAssumption DEF fillFee
<1>4. fillCredit(o) \in Nat
  BY <1>1, <1>2, <1>3 DEF fillAllowed, fillCredit
<1>5. QED
  BY <1>1, <1>2, <1>3, <1>4 DEF fillDebit

-----------------------------------------------------------------------------
\* A committed balance change keeps the balances and the ledger well typed.
LEMMA DeltaTypes ==
  ASSUME balances \in [Currencies -> [available: Nat, locked: Nat]],
         ledger \in Seq(Entry),
         NEW kind \in {"submit-lock", "cancel-unlock", "fill-debit", "fill-credit"},
         NEW id \in OrderIds, NEW t \in Nat, NEW c \in Currencies,
         NEW av \in Int, NEW lk \in Int,
         applyBalanceDelta(kind, id, t, c, av, lk)
  PROVE  /\ balances' \in [Currencies -> [available: Nat, locked: Nat]]
         /\ ledger' \in Seq(Entry)
<1>1. balances' \in [Currencies -> [available: Nat, locked: Nat]]
  BY DEF applyBalanceDelta, Covered, applyPaperBalanceDelta
<1>2. LedgerEntry(kind, id, t, c, av, lk, balances') \in Entry
  BY <1>1 DEF LedgerEntry, Entry
<1>3. QED
  BY <1>1, <1>2 DEF applyBalanceDelta

LEMMA SettleTypes ==
  ASSUME balances \in [Currencies -> [available: Nat, locked: Nat]],
         ledger \in Seq(Entry),
         NEW id \in OrderIds, NEW t \in Nat,
         orders[id] \in Order, fillAllowed(orders[id]), Settle(id, t)
  PROVE  /\ balances' \in [Currencies -> [available: Nat, locked: Nat]]
         /\ ledger' \in Seq(Entry)
<1> DEFINE o == orders[id]
           in == creditCurrency(o)
           out == reserveCurrency(o)
           debited == applyPaperBalanceDelta(balances, out, 0, -fillDebit(o))
<1>1. in \in Currencies /\ out \in Currencies
  BY OrderCurrencies DEF Order
<1>2. fillDebit(o) \in Nat /\ fillCredit(o) \in Nat
  BY FillAmounts
<1>3. debited \in [Currencies -> [available: Nat, locked: Nat]]
  BY <1>1, <1>2, SMTT(30) DEF Settle, Covered, applyPaperBalanceDelta
<1>4. balances' \in [Currencies -> [available: Nat, locked: Nat]]
  <2> HIDE DEF debited, in
  <2>1. balances' = applyPaperBalanceDelta(debited, in, fillCredit(o), 0)
    BY DEF Settle, debited, in
  <2>2. QED
    BY <2>1, <1>1, <1>2, <1>3, SMTT(30) DEF applyPaperBalanceDelta
<1>5. LedgerEntry("fill-debit", id, t, out, 0, -fillDebit(o), debited) \in Entry
  BY <1>1, <1>2, <1>3 DEF LedgerEntry, Entry
<1>6. LedgerEntry("fill-credit", id, t, in, fillCredit(o), 0, balances') \in Entry
  BY <1>1, <1>2, <1>4 DEF LedgerEntry, Entry
<1>7. QED
  BY <1>4, <1>5, <1>6 DEF Settle

-----------------------------------------------------------------------------
\* The orders a bar visits are working orders of its symbol.
LEMMA VisitedOrder ==
  ASSUME AccountTypeOK, NEW id \in OrderIds, Visiting(id)
  PROVE  /\ call.bar \in Bars
         /\ call.ids \subseteq WorkingOn(call.bar.symbol)
         /\ call = [bar |-> call.bar, ids |-> call.ids]
         /\ orders[id] \in Order
         /\ orders[id].working
         /\ orders[id].symbol = call.bar.symbol
<1>1. /\ call.bar \in Bars
      /\ call.ids \subseteq WorkingOn(call.bar.symbol)
      /\ call = [bar |-> call.bar, ids |-> call.ids]
  BY DEF AccountTypeOK, Visiting
<1>2. orders[id].working /\ orders[id].symbol = call.bar.symbol
  BY <1>1 DEF Visiting, WorkingOn
<1>3. orders[id] # NoOrder
  BY <1>2 DEF NoOrder
<1>4. QED
  BY <1>1, <1>2, <1>3 DEF AccountTypeOK

LEMMA TypeInit == Init => AccountTypeOK
BY AmountAssumption DEF Init, AccountTypeOK

LEMMA TypeSubmit ==
  ASSUME AccountTypeOK, NEW order \in Orders, SubmitOrder(order)
  PROVE  AccountTypeOK'
<1> DEFINE c == reserveCurrency(order)
           reserve == paperReserveForOrder(order)
<1>1. order \in Submittable /\ nextOrder \in OrderIds /\ nextOrder \in Nat
  BY InputAssumption DEF SubmitOrder, AccountTypeOK
<1>2. c \in Currencies /\ reserve \in Nat
  BY <1>1, OrderCurrencies, ReserveIsAmount DEF Submittable
<1>3. NewOrder(order, now) \in Order
  BY <1>1 DEF NewOrder, Order, Submittable, AccountTypeOK
<1>4. /\ balances' \in [Currencies -> [available: Nat, locked: Nat]]
      /\ ledger' \in Seq(Entry)
  <2>1. CASE applyBalanceDelta("submit-lock", nextOrder, 0, c, -reserve, reserve)
    <3> HIDE DEF c, reserve
    <3>1. -reserve \in Int /\ reserve \in Int
      BY <1>2
    <3>2. QED
      BY <2>1, <1>1, <1>2, <3>1, DeltaTypes DEF AccountTypeOK
  <2>2. CASE UNCHANGED money
    BY <2>2 DEF money, AccountTypeOK
  <2>3. QED
    BY <2>1, <2>2 DEF SubmitOrder
<1>5. orders' \in [OrderIds -> Order \cup {NoOrder}]
  BY <1>1, <1>3 DEF SubmitOrder, AccountTypeOK
<1>6. call' = Idle
  BY DEF SubmitOrder
<1>7. QED
  BY <1>1, <1>4, <1>5, <1>6 DEF SubmitOrder, AccountTypeOK

LEMMA TypeCancel ==
  ASSUME AccountTypeOK, NEW id \in OrderIds, CancelOrder(id)
  PROVE  AccountTypeOK'
<1> DEFINE o == orders[id]
           reserve == paperReserveForRemaining(o, o.quantity - o.executed)
<1>1. o \in Order
  BY DEF CancelOrder, AccountTypeOK, NoOrder
<1>2. /\ balances' \in [Currencies -> [available: Nat, locked: Nat]]
      /\ ledger' \in Seq(Entry)
  <2>1. CASE reserve > 0 /\ applyBalanceDelta("cancel-unlock", id, 0, reserveCurrency(o),
                                               reserve, -reserve)
    <3>1. reserveCurrency(o) \in Currencies
      BY <1>1, OrderCurrencies DEF Order
    <3>2. reserve \in Int
      <4>1. o.price * (o.quantity - o.executed) \in Int
        BY <1>1 DEF Order
      <4>2. QED
        BY <1>1, <4>1, AmountAssumption DEF paperReserveForRemaining, Mul, Order
    <3>3. -reserve \in Int
      BY <3>2
    <3>4. QED
      <4> HIDE DEF reserve
      <4>1. QED
        BY <2>1, <3>1, <3>2, <3>3, DeltaTypes DEF AccountTypeOK
  <2>2. CASE UNCHANGED money
    BY <2>2 DEF money, AccountTypeOK
  <2>3. QED
    BY <2>1, <2>2 DEF CancelOrder
<1>3. orders' \in [OrderIds -> Order \cup {NoOrder}]
  BY <1>1 DEF CancelOrder, CancelledOrder, Order, AccountTypeOK
<1>4. call' = Idle
  BY DEF CancelOrder
<1>5. QED
  BY <1>2, <1>3, <1>4 DEF CancelOrder, AccountTypeOK

LEMMA TypeFill ==
  ASSUME AccountTypeOK, NEW id \in OrderIds, fillOrder(id)
  PROVE  AccountTypeOK'
<1> DEFINE o == orders[id]
           trade == Fill(id, nextTrade, call.bar.end)
<1>1. Visiting(id) /\ fillAllowed(o) /\ Settle(id, nextTrade)
  BY DEF fillOrder
<1>2. /\ call.bar \in Bars
      /\ call.ids \subseteq WorkingOn(call.bar.symbol)
      /\ call = [bar |-> call.bar, ids |-> call.ids]
      /\ o \in Order
  BY <1>1, VisitedOrder
<1>3. /\ balances' \in [Currencies -> [available: Nat, locked: Nat]]
      /\ ledger' \in Seq(Entry)
  BY <1>1, <1>2, SettleTypes DEF AccountTypeOK
<1>4. FilledOrder(o) \in Order
  BY <1>2 DEF FilledOrder, Order
<1>5. orders' = [orders EXCEPT ![id] = FilledOrder(o)]
  BY DEF fillOrder
<1>6. orders' \in [OrderIds -> Order \cup {NoOrder}]
  BY <1>4, <1>5 DEF AccountTypeOK
<1>7. trade \in Trade
  BY <1>1, <1>2, FillAmounts, InputAssumption DEF Fill, Trade, Order, Bar, AccountTypeOK
<1>8. trades' \in [OrderIds -> Seq(Trade)]
  <2> HIDE DEF trade
  <2>1. trades' = [trades EXCEPT ![id] = Append(@, trade)]
    BY DEF fillOrder, trade
  <2>2. QED
    BY <1>7, <2>1 DEF AccountTypeOK
<1>9. call' = [bar |-> call.bar, ids |-> call.ids \ {id}]
  BY <1>2 DEF fillOrder
<1>10. (call.bar \in Bars /\ call.ids \subseteq WorkingOn(call.bar.symbol)
         /\ call = [bar |-> call.bar, ids |-> call.ids])'
  BY <1>2, <1>5, <1>9 DEF WorkingOn, AccountTypeOK
<1>11. (nextTrade \in Nat \ {0})' /\ UNCHANGED <<processed, nextOrder, now>>
  BY DEF fillOrder, AccountTypeOK
<1>12. QED
  BY <1>3, <1>6, <1>8, <1>10, <1>11 DEF AccountTypeOK

LEMMA TypeStep == AccountTypeOK /\ [Next]_vars => AccountTypeOK'
<1> SUFFICES ASSUME AccountTypeOK, [Next]_vars PROVE AccountTypeOK'
  OBVIOUS
<1>1. CASE \E order \in Orders : SubmitOrder(order)
  BY <1>1, TypeSubmit
<1>2. CASE \E id \in OrderIds : CancelOrder(id)
  BY <1>2, TypeCancel
<1>3. ASSUME NEW bar \in Bars, AdvanceKLine(bar) PROVE AccountTypeOK'
  BY <1>3 DEF AdvanceKLine, AccountTypeOK, money, books, WorkingOn
<1>4. ASSUME NEW id \in OrderIds, SkipOrder(id) PROVE AccountTypeOK'
  <2>1. /\ call.bar \in Bars
        /\ call.ids \subseteq WorkingOn(call.bar.symbol)
        /\ call = [bar |-> call.bar, ids |-> call.ids]
    BY <1>4, VisitedOrder DEF SkipOrder
  <2>2. call' = [bar |-> call.bar, ids |-> call.ids \ {id}]
    BY <1>4, <2>1 DEF SkipOrder
  <2>3. UNCHANGED <<money, books, processed, nextOrder, nextTrade, now>>
    BY <1>4 DEF SkipOrder
  <2>4. (call.bar \in Bars /\ call.ids \subseteq WorkingOn(call.bar.symbol)
           /\ call = [bar |-> call.bar, ids |-> call.ids])'
    BY <2>1, <2>2, <2>3 DEF WorkingOn, books
  <2>5. QED
    BY <2>3, <2>4 DEF AccountTypeOK, money, books
<1>5. CASE \E id \in OrderIds : fillOrder(id)
  BY <1>5, TypeFill
<1>6. ASSUME NEW id \in OrderIds, AbandonBar(id) PROVE AccountTypeOK'
  BY <1>6 DEF AbandonBar, AccountTypeOK, money, books, WorkingOn
<1>7. CASE markKLineProcessed
  <2>1. call.bar \in Bar
    BY <1>7, InputAssumption DEF markKLineProcessed, AccountTypeOK
  <2>2. QED
    BY <1>7, <2>1 DEF markKLineProcessed, AccountTypeOK, money, books, WorkingOn, Bar
<1>8. CASE Tick
  BY <1>8 DEF Tick, AccountTypeOK, money, books, WorkingOn
<1>9. CASE UNCHANGED vars
  BY <1>9 DEF vars, AccountTypeOK, WorkingOn
<1>10. QED
  BY <1>1, <1>2, <1>3, <1>4, <1>5, <1>6, <1>7, <1>8, <1>9 DEF Next, AdvanceOrder

\* Type correctness of the account.
THEOREM TypeCorrect == Spec => []AccountTypeOK
BY TypeInit, TypeStep, PTL DEF Spec
-----------------------------------------------------------------------------
(* The books.  An order that is working is unfilled and has no trade, so a *)
(* fill appends its only trade; the advancing call never drops an order    *)
(* its bar could fill.                                                     *)

Invariant == AccountTypeOK /\ BooksConsistent

\* What BooksConsistent says of one order.
OrderConsistent(id) ==
  /\ id >= nextOrder => orders[id] = NoOrder
  /\ orders[id].working => orders[id].executed = 0 /\ orders[id].quantity > 0
  /\ orders[id].working <=> orders[id].status = "new"
  /\ Len(trades[id]) = IF Filled(id) THEN 1 ELSE 0
  /\ Filled(id) => trades[id][1].quantity = orders[id].quantity
  /\ Filled(id) => trades[id][1].time >= orders[id].created

\* What BooksConsistent says of the advancing call.
CallConsistent ==
  call # Idle =>
    /\ call.bar.end > processed[call.bar.symbol][call.bar.interval]
    /\ \A id \in WorkingOn(call.bar.symbol) :
         FillableBy(orders[id], call.bar) => id \in call.ids

LEMMA BooksSplit ==
  BooksConsistent <=> (\A id \in OrderIds : OrderConsistent(id)) /\ CallConsistent
BY DEF BooksConsistent, OrderConsistent, CallConsistent

LEMMA UntouchedOrder ==
  ASSUME NEW id \in OrderIds, OrderConsistent(id),
         UNCHANGED <<orders[id], trades[id]>>,
         AccountTypeOK, nextOrder' \in {nextOrder, nextOrder + 1}
  PROVE  OrderConsistent(id)'
BY InputAssumption DEF OrderConsistent, Filled, AccountTypeOK

LEMMA BooksInit == Init => BooksConsistent
BY DEF Init, BooksConsistent, NoOrder, Filled, Idle

LEMMA BooksSubmit ==
  ASSUME Invariant, NEW order \in Orders, SubmitOrder(order)
  PROVE  BooksConsistent'
<1>1. AccountTypeOK /\ (\A id \in OrderIds : OrderConsistent(id))
  BY BooksSplit DEF Invariant
<1>2. /\ nextOrder \in OrderIds
      /\ nextOrder' = nextOrder + 1
      /\ trades' = trades
      /\ call' = Idle
      /\ order.quantity > 0
  BY DEF SubmitOrder, validateSubmitOrder
<1>3. ASSUME NEW id \in OrderIds PROVE OrderConsistent(id)'
  <2>1. CASE id # nextOrder \/ orders' = orders
    <3>1. orders'[id] = orders[id]
      BY <1>1, <1>2, <2>1 DEF SubmitOrder, AccountTypeOK
    <3>2. QED
      BY <1>1, <1>2, <3>1, UntouchedOrder
  <2>2. CASE id = nextOrder /\ orders' = [orders EXCEPT ![nextOrder] = NewOrder(order, now)]
    <3>1. orders'[id] = NewOrder(order, now)
      BY <1>1, <2>2 DEF AccountTypeOK
    <3>2. Len(trades[id]) = 0
      <4>1. orders[id] = NoOrder
        BY <1>1, <2>2 DEF OrderConsistent, AccountTypeOK
      <4>2. QED
        BY <1>1, <4>1 DEF OrderConsistent, NoOrder, Filled
    <3>3. ~(id >= nextOrder')
      BY <1>1, <1>2, <2>2 DEF AccountTypeOK
    <3>4. QED
      BY <1>2, <3>1, <3>2, <3>3 DEF OrderConsistent, NewOrder, Filled
  <2>3. QED
    BY <2>1, <2>2 DEF SubmitOrder
<1>4. CallConsistent'
  BY <1>2 DEF CallConsistent
<1>5. QED
  BY <1>3, <1>4, BooksSplit DEF BooksConsistent, OrderConsistent, CallConsistent

LEMMA BooksCancel ==
  ASSUME Invariant, NEW c \in OrderIds, CancelOrder(c)
  PROVE  BooksConsistent'
<1>1. AccountTypeOK /\ (\A id \in OrderIds : OrderConsistent(id))
  BY BooksSplit DEF Invariant
<1>2. /\ orders[c].working
      /\ orders' = [orders EXCEPT ![c] = CancelledOrder(orders[c])]
      /\ trades' = trades
      /\ nextOrder' = nextOrder
      /\ call' = Idle
  BY DEF CancelOrder
<1>3. ASSUME NEW id \in OrderIds PROVE OrderConsistent(id)'
  <2>1. CASE id # c
    <3>1. orders'[id] = orders[id]
      BY <1>2, <2>1, <1>1 DEF AccountTypeOK
    <3>2. QED
      BY <1>1, <1>2, <3>1, UntouchedOrder
  <2>2. CASE id = c
    <3>1. orders[c] \in Order
      BY <1>1, <1>2 DEF AccountTypeOK, NoOrder
    <3>2. /\ ~(orders[c].executed > 0)
          /\ orders[c].status = "new"
          /\ ~(c >= nextOrder)
      BY <1>1, <1>2, <3>1 DEF OrderConsistent, NoOrder, Order
    <3>3. orders'[c] = [orders[c] EXCEPT !.status = "canceled", !.working = FALSE]
      BY <1>1, <1>2, <3>2 DEF CancelledOrder, AccountTypeOK
    <3>4. orders'[c].status = "canceled" /\ orders'[c].working = FALSE
      BY <3>1, <3>3 DEF Order
    <3>5. Len(trades[c]) = 0
      BY <1>1, <3>2 DEF OrderConsistent, Filled
    <3>6. QED
      BY <1>2, <2>2, <3>2, <3>4, <3>5 DEF OrderConsistent, Filled
  <2>3. QED
    BY <2>1, <2>2
<1>4. CallConsistent'
  BY <1>2 DEF CallConsistent
<1>5. QED
  BY <1>3, <1>4, BooksSplit DEF BooksConsistent, OrderConsistent, CallConsistent

LEMMA BooksFill ==
  ASSUME Invariant, NEW f \in OrderIds, fillOrder(f)
  PROVE  BooksConsistent'
<1> DEFINE trade == Fill(f, nextTrade, call.bar.end)
<1>1. AccountTypeOK /\ (\A id \in OrderIds : OrderConsistent(id)) /\ CallConsistent
  BY BooksSplit DEF Invariant
<1>2. /\ call # Idle
      /\ FillableBy(orders[f], call.bar)
      /\ orders' = [orders EXCEPT ![f] = FilledOrder(orders[f])]
      /\ trades' = [trades EXCEPT ![f] = Append(@, trade)]
      /\ call' = [call EXCEPT !.ids = @ \ {f}]
      /\ UNCHANGED <<processed, nextOrder>>
      /\ Visiting(f)
  BY DEF fillOrder, Visiting
<1>3. /\ orders[f] \in Order
      /\ orders[f].working
      /\ call = [bar |-> call.bar, ids |-> call.ids]
      /\ call.bar \in Bar
  BY <1>1, <1>2, VisitedOrder, InputAssumption
<1>4. orders'[f].status = "filled" /\ orders'[f].working = FALSE
      /\ orders'[f].created = orders[f].created /\ orders'[f].quantity = orders[f].quantity
      /\ orders'[f] # NoOrder
  BY <1>1, <1>2, <1>3 DEF FilledOrder, Order, AccountTypeOK, NoOrder
<1>5. ASSUME NEW id \in OrderIds PROVE OrderConsistent(id)'
  <2>1. CASE id # f
    <3>1. orders'[id] = orders[id] /\ trades'[id] = trades[id]
      BY <1>1, <1>2, <2>1 DEF AccountTypeOK
    <3>2. QED
      BY <1>1, <1>2, <3>1, UntouchedOrder
  <2>2. CASE id = f
    <3>1. orders[f].executed = 0 /\ ~(f >= nextOrder) /\ orders[f].status = "new"
      BY <1>1, <1>3 DEF OrderConsistent, NoOrder
    <3>2. Len(trades[f]) = 0 /\ trades[f] \in Seq(Trade)
      BY <1>1, <3>1 DEF OrderConsistent, Filled, AccountTypeOK
    <3>3. trades'[f] = Append(trades[f], trade)
      BY <1>1, <1>2 DEF AccountTypeOK
    <3>4. Len(trades'[f]) = 1 /\ trades'[f][1] = trade
      <4> HIDE DEF trade
      <4>1. QED
        BY <3>2, <3>3
    <3>5. trade.quantity = orders[f].quantity /\ trade.time >= orders[f].created
      BY <1>2, <1>3, <3>1 DEF Fill, fillQuantity, FillableBy, Order, Bar
    <3>6. QED
      <4> HIDE DEF trade
      <4>1. QED
        BY <1>2, <1>4, <2>2, <3>1, <3>4, <3>5 DEF OrderConsistent, Filled
  <2>3. QED
    BY <2>1, <2>2
<1>6. CallConsistent'
  <2>1. call' = [bar |-> call.bar, ids |-> call.ids \ {f}]
    BY <1>2, <1>3
  <2>2. call.bar.end > processed[call.bar.symbol][call.bar.interval]
    BY <1>1, <1>2 DEF CallConsistent
  <2>3. ASSUME NEW id \in OrderIds, orders'[id].working, orders'[id].symbol = call.bar.symbol,
               FillableBy(orders'[id], call.bar)
        PROVE  id \in call.ids \ {f}
    <3>1. id # f
      BY <1>4, <2>3
    <3>2. orders'[id] = orders[id]
      BY <1>1, <1>2, <3>1 DEF AccountTypeOK
    <3>3. QED
      BY <1>1, <1>2, <2>3, <3>1, <3>2 DEF CallConsistent, WorkingOn
  <2>4. QED
    BY <1>2, <2>1, <2>2, <2>3 DEF CallConsistent, WorkingOn, FillableBy,
       paperOrderCrossesKLine
<1>7. QED
  BY <1>5, <1>6, BooksSplit DEF BooksConsistent, OrderConsistent, CallConsistent

\* Every other action leaves the orders and trades alone.
LEMMA BooksCall ==
  ASSUME Invariant,
         \/ \E bar \in Bars : AdvanceKLine(bar)
         \/ \E id \in OrderIds : SkipOrder(id) \/ AbandonBar(id)
         \/ markKLineProcessed \/ Tick \/ UNCHANGED vars
  PROVE  BooksConsistent'
<1>1. AccountTypeOK /\ (\A id \in OrderIds : OrderConsistent(id)) /\ CallConsistent
  BY BooksSplit DEF Invariant
<1>2. UNCHANGED <<orders, trades, nextOrder>>
  BY DEF AdvanceKLine, SkipOrder, AbandonBar, markKLineProcessed, Tick, vars, money, books
<1>3. \A id \in OrderIds : OrderConsistent(id)'
  BY <1>1, <1>2, UntouchedOrder
<1>4. CASE call' = Idle
  BY <1>4, <1>3, BooksSplit DEF BooksConsistent, OrderConsistent, CallConsistent
<1>5. CallConsistent'
  <2>1. ASSUME NEW bar \in Bars, AdvanceKLine(bar) PROVE CallConsistent'
    BY <2>1 DEF AdvanceKLine, CallConsistent, nextKLineCursor, WorkingOn, books
  <2>2. ASSUME NEW id \in OrderIds, SkipOrder(id) PROVE CallConsistent'
    <3>1. call = [bar |-> call.bar, ids |-> call.ids]
      BY <1>1, <2>2, VisitedOrder DEF SkipOrder
    <3>2. call' = [bar |-> call.bar, ids |-> call.ids \ {id}] /\ call # Idle
      BY <2>2, <3>1 DEF SkipOrder, Visiting
    <3>3. UNCHANGED <<processed, orders>> /\ ~FillableBy(orders[id], call.bar)
      BY <2>2 DEF SkipOrder, books
    <3>4. QED
      BY <1>1, <3>2, <3>3 DEF CallConsistent, WorkingOn, FillableBy, paperOrderCrossesKLine
  <2>3. CASE UNCHANGED <<call, processed, orders>>
    BY <1>1, <2>3 DEF CallConsistent, WorkingOn, FillableBy, paperOrderCrossesKLine
  <2>4. CASE call' = Idle
    BY <2>4 DEF CallConsistent
  <2>5. QED
    BY <2>1, <2>2, <2>3, <2>4 DEF AbandonBar, markKLineProcessed, Tick, vars, money, books
<1>6. QED
  BY <1>3, <1>5, BooksSplit DEF BooksConsistent, OrderConsistent, CallConsistent

LEMMA InvariantStep == Invariant /\ [Next]_vars => Invariant'
<1> SUFFICES ASSUME Invariant, [Next]_vars PROVE Invariant'
  OBVIOUS
<1>1. AccountTypeOK'
  BY TypeStep DEF Invariant
<1>2. BooksConsistent'
  BY BooksSubmit, BooksCancel, BooksFill, BooksCall DEF Next, AdvanceOrder
<1>3. QED
  BY <1>1, <1>2 DEF Invariant

LEMMA InvariantHolds == Spec => []Invariant
<1>1. Init => Invariant
  BY TypeInit, BooksInit DEF Invariant
<1>2. QED
  BY <1>1, InvariantStep, PTL DEF Spec

\* An order has at most one fill, of its whole quantity and not before it was
\* submitted, whatever bars are abandoned and advanced again.
THEOREM FilledOnce == Spec => []OneFillPerOrder
<1>1. Invariant => OneFillPerOrder
  BY DEF Invariant, BooksConsistent, OneFillPerOrder
<1>2. QED
  BY <1>1, InvariantHolds, PTL

-----------------------------------------------------------------------------
(* Action properties                                                       *)

\* Every fill comes from a bar whose cursor had not passed it.
THEOREM FreshBars == Spec => FillsComeFromFreshBars
<1>1. ASSUME Invariant, [Next]_vars, NEW id \in OrderIds, trades'[id] # trades[id]
      PROVE  call.bar.end > processed[call.bar.symbol][call.bar.interval]
  <2>1. \E f \in OrderIds : fillOrder(f)
    BY <1>1 DEF Next, AdvanceOrder, SubmitOrder, CancelOrder, AdvanceKLine, SkipOrder, AbandonBar,
       markKLineProcessed, Tick, vars, books
  <2>2. call # Idle
    BY <2>1 DEF fillOrder, Visiting
  <2>3. QED
    BY <1>1, <2>2 DEF Invariant, BooksConsistent
<1>2. Invariant /\ [Next]_vars =>
        [\A id \in OrderIds : trades'[id] # trades[id] =>
           call.bar.end > processed[call.bar.symbol][call.bar.interval]]_vars
  BY <1>1
<1>3. QED
  BY <1>2, InvariantHolds, PTL DEF Spec, FillsComeFromFreshBars

\* The cursor only passes a bar when every order it crosses has been filled.
THEOREM NoOrderSkipped == Spec => CommittedBarsLeaveNoCrossingOrder
<1>1. ASSUME Invariant, [Next]_vars, processed' # processed,
             NEW id \in WorkingOn(call.bar.symbol)
      PROVE  ~FillableBy(orders[id], call.bar)
  <2>1. markKLineProcessed
    BY <1>1 DEF Next, AdvanceOrder, SubmitOrder, CancelOrder, AdvanceKLine, SkipOrder, fillOrder,
       AbandonBar, Tick, vars
  <2>2. call # Idle /\ call.ids = {}
    BY <2>1 DEF markKLineProcessed
  <2>3. QED
    BY <1>1, <2>2 DEF Invariant, BooksConsistent
<1>2. Invariant /\ [Next]_vars =>
        [processed' # processed =>
           \A id \in WorkingOn(call.bar.symbol) : ~FillableBy(orders[id], call.bar)]_vars
  BY <1>1
<1>3. QED
  BY <1>2, InvariantHolds, PTL DEF Spec, CommittedBarsLeaveNoCrossingOrder

\* A filled or cancelled order is never touched again.
THEOREM OrderFinality == Spec => ClosedOrdersAreFinal
<1>1. ASSUME Invariant, [Next]_vars, NEW id \in OrderIds,
             orders[id].status \in {"filled", "canceled"}
      PROVE  orders'[id] = orders[id]
  <2>0. AccountTypeOK /\ ~orders[id].working /\ orders[id] # NoOrder /\ ~(id >= nextOrder)
    BY <1>1 DEF Invariant, BooksConsistent, NoOrder
  <2>1. CASE \E order \in Orders : SubmitOrder(order)
    <3>1. id # nextOrder
      BY <2>0, <2>1 DEF AccountTypeOK
    <3>2. QED
      BY <2>0, <2>1, <3>1 DEF SubmitOrder, AccountTypeOK
  <2>2. CASE \E c \in OrderIds : CancelOrder(c)
    BY <2>0, <2>2 DEF CancelOrder, AccountTypeOK
  <2>3. ASSUME NEW f \in OrderIds, fillOrder(f) PROVE orders'[id] = orders[id]
    <3>1. orders[f].working
      BY <2>0, <2>3, VisitedOrder DEF fillOrder
    <3>2. QED
      BY <2>0, <2>3, <3>1 DEF fillOrder, AccountTypeOK
  <2>4. CASE UNCHANGED orders
    BY <2>4
  <2>5. QED
    BY <1>1, <2>1, <2>2, <2>3, <2>4 DEF Next, AdvanceOrder, AdvanceKLine, SkipOrder, AbandonBar,
       markKLineProcessed, Tick, vars, books
<1>2. Invariant /\ [Next]_vars =>
        [\A id \in OrderIds : orders[id].status \in {"filled", "canceled"} =>
           orders'[id] = orders[id]]_vars
  BY <1>1
<1>3. QED
  BY <1>2, InvariantHolds, PTL DEF Spec, ClosedOrdersAreFinal

-----------------------------------------------------------------------------
(* Refinement: Submit is Reserve, Cancel is Release, a fill is Settle, and *)
(* everything else, a failed submission included, stutters.                *)

freeFunds == [c \in Currencies |-> balances[c].available]
holds == [id \in OrderIds |-> Hold(orders[id])]
phases == [id \in OrderIds |-> OrderPhase(orders[id])]

LEMMA AccountInit == Init => Account!Init
<1> SUFFICES ASSUME Init PROVE Account!Init
  OBVIOUS
<1>1. freeFunds = [c \in Currencies |-> StartBalance[c]]
  BY DEF Init, freeFunds
<1>2. holds = [id \in OrderIds |-> NoHold]
  BY DEF Init, holds, Hold, NoOrder
<1>3. phases = [id \in OrderIds |-> "none"]
  BY DEF Init, phases, OrderPhase, NoOrder
<1>4. QED
  BY <1>1, <1>2, <1>3 DEF Account!Init, freeFunds, holds, phases

\* A change of one currency's available balance changes one free fund.
LEMMA FreeAfterDelta ==
  ASSUME AccountTypeOK, NEW c \in Currencies, NEW av \in Int, NEW lk \in Int,
         balances' = applyPaperBalanceDelta(balances, c, av, lk)
  PROVE  freeFunds' = [freeFunds EXCEPT ![c] = @ + av]
BY DEF AccountTypeOK, applyPaperBalanceDelta, freeFunds

\* A change of one order changes one hold and one phase.
LEMMA HoldAfter ==
  ASSUME AccountTypeOK, NEW id \in OrderIds, NEW o, orders' = [orders EXCEPT ![id] = o]
  PROVE  /\ holds' = [holds EXCEPT ![id] = Hold(o)]
         /\ phases' = [phases EXCEPT ![id] = OrderPhase(o)]
BY DEF AccountTypeOK, holds, phases

LEMMA AccountSubmit ==
  ASSUME Invariant, NEW order \in Orders, SubmitOrder(order)
  PROVE  Account!Next \/ UNCHANGED <<freeFunds, holds, phases>>
<1> DEFINE c == reserveCurrency(order)
           reserve == paperReserveForOrder(order)
           o == NewOrder(order, now)
           id == nextOrder
<1>1. /\ AccountTypeOK
      /\ id \in OrderIds
      /\ orders[id] = NoOrder
      /\ order \in Submittable
  BY InputAssumption DEF Invariant, BooksConsistent, AccountTypeOK, SubmitOrder
<1>2. c \in Currencies /\ reserve \in Nat
  BY <1>1, OrderCurrencies, ReserveIsAmount DEF Submittable
<1>3. CASE UNCHANGED <<money, orders>>
  BY <1>3 DEF money, freeFunds, holds, phases
<1>4. CASE /\ applyBalanceDelta("submit-lock", id, 0, c, -reserve, reserve)
           /\ orders' = [orders EXCEPT ![id] = o]
  <2>1. Hold(o) = [currency |-> c, amount |-> reserve] /\ OrderPhase(o) = "open"
    BY DEF Hold, NewOrder, OrderPhase, reserveCurrency, paperReserveForOrder,
       paperReserveForRemaining
  <2> HIDE DEF c, reserve, o
  <2>2. -reserve \in Int /\ reserve \in Int
    BY <1>2
  <2>3. freeFunds' = [freeFunds EXCEPT ![c] = @ + (-reserve)]
    BY <1>1, <1>2, <1>4, <2>2, FreeAfterDelta DEF applyBalanceDelta
  <2>4. freeFunds \in [Currencies -> Nat] /\ freeFunds'[c] \in Nat
    BY <1>1, <1>2, <1>4, <2>3 DEF freeFunds, applyBalanceDelta, Covered, AccountTypeOK
  <2>5. /\ freeFunds'[c] <= freeFunds[c]
        /\ freeFunds[c] - freeFunds'[c] = reserve
        /\ freeFunds' = [freeFunds EXCEPT ![c] = freeFunds'[c]]
    BY <1>2, <2>2, <2>3, <2>4
  <2>6. /\ holds' = [holds EXCEPT ![id] = [currency |-> c, amount |-> reserve]]
        /\ phases' = [phases EXCEPT ![id] = "open"]
    <3>1. /\ holds' = [holds EXCEPT ![id] = Hold(o)]
          /\ phases' = [phases EXCEPT ![id] = OrderPhase(o)]
      BY <1>1, <1>4, HoldAfter
    <3>2. QED
      BY <2>1, <3>1
  <2>7. phases[id] = "none"
    BY <1>1 DEF phases, OrderPhase, NoOrder
  <2>8. Account!Reserve(id, c)
    BY <2>4, <2>5, <2>6, <2>7
    DEF Account!Reserve, Account!Moves, Account!OnlyChanges, freeFunds, holds, phases
  <2>9. QED
    BY <1>1, <1>2, <2>8 DEF Account!Next
<1>5. QED
  BY <1>3, <1>4 DEF SubmitOrder

LEMMA AccountCancel ==
  ASSUME Invariant, NEW id \in OrderIds, CancelOrder(id)
  PROVE  Account!Next
<1> DEFINE o == orders[id]
           c == reserveCurrency(o)
           reserve == paperReserveForRemaining(o, o.quantity - o.executed)
<1>1. AccountTypeOK /\ o \in Order /\ o.working /\ o.executed = 0 /\ o.status = "new"
  BY DEF Invariant, BooksConsistent, AccountTypeOK, CancelOrder, NoOrder
<1>2. c \in Currencies /\ reserve = paperReserveForOrder(o) /\ reserve \in Nat
  BY <1>1, OrderCurrencies, ReserveIsAmount DEF paperReserveForOrder, Order
<1>3. Hold(o) = [currency |-> c, amount |-> reserve] /\ OrderPhase(o) = "open"
  BY <1>1, <1>2 DEF Hold, OrderPhase
<1>4. Hold(CancelledOrder(o)) = NoHold /\ OrderPhase(CancelledOrder(o)) = "done"
  BY <1>1 DEF Hold, OrderPhase, CancelledOrder, Order
<1>5. freeFunds' = [freeFunds EXCEPT ![c] = @ + reserve]
  <2> HIDE DEF c, reserve
  <2>1. CASE applyBalanceDelta("cancel-unlock", id, 0, c, reserve, -reserve)
    BY <1>1, <1>2, <2>1, FreeAfterDelta DEF applyBalanceDelta
  <2>2. CASE reserve = 0 /\ UNCHANGED money
    <3>1. freeFunds \in [Currencies -> Nat] /\ freeFunds' = freeFunds
      BY <1>1, <2>2 DEF money, freeFunds, AccountTypeOK
    <3>2. QED
      BY <1>2, <2>2, <3>1
  <2>3. QED
    BY <2>1, <2>2 DEF CancelOrder, c, reserve
<1>6. /\ holds' = [holds EXCEPT ![id] = NoHold]
      /\ phases' = [phases EXCEPT ![id] = "done"]
  BY <1>1, <1>4, HoldAfter DEF CancelOrder
<1>7. holds[id] = [currency |-> c, amount |-> reserve] /\ phases[id] = "open"
  BY <1>3 DEF holds, phases
<1>8. Account!Release(id)
  <2> HIDE DEF c, reserve, o
  <2>1. holds[id].currency = c /\ holds[id].amount = reserve
    BY <1>7
  <2>2. QED
    BY <1>5, <1>6, <1>7, <2>1 DEF Account!Release, Account!Moves, freeFunds, holds, phases
<1>9. QED
  BY <1>8 DEF Account!Next

LEMMA AccountFill ==
  ASSUME Invariant, NEW id \in OrderIds, fillOrder(id)
  PROVE  Account!Next
<1> DEFINE o == orders[id]
           out == reserveCurrency(o)
           debited == applyPaperBalanceDelta(balances, out, 0, -fillDebit(o))
<1>0. PICK in \in Currencies : in = creditCurrency(o)
  BY VisitedOrder, OrderCurrencies DEF Invariant, fillOrder, Order
<1>1. AccountTypeOK /\ o \in Order /\ o.working /\ fillAllowed(o)
  BY VisitedOrder DEF Invariant, fillOrder
<1>2. in \in Currencies /\ out \in Currencies /\ in # out
  BY <1>0, <1>1, OrderCurrencies DEF Order
<1>3. fillDebit(o) \in Nat /\ fillCredit(o) \in Nat
  BY <1>1, FillAmounts
<1>4. balances' = applyPaperBalanceDelta(debited, in, fillCredit(o), 0)
  BY <1>0 DEF fillOrder, Settle
<1>5. freeFunds' = [freeFunds EXCEPT ![in] = @ + fillCredit(o)]
  <2>1. \A c \in Currencies : debited[c].available = balances[c].available
    BY <1>1, <1>2, <1>3 DEF applyPaperBalanceDelta, AccountTypeOK
  <2>2. \A c \in Currencies : DOMAIN debited = Currencies
    BY <1>1 DEF applyPaperBalanceDelta, AccountTypeOK
  <2> HIDE DEF debited, o
  <2>3. QED
    BY <1>2, <1>4, <2>1, <2>2 DEF applyPaperBalanceDelta, freeFunds
<1>6. OrderPhase(o) = "open" /\ Hold(o).currency = out
  <2>1. o.status # "none"
    BY <1>1 DEF Order
  <2>2. QED
    BY <1>1, <2>1 DEF OrderPhase, Hold
<1>7. Hold(FilledOrder(o)) = NoHold /\ OrderPhase(FilledOrder(o)) = "done"
  BY <1>1 DEF Hold, OrderPhase, FilledOrder, Order
<1>8. /\ holds' = [holds EXCEPT ![id] = NoHold]
      /\ phases' = [phases EXCEPT ![id] = "done"]
  BY <1>1, <1>7, HoldAfter DEF fillOrder
<1>9. holds[id].currency = out /\ phases[id] = "open"
  BY <1>6 DEF holds, phases
<1>10. Account!Settle(id, in)
  <2> HIDE DEF out, o
  <2>1. freeFunds \in [Currencies -> Nat]
    BY <1>1 DEF freeFunds, AccountTypeOK
  <2>2. /\ freeFunds'[in] \in Nat
        /\ freeFunds'[in] >= freeFunds[in]
        /\ freeFunds' = [freeFunds EXCEPT ![in] = freeFunds'[in]]
    BY <1>2, <1>3, <1>5, <2>1
  <2>3. QED
    BY <1>2, <1>8, <1>9, <2>2
    DEF Account!Settle, Account!Moves, Account!OnlyChanges, freeFunds, holds, phases
<1>11. QED
  BY <1>0, <1>10 DEF Account!Next

\* The paper session implements the abstract account: an order's reserve is
\* given back exactly, or spent once.
THEOREM Refinement == Spec => ImplementsAccount
<1>1. Invariant /\ [Next]_vars => [Account!Next]_(Account!accountVars)
  <2> SUFFICES ASSUME Invariant, [Next]_vars
               PROVE  Account!Next \/ UNCHANGED <<freeFunds, holds, phases>>
    BY DEF Account!accountVars, freeFunds, holds, phases
  <2>1. CASE \E order \in Orders : SubmitOrder(order)
    BY <2>1, AccountSubmit
  <2>2. CASE \E id \in OrderIds : CancelOrder(id)
    BY <2>2, AccountCancel
  <2>3. CASE \E id \in OrderIds : fillOrder(id)
    BY <2>3, AccountFill
  <2>4. CASE UNCHANGED <<balances, orders>>
    BY <2>4 DEF freeFunds, holds, phases
  <2>5. QED
    BY <2>1, <2>2, <2>3, <2>4 DEF Next, AdvanceOrder, AdvanceKLine, SkipOrder, AbandonBar,
       markKLineProcessed, Tick, vars, money, books
<1>2. QED
  BY <1>1, AccountInit, InvariantHolds, PTL DEF Spec, ImplementsAccount, Account!Spec

-----------------------------------------------------------------------------
(* The session behind its sources: whatever they give, in whatever batches, *)
(* it only takes PaperLifecycle's steps, with bars PaperLifecycle knows.    *)

\* Sources hold as many bars as they had at the start or ticks have added, and
\* a batch holds bars of the session's markets.
SourcesOK ==
  /\ now \in 1..MaxTime
  /\ market \in [Symbols -> Seq(Grown)]
  /\ \A s \in Symbols : Len(market[s]) = IF source = "paper" THEN now ELSE MaxTime
  /\ batch \in [rest: SUBSET Bars, fresh: SUBSET Bars]

LEMMA RangesGrow == Ranges \subseteq Grown
BY SourceAssumption DEF Grown

LEMMA WidenedGrows ==
  ASSUME NEW a \in Grown, NEW b \in Ranges
  PROVE  Widened(a, b) \in Grown
BY SourceAssumption, SMTT(30) DEF Grown, Widened

\* What a source gives out is a bar the session knows.
LEMMA QueriedBars ==
  ASSUME SourcesOK, NEW s \in Symbols, NEW i \in Intervals, NEW options \in Queries
  PROVE  QueryKLines(s, i, options) \subseteq Bars
<1> SUFFICES ASSUME NEW k \in DOMAIN market[s]
             PROVE  KLine(s, i, k) \in Bars
  BY DEF QueryKLines
<1>1. market[s] \in Seq(Grown) /\ k \in 1..Len(market[s])
  BY DEF SourcesOK
<1>2. k \in 1..MaxTime
  BY <1>1, AmountAssumption DEF SourcesOK
<1>3. market[s][k] \in Grown
  BY <1>1
<1>4. QED
  BY <1>2, <1>3, SourceAssumption DEF KLine

LEMMA SourcesInit == ReplayInit => SourcesOK
<1> SUFFICES ASSUME ReplayInit PROVE SourcesOK
  OBVIOUS
<1> DEFINE n == IF source = "replay" THEN MaxTime ELSE 1
<1>1. n \in Nat /\ source \in {"replay", "paper"} /\ now = 1
  BY AmountAssumption, SourceAssumption DEF ReplayInit, Init
<1>2. market \in [Symbols -> [1..n -> Ranges]]
  BY DEF ReplayInit
<1>3. \A s \in Symbols : market[s] \in Seq(Grown) /\ Len(market[s]) = n
  <2> SUFFICES ASSUME NEW s \in Symbols
               PROVE  market[s] \in Seq(Grown) /\ Len(market[s]) = n
    OBVIOUS
  <2>1. market[s] \in [1..n -> Ranges]
    BY <1>2
  <2>2. market[s] \in [1..n -> Grown]
    BY <2>1, RangesGrow
  <2> HIDE DEF n
  <2>3. QED
    BY <1>1, <2>2
<1>4. market \in [Symbols -> Seq(Grown)]
  BY <1>2, <1>3
<1>5. QED
  BY <1>1, <1>3, <1>4, AmountAssumption, SourceAssumption DEF SourcesOK, ReplayInit, NoBatch

LEMMA SourcesTick == SourcesOK /\ NextTick => SourcesOK'
<1> SUFFICES ASSUME SourcesOK, NextTick PROVE SourcesOK'
  OBVIOUS
<1>1. now' = now + 1 /\ now' \in 1..MaxTime /\ UNCHANGED <<source, batch>>
  BY AmountAssumption DEF NextTick, Tick, SourcesOK
<1>2. CASE source = "replay" /\ UNCHANGED market
  BY <1>1, <1>2 DEF SourcesOK
<1>3. CASE source = "paper" /\ \E start \in [Symbols -> Ranges] :
             market' = [s \in Symbols |-> Append(market[s], start[s])]
  <2>1. PICK start \in [Symbols -> Ranges] :
          market' = [s \in Symbols |-> Append(market[s], start[s])]
    BY <1>3
  <2>2. \A s \in Symbols : /\ Append(market[s], start[s]) \in Seq(Grown)
                           /\ Len(Append(market[s], start[s])) = now + 1
    BY <1>3, RangesGrow DEF SourcesOK
  <2>3. QED
    BY <1>1, <1>3, <2>1, <2>2 DEF SourcesOK
<1>4. QED
  BY <1>2, <1>3 DEF NextTick

LEMMA SourcesMove ==
  ASSUME SourcesOK, NEW s \in Symbols, PriceMoves(s)
  PROVE  SourcesOK'
<1>1. PICK r \in Ranges : market' = [market EXCEPT ![s] = Moved(s, r)]
  BY DEF PriceMoves
<1>2. /\ market[s] \in Seq(Grown) /\ Len(market[s]) = now /\ now \in 1..Len(market[s])
      /\ source = "paper"
  BY DEF SourcesOK, PriceMoves
<1>3. market[s][now] \in Grown
  BY <1>2
<1>4. Widened(market[s][now], r) \in Grown
  BY <1>3, WidenedGrows
<1>5. Moved(s, r) \in Seq(Grown) /\ Len(Moved(s, r)) = Len(market[s])
  BY <1>2, <1>4 DEF Moved
<1>6. market' \in [Symbols -> Seq(Grown)]
  BY <1>1, <1>5 DEF SourcesOK
<1>7. \A t \in Symbols : Len(market'[t]) = now
  BY <1>1, <1>2, <1>5 DEF SourcesOK
<1>8. QED
  BY <1>2, <1>6, <1>7 DEF SourcesOK, PriceMoves, vars

LEMMA SourcesStep == SourcesOK /\ [ReplayNext]_replayVars => SourcesOK'
<1> SUFFICES ASSUME SourcesOK, [ReplayNext]_replayVars PROVE SourcesOK'
  OBVIOUS
<1>1. ASSUME NEW s \in Symbols, NEW i \in Intervals, NEW options \in Queries,
             AdvanceKLines(s, i, options)
      PROVE  SourcesOK'
  BY <1>1, QueriedBars DEF AdvanceKLines, SourcesOK, vars
<1>2. ASSUME NEW bar, StartBar(bar) PROVE SourcesOK'
  BY <1>2 DEF StartBar, AdvanceKLine, SourcesOK
<1>3. ASSUME NEW bar, Without(bar) = batch' PROVE batch' \in [rest: SUBSET Bars, fresh: SUBSET Bars]
  BY <1>3 DEF Without, NoBatch, SourcesOK
<1>4. ASSUME NEW bar, SkipBar(bar) PROVE SourcesOK'
  BY <1>3, <1>4 DEF SkipBar, SourcesOK, vars
<1>5. CASE VisitOrder
  BY <1>5 DEF VisitOrder, SkipOrder, fillOrder, SourcesOK
<1>6. CASE FinishBar
  BY <1>3, <1>6 DEF FinishBar, markKLineProcessed, SourcesOK
<1>7. CASE FailBatch
  BY <1>7 DEF FailBatch, AbandonBar, NoBatch, SourcesOK
<1>8. CASE CancelBatch
  BY <1>8 DEF CancelBatch, NoBatch, SourcesOK, vars
<1>9. CASE PlaceOrCancel
  BY <1>9 DEF PlaceOrCancel, SubmitOrder, CancelOrder, SourcesOK
<1>10. CASE UNCHANGED replayVars
  BY <1>10 DEF replayVars, vars, SourcesOK
<1>11. QED
  BY <1>1, <1>2, <1>4, <1>5, <1>6, <1>7, <1>8, <1>9, <1>10, SourcesTick, SourcesMove
  DEF ReplayNext

\* The composition takes the session's steps only, with bars it knows.
\* A fill that goes through had no error.
LEMMA FillsHaveNoError == ASSUME NEW id, fillOrder(id) PROVE ~FillError(id)
BY DEF fillOrder, FillError, Settle

LEMMA ReplayStep == SourcesOK /\ [ReplayNext]_replayVars => [Next]_vars
<1> SUFFICES ASSUME SourcesOK, ReplayNext PROVE [Next]_vars
  BY DEF replayVars
<1>1. ASSUME NEW bar \in batch.rest, StartBar(bar) PROVE Next
  BY <1>1 DEF StartBar, SourcesOK, Next
<1>2. CASE VisitOrder \/ FinishBar \/ FailBatch \/ PlaceOrCancel \/ NextTick
  <2>1. \A id \in OrderIds : fillOrder(id) \/ AbandonBar(id) => AdvanceOrder(id)
    BY FillsHaveNoError DEF AdvanceOrder, AbandonBar
  <2>2. QED
    BY <1>2, <2>1 DEF VisitOrder, FinishBar, FailBatch, PlaceOrCancel, NextTick, Next
<1>3. CASE UNCHANGED vars
  BY <1>3
<1>4. QED
  BY <1>1, <1>2, <1>3 DEF ReplayNext, AdvanceKLines, SkipBar, CancelBatch, PriceMoves

\* The session behind its sources is the session: every property of
\* PaperLifecycle's behaviours holds of AdvanceKLines' batches.
THEOREM SourcesKeepSession == ReplaySpec => Spec
<1>1. ReplayInit => Init
  BY DEF ReplayInit
<1>2. QED
  BY <1>1, SourcesInit, SourcesStep, ReplayStep, PTL DEF ReplaySpec, Spec

\* With any source and any batches (AdvanceKLines), an order is filled at most
\* once, also when a bar is handed out again after a failed fill.
THEOREM ReplayFilledOnce == ReplaySpec => []OneFillPerOrder
BY SourcesKeepSession, FilledOnce, PTL

\* No bar of a batch is committed (markKLineProcessed) past a working order that
\* it crosses.
THEOREM ReplayNoOrderSkipped == ReplaySpec => CommittedBarsLeaveNoCrossingOrder
BY SourcesKeepSession, NoOrderSkipped, PTL

\* A filled or cancelled order stays as it is, whatever bars come later.
THEOREM ReplayOrderFinality == ReplaySpec => ClosedOrdersAreFinal
BY SourcesKeepSession, OrderFinality, PTL

\* The session with its source implements the abstract account: funds are
\* reserved, released or settled, and nothing else moves them.
THEOREM ReplayRefinement == ReplaySpec => ImplementsAccount
BY SourcesKeepSession, Refinement, PTL

-----------------------------------------------------------------------------
(* A batch.  Its bars are of one market and interval and end at different  *)
(* times, so advancing the oldest leaves those behind it in front of the   *)
(* cursor; and what was advanced stays advanced, because no order is       *)
(* placed before the batch is done.                                        *)

\* No working order is left that the bar crosses.
Advanced(bar) == \A id \in WorkingOn(bar.symbol) : ~FillableBy(orders[id], bar)

Comparable(bars) ==
  \A a, b \in bars : /\ a.symbol = b.symbol /\ a.interval = b.interval
                     /\ a.end = b.end => a = b

BatchOK ==
  /\ Comparable(batch.rest \cup batch.fresh)
  /\ \A bar \in batch.fresh :
       IF bar \in batch.rest THEN nextKLineCursor(bar) ELSE Advanced(bar)
  /\ call # Idle => OldestFirst(batch.rest, call.bar)

LEMMA NothingInBatch == batch' = NoBatch /\ call' = Idle => BatchOK'
BY DEF NoBatch, BatchOK, Comparable

\* Orders only close while a bar is advanced.
LEMMA OrdersOnlyClose ==
  ASSUME Invariant,
         \/ UNCHANGED orders
         \/ \E id \in OrderIds : fillOrder(id)
  PROVE  \A bar : Advanced(bar) => Advanced(bar)'
<1>1. CASE UNCHANGED orders
  BY <1>1 DEF Advanced, WorkingOn, FillableBy, paperOrderCrossesKLine
<1>2. ASSUME NEW f \in OrderIds, fillOrder(f)
      PROVE  \A bar : Advanced(bar) => Advanced(bar)'
  <2>1. orders' = [orders EXCEPT ![f] = FilledOrder(orders[f])]
    BY <1>2 DEF fillOrder
  <2>2. orders[f] \in Order
    BY <1>2, VisitedOrder DEF Invariant, fillOrder
  <2>3. orders'[f].working = FALSE
    BY <2>1, <2>2 DEF Invariant, AccountTypeOK, FilledOrder, Order
  <2>4. \A id \in OrderIds : orders'[id].working => orders'[id] = orders[id]
    BY <2>1, <2>3 DEF Invariant, AccountTypeOK
  <2>5. QED
    BY <2>4 DEF Advanced, WorkingOn, FillableBy, paperOrderCrossesKLine
<1>3. QED
  BY <1>1, <1>2

\* A step of the call within its bar.
LEMMA BatchDuringBar ==
  ASSUME Invariant, BatchOK, batch' = batch, processed' = processed,
         \/ UNCHANGED orders
         \/ \E id \in OrderIds : fillOrder(id),
         call' # Idle => call # Idle /\ call'.bar = call.bar
  PROVE  BatchOK'
<1>1. \A bar \in batch.fresh :
        IF bar \in batch.rest THEN nextKLineCursor(bar)' ELSE Advanced(bar)'
  BY OrdersOnlyClose DEF BatchOK, nextKLineCursor
<1>2. call' # Idle => OldestFirst(batch.rest, call'.bar)
  BY DEF BatchOK
<1>3. QED
  BY <1>1, <1>2 DEF BatchOK

LEMMA BatchStarts ==
  ASSUME Invariant, NEW s \in Symbols, NEW i \in Intervals, NEW options \in Queries,
         AdvanceKLines(s, i, options)
  PROVE  BatchOK'
<1> DEFINE bars == QueryKLines(s, i, options)
           fresh == {bar \in bars : nextKLineCursor(bar)}
<1>1. batch' = [rest |-> bars, fresh |-> fresh] /\ call' = Idle /\ processed' = processed
  BY DEF AdvanceKLines, vars
<1>2. Comparable(bars)
  <2>1. \A bar \in bars : \E k \in DOMAIN market[s] : bar = KLine(s, i, k)
    BY DEF QueryKLines
  <2>2. \A k : /\ KLine(s, i, k).symbol = s /\ KLine(s, i, k).interval = i
               /\ KLine(s, i, k).end = k
    BY DEF KLine
  <2> HIDE DEF bars
  <2>3. QED
    BY <2>1, <2>2 DEF Comparable
<1>3. \A bar \in fresh : bar \in bars /\ nextKLineCursor(bar)'
  BY <1>1 DEF nextKLineCursor
<1> HIDE DEF bars, fresh
<1>4. bars \cup fresh = bars
  BY <1>3
<1>5. QED
  BY <1>1, <1>2, <1>3, <1>4 DEF BatchOK

LEMMA BatchStartsBar ==
  ASSUME BatchOK, NEW bar, StartBar(bar)
  PROVE  BatchOK'
<1>1. call' = [bar |-> bar, ids |-> WorkingOn(bar.symbol)] /\ UNCHANGED <<orders, processed, batch>>
  BY DEF StartBar, AdvanceKLine, books
<1>2. \A b \in batch.fresh :
        IF b \in batch.rest THEN nextKLineCursor(b)' ELSE Advanced(b)'
  BY <1>1 DEF BatchOK, nextKLineCursor, Advanced, WorkingOn, FillableBy, paperOrderCrossesKLine
<1>3. OldestFirst(batch.rest, call'.bar)
  BY <1>1 DEF StartBar
<1>4. QED
  BY <1>1, <1>2, <1>3 DEF BatchOK

\* What is left of the batch after its oldest bar.
LEMMA BatchGoesOn ==
  ASSUME SourcesOK, BatchOK, NEW bar \in batch.rest, batch' = Without(bar), UNCHANGED orders,
         call' = Idle, bar \in batch.fresh => Advanced(bar),
         \A b \in batch.rest \ {bar} : nextKLineCursor(b) => nextKLineCursor(b)'
  PROVE  BatchOK'
<1>1. CASE batch' = NoBatch
  BY <1>1, NothingInBatch
<1>2. CASE batch' # NoBatch
  <2>1. batch' = [batch EXCEPT !.rest = @ \ {bar}]
    BY <1>2 DEF Without
  <2>2. batch'.rest = batch.rest \ {bar} /\ batch'.fresh = batch.fresh
    BY <2>1 DEF SourcesOK
  <2>3. \A b : Advanced(b)' = Advanced(b)
    BY DEF Advanced, WorkingOn, FillableBy, paperOrderCrossesKLine
  <2>4. Comparable(batch'.rest \cup batch'.fresh)
    BY <2>2 DEF BatchOK, Comparable
  <2>5. ASSUME NEW b \in batch.fresh
        PROVE  IF b \in batch.rest \ {bar} THEN nextKLineCursor(b)' ELSE Advanced(b)'
    <3>1. CASE b \in batch.rest \ {bar}
      BY <3>1 DEF BatchOK
    <3>2. CASE b = bar
      BY <2>3, <2>5, <3>2
    <3>3. CASE b \notin batch.rest
      BY <2>3, <2>5, <3>3 DEF BatchOK
    <3>4. QED
      BY <3>1, <3>2, <3>3
  <2>6. QED
    BY <2>2, <2>4, <2>5 DEF BatchOK
<1>3. QED
  BY <1>1, <1>2

LEMMA BatchSkipsBar ==
  ASSUME SourcesOK, BatchOK, NEW bar \in batch.rest, SkipBar(bar)
  PROVE  bar \notin batch.fresh /\ BatchOK'
<1>1. bar \notin batch.fresh
  BY DEF BatchOK, SkipBar
<1>2. \A b : nextKLineCursor(b) => nextKLineCursor(b)'
  BY DEF SkipBar, vars, nextKLineCursor
<1>3. batch' = Without(bar) /\ UNCHANGED orders /\ call' = Idle
  BY DEF SkipBar, vars, books
<1>4. QED
  BY <1>1, <1>2, <1>3, BatchGoesOn

LEMMA BatchFinishesBar ==
  ASSUME Invariant, SourcesOK, BatchOK, FinishBar
  PROVE  /\ call.bar \in batch.rest /\ Advanced(call.bar) /\ UNCHANGED orders
         /\ batch' = Without(call.bar) /\ BatchOK'
<1> DEFINE bar == call.bar
<1>1. /\ call # Idle /\ call.ids = {} /\ call' = Idle /\ UNCHANGED orders
      /\ processed' = [processed EXCEPT ![bar.symbol][bar.interval] = bar.end]
      /\ batch' = Without(bar)
  BY DEF FinishBar, markKLineProcessed, books
<1>2. OldestFirst(batch.rest, bar)
  BY <1>1 DEF BatchOK
<1>3. bar \in batch.rest /\ bar \in Bars
  BY <1>2 DEF OldestFirst, SourcesOK
<1>4. Advanced(bar)
  BY <1>1 DEF Invariant, BooksConsistent, Advanced
<1>5. ASSUME NEW b \in batch.rest \ {bar} PROVE nextKLineCursor(b)'
  <2>1. b \in Bars /\ b.end \in Nat /\ bar.end \in Nat
        /\ bar.symbol \in Symbols /\ bar.interval \in Intervals
    BY <1>3, InputAssumption DEF SourcesOK, Bar
  <2>2. b.symbol = bar.symbol /\ b.interval = bar.interval /\ b.end # bar.end
    BY <1>3 DEF BatchOK, Comparable
  <2>3. ~(b.end < bar.end)
    BY <1>2 DEF OldestFirst, Older
  <2>4. processed'[b.symbol][b.interval] = bar.end
    BY <1>1, <2>1, <2>2 DEF Invariant, AccountTypeOK
  <2>5. b.end > bar.end
    BY <2>1, <2>2, <2>3
  <2>6. QED
    BY <2>4, <2>5 DEF nextKLineCursor
<1>6. BatchOK'
  <2> HIDE DEF bar
  <2>1. QED
    BY <1>1, <1>3, <1>4, <1>5, BatchGoesOn
<1>7. QED
  BY <1>1, <1>3, <1>4, <1>6

LEMMA BatchInit == ReplayInit => BatchOK
BY DEF ReplayInit, Init, NoBatch, BatchOK, Comparable

LEMMA BatchStep ==
  ASSUME Invariant, SourcesOK, BatchOK, [ReplayNext]_replayVars
  PROVE  BatchOK'
<1>1. ASSUME NEW s \in Symbols, NEW i \in Intervals, NEW options \in Queries,
             AdvanceKLines(s, i, options)
      PROVE  BatchOK'
  BY <1>1, BatchStarts
<1>2. ASSUME NEW bar \in batch.rest, StartBar(bar) \/ SkipBar(bar) PROVE BatchOK'
  BY <1>2, BatchStartsBar, BatchSkipsBar
<1>3. CASE VisitOrder
  <2>1. PICK id \in OrderIds : SkipOrder(id) \/ fillOrder(id)
    BY <1>3 DEF VisitOrder
  <2>2. batch' = batch /\ processed' = processed
    BY <1>3 DEF VisitOrder, SkipOrder, fillOrder
  <2>3. UNCHANGED orders \/ fillOrder(id)
    BY <2>1 DEF SkipOrder, books
  <2>4. call # Idle /\ call' = [call EXCEPT !.ids = @ \ {id}]
    BY <2>1 DEF SkipOrder, fillOrder, Visiting
  <2>5. call'.bar = call.bar
    BY <2>4 DEF Invariant, AccountTypeOK
  <2>6. QED
    BY <2>2, <2>3, <2>4, <2>5, BatchDuringBar
<1>4. CASE FinishBar
  BY <1>4, BatchFinishesBar
<1>5. CASE FailBatch \/ CancelBatch
  <2>1. batch' = NoBatch /\ call' = Idle
    BY <1>5 DEF FailBatch, AbandonBar, CancelBatch, vars
  <2>2. QED
    BY <2>1, NothingInBatch
<1>6. CASE PlaceOrCancel \/ NextTick
  <2>1. batch' = NoBatch /\ call' = Idle
    BY <1>6 DEF PlaceOrCancel, NextTick, BetweenCalls, SubmitOrder, CancelOrder, Tick
  <2>2. QED
    BY <2>1, NothingInBatch
<1>7. CASE (\E s \in Symbols : PriceMoves(s)) \/ UNCHANGED replayVars
  <2>1. batch' = batch /\ UNCHANGED vars
    BY <1>7 DEF PriceMoves, replayVars
  <2>2. processed' = processed /\ UNCHANGED orders /\ call' = call
    BY <2>1 DEF vars, books
  <2>3. QED
    BY <2>1, <2>2, BatchDuringBar
<1>8. QED
  BY <1>1, <1>2, <1>3, <1>4, <1>5, <1>6, <1>7 DEF ReplayNext

\* AdvancedBarsLeaveNoCrossingOrder (AdvanceKLines, session.go, and ParseKLines'
\* sort): a call that ends without an error has advanced every bar it was given
\* that was fresh, whatever the source's order and the length of the batch.
THEOREM BatchesAdvanced == ReplaySpec => AdvancedBarsLeaveNoCrossingOrder
<1>1. ASSUME Invariant, SourcesOK, BatchOK,
             FinishBar \/ \E bar \in batch.rest : SkipBar(bar), batch' = NoBatch,
             NEW bar \in batch.fresh, NEW id \in WorkingOn(bar.symbol)'
      PROVE  ~FillableBy(orders'[id], bar)
  <2>1. CASE FinishBar
    <3>1. /\ call.bar \in batch.rest /\ Advanced(call.bar) /\ UNCHANGED orders
          /\ batch' = Without(call.bar)
      BY <1>1, <2>1, BatchFinishesBar
    <3>2. batch.rest = {call.bar}
      BY <1>1, <3>1 DEF Without, NoBatch, SourcesOK
    <3>3. Advanced(bar)
      BY <1>1, <3>1, <3>2 DEF BatchOK
    <3>4. QED
      BY <1>1, <3>1, <3>3 DEF Advanced, WorkingOn
  <2>2. ASSUME NEW b \in batch.rest, SkipBar(b) PROVE ~FillableBy(orders'[id], bar)
    <3>1. b \notin batch.fresh
      BY <1>1, <2>2, BatchSkipsBar
    <3>2. batch' = Without(b) /\ UNCHANGED orders
      BY <2>2 DEF SkipBar, vars, books
    <3>3. batch.rest = {b}
      BY <1>1, <3>2 DEF Without, NoBatch, SourcesOK
    <3>4. Advanced(bar)
      BY <1>1, <3>1, <3>3 DEF BatchOK
    <3>5. QED
      BY <1>1, <3>2, <3>4 DEF Advanced, WorkingOn
  <2>3. QED
    BY <1>1, <2>1, <2>2
<1>2. Invariant /\ SourcesOK /\ BatchOK =>
        [/\ FinishBar \/ \E bar \in batch.rest : SkipBar(bar)
         /\ batch' = NoBatch
         => \A bar \in batch.fresh : \A id \in WorkingOn(bar.symbol)' :
              ~FillableBy(orders'[id], bar)]_replayVars
  BY <1>1
<1>3. ReplaySpec => []Invariant
  BY SourcesKeepSession, InvariantHolds, PTL
<1>4. QED
  BY <1>2, <1>3, SourcesInit, SourcesStep, BatchInit, BatchStep, PTL
  DEF ReplaySpec, AdvancedBarsLeaveNoCrossingOrder
=============================================================================

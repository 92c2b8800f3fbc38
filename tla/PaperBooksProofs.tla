-------------------------- MODULE PaperBooksProofs --------------------------
(***************************************************************************)
(* Proofs about the money of the paper account: what is locked, what the   *)
(* ledger and the trades add up to, and the lots that sales close.  They   *)
(* rest on the account's types and books (PaperLifecycleProofs) and on the *)
(* folds of FoldTheorems.                                                  *)
(***************************************************************************)
EXTENDS PaperEvidence, PaperLifecycleProofs, FoldTheorems, SequenceTheorems

-----------------------------------------------------------------------------
(* The locked balance                                                      *)

WorkingIn(ords, c) == {id \in OrderIds : ords[id].working /\ reserveCurrency(ords[id]) = c}
Reserves(ords) == [id \in OrderIds |-> paperReserveForOrder(ords[id])]
ReservedIn(ords, c) == SumFunctionOnSet(Reserves(ords), WorkingIn(ords, c))

\* Submissions hand out ids in order, so only finitely many are in use.
LEMMA UsedIdsAreFinite ==
  ASSUME Invariant, NEW S \in SUBSET OrderIds, \A id \in S : orders[id] # NoOrder
  PROVE  IsFiniteSet(S)
<1>1. \A id \in S : id \in Nat /\ id <= nextOrder
  BY InputAssumption DEF Invariant, BooksConsistent, AccountTypeOK
<1>2. QED
  BY <1>1, FS_BoundedSetOfNaturals DEF Invariant, AccountTypeOK

LEMMA WorkingIsFinite ==
  ASSUME Invariant, NEW c
  PROVE  /\ IsFiniteSet(WorkingIn(orders, c))
         /\ \A id \in WorkingIn(orders, c) : orders[id] \in Order /\ Reserves(orders)[id] \in Nat
<1>1. \A id \in WorkingIn(orders, c) : orders[id] # NoOrder
  BY DEF WorkingIn, NoOrder
<1>2. IsFiniteSet(WorkingIn(orders, c))
  <2>1. WorkingIn(orders, c) \in SUBSET OrderIds
    BY DEF WorkingIn
  <2>2. QED
    BY <1>1, <2>1, UsedIdsAreFinite
<1>3. \A id \in WorkingIn(orders, c) : orders[id] \in Order
  BY <1>1 DEF Invariant, AccountTypeOK, WorkingIn
<1>4. \A id \in WorkingIn(orders, c) : Reserves(orders)[id] \in Nat
  BY <1>3, ReserveIsAmount DEF Reserves, WorkingIn, Order
<1>5. QED
  BY <1>2, <1>3, <1>4

\* A new working order adds its reserve to one currency.
LEMMA ReservedAfterOpening ==
  ASSUME Invariant, NEW n \in OrderIds, ~orders[n].working,
         NEW o \in Order, o.working, NEW c \in Currencies
  PROVE  ReservedIn([orders EXCEPT ![n] = o], c)
           = ReservedIn(orders, c)
             + IF reserveCurrency(o) = c THEN paperReserveForOrder(o) ELSE 0
<1> DEFINE new == [orders EXCEPT ![n] = o]
           S == WorkingIn(orders, c)
<1>1. DOMAIN orders = OrderIds
  BY DEF Invariant, AccountTypeOK
<1>2. IsFiniteSet(S) /\ n \notin S /\ \A id \in S : Reserves(orders)[id] \in Nat
  BY WorkingIsFinite DEF WorkingIn
<1>3. WorkingIn(new, c) = IF reserveCurrency(o) = c THEN S \cup {n} ELSE S
  BY <1>1, <1>2 DEF WorkingIn
<1>4. \A id \in S : Reserves(new)[id] = Reserves(orders)[id]
  BY <1>1, <1>2 DEF Reserves, WorkingIn
<1>5. Reserves(new)[n] = paperReserveForOrder(o) /\ paperReserveForOrder(o) \in Nat
  BY <1>1, ReserveIsAmount DEF Reserves, Order
<1> HIDE DEF new, S
<1>6. /\ SumFunctionOnSet(Reserves(new), S) = SumFunctionOnSet(Reserves(orders), S)
      /\ SumFunctionOnSet(Reserves(orders), S) \in Int
  BY <1>2, <1>4, SumAgrees, SumIsInteger
<1>7. SumFunctionOnSet(Reserves(new), S \cup {n})
        = paperReserveForOrder(o) + SumFunctionOnSet(Reserves(new), S)
  <2>1. \A id \in S \cup {n} : Reserves(new)[id] \in Int
    BY <1>2, <1>4, <1>5
  <2>2. QED
    BY <1>2, <1>5, <2>1, SumAdds
<1>8. QED
  BY <1>3, <1>5, <1>6, <1>7 DEF ReservedIn, new, S

\* An order that stops working releases its reserve.
LEMMA ReservedAfterClosing ==
  ASSUME Invariant, NEW n \in OrderIds, orders[n].working,
         NEW o, ~o.working, NEW c \in Currencies
  PROVE  ReservedIn([orders EXCEPT ![n] = o], c)
           = ReservedIn(orders, c)
             - IF reserveCurrency(orders[n]) = c THEN paperReserveForOrder(orders[n]) ELSE 0
<1> DEFINE new == [orders EXCEPT ![n] = o]
           S == WorkingIn(orders, c)
<1>1. DOMAIN orders = OrderIds
  BY DEF Invariant, AccountTypeOK
<1>2. IsFiniteSet(S) /\ \A id \in S : Reserves(orders)[id] \in Nat
  BY WorkingIsFinite
<1>3. WorkingIn(new, c) = S \ {n} /\ (n \in S <=> reserveCurrency(orders[n]) = c)
  BY <1>1 DEF WorkingIn
<1>4. \A id \in S \ {n} : Reserves(new)[id] = Reserves(orders)[id]
  BY <1>1 DEF Reserves, WorkingIn
<1>5. Reserves(orders)[n] = paperReserveForOrder(orders[n])
  BY DEF Reserves
<1> HIDE DEF new, S
<1>6. /\ IsFiniteSet(S \ {n})
      /\ SumFunctionOnSet(Reserves(new), S \ {n}) = SumFunctionOnSet(Reserves(orders), S \ {n})
      /\ SumFunctionOnSet(Reserves(orders), S \ {n}) \in Int
  <2> DEFINE R == S \ {n}
  <2>1. IsFiniteSet(R) /\ R \subseteq S
    BY <1>2, FS_RemoveElement
  <2>2. \A id \in R : Reserves(new)[id] = Reserves(orders)[id] /\ Reserves(orders)[id] \in Int
    BY <1>2, <1>4
  <2> HIDE DEF R
  <2>3. SumFunctionOnSet(Reserves(new), R) = SumFunctionOnSet(Reserves(orders), R)
    BY <2>1, <2>2, SumAgrees
  <2>4. SumFunctionOnSet(Reserves(orders), R) \in Int
    BY <2>1, <2>2, SumIsInteger
  <2>5. QED
    BY <2>1, <2>3, <2>4 DEF R
<1>7. ReservedIn(new, c) = SumFunctionOnSet(Reserves(orders), S \ {n})
  BY <1>3, <1>6 DEF ReservedIn
<1>8. CASE n \in S
  <2>1. ReservedIn(orders, c)
          = paperReserveForOrder(orders[n]) + SumFunctionOnSet(Reserves(orders), S \ {n})
    BY <1>2, <1>5, <1>8, SumTakesOut DEF ReservedIn, S
  <2>2. paperReserveForOrder(orders[n]) \in Int
    BY <1>2, <1>5, <1>8
  <2> HIDE DEF ReservedIn
  <2>3. QED
    BY <1>3, <1>6, <1>7, <1>8, <2>1, <2>2 DEF new
<1>9. CASE n \notin S
  <2>1. S \ {n} = S
    BY <1>9
  <2>2. ReservedIn(new, c) = ReservedIn(orders, c) /\ ReservedIn(orders, c) \in Int
    BY <1>6, <1>7, <2>1 DEF ReservedIn, S
  <2>3. QED
    BY <1>3, <1>9, <2>2 DEF new
<1>10. QED
  BY <1>8, <1>9

\* Every currency has locked what its working orders reserved, and a buy was
\* let in with the minimum notional.
ReservesConsistent ==
  /\ \A c \in Currencies : balances[c].locked = ReservedIn(orders, c)
  /\ \A id \in OrderIds :
       orders[id].working /\ orders[id].side = "buy" =>
         Mul(orders[id].price, orders[id].quantity) >= MinNotional

LEMMA ReservesInit == Init => ReservesConsistent
<1> SUFFICES ASSUME Init PROVE ReservesConsistent
  OBVIOUS
<1>1. \A c \in Currencies : WorkingIn(orders, c) = {}
  BY DEF Init, WorkingIn, NoOrder
<1>2. QED
  BY <1>1, SumEmpty DEF Init, ReservesConsistent, ReservedIn, NoOrder

LEMMA ReservesSubmit ==
  ASSUME Invariant, ReservesConsistent, NEW order \in Orders, SubmitOrder(order)
  PROVE  ReservesConsistent'
<1> DEFINE k == reserveCurrency(order)
           reserve == paperReserveForOrder(order)
           o == NewOrder(order, now)
<1>1. /\ AccountTypeOK
      /\ nextOrder \in OrderIds
      /\ orders[nextOrder] = NoOrder
      /\ order \in Submittable
  BY InputAssumption DEF Invariant, BooksConsistent, AccountTypeOK, SubmitOrder
<1>2. k \in Currencies /\ reserve \in Nat
  BY <1>1, OrderCurrencies, ReserveIsAmount DEF Submittable
<1>3. CASE UNCHANGED <<money, orders>>
  BY <1>3 DEF money, ReservesConsistent
<1>4. CASE /\ applyBalanceDelta("submit-lock", nextOrder, 0, k, -reserve, reserve)
           /\ orders' = [orders EXCEPT ![nextOrder] = o]
  <2>1. /\ o \in Order
        /\ o.working
        /\ reserveCurrency(o) = k
        /\ paperReserveForOrder(o) = reserve
        /\ o.side = "buy" => Mul(o.price, o.quantity) >= MinNotional
    BY <1>1 DEF NewOrder, Order, Submittable, AccountTypeOK, reserveCurrency,
       paperReserveForOrder, paperReserveForRemaining, SubmitOrder, validateSubmitOrder
  <2>2. ~orders[nextOrder].working
    BY <1>1 DEF NoOrder
  <2>3. \A c \in Currencies :
          ReservedIn(orders', c) = ReservedIn(orders, c) + IF k = c THEN reserve ELSE 0
    <3> HIDE DEF o, k, reserve
    <3>1. QED
      BY <1>1, <1>4, <2>1, <2>2, ReservedAfterOpening
  <2>4. \A c \in Currencies :
          balances'[c].locked = balances[c].locked + IF k = c THEN reserve ELSE 0
    <3> HIDE DEF k, reserve, o
    <3>1. QED
      BY <1>1, <1>2, <1>4 DEF applyBalanceDelta, applyPaperBalanceDelta, AccountTypeOK
  <2>5. \A id \in OrderIds : orders'[id] = IF id = nextOrder THEN o ELSE orders[id]
    <3> HIDE DEF o
    <3>1. QED
      BY <1>1, <1>4 DEF AccountTypeOK
  <2> HIDE DEF o, k, reserve
  <2>6. QED
    BY <2>1, <2>3, <2>4, <2>5 DEF ReservesConsistent
<1>5. QED
  BY <1>3, <1>4 DEF SubmitOrder

\* What a working order still holds is all it reserved: it is unfilled.
LEMMA WorkingHoldsItsReserve ==
  ASSUME Invariant, NEW id \in OrderIds, orders[id].working
  PROVE  /\ orders[id] \in Order
         /\ reserveCurrency(orders[id]) \in Currencies
         /\ paperReserveForOrder(orders[id]) \in Nat
         /\ orders[id].executed = 0
         /\ fillQuantity(orders[id]) = orders[id].quantity
         /\ fillQuantity(orders[id]) > 0
         /\ paperReserveForRemaining(orders[id], orders[id].quantity - orders[id].executed)
              = paperReserveForOrder(orders[id])
         /\ fillDebit(orders[id]) = paperReserveForOrder(orders[id])
<1>1. orders[id] \in Order
  BY DEF Invariant, AccountTypeOK, NoOrder
<1>2. orders[id].executed = 0 /\ orders[id].quantity > 0 /\ orders[id].quantity \in Nat
  BY <1>1 DEF Invariant, BooksConsistent, Order
<1>3. orders[id].quantity - orders[id].executed = orders[id].quantity
  BY <1>2
<1>4. QED
  BY <1>1, <1>2, <1>3, OrderCurrencies, ReserveIsAmount
  DEF paperReserveForOrder, paperReserveForRemaining, fillDebit, fillNotional, fillQuantity, Order

LEMMA ReservesCancel ==
  ASSUME Invariant, ReservesConsistent, NEW id \in OrderIds, CancelOrder(id)
  PROVE  ReservesConsistent'
<1> DEFINE k == reserveCurrency(orders[id])
           reserve == paperReserveForOrder(orders[id])
<1>1. /\ AccountTypeOK
      /\ orders[id].working
      /\ orders' = [orders EXCEPT ![id] = CancelledOrder(orders[id])]
  BY DEF Invariant, CancelOrder
<1>2. /\ orders[id] \in Order
      /\ k \in Currencies
      /\ reserve \in Nat
      /\ paperReserveForRemaining(orders[id], orders[id].quantity - orders[id].executed) = reserve
  BY <1>1, WorkingHoldsItsReserve
<1>3. ~CancelledOrder(orders[id]).working
  BY <1>2 DEF CancelledOrder, Order
<1>4. \A c \in Currencies :
        ReservedIn(orders', c) = ReservedIn(orders, c) - IF k = c THEN reserve ELSE 0
  BY <1>1, <1>3, ReservedAfterClosing
<1>5. \A c \in Currencies :
        balances'[c].locked = balances[c].locked - IF k = c THEN reserve ELSE 0
  <2> HIDE DEF k, reserve
  <2>1. CASE applyBalanceDelta("cancel-unlock", id, 0, k, reserve, -reserve)
    BY <1>1, <1>2, <2>1 DEF applyBalanceDelta, applyPaperBalanceDelta, AccountTypeOK
  <2>2. CASE reserve = 0 /\ UNCHANGED money
    BY <1>1, <2>2 DEF money, AccountTypeOK
  <2>3. QED
    BY <1>2, <2>1, <2>2 DEF CancelOrder, k
<1>6. \A i \in OrderIds : orders'[i].working => orders'[i] = orders[i]
  BY <1>1, <1>3 DEF AccountTypeOK
<1> HIDE DEF k, reserve
<1>7. QED
  BY <1>4, <1>5, <1>6 DEF ReservesConsistent

LEMMA ReservesFill ==
  ASSUME Invariant, ReservesConsistent, NEW id \in OrderIds, fillOrder(id)
  PROVE  ReservesConsistent'
<1> DEFINE o == orders[id]
           k == reserveCurrency(o)
           in == creditCurrency(o)
           reserve == paperReserveForOrder(o)
           debited == applyPaperBalanceDelta(balances, k, 0, -fillDebit(o))
<1>1. /\ AccountTypeOK
      /\ o \in Order
      /\ o.working
      /\ fillAllowed(o)
      /\ orders' = [orders EXCEPT ![id] = FilledOrder(o)]
      /\ balances' = applyPaperBalanceDelta(debited, in, fillCredit(o), 0)
  BY VisitedOrder DEF Invariant, fillOrder, Settle
<1>2. /\ k \in Currencies /\ in \in Currencies
      /\ reserve \in Nat
      /\ fillDebit(o) = reserve
      /\ fillCredit(o) \in Nat
  BY <1>1, WorkingHoldsItsReserve, OrderCurrencies, FillAmounts DEF Order
<1>3. ~FilledOrder(o).working
  BY <1>1 DEF FilledOrder, Order
<1>4. \A c \in Currencies :
        ReservedIn(orders', c) = ReservedIn(orders, c) - IF k = c THEN reserve ELSE 0
  BY <1>1, <1>3, ReservedAfterClosing
<1>5. \A c \in Currencies :
        balances'[c].locked = balances[c].locked - IF k = c THEN reserve ELSE 0
  <2>1. DOMAIN debited = Currencies /\ \A c \in Currencies :
          /\ debited[c].locked = balances[c].locked - IF k = c THEN reserve ELSE 0
          /\ debited[c].locked \in Int
    <3> HIDE DEF k, reserve, o
    <3>1. /\ DOMAIN balances = Currencies
          /\ \A c \in Currencies : balances[c].available \in Nat /\ balances[c].locked \in Nat
      BY <1>1 DEF AccountTypeOK
    <3>2. DOMAIN debited = Currencies /\ \A c \in Currencies :
            debited[c] = IF c = k THEN [available |-> balances[c].available + 0,
                                        locked |-> balances[c].locked + (-fillDebit(o))]
                         ELSE balances[c]
      BY <3>1 DEF applyPaperBalanceDelta
    <3> HIDE DEF debited
    <3>3. QED
      BY <1>2, <3>1, <3>2
  <2> HIDE DEF k, reserve, o, debited, in
  <2>2. QED
    BY <1>1, <1>2, <2>1 DEF applyPaperBalanceDelta
<1>6. \A i \in OrderIds : orders'[i].working => orders'[i] = orders[i]
  BY <1>1, <1>3 DEF AccountTypeOK
<1> HIDE DEF k, reserve, o, in, debited
<1>7. QED
  BY <1>4, <1>5, <1>6 DEF ReservesConsistent

LEMMA ReservesStep == Invariant /\ ReservesConsistent /\ [Next]_vars => ReservesConsistent'
<1> SUFFICES ASSUME Invariant, ReservesConsistent, [Next]_vars PROVE ReservesConsistent'
  OBVIOUS
<1>1. CASE UNCHANGED <<balances, orders>>
  BY <1>1 DEF ReservesConsistent
<1>2. QED
  BY <1>1, ReservesSubmit, ReservesCancel, ReservesFill DEF Next, AdvanceOrder, AdvanceKLine,
     SkipOrder, AbandonBar, markKLineProcessed, Tick, vars, money, books

LEMMA ReservesHold == Spec => [](Invariant /\ ReservesConsistent)
BY ReservesInit, ReservesStep, InvariantHolds, PTL DEF Spec

\* The locked balance of every currency is what its working orders reserved,
\* however submit, cancel and fill round: nothing stays locked for ever.
THEOREM LockedIsReserved == Spec => []LockedBacksWorkingOrders
<1>1. ASSUME Invariant, ReservesConsistent PROVE LockedBacksWorkingOrders
  <2>1. ASSUME NEW c \in Currencies
        PROVE  balances[c].locked =
                 LET mine == {id \in OrderIds : orders[id].working
                                                /\ reserveCurrency(orders[id]) = c}
                 IN  SumFunctionOnSet([id \in mine |-> paperReserveForOrder(orders[id])], mine)
    <3> DEFINE S == WorkingIn(orders, c)
               g == [id \in S |-> paperReserveForOrder(orders[id])]
    <3>1. IsFiniteSet(S)
      BY <1>1, WorkingIsFinite
    <3>2. \A id \in S : Reserves(orders)[id] = g[id]
      BY DEF WorkingIn, Reserves
    <3>3. SumFunctionOnSet(Reserves(orders), S) = SumFunctionOnSet(g, S)
      <4> HIDE DEF S, g
      <4>1. QED
        BY <3>1, <3>2, SumAgrees
    <3>4. balances[c].locked = SumFunctionOnSet(g, S)
      BY <1>1, <3>3 DEF ReservesConsistent, ReservedIn
    <3>5. QED
      BY <3>4 DEF WorkingIn
  <2>2. ASSUME NEW id \in OrderIds, orders[id].working, MinNotional > 0
        PROVE  paperReserveForOrder(orders[id]) > 0
    <3>1. orders[id] \in Order /\ orders[id].quantity > 0
      BY <1>1, <2>2 DEF Invariant, BooksConsistent, AccountTypeOK, NoOrder
    <3>2. orders[id].side = "buy" => Mul(orders[id].price, orders[id].quantity) > 0
      <4>1. orders[id].side = "buy" =>
              /\ Mul(orders[id].price, orders[id].quantity) >= MinNotional
              /\ Mul(orders[id].price, orders[id].quantity) \in Nat
        BY <1>1, <2>2, <3>1, MulIsAmount DEF ReservesConsistent, Order
      <4>2. QED
        BY <2>2, <4>1, AmountAssumption
    <3>3. QED
      BY <3>1, <3>2 DEF paperReserveForOrder, paperReserveForRemaining
  <2>3. QED
    BY <2>1, <2>2 DEF LockedBacksWorkingOrders, SumOver
<1>2. QED
  BY <1>1, ReservesHold, PTL

-----------------------------------------------------------------------------
(* Fills                                                                   *)

\* A fee below 100% leaves something of every amount.
LEMMA FeeLeavesSomething ==
  ASSUME NEW a \in Nat, FeeRate < Scale
  PROVE  /\ Mul(a, FeeRate) <= a
         /\ a > 0 => Mul(a, FeeRate) < a
<1>1. Scale \in Nat /\ Scale > 0 /\ FeeRate \in Nat
  BY AmountAssumption
<1>2. a * FeeRate \in Nat /\ a * Scale \in Nat
  BY <1>1
<1>3. a * FeeRate <= a * Scale /\ (a > 0 => a * FeeRate < a * Scale)
  BY <1>1
<1>4. \A x \in Nat : (x <= a * Scale => x \div Scale <= a) /\ (x < a * Scale => x \div Scale < a)
  BY <1>1
<1>5. QED
  BY <1>2, <1>3, <1>4 DEF Mul

\* What one working order reserved is locked.
LEMMA ReserveIsLocked ==
  ASSUME Invariant, ReservesConsistent, NEW id \in OrderIds, orders[id].working
  PROVE  paperReserveForOrder(orders[id]) <= balances[reserveCurrency(orders[id])].locked
<1> DEFINE c == reserveCurrency(orders[id])
           S == WorkingIn(orders, c)
<1>1. c \in Currencies /\ id \in S
  BY WorkingHoldsItsReserve DEF WorkingIn
<1>2. IsFiniteSet(S) /\ \A i \in S : Reserves(orders)[i] \in Nat
  BY WorkingIsFinite
<1>3. Reserves(orders)[id] <= SumFunctionOnSet(Reserves(orders), S)
  <2> HIDE DEF S
  <2>1. QED
    BY <1>1, <1>2, SumBoundsElement
<1>4. QED
  BY <1>1, <1>3 DEF ReservesConsistent, ReservedIn, Reserves

\* While the fee rate is below 100% no fill ever fails: its quantity survives
\* the fee and its reserve is still locked.
THEOREM FillsSettle == ASSUME FeeRate < Scale PROVE Spec => []FillsAlwaysSettle
<1>1. ASSUME Invariant, ReservesConsistent PROVE FillsAlwaysSettle
  <2> SUFFICES ASSUME NEW id \in OrderIds, Visiting(id)
               PROVE  /\ fillAllowed(orders[id])
                      /\ Covered(balances, reserveCurrency(orders[id]), 0, -fillDebit(orders[id]))
    BY DEF FillsAlwaysSettle, FillError
  <2> DEFINE o == orders[id]
             c == reserveCurrency(o)
  <2>1. o.working
    BY <1>1, VisitedOrder DEF Invariant
  <2>2. /\ o \in Order /\ c \in Currencies
        /\ fillQuantity(o) > 0 /\ fillQuantity(o) = o.quantity
        /\ fillDebit(o) = paperReserveForOrder(o)
        /\ fillDebit(o) \in Nat
    BY <1>1, <2>1, WorkingHoldsItsReserve
  <2>3. fillQuantity(o) \in Nat /\ fillNotional(o) \in Nat
    BY <2>2, MulIsAmount DEF Order, fillNotional
  <2>4. /\ o.side = "buy" => fillCredit(o) > 0
        /\ o.side # "buy" => fillCredit(o) >= 0
    <3>1. Mul(fillQuantity(o), FeeRate) < fillQuantity(o) /\ Mul(fillQuantity(o), FeeRate) \in Nat
      BY <2>2, <2>3, FeeLeavesSomething, MulIsAmount, AmountAssumption
    <3>2. Mul(fillNotional(o), FeeRate) <= fillNotional(o) /\ Mul(fillNotional(o), FeeRate) \in Nat
      BY <2>3, FeeLeavesSomething, MulIsAmount, AmountAssumption
    <3> HIDE DEF o
    <3>3. QED
      BY <2>3, <3>1, <3>2 DEF fillCredit, fillFee
  <2>5. fillAllowed(o)
    BY <2>2, <2>4 DEF fillAllowed
  <2>6. fillDebit(o) <= balances[c].locked
    BY <1>1, <2>1, <2>2, ReserveIsLocked
  <2>7. balances[c].available \in Nat /\ balances[c].locked \in Nat
    BY <1>1, <2>2 DEF Invariant, AccountTypeOK
  <2>8. Covered(balances, c, 0, -fillDebit(o))
    <3> HIDE DEF c, o
    <3>1. QED
      BY <2>2, <2>6, <2>7 DEF Covered
  <2>9. QED
    BY <2>5, <2>8
<1>2. QED
  BY <1>1, ReservesHold, PTL

-----------------------------------------------------------------------------
(* The quantity ahead of a lot, and what a sale takes of it                *)

Sized(lots) == lots \in Seq(Lot) /\ \A i \in DOMAIN lots : lots[i].quantity > 0

Quantities(lots) == [i \in DOMAIN lots |-> lots[i].quantity]

LEMMA LotQuantity ==
  ASSUME NEW lots, Sized(lots), NEW i \in DOMAIN lots
  PROVE  /\ i \in 1..Len(lots) /\ i \in Nat /\ Len(lots) \in Nat
         /\ lots[i] \in Lot
         /\ lots[i].quantity \in Nat /\ lots[i].quantity > 0
<1>1. lots \in Seq(Lot) /\ lots[i].quantity > 0
  BY DEF Sized
<1>2. Len(lots) \in Nat /\ DOMAIN lots = 1..Len(lots)
  BY <1>1, LenProperties
<1>3. lots[i] \in Lot
  BY <1>1, <1>2, ElementOfSeq
<1>4. QED
  BY <1>1, <1>2, <1>3 DEF Lot

LEMMA AheadSteps ==
  ASSUME NEW lots, Sized(lots)
  PROVE  /\ Ahead(lots, 1) = 0
         /\ \A i \in DOMAIN lots : Ahead(lots, i) \in Nat
                                   /\ Ahead(lots, i + 1) = Ahead(lots, i) + lots[i].quantity
<1> DEFINE f(i) == [j \in 1..(i - 1) |-> lots[j].quantity]
<1>0. DOMAIN lots = 1..Len(lots) /\ Len(lots) \in Nat
  BY DEF Sized
<1>1. Ahead(lots, 1) = 0
  <2>1. 1..(1 - 1) = {}
    OBVIOUS
  <2>2. QED
    BY <2>1, SumEmpty DEF Ahead, SumOver
<1>2. ASSUME NEW i \in DOMAIN lots
      PROVE  Ahead(lots, i) \in Nat /\ Ahead(lots, i + 1) = Ahead(lots, i) + lots[i].quantity
  <2> DEFINE S == 1..(i - 1)
  <2>0. i \in Nat /\ i >= 1 /\ i - 1 \in Int
    BY <1>0
  <2>1. i \in Nat /\ i >= 1 /\ IsFiniteSet(S) /\ i \notin S
    BY <2>0, FS_Interval
  <2>2. 1..((i + 1) - 1) = S \cup {i}
    BY <2>1
  <2>3. \A j \in S \cup {i} : j \in DOMAIN lots
    BY <1>0
  <2>4. \A j \in S \cup {i} : lots[j].quantity \in Nat
    BY <2>3, LotQuantity
  <2>5. \A j \in S : f(i + 1)[j] = f(i)[j] /\ f(i)[j] \in Nat
    BY <2>2, <2>4
  <2>6. \A j \in S \cup {i} : f(i + 1)[j] \in Int /\ f(i + 1)[i] = lots[i].quantity
    BY <2>2, <2>4
  <2>7. Ahead(lots, i) = SumFunctionOnSet(f(i), S)
    BY DEF Ahead, SumOver
  <2>8. Ahead(lots, i + 1) = SumFunctionOnSet(f(i + 1), S \cup {i})
    BY <2>2 DEF Ahead, SumOver
  <2> HIDE DEF f, S
  <2>9. SumFunctionOnSet(f(i), S) \in Nat
    BY <2>1, <2>5, SumIsNatural
  <2>10. SumFunctionOnSet(f(i + 1), S) = SumFunctionOnSet(f(i), S)
    BY <2>1, <2>5, SumAgrees
  <2>11. SumFunctionOnSet(f(i + 1), S \cup {i}) = f(i + 1)[i] + SumFunctionOnSet(f(i + 1), S)
    BY <2>1, <2>6, SumAdds
  <2>12. lots[i].quantity \in Nat
    BY LotQuantity
  <2>13. QED
    BY <2>6, <2>7, <2>8, <2>9, <2>10, <2>11, <2>12
<1>3. QED
  BY <1>1, <1>2

LEMMA AheadGrows ==
  ASSUME NEW lots, Sized(lots), NEW i \in DOMAIN lots, NEW j \in DOMAIN lots, i < j
  PROVE  Ahead(lots, i) + lots[i].quantity <= Ahead(lots, j)
<1> DEFINE C == {n \in Nat : i + 1 + n \in DOMAIN lots => Ahead(lots, i + 1) <= Ahead(lots, i + 1 + n)}
<1>0. DOMAIN lots = 1..Len(lots) /\ Len(lots) \in Nat /\ i \in Nat /\ j \in Nat
  BY DEF Sized
<1>1. Ahead(lots, i + 1) = Ahead(lots, i) + lots[i].quantity /\ Ahead(lots, i + 1) \in Nat
  BY AheadSteps, LotQuantity
<1>2. 0 \in C
  BY <1>0, <1>1
<1>3. \A n \in Nat : n \in C => n + 1 \in C
  <2> SUFFICES ASSUME NEW n \in Nat, n \in C, i + 1 + (n + 1) \in DOMAIN lots
               PROVE  Ahead(lots, i + 1) <= Ahead(lots, i + 1 + (n + 1))
    OBVIOUS
  <2> DEFINE k == i + 1 + n
  <2>1. k \in DOMAIN lots /\ k + 1 = i + 1 + (n + 1)
    BY <1>0
  <2>2. Ahead(lots, i + 1) <= Ahead(lots, k)
    BY <2>1
  <2>3. Ahead(lots, k + 1) = Ahead(lots, k) + lots[k].quantity /\ Ahead(lots, k) \in Nat
    BY <2>1, AheadSteps
  <2>4. lots[k].quantity \in Nat
    BY <2>1, LotQuantity
  <2> HIDE DEF k
  <2>5. QED
    BY <1>1, <2>1, <2>2, <2>3, <2>4
<1>4. j - (i + 1) \in C
  <2> HIDE DEF C
  <2>1. j - (i + 1) \in Nat
    BY <1>0
  <2>2. QED
    BY <1>2, <1>3, <2>1, CountingUp
<1>5. i + 1 + (j - (i + 1)) = j
  BY <1>0
<1>6. QED
  BY <1>1, <1>4, <1>5

LEMMA MinOfTwo == ASSUME NEW a \in Int, NEW b \in Int PROVE Min({a, b}) = IF a <= b THEN a ELSE b
BY DEF Min
LEMMA MaxOfTwo == ASSUME NEW a \in Int, NEW b \in Int PROVE Max({a, b}) = IF a <= b THEN b ELSE a
BY DEF Max

\* What a sale of q takes of a lot.
LEMMA CloseQuantityIs ==
  ASSUME NEW lots, Sized(lots), NEW i \in DOMAIN lots, NEW q \in Nat
  PROVE  /\ CloseQuantity(lots, q, i) \in Nat
         /\ CloseQuantity(lots, q, i) <= lots[i].quantity
         /\ q <= Ahead(lots, i) => CloseQuantity(lots, q, i) = 0
         /\ q > Ahead(lots, i) => CloseQuantity(lots, q, i) > 0
         /\ q >= Ahead(lots, i) + lots[i].quantity =>
              CloseQuantity(lots, q, i) = lots[i].quantity
         /\ q < Ahead(lots, i) + lots[i].quantity /\ q > Ahead(lots, i) =>
              CloseQuantity(lots, q, i) = q - Ahead(lots, i)
<1> DEFINE a == Ahead(lots, i)
           n == lots[i].quantity
<1>1. a \in Nat /\ n \in Nat /\ n > 0
  BY AheadSteps, LotQuantity
<1> HIDE DEF a, n
<1>2. Max({0, q - a}) = IF 0 <= q - a THEN q - a ELSE 0
  BY <1>1, MaxOfTwo
<1>3. Max({0, q - a}) \in Nat
  BY <1>1, <1>2
<1>4. Min({n, Max({0, q - a})}) = IF n <= Max({0, q - a}) THEN n ELSE Max({0, q - a})
  BY <1>1, <1>3, MinOfTwo
<1>5. CloseQuantity(lots, q, i) = IF q <= a THEN 0 ELSE IF n <= q - a THEN n ELSE q - a
  BY <1>1, <1>2, <1>3, <1>4 DEF CloseQuantity, a, n
<1>6. QED
  BY <1>1, <1>5 DEF a, n

\* A set of places that holds every place before one of its own is a prefix.
LEMMA PrefixLength ==
  ASSUME NEW n \in Nat, NEW A \in SUBSET (1..n), \A i \in A : \A j \in 1..i : j \in A
  PROVE  /\ Cardinality(A) \in 0..n
         /\ A = 1..Cardinality(A)
<1> DEFINE Down(B) == \A i \in B : \A j \in 1..i : j \in B
           Q(k) == \A B \in SUBSET (1..k) : Down(B) => \E m \in 0..k : B = 1..m
           C == {k \in Nat : Q(k)}
<1>1. 0 \in C
  <2>1. \A B \in SUBSET (1..0) : B = 1..0
    OBVIOUS
  <2>2. 0 \in 0..0
    OBVIOUS
  <2> HIDE DEF Down
  <2>3. QED
    BY <2>1, <2>2
<1>2. \A k \in Nat : k \in C => k + 1 \in C
  <2> SUFFICES ASSUME NEW k \in Nat, Q(k) PROVE Q(k + 1)
    <3> HIDE DEF Q
    <3>1. QED
      OBVIOUS
  <2> SUFFICES ASSUME NEW B \in SUBSET (1..(k + 1)), Down(B)
               PROVE  \E m \in 0..(k + 1) : B = 1..m
    OBVIOUS
  <2>1. CASE k + 1 \in B
    <3>1. B = 1..(k + 1)
      BY <2>1
    <3>2. QED
      BY <3>1
  <2>2. CASE k + 1 \notin B
    <3>1. B \in SUBSET (1..k)
      BY <2>2
    <3>2. PICK m \in 0..k : B = 1..m
      BY <3>1
    <3>3. QED
      BY <3>2
  <2>3. QED
    BY <2>1, <2>2
<1>3. n \in C
  <2> HIDE DEF C
  <2>1. QED
    BY <1>1, <1>2, CountingUp
<1>4. PICK m \in 0..n : A = 1..m
  BY <1>3
<1>5. Cardinality(1..m) = m
  BY FS_Interval
<1>6. QED
  BY <1>4, <1>5

-----------------------------------------------------------------------------
(* What a sale does to a market's lots: the first `full` are closed, the   *)
(* first `touched` give something, and the two differ by one at most.      *)

Remaining(lots, q) == [i \in DOMAIN lots |-> LotAfter(lots[i], CloseQuantity(lots, q, i))]

SalePlaces(lots, q, full, touched) ==
  /\ full \in 0..Len(lots) /\ touched \in 0..Len(lots)
  /\ full <= touched /\ touched <= full + 1
  /\ \A i \in DOMAIN lots : i <= full <=> CloseQuantity(lots, q, i) = lots[i].quantity
  /\ \A i \in DOMAIN lots : i <= touched <=> CloseQuantity(lots, q, i) > 0

LEMMA SaleIsPrefix ==
  ASSUME NEW lots, Sized(lots), NEW q \in Nat
  PROVE  LET touched == Cardinality({i \in DOMAIN lots : CloseQuantity(lots, q, i) > 0})
             full == Cardinality({i \in DOMAIN lots :
                       ~(i > touched \/ CloseQuantity(lots, q, i) < lots[i].quantity)})
         IN  SalePlaces(lots, q, full, touched)
<1> DEFINE n == Len(lots)
           T == {i \in DOMAIN lots : CloseQuantity(lots, q, i) > 0}
           touched == Cardinality(T)
           F == {i \in DOMAIN lots : ~(i > touched \/ CloseQuantity(lots, q, i) < lots[i].quantity)}
           full == Cardinality(F)
<1>0. DOMAIN lots = 1..n /\ n \in Nat
  BY DEF Sized
<1>1. \A i \in DOMAIN lots :
        /\ CloseQuantity(lots, q, i) > 0 <=> q > Ahead(lots, i)
        /\ CloseQuantity(lots, q, i) = lots[i].quantity <=> q >= Ahead(lots, i) + lots[i].quantity
        /\ Ahead(lots, i) \in Nat /\ lots[i].quantity \in Nat /\ lots[i].quantity > 0
        /\ CloseQuantity(lots, q, i) \in Nat /\ CloseQuantity(lots, q, i) <= lots[i].quantity
  <2> SUFFICES ASSUME NEW i \in DOMAIN lots
      PROVE  /\ CloseQuantity(lots, q, i) > 0 <=> q > Ahead(lots, i)
             /\ CloseQuantity(lots, q, i) = lots[i].quantity
                  <=> q >= Ahead(lots, i) + lots[i].quantity
             /\ Ahead(lots, i) \in Nat /\ lots[i].quantity \in Nat /\ lots[i].quantity > 0
             /\ CloseQuantity(lots, q, i) \in Nat /\ CloseQuantity(lots, q, i) <= lots[i].quantity
    OBVIOUS
  <2>1. Ahead(lots, i) \in Nat /\ lots[i].quantity \in Nat /\ lots[i].quantity > 0
    BY AheadSteps, LotQuantity
  <2>2. QED
    BY <2>1, CloseQuantityIs
<1>2. \A i \in DOMAIN lots : \A j \in DOMAIN lots : i < j =>
        Ahead(lots, i) + lots[i].quantity <= Ahead(lots, j)
  BY AheadGrows
<1>3. touched \in 0..n /\ T = 1..touched
  <2>1. T \in SUBSET (1..n)
    BY <1>0
  <2>2. \A i \in T : \A j \in 1..i : j \in T
    <3> SUFFICES ASSUME NEW i \in T, NEW j \in 1..i, j # i PROVE j \in T
      OBVIOUS
    <3>1. j \in DOMAIN lots /\ i \in DOMAIN lots /\ j < i
      BY <1>0
    <3>2. Ahead(lots, j) + lots[j].quantity <= Ahead(lots, i) /\ q > Ahead(lots, i)
      BY <1>1, <1>2, <3>1
    <3>3. QED
      BY <1>1, <3>1, <3>2
  <2> HIDE DEF T, n
  <2>3. QED
    BY <1>0, <2>1, <2>2, PrefixLength
<1>4. F = {i \in DOMAIN lots : q >= Ahead(lots, i) + lots[i].quantity}
  <2> SUFFICES ASSUME NEW i \in DOMAIN lots
               PROVE  ~(i > touched \/ CloseQuantity(lots, q, i) < lots[i].quantity)
                        <=> q >= Ahead(lots, i) + lots[i].quantity
    OBVIOUS
  <2>1. i \in T <=> i <= touched
    <3> HIDE DEF T, touched
    <3>1. QED
      BY <1>0, <1>3
  <2>2. i \in T <=> q > Ahead(lots, i)
    BY <1>1
  <2>3. i \in Nat /\ touched \in Nat
    BY <1>0, <1>3
  <2> HIDE DEF T, touched
  <2>4. QED
    BY <1>1, <2>1, <2>2, <2>3
<1>5. full \in 0..n /\ F = 1..full
  <2>1. F \in SUBSET (1..n)
    BY <1>0, <1>4
  <2>2. \A i \in F : \A j \in 1..i : j \in F
    <3> HIDE DEF F
    <3> SUFFICES ASSUME NEW i \in F, NEW j \in 1..i, j # i PROVE j \in F
      OBVIOUS
    <3>1. j \in DOMAIN lots /\ i \in DOMAIN lots /\ j < i
      BY <1>0, <2>1
    <3>2. /\ Ahead(lots, j) + lots[j].quantity <= Ahead(lots, i)
          /\ q >= Ahead(lots, i) + lots[i].quantity
      BY <1>2, <1>4, <3>1
    <3>3. QED
      BY <1>1, <1>4, <3>1, <3>2
  <2> HIDE DEF F, n
  <2>3. QED
    BY <1>0, <2>1, <2>2, PrefixLength
<1>6. \A i \in DOMAIN lots : i <= full <=> CloseQuantity(lots, q, i) = lots[i].quantity
  <2> HIDE DEF F, full, n
  <2> SUFFICES ASSUME NEW i \in DOMAIN lots
               PROVE  i <= full <=> CloseQuantity(lots, q, i) = lots[i].quantity
    OBVIOUS
  <2>1. i \in F <=> i <= full
    BY <1>0, <1>5
  <2>2. QED
    BY <1>1, <1>4, <2>1
<1>7. \A i \in DOMAIN lots : i <= touched <=> CloseQuantity(lots, q, i) > 0
  <2> SUFFICES ASSUME NEW i \in DOMAIN lots
               PROVE  i <= touched <=> i \in T
    OBVIOUS
  <2> HIDE DEF T, touched, n
  <2>1. QED
    BY <1>0, <1>3
<1>8. full <= touched /\ touched <= full + 1
  <2> HIDE DEF F, T, full, touched, n
  <2>1. full <= touched
    <3> SUFFICES ASSUME full > touched PROVE FALSE
      BY <1>3, <1>5
    <3>1. full \in DOMAIN lots
      BY <1>0, <1>3, <1>5
    <3>2. full <= touched
      BY <1>1, <1>3, <1>5, <1>6, <1>7, <3>1
    <3>3. QED
      BY <1>3, <1>5, <3>2
  <2>2. touched <= full + 1
    <3> SUFFICES ASSUME touched > full + 1 PROVE FALSE
      BY <1>3, <1>5
    <3> DEFINE i == full + 1
    <3>1. i \in DOMAIN lots /\ touched \in DOMAIN lots /\ i < touched /\ ~(i <= full)
      BY <1>0, <1>3, <1>5
    <3> HIDE DEF i
    <3>2. /\ Ahead(lots, i) + lots[i].quantity <= Ahead(lots, touched)
          /\ q > Ahead(lots, touched)
          /\ ~(q >= Ahead(lots, i) + lots[i].quantity)
      <4>1. CloseQuantity(lots, q, touched) > 0
        BY <1>3, <1>7, <3>1
      <4>2. QED
        BY <1>1, <1>2, <1>6, <3>1, <4>1
    <3>3. QED
      BY <1>1, <3>1, <3>2
  <2>3. QED
    BY <2>1, <2>2
<1>9. QED
  <2> HIDE DEF F, T, full, touched, n
  <2>1. SalePlaces(lots, q, full, touched)
    BY <1>3, <1>5, <1>6, <1>7, <1>8 DEF SalePlaces, n
  <2>2. QED
    BY <2>1 DEF full, touched, F, T

LotsLeft(lots, q, full) == SubSeq(Remaining(lots, q), full + 1, Len(lots))
SaleDeal(lots, trade, i) == ClosedPart(lots[i], CloseQuantity(lots, trade.quantity, i), trade)

\* The step of a sale: its first full lots leave, its first touched lots give
\* the realised trades.
SaleCloses(trade, full, touched) ==
  LET lots == positions[trade.symbol]
      q == trade.quantity
  IN /\ SalePlaces(lots, q, full, touched)
     /\ closed' = closed \o [i \in 1..touched |-> SaleDeal(lots, trade, i)]
     /\ positions' = [positions EXCEPT ![trade.symbol] = LotsLeft(lots, q, full)]

LEMMA SaleOutcome ==
  ASSUME NEW trade, trade.quantity \in Nat, Sized(positions[trade.symbol]),
         closePositionLots(trade)
  PROVE  \E full, touched \in Nat : SaleCloses(trade, full, touched)
<1> DEFINE lots == positions[trade.symbol]
           q == trade.quantity
           touched == Cardinality({i \in DOMAIN lots : CloseQuantity(lots, q, i) > 0})
           full == Cardinality({i \in DOMAIN lots :
                     ~(i > touched \/ CloseQuantity(lots, q, i) < lots[i].quantity)})
<1>1. SalePlaces(lots, q, full, touched)
  <2> HIDE DEF lots, q
  <2>1. Sized(lots) /\ q \in Nat
    BY DEF lots, q
  <2>2. QED
    BY <2>1, SaleIsPrefix
<1>2. SaleCloses(trade, full, touched)
  BY <1>1 DEF closePositionLots, Remaining, SaleCloses, SaleDeal, LotsLeft
<1>3. full \in Nat /\ touched \in Nat
  <2>1. Len(lots) \in Nat
    BY LenProperties DEF Sized
  <2> HIDE DEF full, touched
  <2>2. QED
    BY <1>1, <2>1 DEF SalePlaces
<1> HIDE DEF full, touched
<1>4. QED
  BY <1>2, <1>3

\* The share of an amount is never more than the amount.
LEMMA AllocateBounds ==
  ASSUME NEW a \in Nat, NEW part \in Nat, NEW whole \in Nat, whole > 0
  PROVE  /\ Allocate(a, part, whole) \in Nat
         /\ Allocate(a, part, whole) <= a
<1>0. Scale \in Nat /\ Scale > 0
  BY AmountAssumption
<1>1. CASE ~(part < whole)
  BY <1>1 DEF Allocate
<1>2. CASE part < whole
  <2> DEFINE p == a * part
             m == p \div Scale
  <2>1. p \in Nat /\ p <= a * whole
    BY <1>2
  <2>2. m \in Nat /\ m * Scale <= p
    <3> HIDE DEF p
    <3>1. QED
      BY <1>0, <2>1
  <2>3. m * Scale \in Nat /\ m * Scale <= a * whole
    <3> HIDE DEF m, p
    <3>0. a * whole \in Nat
      OBVIOUS
    <3>1. m * Scale \in Nat
      BY <1>0, <2>2
    <3>2. QED
      BY <2>1, <2>2, <3>0, <3>1
  <2>4. \A x \in Nat : x <= a * whole => (x \div whole \in Nat /\ x \div whole <= a)
    OBVIOUS
  <2>5. Allocate(a, part, whole) = (m * Scale) \div whole
    BY <1>2 DEF Allocate, Quotient, Mul
  <2> HIDE DEF m
  <2>6. QED
    BY <2>3, <2>4, <2>5
<1>3. QED
  BY <1>1, <1>2

\* What is left of a lot is a lot.
LEMMA LotAfterIsLot ==
  ASSUME NEW lot \in Lot, lot.quantity > 0, NEW part \in Nat, part <= lot.quantity
  PROVE  /\ LotAfter(lot, part) \in Lot
         /\ LotAfter(lot, part).order = lot.order
         /\ LotAfter(lot, part).quantity = lot.quantity - part
<1>1. /\ Allocate(lot.entryNotional, part, lot.quantity) \in Nat
      /\ Allocate(lot.entryNotional, part, lot.quantity) <= lot.entryNotional
      /\ Allocate(lot.entryFee, part, lot.quantity) \in Nat
      /\ Allocate(lot.entryFee, part, lot.quantity) <= lot.entryFee
  BY AllocateBounds DEF Lot
<1>2. LotAfter(lot, part) =
        [lot EXCEPT !.quantity = lot.quantity - part,
                    !.entryNotional = lot.entryNotional - Allocate(lot.entryNotional, part, lot.quantity),
                    !.entryFee = lot.entryFee - Allocate(lot.entryFee, part, lot.quantity)]
  BY DEF LotAfter
<1> DEFINE a == Allocate(lot.entryNotional, part, lot.quantity)
           b == Allocate(lot.entryFee, part, lot.quantity)
<1> HIDE DEF a, b
<1>3. /\ a \in Nat /\ a <= lot.entryNotional /\ b \in Nat /\ b <= lot.entryFee
      /\ LotAfter(lot, part) = [lot EXCEPT !.quantity = lot.quantity - part,
                                          !.entryNotional = lot.entryNotional - a,
                                          !.entryFee = lot.entryFee - b]
  BY <1>1, <1>2 DEF a, b
<1>4. /\ lot.order \in OrderIds /\ lot.quantity \in Nat
      /\ lot.entryNotional \in Nat /\ lot.entryFee \in Nat
  BY DEF Lot
<1>5. LotAfter(lot, part) = [order |-> lot.order, quantity |-> lot.quantity - part,
                             entryNotional |-> lot.entryNotional - a,
                             entryFee |-> lot.entryFee - b]
  BY <1>3 DEF Lot
<1>6. /\ lot.quantity - part \in Nat
      /\ lot.entryNotional - a \in Nat
      /\ lot.entryFee - b \in Nat
  BY <1>3, <1>4
<1>7. QED
  BY <1>4, <1>5, <1>6 DEF Lot

\* The lots a sale leaves are the ones behind those it closed.
LEMMA RemainingLots ==
  ASSUME NEW lots, Sized(lots), NEW q \in Nat, NEW full \in Nat, NEW touched \in Nat,
         SalePlaces(lots, q, full, touched)
  PROVE  LET left == LotsLeft(lots, q, full)
         IN  /\ Sized(left)
             /\ DOMAIN left = 1..(Len(lots) - full)
             /\ Len(left) = Len(lots) - full
             /\ \A j \in DOMAIN left :
                  /\ full + j \in DOMAIN lots
                  /\ left[j] = LotAfter(lots[full + j], CloseQuantity(lots, q, full + j))
                  /\ left[j].order = lots[full + j].order
                  /\ left[j].quantity
                       = lots[full + j].quantity - CloseQuantity(lots, q, full + j)
<1> DEFINE n == Len(lots)
           rest == Remaining(lots, q)
           left == SubSeq(rest, full + 1, n)
<1>0. lots \in Seq(Lot) /\ DOMAIN lots = 1..n /\ n \in Nat /\ full \in 0..n
  BY LenProperties DEF Sized, SalePlaces
<1>1. \A i \in DOMAIN lots :
        /\ rest[i] \in Lot
        /\ rest[i].order = lots[i].order
        /\ rest[i].quantity = lots[i].quantity - CloseQuantity(lots, q, i)
        /\ rest[i] = LotAfter(lots[i], CloseQuantity(lots, q, i))
        /\ CloseQuantity(lots, q, i) \in Nat
        /\ CloseQuantity(lots, q, i) <= lots[i].quantity
        /\ lots[i].quantity \in Nat
  <2> SUFFICES ASSUME NEW i \in DOMAIN lots
      PROVE  /\ rest[i] \in Lot
             /\ rest[i].order = lots[i].order
             /\ rest[i].quantity = lots[i].quantity - CloseQuantity(lots, q, i)
             /\ rest[i] = LotAfter(lots[i], CloseQuantity(lots, q, i))
             /\ CloseQuantity(lots, q, i) \in Nat
             /\ CloseQuantity(lots, q, i) <= lots[i].quantity
             /\ lots[i].quantity \in Nat
    OBVIOUS
  <2>1. /\ lots[i] \in Lot /\ lots[i].quantity > 0 /\ lots[i].quantity \in Nat
        /\ CloseQuantity(lots, q, i) \in Nat
        /\ CloseQuantity(lots, q, i) <= lots[i].quantity
    BY LotQuantity, CloseQuantityIs
  <2>2. rest[i] = LotAfter(lots[i], CloseQuantity(lots, q, i))
    BY DEF Remaining
  <2>3. QED
    BY <2>1, <2>2, LotAfterIsLot
<1>2. rest \in Seq(Lot) /\ Len(rest) = n
  <2>1. rest = [i \in 1..n |-> rest[i]]
    BY <1>0 DEF Remaining
  <2>2. \A i \in 1..n : rest[i] \in Lot
    BY <1>0, <1>1
  <2> HIDE DEF rest, n
  <2>3. rest \in [1..n -> Lot]
    BY <2>1, <2>2
  <2>4. QED
    BY <1>0, <2>3, LenProperties
<1>3. /\ Len(left) = n - full
      /\ left \in Seq(Lot)
      /\ DOMAIN left = 1..(n - full)
      /\ \A j \in 1..(n - full) : left[j] = rest[full + j]
  <2> HIDE DEF rest, n
  <2>1. full + 1 \in 1..(n + 1) /\ full + 1 - 1 = full
    BY <1>0
  <2>2. SubSeq(rest, full + 1, n) \in Seq(Lot)
    BY <1>0, <1>2, <2>1, SubSeqProperties
  <2>3. /\ Len(left) = n - full
        /\ \A j \in 1..(n - full) : left[j] = rest[full + j]
    <3>1. Len(left) = IF full + 1 <= n THEN n - (full + 1) + 1 ELSE 0
      BY <1>0, <1>2, <2>1, SubSeqProperties
    <3>2. \A j \in 1..(n - (full + 1) + 1) : left[j] = rest[(full + 1) + j - 1]
      BY <1>0, <1>2, <2>1, SubSeqProperties
    <3> HIDE DEF left
    <3>3. n - (full + 1) + 1 = n - full
      BY <1>0
    <3>4. \A j \in 1..(n - full) : (full + 1) + j - 1 = full + j
      BY <1>0
    <3>5. Len(left) = n - full
      BY <1>0, <3>1
    <3>6. QED
      BY <3>2, <3>3, <3>4, <3>5
  <2>4. QED
    BY <2>2, <2>3, LenProperties
<1>4. \A j \in 1..(n - full) : full + j \in DOMAIN lots /\ ~(full + j <= full)
  BY <1>0
<1>5. \A j \in 1..(n - full) : left[j].quantity > 0
  <2> SUFFICES ASSUME NEW j \in 1..(n - full) PROVE left[j].quantity > 0
    OBVIOUS
  <2>1. full + j \in DOMAIN lots /\ CloseQuantity(lots, q, full + j) # lots[full + j].quantity
    BY <1>4 DEF SalePlaces
  <2>2. left[j] = rest[full + j]
    BY <1>3
  <2> HIDE DEF left, rest, n
  <2>3. QED
    BY <1>1, <2>1, <2>2
<1>6. QED
  <2> HIDE DEF rest, n, left
  <2>1. /\ Sized(left)
        /\ DOMAIN left = 1..(n - full)
        /\ \A j \in DOMAIN left :
                  /\ full + j \in DOMAIN lots
                  /\ left[j] = LotAfter(lots[full + j], CloseQuantity(lots, q, full + j))
                  /\ left[j].order = lots[full + j].order
                  /\ left[j].quantity
                       = lots[full + j].quantity - CloseQuantity(lots, q, full + j)
    BY <1>1, <1>3, <1>4, <1>5 DEF Sized
  <2>2. QED
    BY <1>3, <2>1 DEF left, n, rest, LotsLeft

-----------------------------------------------------------------------------
(* The lots and the realised trades                                        *)

Deal == [symbol: Symbols, entry: OrderIds, exit: OrderIds, quantity: Nat \ {0},
         entryNotional: Nat, entryFee: Nat, exitNotional: Nat, exitFee: Nat, pnl: Int]

\* id is a filled order of the given market and side.
FilledOn(ords, id, s, side) ==
  /\ id \in OrderIds
  /\ ords[id].status = "filled"
  /\ ords[id].symbol = s
  /\ ords[id].side = side

\* The id of the trade that filled an order.
TradeOf(trs, id) == trs[id][1].id

\* Every lot is what is left of a filled buy, and every realised trade closes
\* some of a filled buy with a filled sale of the same market.
LotsConsistent ==
  /\ positions \in [Symbols -> Seq(Lot)]
  /\ closed \in Seq(Deal)
  /\ \A s \in Symbols : Sized(positions[s])
  /\ \A id \in OrderIds : Filled(id) => TradeOf(trades, id) < nextTrade
  /\ \A s \in Symbols : \A i \in DOMAIN positions[s] : FilledOn(orders, positions[s][i].order, s, "buy")
  /\ \A k \in DOMAIN closed : /\ FilledOn(orders, closed[k].entry, closed[k].symbol, "buy")
                              /\ FilledOn(orders, closed[k].exit, closed[k].symbol, "sell")

\* Lots are queued in fill order, and nothing was closed past one still open.
LotsInOrder ==
  /\ \A s \in Symbols : \A i, j \in DOMAIN positions[s] :
       i < j => TradeOf(trades, positions[s][i].order) < TradeOf(trades, positions[s][j].order)
  /\ \A k \in DOMAIN closed : \A i \in DOMAIN positions[closed[k].symbol] :
       TradeOf(trades, closed[k].entry) <= TradeOf(trades, positions[closed[k].symbol][i].order)
  /\ ClosesOldestLotFirst

LEMMA LotsInit == Init => LotsConsistent /\ LotsInOrder
BY DEF Init, LotsConsistent, LotsInOrder, Sized, Filled, NoOrder, ClosesOldestLotFirst

\* What a fill does to the orders and their trades.
LEMMA FillBooks ==
  ASSUME Invariant, NEW id \in OrderIds, fillOrder(id)
  PROVE  LET o == orders[id]
             trade == Fill(id, nextTrade, call.bar.end)
         IN  /\ o \in Order /\ o.working /\ ~Filled(id) /\ fillAllowed(o)
             /\ o.executed = 0 /\ fillQuantity(o) = o.quantity
             /\ trades[id] = <<>> /\ trades'[id] = <<trade>>
             /\ orders'[id] = FilledOrder(o)
             /\ Filled(id)' /\ orders'[id].symbol = o.symbol /\ orders'[id].side = o.side
             /\ ~orders'[id].working
             /\ trade \in Trade
             /\ nextTrade' = nextTrade + 1 /\ nextTrade \in Nat
             /\ \A other \in OrderIds \ {id} :
                  orders'[other] = orders[other] /\ trades'[other] = trades[other]
<1> DEFINE o == orders[id]
           trade == Fill(id, nextTrade, call.bar.end)
<1>1. /\ AccountTypeOK /\ o \in Order /\ o.working
      /\ call.bar \in Bars
      /\ fillAllowed(o)
      /\ orders' = [orders EXCEPT ![id] = FilledOrder(o)]
      /\ trades' = [trades EXCEPT ![id] = Append(@, trade)]
      /\ nextTrade' = nextTrade + 1 /\ nextTrade \in Nat
  BY VisitedOrder DEF Invariant, fillOrder, AccountTypeOK
<1>2. o.status = "new" /\ ~Filled(id) /\ Len(trades[id]) = 0
  BY <1>1 DEF Invariant, BooksConsistent, Filled
<1>3. trades[id] = <<>>
  BY <1>1, <1>2, EmptySeq DEF AccountTypeOK
<1>4. trade \in Trade
  BY <1>1, FillAmounts, InputAssumption DEF Fill, Trade, Order, Bar, AccountTypeOK
<1>5. /\ orders'[id] = FilledOrder(o)
      /\ \A other \in OrderIds \ {id} :
           orders'[other] = orders[other] /\ trades'[other] = trades[other]
  BY <1>1 DEF AccountTypeOK
<1>6. trades'[id] = <<trade>>
  <2> HIDE DEF trade
  <2>1. trades'[id] = Append(trades[id], trade)
    BY <1>1 DEF AccountTypeOK
  <2>2. QED
    BY <1>3, <2>1
<1>7. /\ FilledOrder(o).status = "filled" /\ FilledOrder(o).symbol = o.symbol
      /\ FilledOrder(o).side = o.side /\ FilledOrder(o).working = FALSE
  BY <1>1 DEF FilledOrder, Order
<1>8. o.executed = 0 /\ fillQuantity(o) = o.quantity
  BY <1>1, WorkingHoldsItsReserve
<1> HIDE DEF trade
<1>9. QED
  BY <1>1, <1>2, <1>3, <1>4, <1>5, <1>6, <1>7, <1>8 DEF Filled, trade

\* What was filled before a fill is filled the same after it.
LEMMA FilledStaysFilled ==
  ASSUME Invariant, NEW id \in OrderIds, fillOrder(id),
         NEW old, NEW s, NEW side, FilledOn(orders, old, s, side)
  PROVE  FilledOn(orders', old, s, side) /\ TradeOf(trades', old) = TradeOf(trades, old) /\ old # id
<1>1. old \in OrderIds /\ Filled(old) /\ old # id
  BY FillBooks DEF FilledOn, Filled
<1>2. orders'[old] = orders[old] /\ trades'[old] = trades[old]
  BY <1>1, FillBooks
<1>3. QED
  BY <1>1, <1>2 DEF FilledOn, Filled, TradeOf

LEMMA TradeIdsStayBelow ==
  ASSUME Invariant, LotsConsistent, NEW f \in OrderIds, fillOrder(f),
         NEW id \in OrderIds, orders'[id].status = "filled"
  PROVE  TradeOf(trades', id) < nextTrade'
<1>1. nextTrade' = nextTrade + 1 /\ nextTrade \in Nat
  BY FillBooks
<1>2. CASE id = f
  <2>1. trades'[f] = <<Fill(f, nextTrade, call.bar.end)>>
    BY FillBooks
  <2>2. TradeOf(trades', id) = nextTrade
    BY <1>2, <2>1 DEF TradeOf, Fill
  <2>3. QED
    BY <1>1, <2>2
<1>3. CASE id # f
  <2>1. orders'[id] = orders[id] /\ trades'[id] = trades[id]
    BY <1>3, FillBooks
  <2>2. Filled(id)
    BY <2>1 DEF Filled
  <2>3. Len(trades[id]) = 1 /\ trades[id] \in Seq(Trade)
    BY <2>2 DEF Invariant, BooksConsistent, AccountTypeOK
  <2>4. trades[id][1] \in Trade
    BY <2>3
  <2>5. TradeOf(trades, id) < nextTrade /\ TradeOf(trades, id) \in Nat
    BY <2>2, <2>4 DEF LotsConsistent, TradeOf, Trade, Filled
  <2>6. QED
    BY <1>1, <2>1, <2>5 DEF TradeOf
<1>4. QED
  BY <1>2, <1>3

\* A buy queues the new lot behind the others.
LEMMA LotsBuy ==
  ASSUME Invariant, LotsConsistent, NEW id \in OrderIds, fillOrder(id),
         orders[id].side = "buy"
  PROVE  LET o == orders[id]
             lots == positions[o.symbol]
         IN  /\ o.symbol \in Symbols
             /\ BoughtLot(o, id) \in Lot /\ BoughtLot(o, id).quantity > 0
             /\ BoughtLot(o, id).quantity = fillCredit(o) /\ BoughtLot(o, id).order = id
             /\ positions' = [positions EXCEPT ![o.symbol] = Append(lots, BoughtLot(o, id))]
             /\ closed' = closed
<1> DEFINE o == orders[id]
<1>1. o \in Order /\ fillAllowed(o) /\ o.symbol \in Symbols /\ o.price \in Nat
  BY FillBooks DEF Order
<1>2. fillCredit(o) \in Nat /\ fillFee(o) \in Nat /\ fillCredit(o) > 0
  BY <1>1, FillAmounts DEF fillAllowed
<1>3. BoughtLot(o, id) \in Lot /\ BoughtLot(o, id).quantity > 0
      /\ BoughtLot(o, id).quantity = fillCredit(o) /\ BoughtLot(o, id).order = id
  BY <1>1, <1>2, MulIsAmount DEF BoughtLot, Lot
<1>4. /\ positions' = [positions EXCEPT ![o.symbol] = Append(positions[o.symbol], BoughtLot(o, id))]
      /\ closed' = closed
  BY DEF fillOrder, OpenLot
<1>5. QED
  BY <1>1, <1>3, <1>4

\* A sale closes lots from the front.
LEMMA LotsSell ==
  ASSUME Invariant, LotsConsistent, NEW id \in OrderIds, fillOrder(id),
         orders[id].side # "buy"
  PROVE  LET o == orders[id]
             trade == Fill(id, nextTrade, call.bar.end)
         IN  /\ o.symbol \in Symbols /\ o.side = "sell"
             /\ trade \in Trade /\ trade.symbol = o.symbol /\ trade.order = id
             /\ trade.quantity = o.quantity /\ trade.quantity \in Nat /\ trade.quantity > 0
             /\ \E full, touched \in Nat : SaleCloses(trade, full, touched)
<1> DEFINE o == orders[id]
           trade == Fill(id, nextTrade, call.bar.end)
<1>1. o \in Order /\ o.symbol \in Symbols /\ o.side = "sell"
  BY FillBooks DEF Order, Sides
<1>2. trade \in Trade /\ trade.symbol = o.symbol /\ trade.quantity = o.quantity /\ o.quantity > 0
      /\ trade.order = id
  BY FillBooks DEF Fill, fillAllowed
<1>3. closePositionLots(trade)
  BY DEF fillOrder
<1>4. Sized(positions[o.symbol])
  BY <1>1 DEF LotsConsistent
<1>5. trade.quantity \in Nat
  BY <1>2 DEF Trade
<1> HIDE DEF trade
<1>6. \E full, touched \in Nat : SaleCloses(trade, full, touched)
  BY <1>2, <1>3, <1>4, <1>5, SaleOutcome
<1>7. QED
  BY <1>1, <1>2, <1>5, <1>6 DEF trade

\* The realised trades of one sale.
LEMMA SaleDeals ==
  ASSUME NEW lots, Sized(lots), NEW trade \in Trade, trade.quantity > 0,
         NEW full \in Nat, NEW touched \in Nat, SalePlaces(lots, trade.quantity, full, touched),
         NEW i \in 1..touched
  PROVE  LET deal == SaleDeal(lots, trade, i)
         IN  /\ i \in DOMAIN lots
             /\ deal \in Deal
             /\ deal.symbol = trade.symbol /\ deal.entry = lots[i].order
             /\ deal.exit = trade.order
             /\ deal.quantity = CloseQuantity(lots, trade.quantity, i)
<1> DEFINE q == trade.quantity
           part == CloseQuantity(lots, q, i)
           lot == lots[i]
<1>1. /\ trade.symbol \in Symbols /\ trade.order \in OrderIds /\ q \in Nat
      /\ trade.fee \in Nat /\ trade.price \in Nat
  BY DEF Trade
<1>2. i \in DOMAIN lots /\ part > 0
  <2>1. DOMAIN lots = 1..Len(lots) /\ Len(lots) \in Nat /\ touched \in 0..Len(lots)
    BY LenProperties DEF Sized, SalePlaces
  <2>2. i \in DOMAIN lots /\ i <= touched
    BY <2>1
  <2>3. QED
    BY <2>2 DEF SalePlaces
<1>3. part \in Nat /\ lot \in Lot /\ lot.quantity \in Nat /\ lot.quantity > 0
  BY <1>1, <1>2, CloseQuantityIs, LotQuantity
<1> DEFINE en == Allocate(lot.entryNotional, part, lot.quantity)
           ef == Allocate(lot.entryFee, part, lot.quantity)
           xf == Allocate(trade.fee, part, q)
           xn == Mul(trade.price, part)
<1>4. en \in Nat /\ ef \in Nat /\ xf \in Nat /\ xn \in Nat
  <2> HIDE DEF part, lot
  <2>1. lot.entryNotional \in Nat /\ lot.entryFee \in Nat
    BY <1>3 DEF Lot
  <2>2. QED
    BY <1>1, <1>3, <2>1, AllocateBounds, MulIsAmount
<1>5. ClosedPart(lot, part, trade) =
        [symbol |-> trade.symbol, entry |-> lot.order, exit |-> trade.order, quantity |-> part,
         entryNotional |-> en, entryFee |-> ef, exitNotional |-> xn, exitFee |-> xf,
         pnl |-> xn - xf - en - ef]
  BY DEF ClosedPart
<1> HIDE DEF part, en, ef, xf, xn, lot
<1>6. lot.order \in OrderIds /\ xn - xf - en - ef \in Int /\ part \in Nat \ {0}
  BY <1>2, <1>3, <1>4 DEF Lot
<1>7. /\ ClosedPart(lot, part, trade) \in Deal
      /\ ClosedPart(lot, part, trade).symbol = trade.symbol
      /\ ClosedPart(lot, part, trade).entry = lot.order
      /\ ClosedPart(lot, part, trade).exit = trade.order
      /\ ClosedPart(lot, part, trade).quantity = part
  BY <1>1, <1>4, <1>5, <1>6 DEF Deal
<1>8. QED
  BY <1>2, <1>7 DEF lot, part, SaleDeal

\* The realised trades after a sale: those from before, then one per touched lot.
LEMMA ClosedAfterSale ==
  ASSUME closed \in Seq(Deal), NEW trade \in Trade, trade.quantity > 0,
         Sized(positions[trade.symbol]),
         NEW full \in Nat, NEW touched \in Nat, SaleCloses(trade, full, touched)
  PROVE  LET lots == positions[trade.symbol]
         IN  /\ closed' \in Seq(Deal)
             /\ touched \in Nat
             /\ Len(closed') = Len(closed) + touched /\ Len(closed) \in Nat
             /\ \A k \in 1..Len(closed) : closed'[k] = closed[k]
             /\ \A i \in 1..touched : closed'[Len(closed) + i] = SaleDeal(lots, trade, i)
<1> DEFINE lots == positions[trade.symbol]
           deal(i) == SaleDeal(lots, trade, i)
           deals == [i \in 1..touched |-> deal(i)]
<1>1. touched \in Nat
  BY LenProperties DEF SaleCloses, SalePlaces, Sized
<1>2. \A i \in 1..touched : deal(i) \in Deal
  BY SaleDeals DEF SaleCloses
<1>3. deals \in Seq(Deal) /\ Len(deals) = touched /\ \A i \in 1..touched : deals[i] = deal(i)
  <2> HIDE DEF deal
  <2>1. QED
    BY <1>1, <1>2
<1>4. closed' = closed \o deals
  BY DEF SaleCloses
<1> HIDE DEF deals, deal
<1>5. /\ closed' \in Seq(Deal)
      /\ Len(closed') = Len(closed) + touched
      /\ \A k \in 1..(Len(closed) + touched) :
           closed'[k] = IF k <= Len(closed) THEN closed[k] ELSE deals[k - Len(closed)]
  BY <1>1, <1>3, <1>4, ConcatProperties
<1>6. Len(closed) \in Nat
  BY LenProperties
<1>7. \A k \in 1..Len(closed) : closed'[k] = closed[k]
  BY <1>1, <1>5, <1>6
<1>8. \A i \in 1..touched : closed'[Len(closed) + i] = deal(i)
  <2> SUFFICES ASSUME NEW i \in 1..touched PROVE closed'[Len(closed) + i] = deals[i]
    BY <1>3
  <2>1. Len(closed) + i \in 1..(Len(closed) + touched) /\ ~(Len(closed) + i <= Len(closed))
        /\ (Len(closed) + i) - Len(closed) = i
    BY <1>1, <1>6
  <2>2. QED
    BY <1>5, <2>1
<1>9. QED
  BY <1>1, <1>5, <1>6, <1>7, <1>8 DEF deal

LEMMA LotsConsistentSell ==
  ASSUME Invariant, LotsConsistent, NEW id \in OrderIds, fillOrder(id),
         orders[id].side # "buy"
  PROVE  LotsConsistent'
<1> DEFINE s == orders[id].symbol
           lots == positions[s]
           trade == Fill(id, nextTrade, call.bar.end)
           q == trade.quantity
<1>1. /\ s \in Symbols /\ trade \in Trade /\ trade.symbol = s /\ trade.order = id
      /\ q \in Nat /\ q > 0
      /\ orders[id].side = "sell"
  BY LotsSell
<1>2. PICK full \in Nat, touched \in Nat : SaleCloses(trade, full, touched)
  BY LotsSell
<1> HIDE DEF trade
<1>3. Sized(lots) /\ closed \in Seq(Deal) /\ DOMAIN positions = Symbols
  BY <1>1 DEF LotsConsistent
<1> DEFINE left == LotsLeft(lots, q, full)
<1>4. /\ SalePlaces(lots, q, full, touched)
      /\ positions' = [positions EXCEPT ![s] = left]
  BY <1>1, <1>2 DEF SaleCloses
<1>5. /\ Sized(left)
      /\ \A j \in DOMAIN left : full + j \in DOMAIN lots /\ left[j].order = lots[full + j].order
  <2> HIDE DEF lots
  <2>1. QED
    BY <1>1, <1>3, <1>4, RemainingLots
<1> HIDE DEF left
<1>6. positions' \in [Symbols -> Seq(Lot)] /\ \A r \in Symbols : Sized(positions'[r])
  BY <1>1, <1>4, <1>5 DEF LotsConsistent, Sized
<1>7. ASSUME NEW r \in Symbols, NEW i \in DOMAIN positions'[r]
      PROVE  FilledOn(orders', positions'[r][i].order, r, "buy")
  <2>1. CASE r = s
    <3>1. positions'[r] = left
      BY <1>1, <1>3, <1>4, <2>1
    <3>2. full + i \in DOMAIN lots /\ positions'[r][i].order = lots[full + i].order
      BY <1>5, <1>7, <3>1
    <3>3. FilledOn(orders, lots[full + i].order, s, "buy")
      BY <1>1, <3>2 DEF LotsConsistent
    <3>4. FilledOn(orders', lots[full + i].order, s, "buy")
      BY <3>3, FilledStaysFilled
    <3>5. QED
      BY <2>1, <3>2, <3>4
  <2>2. CASE r # s
    <3>1. positions'[r] = positions[r]
      BY <1>3, <1>4, <2>2
    <3>2. FilledOn(orders, positions[r][i].order, r, "buy")
      BY <1>7, <3>1 DEF LotsConsistent
    <3>3. QED
      BY <3>1, <3>2, FilledStaysFilled
  <2>3. QED
    BY <2>1, <2>2
<1>8. /\ closed' \in Seq(Deal)
      /\ Len(closed') = Len(closed) + touched /\ Len(closed) \in Nat
      /\ \A k \in 1..Len(closed) : closed'[k] = closed[k]
      /\ \A i \in 1..touched :
           closed'[Len(closed) + i] = SaleDeal(lots, trade, i)
  BY <1>1, <1>2, <1>3, ClosedAfterSale
<1>9. ASSUME NEW k \in DOMAIN closed'
      PROVE  /\ FilledOn(orders', closed'[k].entry, closed'[k].symbol, "buy")
             /\ FilledOn(orders', closed'[k].exit, closed'[k].symbol, "sell")
  <2>0. k \in 1..(Len(closed) + touched)
    BY <1>8, LenProperties
  <2>1. CASE k <= Len(closed)
    <3>1. k \in DOMAIN closed /\ closed'[k] = closed[k]
      BY <1>3, <1>8, <2>0, <2>1, LenProperties
    <3>2. /\ FilledOn(orders, closed[k].entry, closed[k].symbol, "buy")
          /\ FilledOn(orders, closed[k].exit, closed[k].symbol, "sell")
      BY <3>1 DEF LotsConsistent
    <3>3. QED
      BY <3>1, <3>2, FilledStaysFilled
  <2>2. CASE k > Len(closed)
    <3>1. PICK i \in 1..touched : k = Len(closed) + i
      <4>1. k - Len(closed) \in 1..touched /\ k = Len(closed) + (k - Len(closed))
        BY <1>8, <2>0, <2>2
      <4>2. QED
        BY <4>1
    <3>2. /\ i \in DOMAIN lots
          /\ closed'[k].symbol = s /\ closed'[k].entry = lots[i].order /\ closed'[k].exit = id
      <4> HIDE DEF lots
      <4>1. closed'[k] = SaleDeal(lots, trade, i)
        BY <1>8, <3>1
      <4>2. Sized(lots) /\ SalePlaces(lots, trade.quantity, full, touched)
            /\ trade \in Trade /\ trade.quantity > 0
        BY <1>1, <1>3, <1>4
      <4>3. /\ i \in DOMAIN lots
            /\ SaleDeal(lots, trade, i).symbol = trade.symbol
            /\ SaleDeal(lots, trade, i).entry = lots[i].order
            /\ SaleDeal(lots, trade, i).exit = trade.order
        BY <4>2, SaleDeals
      <4>4. QED
        BY <1>1, <4>1, <4>3
    <3>3. FilledOn(orders, lots[i].order, s, "buy")
      BY <1>1, <3>2 DEF LotsConsistent
    <3>4. FilledOn(orders', lots[i].order, s, "buy")
      BY <3>3, FilledStaysFilled
    <3>5. FilledOn(orders', id, s, "sell")
      BY <1>1, FillBooks DEF FilledOn, Filled
    <3>6. QED
      BY <3>2, <3>4, <3>5
  <2>3. QED
    BY <1>8, <2>0, <2>1, <2>2
<1>10. QED
  BY <1>6, <1>7, <1>8, <1>9, TradeIdsStayBelow DEF LotsConsistent, Filled

LEMMA LotsConsistentBuy ==
  ASSUME Invariant, LotsConsistent, NEW id \in OrderIds, fillOrder(id),
         orders[id].side = "buy"
  PROVE  LotsConsistent'
<1> DEFINE s == orders[id].symbol
           lots == positions[s]
           lot == BoughtLot(orders[id], id)
<1>1. /\ s \in Symbols /\ lot \in Lot /\ lot.quantity > 0 /\ lot.order = id
      /\ positions' = [positions EXCEPT ![s] = Append(lots, lot)]
      /\ closed' = closed
  BY LotsBuy
<1> HIDE DEF lot
<1>2. /\ Sized(lots) /\ lots \in Seq(Lot) /\ DOMAIN positions = Symbols
      /\ DOMAIN lots = 1..Len(lots) /\ Len(lots) \in Nat
  BY <1>1, LenProperties DEF LotsConsistent, Sized
<1>3. /\ Append(lots, lot) \in Seq(Lot)
      /\ DOMAIN Append(lots, lot) = 1..(Len(lots) + 1)
      /\ \A i \in DOMAIN lots : Append(lots, lot)[i] = lots[i]
      /\ Append(lots, lot)[Len(lots) + 1] = lot
  BY <1>1, <1>2, AppendProperties, LenProperties
<1>4. \A i \in DOMAIN Append(lots, lot) :
        \/ i \in DOMAIN lots /\ Append(lots, lot)[i] = lots[i]
        \/ i = Len(lots) + 1 /\ Append(lots, lot)[i] = lot
  BY <1>2, <1>3
<1>5. Sized(Append(lots, lot))
  BY <1>1, <1>2, <1>3, <1>4 DEF Sized
<1>6. positions' \in [Symbols -> Seq(Lot)] /\ \A r \in Symbols : Sized(positions'[r])
  BY <1>1, <1>3, <1>5 DEF LotsConsistent
<1>7. ASSUME NEW r \in Symbols, NEW i \in DOMAIN positions'[r]
      PROVE  FilledOn(orders', positions'[r][i].order, r, "buy")
  <2>1. CASE r = s /\ i = Len(lots) + 1
    <3>1. positions'[r][i] = lot
      BY <1>1, <1>2, <1>3, <2>1
    <3>2. FilledOn(orders', id, s, "buy")
      BY FillBooks DEF FilledOn, Filled
    <3>3. QED
      BY <1>1, <2>1, <3>1, <3>2
  <2>2. CASE ~(r = s /\ i = Len(lots) + 1)
    <3>1. i \in DOMAIN positions[r] /\ positions'[r][i] = positions[r][i]
      BY <1>1, <1>2, <1>4, <1>7, <2>2
    <3>2. FilledOn(orders, positions[r][i].order, r, "buy")
      BY <3>1 DEF LotsConsistent
    <3>3. QED
      BY <3>1, <3>2, FilledStaysFilled
  <2>3. QED
    BY <2>1, <2>2
<1>8. \A k \in DOMAIN closed' : /\ FilledOn(orders', closed'[k].entry, closed'[k].symbol, "buy")
                                /\ FilledOn(orders', closed'[k].exit, closed'[k].symbol, "sell")
  <2> SUFFICES ASSUME NEW k \in DOMAIN closed
               PROVE  /\ FilledOn(orders', closed[k].entry, closed[k].symbol, "buy")
                      /\ FilledOn(orders', closed[k].exit, closed[k].symbol, "sell")
    BY <1>1
  <2>1. /\ FilledOn(orders, closed[k].entry, closed[k].symbol, "buy")
        /\ FilledOn(orders, closed[k].exit, closed[k].symbol, "sell")
    BY DEF LotsConsistent
  <2>2. QED
    BY <2>1, FilledStaysFilled
<1>9. closed' \in Seq(Deal)
  BY <1>1 DEF LotsConsistent
<1>10. QED
  BY <1>6, <1>7, <1>8, <1>9, TradeIdsStayBelow DEF LotsConsistent, Filled

LEMMA LotsConsistentOther ==
  ASSUME Invariant, LotsConsistent,
         \/ \E order \in Orders : SubmitOrder(order)
         \/ \E id \in OrderIds : CancelOrder(id) \/ SkipOrder(id) \/ AbandonBar(id)
         \/ \E bar \in Bars : AdvanceKLine(bar)
         \/ markKLineProcessed \/ Tick \/ UNCHANGED vars
  PROVE  /\ LotsConsistent' /\ UNCHANGED <<positions, closed, trades>>
         /\ \A id \in OrderIds : Filled(id) => orders'[id] = orders[id]
         /\ \A id \in OrderIds : orders'[id].status = "filled" => Filled(id)
         /\ nextTrade' \in {nextTrade, nextTrade + 1}
<1>1. UNCHANGED <<positions, closed, trades>> /\ nextTrade' \in {nextTrade, nextTrade + 1}
  BY DEF SubmitOrder, CancelOrder, SkipOrder, AbandonBar, AdvanceKLine, markKLineProcessed, Tick,
     vars, books
<1>2. ASSUME NEW id \in OrderIds
      PROVE  /\ Filled(id) => orders'[id] = orders[id]
             /\ orders'[id].status = "filled" => Filled(id)
  <2>1. CASE \E order \in Orders : SubmitOrder(order)
    <3>1. PICK order \in Orders : SubmitOrder(order)
      BY <2>1
    <3>2. nextOrder \in OrderIds /\ orders[nextOrder] = NoOrder /\ ~Filled(nextOrder)
      BY <3>1 DEF SubmitOrder, Invariant, BooksConsistent, AccountTypeOK, Filled, NoOrder
    <3>3. \/ orders' = orders
          \/ orders' = [orders EXCEPT ![nextOrder] = NewOrder(order, now)]
      BY <3>1 DEF SubmitOrder
    <3>4. NewOrder(order, now).status = "new"
      BY DEF NewOrder
    <3>5. QED
      BY <3>2, <3>3, <3>4 DEF Filled, Invariant, AccountTypeOK
  <2>2. CASE \E c \in OrderIds : CancelOrder(c)
    <3>1. PICK c \in OrderIds : CancelOrder(c)
      BY <2>2
    <3>2. ~Filled(c) /\ orders[c] \in Order
      BY <3>1, WorkingHoldsItsReserve DEF CancelOrder, Invariant, BooksConsistent, Filled
    <3>3. orders' = [orders EXCEPT ![c] = CancelledOrder(orders[c])]
      BY <3>1 DEF CancelOrder
    <3>4. CancelledOrder(orders[c]).status # "filled"
      BY <3>2 DEF CancelledOrder, Order
    <3>5. QED
      BY <3>2, <3>3, <3>4 DEF Filled, Invariant, AccountTypeOK
  <2>3. CASE UNCHANGED orders
    BY <2>3 DEF Filled
  <2>4. QED
    BY <2>1, <2>2, <2>3 DEF SkipOrder, AbandonBar, AdvanceKLine, markKLineProcessed, Tick, vars,
       books
<1>3. \A id, s, side : FilledOn(orders, id, s, side) => FilledOn(orders', id, s, side)
  BY <1>2 DEF FilledOn, Filled
<1>4. \A id \in OrderIds : orders'[id].status = "filled" => TradeOf(trades', id) < nextTrade'
  <2> SUFFICES ASSUME NEW id \in OrderIds, Filled(id) PROVE TradeOf(trades, id) < nextTrade'
    BY <1>1, <1>2
  <2>1. Len(trades[id]) = 1 /\ trades[id] \in Seq(Trade) /\ nextTrade \in Nat
    BY DEF Invariant, BooksConsistent, AccountTypeOK
  <2>2. trades[id][1] \in Trade
    BY <2>1
  <2>3. TradeOf(trades, id) < nextTrade /\ TradeOf(trades, id) \in Nat
    BY <2>2 DEF LotsConsistent, TradeOf, Trade
  <2>4. QED
    BY <1>1, <2>1, <2>3
<1>5. \A s \in Symbols : \A i \in DOMAIN positions'[s] :
        FilledOn(orders', positions'[s][i].order, s, "buy")
  BY <1>1, <1>3 DEF LotsConsistent
<1>6. \A k \in DOMAIN closed' : /\ FilledOn(orders', closed'[k].entry, closed'[k].symbol, "buy")
                                /\ FilledOn(orders', closed'[k].exit, closed'[k].symbol, "sell")
  BY <1>1, <1>3 DEF LotsConsistent
<1>7. /\ positions' \in [Symbols -> Seq(Lot)] /\ closed' \in Seq(Deal)
      /\ \A s \in Symbols : Sized(positions'[s])
  BY <1>1 DEF LotsConsistent
<1>8. LotsConsistent'
  BY <1>4, <1>5, <1>6, <1>7 DEF LotsConsistent, Filled
<1>9. QED
  BY <1>1, <1>2, <1>8

LEMMA LotsConsistentStep == Invariant /\ LotsConsistent /\ [Next]_vars => LotsConsistent'
BY LotsConsistentSell, LotsConsistentBuy, LotsConsistentOther DEF Next, AdvanceOrder

LEMMA LotsHold == Spec => [](Invariant /\ LotsConsistent)
BY LotsInit, LotsConsistentStep, InvariantHolds, PTL DEF Spec

\* Type correctness of the whole state, lots and realised trades included.
THEOREM TypesHold == Spec => []TypeOK
<1>1. ASSUME Invariant, LotsConsistent PROVE TypeOK
  <2>1. \A i \in DOMAIN closed : closed[i] \in Deal
    BY <1>1, ElementOfSeq, LenProperties DEF LotsConsistent
  <2>2. \A i \in DOMAIN closed : closed[i].quantity > 0 /\ closed[i].pnl \in Int
    BY <2>1 DEF Deal
  <2>3. QED
    BY <1>1, <2>2 DEF TypeOK, Invariant, LotsConsistent
<1>2. QED
  BY <1>1, LotsHold, PTL

-----------------------------------------------------------------------------
(* The order of the lots                                                   *)

LEMMA TradeIdIsNat ==
  ASSUME Invariant, NEW id, NEW s, NEW side, FilledOn(orders, id, s, side)
  PROVE  TradeOf(trades, id) \in Nat
<1>1. Len(trades[id]) = 1 /\ trades[id] \in Seq(Trade)
  BY DEF FilledOn, Filled, Invariant, BooksConsistent, AccountTypeOK
<1>2. trades[id][1] \in Trade
  BY <1>1
<1>3. QED
  BY <1>2 DEF TradeOf, Trade

\* What a sale does to the queue of its market and to the realised trades.
SaleOrder(s, full, touched) ==
  LET lots == positions[s]
  IN  /\ touched <= full + 1
      /\ s \in Symbols /\ DOMAIN lots = 1..Len(lots) /\ Len(lots) \in Nat
      /\ \A r \in Symbols \ {s} : positions'[r] = positions[r]
      /\ \A j \in DOMAIN positions'[s] :
           /\ j \in Nat /\ j >= 1 /\ full + j \in DOMAIN lots
           /\ positions'[s][j].order = lots[full + j].order
      /\ DOMAIN closed' = 1..(Len(closed) + touched) /\ Len(closed) \in Nat
      /\ DOMAIN closed = 1..Len(closed)
      /\ \A k \in 1..Len(closed) : closed'[k] = closed[k]
      /\ \A i \in 1..touched :
           /\ i \in DOMAIN lots
           /\ closed'[Len(closed) + i].symbol = s
           /\ closed'[Len(closed) + i].entry = lots[i].order

\* The realised trades of a sale come in the order of the lots they close.
LEMMA DealOrder ==
  ASSUME Invariant, LotsConsistent, NEW id \in OrderIds, fillOrder(id),
         orders[id].side # "buy"
  PROVE  \E full, touched \in Nat : SaleOrder(orders[id].symbol, full, touched)
<1> DEFINE s == orders[id].symbol
           lots == positions[s]
           trade == Fill(id, nextTrade, call.bar.end)
           q == trade.quantity
<1>1. /\ s \in Symbols /\ trade \in Trade /\ trade.symbol = s /\ trade.order = id
      /\ q \in Nat /\ q > 0
  BY LotsSell
<1>2. PICK full \in Nat, touched \in Nat : SaleCloses(trade, full, touched)
  BY LotsSell
<1> HIDE DEF trade
<1>3. Sized(lots) /\ closed \in Seq(Deal) /\ DOMAIN positions = Symbols
  BY <1>1 DEF LotsConsistent
<1> DEFINE left == LotsLeft(lots, q, full)
<1>4. /\ SalePlaces(lots, q, full, touched)
      /\ positions' = [positions EXCEPT ![s] = left]
  BY <1>1, <1>2 DEF SaleCloses
<1>5. /\ DOMAIN left = 1..(Len(lots) - full)
      /\ \A j \in DOMAIN left : full + j \in DOMAIN lots /\ left[j].order = lots[full + j].order
  <2> HIDE DEF lots
  <2>1. QED
    BY <1>1, <1>3, <1>4, RemainingLots
<1>6. positions'[s] = left /\ \A r \in Symbols \ {s} : positions'[r] = positions[r]
  BY <1>1, <1>3, <1>4
<1> HIDE DEF left
<1>7. /\ closed' \in Seq(Deal)
      /\ Len(closed') = Len(closed) + touched /\ Len(closed) \in Nat
      /\ \A k \in 1..Len(closed) : closed'[k] = closed[k]
      /\ \A i \in 1..touched : closed'[Len(closed) + i] = SaleDeal(lots, trade, i)
  BY <1>1, <1>2, <1>3, ClosedAfterSale
<1>8. DOMAIN closed' = 1..(Len(closed) + touched) /\ DOMAIN closed = 1..Len(closed)
  BY <1>3, <1>7, LenProperties
<1>9. \A i \in 1..touched :
        /\ i \in DOMAIN lots
        /\ SaleDeal(lots, trade, i).symbol = s
        /\ SaleDeal(lots, trade, i).entry = lots[i].order
  <2> HIDE DEF lots
  <2>1. QED
    BY <1>1, <1>3, <1>4, SaleDeals
<1>10. \A j \in DOMAIN left : j \in Nat /\ j >= 1
  BY <1>5
<1>11. touched <= full + 1 /\ DOMAIN lots = 1..Len(lots) /\ Len(lots) \in Nat
  BY <1>3, <1>4, LenProperties DEF SalePlaces, Sized
<1>12. SaleOrder(s, full, touched)
  <2> HIDE DEF q, lots, s
  <2>1. QED
    BY <1>1, <1>5, <1>6, <1>7, <1>8, <1>9, <1>10, <1>11 DEF lots, SaleOrder
<1>13. QED
  BY <1>12

LEMMA LotsInOrderSell ==
  ASSUME Invariant, LotsConsistent, LotsInOrder, NEW id \in OrderIds, fillOrder(id),
         orders[id].side # "buy"
  PROVE  LotsInOrder'
<1> DEFINE s == orders[id].symbol
           lots == positions[s]
           n == Len(closed)
           t(x) == TradeOf(trades, x)
<1>0. PICK full \in Nat, touched \in Nat : SaleOrder(s, full, touched)
  BY DealOrder
<1>1. /\ touched <= full + 1
      /\ s \in Symbols /\ DOMAIN lots = 1..Len(lots) /\ Len(lots) \in Nat
      /\ \A r \in Symbols \ {s} : positions'[r] = positions[r]
      /\ \A j \in DOMAIN positions'[s] :
           /\ j \in Nat /\ j >= 1 /\ full + j \in DOMAIN lots
           /\ positions'[s][j].order = lots[full + j].order
      /\ DOMAIN closed' = 1..(n + touched) /\ n \in Nat
      /\ DOMAIN closed = 1..n
      /\ \A k \in 1..n : closed'[k] = closed[k]
      /\ \A i \in 1..touched :
           /\ i \in DOMAIN lots
           /\ closed'[n + i].symbol = s
           /\ closed'[n + i].entry = lots[i].order
  BY <1>0 DEF SaleOrder
<1> HIDE DEF n
<1>2. \A r \in Symbols : \A i \in DOMAIN positions[r] :
        /\ TradeOf(trades', positions[r][i].order) = t(positions[r][i].order)
        /\ t(positions[r][i].order) \in Nat
  <2> SUFFICES ASSUME NEW r \in Symbols, NEW i \in DOMAIN positions[r]
               PROVE  /\ TradeOf(trades', positions[r][i].order) = t(positions[r][i].order)
                      /\ t(positions[r][i].order) \in Nat
    OBVIOUS
  <2>1. FilledOn(orders, positions[r][i].order, r, "buy")
    BY DEF LotsConsistent
  <2>2. QED
    BY <2>1, FilledStaysFilled, TradeIdIsNat
<1>3. \A k \in DOMAIN closed :
        TradeOf(trades', closed[k].entry) = t(closed[k].entry) /\ t(closed[k].entry) \in Nat
  <2> SUFFICES ASSUME NEW k \in DOMAIN closed
               PROVE  /\ TradeOf(trades', closed[k].entry) = t(closed[k].entry)
                      /\ t(closed[k].entry) \in Nat
    OBVIOUS
  <2>1. FilledOn(orders, closed[k].entry, closed[k].symbol, "buy")
    BY DEF LotsConsistent
  <2>2. QED
    BY <2>1, FilledStaysFilled, TradeIdIsNat
<1>4. \A k \in DOMAIN closed' :
        \/ k \in DOMAIN closed /\ closed'[k] = closed[k]
        \/ \E i \in 1..touched : k = n + i
  <2> SUFFICES ASSUME NEW k \in 1..(n + touched)
               PROVE  \/ k \in DOMAIN closed /\ closed'[k] = closed[k]
                      \/ \E i \in 1..touched : k = n + i
    BY <1>1
  <2>1. CASE k <= n
    BY <1>1, <2>1
  <2>2. CASE k > n
    <3>1. k - n \in 1..touched /\ k = n + (k - n)
      BY <1>1, <2>2
    <3>2. QED
      BY <3>1
  <2>3. QED
    BY <1>1, <2>1, <2>2
<1>41. \A i \in DOMAIN lots :
        TradeOf(trades', lots[i].order) = t(lots[i].order) /\ t(lots[i].order) \in Nat
  BY <1>1, <1>2
<1>42. \A i, j \in DOMAIN lots : i < j => t(lots[i].order) < t(lots[j].order)
  BY <1>1 DEF LotsInOrder
<1>5. \A r \in Symbols : \A i, j \in DOMAIN positions'[r] :
        i < j => TradeOf(trades', positions'[r][i].order) < TradeOf(trades', positions'[r][j].order)
  <2> SUFFICES ASSUME NEW r \in Symbols, NEW i \in DOMAIN positions'[r],
                      NEW j \in DOMAIN positions'[r], i < j
               PROVE  TradeOf(trades', positions'[r][i].order) < TradeOf(trades', positions'[r][j].order)
    OBVIOUS
  <2>1. CASE r = s
    <3>1. /\ full + i \in DOMAIN lots /\ full + j \in DOMAIN lots /\ full + i < full + j
          /\ positions'[r][i].order = lots[full + i].order
          /\ positions'[r][j].order = lots[full + j].order
      BY <1>1, <2>1
    <3> DEFINE x == lots[full + i].order
               y == lots[full + j].order
    <3>2. TradeOf(trades', x) = t(x) /\ TradeOf(trades', y) = t(y) /\ t(x) < t(y)
      <4> HIDE DEF lots, t
      <4>1. QED
        BY <1>41, <1>42, <3>1
    <3> HIDE DEF x, y, t
    <3>3. QED
      BY <3>1, <3>2 DEF x, y
  <2>2. CASE r # s
    BY <1>1, <1>2, <2>2 DEF LotsInOrder
  <2>3. QED
    BY <2>1, <2>2
<1>6. \A k \in DOMAIN closed' : \A j \in DOMAIN positions'[closed'[k].symbol] :
        TradeOf(trades', closed'[k].entry) <= TradeOf(trades', positions'[closed'[k].symbol][j].order)
  <2> SUFFICES ASSUME NEW k \in DOMAIN closed', NEW j \in DOMAIN positions'[closed'[k].symbol]
               PROVE  TradeOf(trades', closed'[k].entry)
                        <= TradeOf(trades', positions'[closed'[k].symbol][j].order)
    OBVIOUS
  <2>1. CASE k \in DOMAIN closed /\ closed'[k] = closed[k] /\ closed[k].symbol = s
    <3>1. full + j \in DOMAIN lots /\ positions'[s][j].order = lots[full + j].order
      BY <1>1, <2>1
    <3>2. t(closed[k].entry) <= t(lots[full + j].order)
      BY <2>1, <3>1 DEF LotsInOrder
    <3>3. QED
      BY <1>1, <1>2, <1>3, <2>1, <3>1, <3>2
  <2>2. CASE k \in DOMAIN closed /\ closed'[k] = closed[k] /\ closed[k].symbol # s
    <3>1. closed[k].symbol \in Symbols
      <4>1. closed[k] \in Deal
        BY <2>2, ElementOfSeq, LenProperties DEF LotsConsistent
      <4>2. QED
        BY <4>1 DEF Deal
    <3>2. positions'[closed[k].symbol] = positions[closed[k].symbol]
      BY <1>1, <2>2, <3>1
    <3>3. QED
      BY <1>2, <1>3, <2>2, <3>1, <3>2 DEF LotsInOrder
  <2>3. CASE \E i \in 1..touched : k = n + i
    <3>1. PICK i \in 1..touched : k = n + i
      BY <2>3
    <3>2. i \in DOMAIN lots /\ closed'[k].symbol = s /\ closed'[k].entry = lots[i].order
      BY <1>1, <3>1
    <3>3. /\ full + j \in DOMAIN lots /\ positions'[s][j].order = lots[full + j].order
          /\ j \in Nat /\ j >= 1
      BY <1>1, <3>2
    <3>4. i <= full + j /\ i \in Nat
      BY <1>1, <3>3
    <3>5. t(lots[i].order) <= t(lots[full + j].order)
      <4>1. CASE i = full + j
        <5> HIDE DEF lots, t
        <5>1. QED
          BY <1>41, <3>2, <4>1
      <4>2. CASE i < full + j
        <5>1. t(lots[i].order) < t(lots[full + j].order)
          BY <1>42, <3>2, <3>3, <4>2
        <5> HIDE DEF lots, t
        <5>2. QED
          BY <1>41, <3>2, <3>3, <5>1
      <4>3. QED
        BY <3>3, <3>4, <4>1, <4>2
    <3> HIDE DEF lots
    <3>6. QED
      BY <1>41, <3>2, <3>3, <3>5
  <2>4. QED
    BY <1>4, <2>1, <2>2, <2>3
<1>7. ASSUME NEW k \in DOMAIN closed', NEW m \in DOMAIN closed', k < m,
             closed'[k].symbol = closed'[m].symbol
      PROVE  TradeOf(trades', closed'[k].entry) <= TradeOf(trades', closed'[m].entry)
  <2>0. k \in Nat /\ m \in Nat /\ m <= n + touched
    BY <1>1
  <2>1. CASE k \in DOMAIN closed /\ m \in DOMAIN closed
    <3>1. closed'[k] = closed[k] /\ closed'[m] = closed[m]
      BY <1>1, <2>1
    <3>2. t(closed[k].entry) <= t(closed[m].entry)
      BY <1>7, <2>1, <3>1 DEF LotsInOrder, ClosesOldestLotFirst, TradeOf
    <3>3. QED
      BY <1>3, <2>1, <3>1, <3>2
  <2>2. CASE m \notin DOMAIN closed
    <3>1. PICK j \in 1..touched : m = n + j
      BY <1>4, <2>2
    <3>2. j \in DOMAIN lots /\ closed'[m].symbol = s /\ closed'[m].entry = lots[j].order
      BY <1>1, <3>1
    <3>3. CASE k \in DOMAIN closed
      <4>1. closed'[k] = closed[k] /\ closed[k].symbol = s
        BY <1>1, <1>7, <3>2, <3>3
      <4>2. t(closed[k].entry) <= t(lots[j].order)
        BY <3>2, <3>3, <4>1 DEF LotsInOrder
      <4>3. QED
        BY <1>1, <1>2, <1>3, <3>2, <3>3, <4>1, <4>2
    <3>4. CASE k \notin DOMAIN closed
      <4>1. PICK i \in 1..touched : k = n + i
        BY <1>4, <3>4
      <4>2. i \in DOMAIN lots /\ closed'[k].entry = lots[i].order /\ i < j
        BY <1>1, <1>7, <3>1, <4>1
      <4>3. t(lots[i].order) < t(lots[j].order)
        BY <1>1, <3>2, <4>2 DEF LotsInOrder
      <4>4. QED
        <5> HIDE DEF lots
        <5>1. QED
          BY <1>41, <3>2, <4>2, <4>3
    <3>5. QED
      BY <3>3, <3>4
  <2>3. CASE m \in DOMAIN closed /\ k \notin DOMAIN closed
    BY <1>1, <1>7, <2>0, <2>3
  <2>4. QED
    BY <2>1, <2>2, <2>3
<1>8. ClosesOldestLotFirst'
  BY <1>7 DEF ClosesOldestLotFirst, TradeOf
<1>9. QED
  BY <1>5, <1>6, <1>8 DEF LotsInOrder

LEMMA LotsInOrderBuy ==
  ASSUME Invariant, LotsConsistent, LotsInOrder, NEW id \in OrderIds, fillOrder(id),
         orders[id].side = "buy"
  PROVE  LotsInOrder'
<1> DEFINE s == orders[id].symbol
           lots == positions[s]
           lot == BoughtLot(orders[id], id)
           t(x) == TradeOf(trades, x)
<1>1. /\ s \in Symbols /\ lot \in Lot /\ lot.order = id
      /\ positions' = [positions EXCEPT ![s] = Append(lots, lot)]
      /\ closed' = closed
  BY LotsBuy
<1> HIDE DEF lot
<1>2. /\ lots \in Seq(Lot) /\ DOMAIN positions = Symbols
      /\ DOMAIN lots = 1..Len(lots) /\ Len(lots) \in Nat
  BY <1>1, LenProperties DEF LotsConsistent
<1>3. /\ DOMAIN Append(lots, lot) = 1..(Len(lots) + 1)
      /\ \A i \in DOMAIN lots : Append(lots, lot)[i] = lots[i]
      /\ Append(lots, lot)[Len(lots) + 1] = lot
  BY <1>1, <1>2, AppendProperties, LenProperties
<1>4. /\ positions'[s] = Append(lots, lot)
      /\ \A r \in Symbols \ {s} : positions'[r] = positions[r]
  BY <1>1, <1>2
<1>5. nextTrade \in Nat /\ TradeOf(trades', id) = nextTrade
  <2>1. trades'[id] = <<Fill(id, nextTrade, call.bar.end)>> /\ nextTrade \in Nat
    BY FillBooks
  <2>2. QED
    BY <2>1 DEF TradeOf, Fill
<1>6. \A r \in Symbols : \A i \in DOMAIN positions[r] :
        /\ TradeOf(trades', positions[r][i].order) = t(positions[r][i].order)
        /\ t(positions[r][i].order) \in Nat /\ t(positions[r][i].order) < nextTrade
  <2> SUFFICES ASSUME NEW r \in Symbols, NEW i \in DOMAIN positions[r]
               PROVE  /\ TradeOf(trades', positions[r][i].order) = t(positions[r][i].order)
                      /\ t(positions[r][i].order) \in Nat
                      /\ t(positions[r][i].order) < nextTrade
    OBVIOUS
  <2>1. FilledOn(orders, positions[r][i].order, r, "buy")
    BY DEF LotsConsistent
  <2>2. t(positions[r][i].order) < nextTrade
    BY <2>1 DEF LotsConsistent, FilledOn, Filled
  <2>3. QED
    BY <2>1, <2>2, FilledStaysFilled, TradeIdIsNat
<1>7. \A k \in DOMAIN closed :
        /\ TradeOf(trades', closed[k].entry) = t(closed[k].entry)
        /\ t(closed[k].entry) \in Nat /\ t(closed[k].entry) < nextTrade
  <2> SUFFICES ASSUME NEW k \in DOMAIN closed
               PROVE  /\ TradeOf(trades', closed[k].entry) = t(closed[k].entry)
                      /\ t(closed[k].entry) \in Nat
                      /\ t(closed[k].entry) < nextTrade
    OBVIOUS
  <2>1. FilledOn(orders, closed[k].entry, closed[k].symbol, "buy")
    BY DEF LotsConsistent
  <2>2. t(closed[k].entry) < nextTrade
    BY <2>1 DEF LotsConsistent, FilledOn, Filled
  <2>3. QED
    BY <2>1, <2>2, FilledStaysFilled, TradeIdIsNat
<1>8. \A r \in Symbols : \A i \in DOMAIN positions'[r] :
        \/ i \in DOMAIN positions[r] /\ positions'[r][i] = positions[r][i]
        \/ r = s /\ i = Len(lots) + 1 /\ positions'[r][i].order = id
  <2> SUFFICES ASSUME NEW r \in Symbols, NEW i \in DOMAIN positions'[r],
                      ~(i \in DOMAIN positions[r] /\ positions'[r][i] = positions[r][i])
               PROVE  r = s /\ i = Len(lots) + 1 /\ positions'[r][i].order = id
    OBVIOUS
  <2>1. r = s
    BY <1>4
  <2>2. i \in 1..(Len(lots) + 1) /\ ~(i \in DOMAIN lots)
    BY <1>3, <1>4, <2>1
  <2>3. i = Len(lots) + 1
    BY <1>2, <2>2
  <2>4. QED
    BY <1>1, <1>3, <1>4, <2>1, <2>3
<1>9. \A r \in Symbols : \A i, j \in DOMAIN positions'[r] :
        i < j => TradeOf(trades', positions'[r][i].order) < TradeOf(trades', positions'[r][j].order)
  <2> SUFFICES ASSUME NEW r \in Symbols, NEW i \in DOMAIN positions'[r],
                      NEW j \in DOMAIN positions'[r], i < j
               PROVE  TradeOf(trades', positions'[r][i].order) < TradeOf(trades', positions'[r][j].order)
    OBVIOUS
  <2>1. i \in DOMAIN positions[r] /\ positions'[r][i] = positions[r][i]
    <3> SUFFICES ASSUME r = s, i = Len(lots) + 1 PROVE FALSE
      BY <1>8
    <3>1. j \in 1..(Len(lots) + 1)
      BY <1>3, <1>4
    <3>2. QED
      BY <1>2, <3>1
  <2>2. QED
    BY <1>5, <1>6, <1>8, <2>1 DEF LotsInOrder
<1>10. \A k \in DOMAIN closed' : \A j \in DOMAIN positions'[closed'[k].symbol] :
         TradeOf(trades', closed'[k].entry) <= TradeOf(trades', positions'[closed'[k].symbol][j].order)
  <2> SUFFICES ASSUME NEW k \in DOMAIN closed, NEW j \in DOMAIN positions'[closed[k].symbol]
               PROVE  TradeOf(trades', closed[k].entry)
                        <= TradeOf(trades', positions'[closed[k].symbol][j].order)
    BY <1>1
  <2>1. closed[k].symbol \in Symbols
    <3>1. closed[k] \in Deal
      BY ElementOfSeq, LenProperties DEF LotsConsistent
    <3>2. QED
      BY <3>1 DEF Deal
  <2>2. QED
    BY <1>5, <1>6, <1>7, <1>8, <2>1 DEF LotsInOrder
<1>11. ClosesOldestLotFirst'
  <2>1. \A k, m \in DOMAIN closed : k < m /\ closed[k].symbol = closed[m].symbol =>
          t(closed[k].entry) <= t(closed[m].entry)
    BY DEF LotsInOrder, ClosesOldestLotFirst, TradeOf
  <2>2. \A k, m \in DOMAIN closed : k < m /\ closed[k].symbol = closed[m].symbol =>
          TradeOf(trades', closed[k].entry) <= TradeOf(trades', closed[m].entry)
    BY <1>7, <2>1
  <2>3. QED
    BY <1>1, <2>2 DEF ClosesOldestLotFirst, TradeOf
<1>12. QED
  BY <1>9, <1>10, <1>11 DEF LotsInOrder

LEMMA LotsInOrderStep ==
  Invariant /\ LotsConsistent /\ LotsInOrder /\ [Next]_vars => LotsInOrder'
<1> SUFFICES ASSUME Invariant, LotsConsistent, LotsInOrder, [Next]_vars PROVE LotsInOrder'
  OBVIOUS
<1>1. CASE UNCHANGED <<positions, closed, trades>>
  BY <1>1 DEF LotsInOrder, ClosesOldestLotFirst, TradeOf
<1>2. QED
  BY <1>1, LotsInOrderSell, LotsInOrderBuy, LotsConsistentOther DEF Next, AdvanceOrder

\* Lots are closed first in, first out, whatever was bought and sold, over any
\* number of sales and partial closes (closePositionLots).
THEOREM OldestLotFirst == Spec => []ClosesOldestLotFirst
<1>1. Invariant /\ LotsConsistent /\ LotsInOrder /\ [Next]_vars
        => (LotsConsistent /\ LotsInOrder)'
  BY LotsConsistentStep, LotsInOrderStep
<1>2. LotsInOrder => ClosesOldestLotFirst
  BY DEF LotsInOrder
<1>3. QED
  BY <1>1, <1>2, LotsInit, InvariantHolds, PTL DEF Spec

-----------------------------------------------------------------------------
(* The open quantity of a market                                           *)

OpenQuantity(lots) == SumFunctionOnSet([i \in DOMAIN lots |-> lots[i].quantity], DOMAIN lots)

LEMMA OpenIsAhead ==
  ASSUME NEW lots, Sized(lots)
  PROVE  OpenQuantity(lots) = Ahead(lots, Len(lots) + 1) /\ OpenQuantity(lots) \in Nat
<1>0. DOMAIN lots = 1..Len(lots) /\ Len(lots) \in Nat /\ (Len(lots) + 1) - 1 = Len(lots)
  BY LenProperties DEF Sized
<1>1. OpenQuantity(lots) = Ahead(lots, Len(lots) + 1)
  BY <1>0 DEF OpenQuantity, Ahead, SumOver
<1>2. Ahead(lots, Len(lots) + 1) \in Nat
  <2>1. CASE Len(lots) = 0
    BY <2>1, AheadSteps
  <2>2. CASE Len(lots) # 0
    <3>1. Len(lots) \in DOMAIN lots
      BY <1>0, <2>2
    <3>2. Ahead(lots, Len(lots)) \in Nat /\ lots[Len(lots)].quantity \in Nat
      BY <3>1, AheadSteps, LotQuantity
    <3>3. QED
      BY <3>1, <3>2, AheadSteps
  <2>3. QED
    BY <2>1, <2>2
<1>3. QED
  BY <1>1, <1>2

LEMMA OpenAfterBuy ==
  ASSUME NEW lots, Sized(lots), NEW lot \in Lot, lot.quantity > 0
  PROVE  OpenQuantity(Append(lots, lot)) = OpenQuantity(lots) + lot.quantity
<1> DEFINE n == Len(lots)
           more == Append(lots, lot)
           S == DOMAIN lots
           f == [i \in S |-> lots[i].quantity]
           g == [i \in DOMAIN more |-> more[i].quantity]
<1>1. lots \in Seq(Lot) /\ S = 1..n /\ n \in Nat
  BY LenProperties DEF Sized
<1>2. /\ DOMAIN more = 1..(n + 1)
      /\ \A i \in S : more[i] = lots[i]
      /\ more[n + 1] = lot
  BY <1>1, AppendProperties, LenProperties
<1>3. DOMAIN more = S \cup {n + 1} /\ n + 1 \notin S /\ IsFiniteSet(S)
  <2> HIDE DEF n, more
  <2>1. 1..(n + 1) = (1..n) \cup {n + 1} /\ n + 1 \notin 1..n
    BY <1>1
  <2>2. IsFiniteSet(1..n)
    BY <1>1, FS_Interval
  <2>3. QED
    BY <1>1, <1>2, <2>1, <2>2
<1>4. \A i \in S : g[i] = f[i] /\ f[i] \in Nat
  <2>1. \A i \in S : lots[i].quantity \in Nat
    BY LotQuantity
  <2> HIDE DEF more
  <2>2. QED
    BY <1>2, <1>3, <2>1
<1>5. g[n + 1] = lot.quantity /\ lot.quantity \in Nat
  <2>1. lot.quantity \in Nat
    BY DEF Lot
  <2> HIDE DEF more
  <2>2. QED
    BY <1>2, <1>3, <2>1
<1>6. OpenQuantity(more) = SumFunctionOnSet(g, S \cup {n + 1})
  BY <1>3 DEF OpenQuantity
<1>61. OpenQuantity(lots) = SumFunctionOnSet(f, S)
  BY DEF OpenQuantity
<1> HIDE DEF g, f, more, S
<1>7. SumFunctionOnSet(g, S) = SumFunctionOnSet(f, S) /\ SumFunctionOnSet(f, S) \in Nat
  BY <1>3, <1>4, SumAgrees, SumIsNatural
<1>8. SumFunctionOnSet(g, S \cup {n + 1}) = g[n + 1] + SumFunctionOnSet(g, S)
  <2>1. \A i \in S \cup {n + 1} : g[i] \in Int
    BY <1>4, <1>5
  <2>2. QED
    BY <1>3, <2>1, SumAdds
<1>9. QED
  BY <1>5, <1>6, <1>61, <1>7, <1>8 DEF more

\* A sale of q takes q out of the open quantity, or all there is.
LEMMA OpenAfterSale ==
  ASSUME NEW lots, Sized(lots), NEW q \in Nat, NEW full \in Nat, NEW touched \in Nat,
         SalePlaces(lots, q, full, touched)
  PROVE  OpenQuantity(LotsLeft(lots, q, full))
           = IF q <= OpenQuantity(lots) THEN OpenQuantity(lots) - q ELSE 0
<1> DEFINE n == Len(lots)
           left == LotsLeft(lots, q, full)
           Less(a) == IF q <= a THEN a - q ELSE 0
           C == {j \in Nat : full + j <= n => Ahead(left, j + 1) = Less(Ahead(lots, full + j + 1))}
<1>1. /\ Sized(left) /\ DOMAIN left = 1..(n - full) /\ Len(left) = n - full
      /\ \A j \in DOMAIN left :
           /\ full + j \in DOMAIN lots
           /\ left[j].quantity = lots[full + j].quantity - CloseQuantity(lots, q, full + j)
  BY RemainingLots
<1>2. DOMAIN lots = 1..n /\ n \in Nat /\ full \in 0..n
  BY LenProperties DEF Sized, SalePlaces
<1>3. \A i \in DOMAIN lots :
        /\ Ahead(lots, i) \in Nat /\ lots[i].quantity \in Nat /\ lots[i].quantity > 0
        /\ Ahead(lots, i + 1) = Ahead(lots, i) + lots[i].quantity
        /\ lots[i].quantity - CloseQuantity(lots, q, i)
             = Less(Ahead(lots, i + 1)) - Less(Ahead(lots, i))
        /\ CloseQuantity(lots, q, i) = lots[i].quantity => q >= Ahead(lots, i + 1)
  <2> SUFFICES ASSUME NEW i \in DOMAIN lots
      PROVE  /\ Ahead(lots, i) \in Nat /\ lots[i].quantity \in Nat /\ lots[i].quantity > 0
             /\ Ahead(lots, i + 1) = Ahead(lots, i) + lots[i].quantity
             /\ lots[i].quantity - CloseQuantity(lots, q, i)
                  = Less(Ahead(lots, i + 1)) - Less(Ahead(lots, i))
             /\ CloseQuantity(lots, q, i) = lots[i].quantity => q >= Ahead(lots, i + 1)
    OBVIOUS
  <2>1. /\ Ahead(lots, i) \in Nat /\ lots[i].quantity \in Nat /\ lots[i].quantity > 0
        /\ Ahead(lots, i + 1) = Ahead(lots, i) + lots[i].quantity
    BY AheadSteps, LotQuantity
  <2>2. /\ CloseQuantity(lots, q, i) \in Nat
        /\ q <= Ahead(lots, i) => CloseQuantity(lots, q, i) = 0
        /\ q >= Ahead(lots, i) + lots[i].quantity =>
             CloseQuantity(lots, q, i) = lots[i].quantity
        /\ q < Ahead(lots, i) + lots[i].quantity /\ q > Ahead(lots, i) =>
             CloseQuantity(lots, q, i) = q - Ahead(lots, i)
    BY CloseQuantityIs
  <2>3. QED
    BY <2>1, <2>2
<1>4. 0 \in C
  <2>1. Ahead(left, 0 + 1) = 0
    BY <1>1, AheadSteps
  <2>2. q >= Ahead(lots, full + 1) /\ Ahead(lots, full + 1) \in Nat
    <3>1. CASE full = 0
      BY <3>1, AheadSteps
    <3>2. CASE full # 0
      <4>1. full \in DOMAIN lots
        BY <1>2, <3>2
      <4>2. CloseQuantity(lots, q, full) = lots[full].quantity
        BY <4>1 DEF SalePlaces
      <4>3. QED
        BY <1>3, <4>1, <4>2
    <3>3. QED
      BY <3>1, <3>2
  <2>3. full + 0 + 1 = full + 1
    OBVIOUS
  <2> HIDE DEF left
  <2>4. QED
    BY <2>1, <2>2, <2>3
<1>5. \A j \in Nat : j \in C => j + 1 \in C
  <2> SUFFICES ASSUME NEW j \in Nat, j \in C, full + (j + 1) <= n
               PROVE  Ahead(left, (j + 1) + 1) = Less(Ahead(lots, full + (j + 1) + 1))
    OBVIOUS
  <2> DEFINE k == j + 1
             i == full + k
  <2>1. k \in DOMAIN left /\ i \in DOMAIN lots /\ full + j + 1 = i /\ full + j <= n
    <3> HIDE DEF left
    <3>1. QED
      BY <1>1, <1>2
  <2>2. Ahead(left, k) = Less(Ahead(lots, i))
    BY <2>1
  <2>3. Ahead(left, k + 1) = Ahead(left, k) + left[k].quantity /\ Ahead(left, k) \in Nat
    BY <1>1, <2>1, AheadSteps
  <2>4. left[k].quantity = lots[i].quantity - CloseQuantity(lots, q, i)
    BY <1>1, <2>1
  <2> HIDE DEF left, k
  <2>5. /\ lots[i].quantity - CloseQuantity(lots, q, i)
             = Less(Ahead(lots, i + 1)) - Less(Ahead(lots, i))
        /\ Ahead(lots, i) \in Nat /\ lots[i].quantity \in Nat
        /\ Ahead(lots, i + 1) = Ahead(lots, i) + lots[i].quantity
    BY <1>3, <2>1
  <2> HIDE DEF i
  <2>6. Ahead(left, k + 1) = Less(Ahead(lots, i + 1))
    <3> DEFINE a == Ahead(lots, i)
               b == Ahead(lots, i + 1)
    <3>0. a \in Nat /\ b \in Nat
      BY <2>5
    <3>1. Less(a) \in Int /\ Less(b) \in Int
      <4> HIDE DEF a, b
      <4>1. QED
        BY <3>0
    <3>2. Ahead(left, k + 1) = Less(a) + (Less(b) - Less(a))
      BY <2>2, <2>3, <2>4, <2>5
    <3> HIDE DEF Less, a, b
    <3>3. Ahead(left, k + 1) = Less(b)
      BY <3>1, <3>2
    <3>4. QED
      BY <3>3 DEF b
  <2>7. QED
    BY <2>6 DEF i, k
<1>6. n - full \in C
  <2> HIDE DEF C
  <2>1. n - full \in Nat
    BY <1>2
  <2>2. QED
    BY <1>4, <1>5, <2>1, CountingUp
<1>7. Ahead(left, (n - full) + 1) = Less(Ahead(lots, n + 1))
  <2>1. full + (n - full) <= n /\ full + (n - full) + 1 = n + 1
    BY <1>2
  <2> HIDE DEF left
  <2>2. QED
    BY <1>6, <2>1
<1> HIDE DEF left, n
<1>8. QED
  BY <1>1, <1>7, OpenIsAhead DEF n, left

-----------------------------------------------------------------------------
(* What an account holds of a currency, and the open lots                  *)

LEMMA BalancesAfterFill ==
  ASSUME Invariant, NEW id \in OrderIds, fillOrder(id), NEW c \in Currencies
  PROVE  LET o == orders[id]
         IN  /\ balances[c] \in [available: Nat, locked: Nat]
             /\ balances'[c] \in [available: Nat, locked: Nat]
             /\ fillCredit(o) \in Nat /\ fillDebit(o) \in Nat
             /\ creditCurrency(o) \in Currencies /\ reserveCurrency(o) \in Currencies
             /\ creditCurrency(o) # reserveCurrency(o)
             /\ balances'[c].available = balances[c].available
                  + IF c = creditCurrency(o) THEN fillCredit(o) ELSE 0
             /\ balances'[c].locked = balances[c].locked
                  - IF c = reserveCurrency(o) THEN fillDebit(o) ELSE 0
<1> DEFINE o == orders[id]
           in == creditCurrency(o)
           out == reserveCurrency(o)
           debited == applyPaperBalanceDelta(balances, out, 0, -fillDebit(o))
<1>1. o \in Order /\ fillAllowed(o)
  BY FillBooks
<1>2. /\ fillCredit(o) \in Nat /\ fillDebit(o) \in Nat
      /\ in \in Currencies /\ out \in Currencies /\ in # out
  BY <1>1, FillAmounts, OrderCurrencies DEF Order
<1>3. /\ Settle(id, nextTrade) /\ nextTrade \in Nat
      /\ balances \in [Currencies -> [available: Nat, locked: Nat]]
      /\ ledger \in Seq(Entry)
  BY DEF fillOrder, Invariant, AccountTypeOK
<1>4. /\ balances' = applyPaperBalanceDelta(debited, in, fillCredit(o), 0)
      /\ balances' \in [Currencies -> [available: Nat, locked: Nat]]
  BY <1>1, <1>3, SettleTypes DEF Settle
<1> HIDE DEF in, out, o
<1>5. debited = [balances EXCEPT ![out] =
                   [available |-> balances[out].available + 0,
                    locked |-> balances[out].locked + -fillDebit(o)]]
  BY <1>2, <1>3 DEF applyPaperBalanceDelta
<1>6. /\ debited[c].available = balances[c].available
      /\ debited[c].locked = balances[c].locked - IF c = out THEN fillDebit(o) ELSE 0
      /\ DOMAIN debited = Currencies
  <2> HIDE DEF debited
  <2>1. balances[c].available \in Nat /\ balances[c].locked \in Nat
    BY <1>3
  <2>2. DOMAIN debited = Currencies
    BY <1>3, <1>5
  <2>3. CASE c = out
    BY <1>2, <1>3, <1>5, <2>1, <2>2, <2>3
  <2>4. CASE c # out
    BY <1>2, <1>3, <1>5, <2>1, <2>2, <2>4
  <2>5. QED
    BY <2>2, <2>3, <2>4
<1> HIDE DEF debited
<1>7. balances' = [debited EXCEPT ![in] =
                     [available |-> debited[in].available + fillCredit(o),
                      locked |-> debited[in].locked + 0]]
  BY <1>2, <1>4, <1>6 DEF applyPaperBalanceDelta
<1>8. /\ balances'[c].available = balances[c].available + IF c = in THEN fillCredit(o) ELSE 0
      /\ balances'[c].locked = balances[c].locked - IF c = out THEN fillDebit(o) ELSE 0
  <2>1. balances[c].available \in Nat /\ balances[c].locked \in Nat
    BY <1>3
  <2>2. CASE c = in
    <3>1. balances'[c] = [available |-> debited[c].available + fillCredit(o),
                          locked |-> debited[c].locked + 0]
      BY <1>6, <1>7, <2>2
    <3>2. debited[c].locked = balances[c].locked
      BY <1>2, <1>6, <2>1, <2>2
    <3>3. QED
      BY <1>2, <1>6, <2>1, <2>2, <3>1, <3>2
  <2>3. CASE c # in
    BY <1>2, <1>6, <1>7, <2>1, <2>3
  <2>4. QED
    BY <2>2, <2>3
<1>9. balances[c] \in [available: Nat, locked: Nat] /\ balances'[c] \in [available: Nat, locked: Nat]
  BY <1>3, <1>4
<1>10. QED
  BY <1>2, <1>8, <1>9 DEF in, out, o

\* Submitting and cancelling only move an amount between available and locked.
LEMMA DeltaKeepsTotal ==
  ASSUME balances \in [Currencies -> [available: Nat, locked: Nat]],
         NEW kind, NEW id, NEW k \in Currencies, NEW x \in Int,
         applyBalanceDelta(kind, id, 0, k, x, -x), NEW c \in Currencies
  PROVE  Total(c)' = Total(c)
<1>1. balances' = [balances EXCEPT ![k] = [available |-> balances[k].available + x,
                                           locked |-> balances[k].locked + -x]]
  BY DEF applyBalanceDelta, applyPaperBalanceDelta
<1>2. CASE c = k
  <2>1. balances[k].available \in Nat /\ balances[k].locked \in Nat
    OBVIOUS
  <2>2. balances'[k].available = balances[k].available + x /\ balances'[k].locked = balances[k].locked - x
    BY <1>1, <2>1
  <2>3. QED
    BY <1>2, <2>1, <2>2 DEF Total
<1>3. CASE c # k
  BY <1>1, <1>3 DEF Total
<1>4. QED
  BY <1>2, <1>3

\* The steps that fill nothing keep what is held of every currency.
Filling == \E id \in OrderIds : fillOrder(id)

LEMMA TotalStays ==
  ASSUME Invariant, [Next]_vars, ~Filling, NEW c \in Currencies
  PROVE  Total(c)' = Total(c)
<1>0. balances \in [Currencies -> [available: Nat, locked: Nat]]
  BY DEF Invariant, AccountTypeOK
<1>1. CASE UNCHANGED balances
  BY <1>1 DEF Total
<1>2. ASSUME NEW order \in Orders, SubmitOrder(order) PROVE Total(c)' = Total(c)
  <2> DEFINE k == reserveCurrency(order)
             x == paperReserveForOrder(order)
  <2>1. k \in Currencies /\ x \in Nat
    BY InputAssumption, OrderCurrencies, ReserveIsAmount DEF Submittable
  <2>2. UNCHANGED balances \/ applyBalanceDelta("submit-lock", nextOrder, 0, k, -x, x)
    BY <1>2 DEF SubmitOrder, money
  <2> HIDE DEF k, x
  <2>3. x = -(-x) /\ -x \in Int
    BY <2>1
  <2>4. applyBalanceDelta("submit-lock", nextOrder, 0, k, -x, x) =>
          applyBalanceDelta("submit-lock", nextOrder, 0, k, -x, -(-x))
    BY <2>3
  <2>5. QED
    BY <1>0, <1>1, <2>1, <2>2, <2>3, <2>4, DeltaKeepsTotal
<1>3. ASSUME NEW id \in OrderIds, CancelOrder(id) PROVE Total(c)' = Total(c)
  <2> DEFINE k == reserveCurrency(orders[id])
             x == paperReserveForRemaining(orders[id], orders[id].quantity - orders[id].executed)
  <2>1. k \in Currencies /\ x \in Int
    BY <1>3, WorkingHoldsItsReserve DEF CancelOrder
  <2>2. UNCHANGED balances \/ applyBalanceDelta("cancel-unlock", id, 0, k, x, -x)
    BY <1>3 DEF CancelOrder, money
  <2> HIDE DEF k, x
  <2>3. QED
    BY <1>0, <1>1, <2>1, <2>2, DeltaKeepsTotal
<1>4. QED
  BY <1>1, <1>2, <1>3 DEF Filling, Next, AdvanceOrder, AdvanceKLine, SkipOrder, AbandonBar,
     markKLineProcessed, Tick, vars, money

\* No other market trades the base currency of s.
Alone(s) == \A r \in Symbols : r # s => Base[s] \notin {Base[r], Quote[r]}

HoldingsMatch ==
  \A s \in Symbols : Alone(s) =>
    /\ OpenQuantity(positions[s]) <= Total(Base[s])
    /\ Total(Base[s]) <= StartBalance[Base[s]] + OpenQuantity(positions[s])

LEMMA HoldingsInit == Init => HoldingsMatch
<1> SUFFICES ASSUME Init, NEW s \in Symbols
             PROVE  /\ OpenQuantity(positions[s]) <= Total(Base[s])
                    /\ Total(Base[s]) <= StartBalance[Base[s]] + OpenQuantity(positions[s])
  BY DEF HoldingsMatch
<1>1. positions[s] = <<>> /\ DOMAIN positions[s] = {}
  BY DEF Init
<1>2. OpenQuantity(positions[s]) = 0
  BY <1>1, SumEmpty DEF OpenQuantity
<1>3. Base[s] \in Currencies /\ StartBalance[Base[s]] \in Nat
  BY MarketAssumption, AmountAssumption
<1>4. Total(Base[s]) = StartBalance[Base[s]]
  BY <1>3 DEF Init, Total
<1>5. QED
  BY <1>2, <1>3, <1>4

LEMMA HoldingsFill ==
  ASSUME Invariant, LotsConsistent, HoldingsMatch, NEW id \in OrderIds, fillOrder(id)
  PROVE  HoldingsMatch'
<1> SUFFICES ASSUME NEW s \in Symbols, Alone(s)
             PROVE  /\ OpenQuantity(positions'[s]) <= Total(Base[s])'
                    /\ Total(Base[s])' <= StartBalance[Base[s]] + OpenQuantity(positions'[s])
  BY DEF HoldingsMatch, Alone
<1> DEFINE o == orders[id]
           c == Base[s]
           lots == positions[s]
           open == OpenQuantity(lots)
<1>1. c \in Currencies /\ StartBalance[c] \in Nat
  BY MarketAssumption, AmountAssumption
<1>2. Sized(lots) /\ open \in Nat /\ DOMAIN positions = Symbols
  BY OpenIsAhead DEF LotsConsistent
<1>3. open <= Total(c) /\ Total(c) <= StartBalance[c] + open
  BY DEF HoldingsMatch
<1>4. /\ balances[c] \in [available: Nat, locked: Nat]
      /\ balances'[c] \in [available: Nat, locked: Nat]
      /\ fillCredit(o) \in Nat /\ fillDebit(o) \in Nat
      /\ balances'[c].available = balances[c].available
           + IF c = creditCurrency(o) THEN fillCredit(o) ELSE 0
      /\ balances'[c].locked = balances[c].locked
           - IF c = reserveCurrency(o) THEN fillDebit(o) ELSE 0
  BY <1>1, BalancesAfterFill
<1>5. Total(c) \in Nat /\ Total(c)' \in Nat
      /\ Total(c)' = Total(c) + (IF c = creditCurrency(o) THEN fillCredit(o) ELSE 0)
                              - (IF c = reserveCurrency(o) THEN fillDebit(o) ELSE 0)
  <2>1. /\ balances[c].available \in Nat /\ balances[c].locked \in Nat
        /\ balances'[c].available \in Nat /\ balances'[c].locked \in Nat
    BY <1>4
  <2>2. QED
    BY <1>4, <2>1 DEF Total
<1>6. o.symbol \in Symbols /\ o.side \in {"buy", "sell"} /\ fillQuantity(o) = o.quantity
  BY FillBooks DEF Order, Sides
<1>7. CASE o.symbol # s
  <2>1. c # creditCurrency(o) /\ c # reserveCurrency(o)
    BY <1>6, <1>7 DEF Alone, creditCurrency, reserveCurrency
  <2>2. positions'[s] = positions[s]
    <3>1. CASE o.side = "buy"
      <4>1. positions' = [positions EXCEPT ![o.symbol] = Append(positions[o.symbol], BoughtLot(o, id))]
        BY <3>1, LotsBuy
      <4>2. QED
        BY <1>2, <1>7, <4>1
    <3>2. CASE o.side # "buy"
      BY <1>7, <3>2, DealOrder DEF SaleOrder
    <3>3. QED
      BY <3>1, <3>2
  <2>3. Total(c)' = Total(c)
    BY <1>5, <2>1
  <2>4. QED
    BY <1>3, <2>2, <2>3
<1>8. CASE o.symbol = s /\ o.side = "buy"
  <2> DEFINE lot == BoughtLot(o, id)
  <2>1. /\ lot \in Lot /\ lot.quantity > 0 /\ lot.quantity = fillCredit(o)
        /\ positions' = [positions EXCEPT ![o.symbol] = Append(positions[o.symbol], lot)]
    BY <1>8, LotsBuy
  <2> HIDE DEF lot
  <2>2. positions'[s] = Append(lots, lot)
    BY <1>2, <1>8, <2>1
  <2>3. OpenQuantity(positions'[s]) = open + fillCredit(o)
    BY <1>2, <2>1, <2>2, OpenAfterBuy
  <2>4. c = creditCurrency(o) /\ c # reserveCurrency(o)
    BY <1>8, MarketAssumption DEF creditCurrency, reserveCurrency
  <2>5. Total(c)' = Total(c) + fillCredit(o)
    BY <1>4, <1>5, <2>4
  <2> HIDE DEF c, open, o
  <2>6. QED
    BY <1>1, <1>2, <1>3, <1>4, <1>5, <2>3, <2>5 DEF c
<1>9. CASE o.symbol = s /\ o.side = "sell"
  <2> DEFINE trade == Fill(id, nextTrade, call.bar.end)
             q == trade.quantity
  <2>1. /\ trade.symbol = s /\ q = o.quantity /\ q \in Nat
        /\ \E full, touched \in Nat : SaleCloses(trade, full, touched)
    BY <1>9, LotsSell
  <2> HIDE DEF trade
  <2>2. PICK full \in Nat, touched \in Nat : SaleCloses(trade, full, touched)
    BY <2>1
  <2>3. /\ SalePlaces(lots, q, full, touched)
        /\ positions'[s] = LotsLeft(lots, q, full)
    <3>1. positions' = [positions EXCEPT ![s] = LotsLeft(lots, q, full)]
      BY <2>1, <2>2 DEF SaleCloses
    <3>2. positions'[s] = LotsLeft(lots, q, full)
      BY <1>2, <3>1
    <3>3. QED
      BY <2>1, <2>2, <3>2 DEF SaleCloses
  <2>4. OpenQuantity(positions'[s]) = IF q <= open THEN open - q ELSE 0
    <3> HIDE DEF lots, q
    <3>1. QED
      BY <1>2, <2>1, <2>3, OpenAfterSale DEF open
  <2>5. c = reserveCurrency(o) /\ c # creditCurrency(o) /\ fillDebit(o) = q
    BY <1>6, <1>9, <2>1, MarketAssumption DEF creditCurrency, reserveCurrency, fillDebit
  <2>6. Total(c)' = Total(c) - q
    BY <1>4, <1>5, <2>5
  <2> HIDE DEF c, open, o, q
  <2>7. QED
    BY <1>1, <1>2, <1>3, <1>4, <1>5, <2>1, <2>4, <2>6 DEF c
<1>10. QED
  BY <1>6, <1>7, <1>8, <1>9

LEMMA HoldingsStep ==
  Invariant /\ LotsConsistent /\ HoldingsMatch /\ [Next]_vars => HoldingsMatch'
<1> SUFFICES ASSUME Invariant, LotsConsistent, HoldingsMatch, [Next]_vars PROVE HoldingsMatch'
  OBVIOUS
<1>1. CASE Filling
  BY <1>1, HoldingsFill DEF Filling
<1>2. CASE ~Filling
  <2>1. positions' = positions
    BY <1>2, LotsConsistentOther DEF Filling, Next, AdvanceOrder
  <2>2. \A s \in Symbols : Total(Base[s])' = Total(Base[s])
    <3>1. \A s \in Symbols : Base[s] \in Currencies
      BY MarketAssumption
    <3>2. \A c \in Currencies : Total(c)' = Total(c)
      BY <1>2, TotalStays
    <3>3. QED
      BY <3>1, <3>2 DEF Total
  <2>3. QED
    BY <2>1, <2>2 DEF HoldingsMatch, Total, OpenQuantity
<1>3. QED
  BY <1>1, <1>2

\* Closing lots never loses or invents quantity: the open lots of a market are
\* backed by base currency held, and account for all that was not there at the
\* start (closePositionLots).
THEOREM LotsBackHoldings == Spec => []LotsMatchHoldings
<1>1. ASSUME LotsConsistent, HoldingsMatch PROVE LotsMatchHoldings
  <2>1. \A s \in Symbols : \A i \in DOMAIN positions[s] : positions[s][i].quantity > 0
    BY <1>1 DEF LotsConsistent, Sized
  <2>2. QED
    BY <1>1, <2>1 DEF HoldingsMatch, Alone, LotsMatchHoldings, SumLots, SumOver, OpenQuantity
<1>2. Invariant /\ LotsConsistent /\ HoldingsMatch /\ [Next]_vars
        => (LotsConsistent /\ HoldingsMatch)'
  BY LotsConsistentStep, HoldingsStep
<1>3. QED
  BY <1>1, <1>2, LotsInit, HoldingsInit, InvariantHolds, PTL DEF Spec

-----------------------------------------------------------------------------
(* The ledger explains the balances                                        *)

Mine(L, c) == {i \in DOMAIN L : L[i].currency = c}
AvailableIn(L, c) == SumFunctionOnSet([i \in Mine(L, c) |-> L[i].available], Mine(L, c))
LockedIn(L, c) == SumFunctionOnSet([i \in Mine(L, c) |-> L[i].locked], Mine(L, c))

\* The balances bals are the opening ones moved by the entries of L.
Explained(L, bals) ==
  \A c \in Currencies :
    bals[c] = [available |-> StartBalance[c] + AvailableIn(L, c), locked |-> LockedIn(L, c)]

LEMMA EntryAppended ==
  ASSUME NEW L \in Seq(Entry), NEW e \in Entry, NEW c
  PROVE  /\ AvailableIn(L, c) \in Int /\ LockedIn(L, c) \in Int
         /\ AvailableIn(Append(L, e), c)
              = AvailableIn(L, c) + IF e.currency = c THEN e.available ELSE 0
         /\ LockedIn(Append(L, e), c)
              = LockedIn(L, c) + IF e.currency = c THEN e.locked ELSE 0
<1> DEFINE n == Len(L)
           M == Append(L, e)
           S == Mine(L, c)
           T == Mine(M, c)
           f == [i \in S |-> L[i].available]
           g == [i \in S |-> L[i].locked]
           f2 == [i \in T |-> M[i].available]
           g2 == [i \in T |-> M[i].locked]
<1>1. /\ DOMAIN L = 1..n /\ n \in Nat
      /\ DOMAIN M = 1..(n + 1) /\ \A i \in 1..n : M[i] = L[i]
      /\ M[n + 1] = e
  BY AppendProperties, LenProperties
<1>2. \A i \in 1..n : L[i] \in Entry
  BY <1>1, ElementOfSeq
<1> HIDE DEF n, M
<1>3. 1..(n + 1) = (1..n) \cup {n + 1} /\ n + 1 \notin 1..n /\ IsFiniteSet(1..n)
  <2>1. 1..(n + 1) = (1..n) \cup {n + 1} /\ n + 1 \notin 1..n
    BY <1>1
  <2>2. IsFiniteSet(1..n)
    BY <1>1, FS_Interval
  <2>3. QED
    BY <2>1, <2>2
<1>4. T = (IF e.currency = c THEN S \cup {n + 1} ELSE S) /\ n + 1 \notin S
  BY <1>1, <1>3 DEF Mine
<1>5. IsFiniteSet(S) /\ S \subseteq 1..n
  <2>1. S \subseteq 1..n
    BY <1>1 DEF Mine
  <2>2. QED
    BY <1>3, <2>1, FS_Subset
<1>6. \A i \in S : /\ f[i] \in Int /\ g[i] \in Int
                   /\ i \in T => f2[i] = f[i] /\ g2[i] = g[i]
  BY <1>1, <1>2, <1>5 DEF Entry
<1>7. n + 1 \in T => f2[n + 1] = e.available /\ g2[n + 1] = e.locked
  BY <1>1
<1>8. e.available \in Int /\ e.locked \in Int
  BY DEF Entry
<1>9. /\ AvailableIn(L, c) = SumFunctionOnSet(f, S) /\ LockedIn(L, c) = SumFunctionOnSet(g, S)
      /\ AvailableIn(M, c) = SumFunctionOnSet(f2, T) /\ LockedIn(M, c) = SumFunctionOnSet(g2, T)
  BY DEF AvailableIn, LockedIn
<1> HIDE DEF f, g, f2, g2, S, T
<1>10. SumFunctionOnSet(f, S) \in Int /\ SumFunctionOnSet(g, S) \in Int
  BY <1>5, <1>6, SumIsInteger
<1>11. CASE e.currency = c
  <2>1. T = S \cup {n + 1} /\ n + 1 \notin S /\ n + 1 \in T
    BY <1>4, <1>11
  <2>2. \A i \in S : f[i] \in Int /\ f2[i] = f[i] /\ g[i] \in Int /\ g2[i] = g[i]
    BY <1>6, <2>1
  <2>3. f2[n + 1] = e.available /\ g2[n + 1] = e.locked
    BY <1>7, <2>1
  <2>4. f2[n + 1] \in Int /\ g2[n + 1] \in Int
    BY <1>8, <2>3
  <2> DEFINE y == n + 1
  <2>5. /\ y \notin S /\ f2[y] \in Int /\ g2[y] \in Int
        /\ \A i \in S : f[i] \in Int /\ f2[i] = f[i]
        /\ \A i \in S : g[i] \in Int /\ g2[i] = g[i]
    BY <2>1, <2>2, <2>4
  <2> HIDE DEF y
  <2>6. /\ SumFunctionOnSet(f2, S \cup {y}) = SumFunctionOnSet(f, S) + f2[y]
        /\ SumFunctionOnSet(g2, S \cup {y}) = SumFunctionOnSet(g, S) + g2[y]
    <3>1. IsFiniteSet(S) /\ y \notin S
      BY <1>5, <2>5
    <3>2. (\A i \in S : f[i] \in Int /\ f2[i] = f[i]) /\ f2[y] \in Int
      BY <2>5
    <3>3. SumFunctionOnSet(f2, S \cup {y}) = SumFunctionOnSet(f, S) + f2[y]
      BY <3>1, <3>2, SumGrows
    <3>4. (\A i \in S : g[i] \in Int /\ g2[i] = g[i]) /\ g2[y] \in Int
      BY <2>5
    <3>5. SumFunctionOnSet(g2, S \cup {y}) = SumFunctionOnSet(g, S) + g2[y]
      BY <3>1, <3>4, SumGrows
    <3>6. QED
      BY <3>3, <3>5
  <2>7. QED
    BY <1>9, <1>10, <1>11, <2>1, <2>3, <2>6 DEF M, y
<1>12. CASE e.currency # c
  <2>1. T = S
    BY <1>4, <1>12
  <2>2. SumFunctionOnSet(f2, T) = SumFunctionOnSet(f, S)
        /\ SumFunctionOnSet(g2, T) = SumFunctionOnSet(g, S)
    BY <1>5, <1>6, <2>1, SumAgrees
  <2>3. QED
    BY <1>9, <1>10, <1>12, <2>2 DEF M
<1>13. QED
  BY <1>11, <1>12

\* A balance change journalled as it was made keeps the ledger complete.
LEMMA JournalledDelta ==
  ASSUME NEW bals \in [Currencies -> [available: Nat, locked: Nat]], NEW L \in Seq(Entry),
         Explained(L, bals), NEW k \in Currencies, NEW x \in Int, NEW y \in Int,
         NEW e \in Entry, e.currency = k, e.available = x, e.locked = y
  PROVE  Explained(Append(L, e), applyPaperBalanceDelta(bals, k, x, y))
<1> SUFFICES ASSUME NEW c \in Currencies
             PROVE  applyPaperBalanceDelta(bals, k, x, y)[c]
                      = [available |-> StartBalance[c] + AvailableIn(Append(L, e), c),
                         locked |-> LockedIn(Append(L, e), c)]
  BY DEF Explained
<1> DEFINE a == AvailableIn(L, c)
           b == LockedIn(L, c)
<1>1. /\ a \in Int /\ b \in Int /\ StartBalance[c] \in Nat
      /\ AvailableIn(Append(L, e), c) = a + IF k = c THEN x ELSE 0
      /\ LockedIn(Append(L, e), c) = b + IF k = c THEN y ELSE 0
  BY EntryAppended, AmountAssumption
<1>2. bals[c] = [available |-> StartBalance[c] + a, locked |-> b]
  BY DEF Explained
<1>3. applyPaperBalanceDelta(bals, k, x, y)[c]
        = IF k = c THEN [available |-> bals[c].available + x, locked |-> bals[c].locked + y]
          ELSE bals[c]
  BY DEF applyPaperBalanceDelta
<1> HIDE DEF a, b
<1>4. CASE k = c
  BY <1>1, <1>2, <1>3, <1>4
<1>5. CASE k # c
  BY <1>1, <1>2, <1>3, <1>5
<1>6. QED
  BY <1>4, <1>5

LEMMA LedgerInit == Init => Explained(ledger, balances)
<1> SUFFICES ASSUME Init, NEW c \in Currencies
             PROVE  balances[c] = [available |-> StartBalance[c] + AvailableIn(ledger, c),
                                   locked |-> LockedIn(ledger, c)]
  BY DEF Explained
<1>1. Mine(ledger, c) = {}
  BY DEF Init, Mine
<1>2. AvailableIn(ledger, c) = 0 /\ LockedIn(ledger, c) = 0
  BY <1>1, SumEmpty DEF AvailableIn, LockedIn
<1>3. StartBalance[c] \in Nat
  BY AmountAssumption
<1>4. QED
  BY <1>2, <1>3 DEF Init

LEMMA LedgerDelta ==
  ASSUME Invariant, Explained(ledger, balances),
         NEW kind \in {"submit-lock", "cancel-unlock"}, NEW id \in OrderIds,
         NEW k \in Currencies, NEW x \in Int, NEW y \in Int,
         applyBalanceDelta(kind, id, 0, k, x, y)
  PROVE  Explained(ledger', balances')
<1> DEFINE e == LedgerEntry(kind, id, 0, k, x, y, balances')
<1>1. /\ balances \in [Currencies -> [available: Nat, locked: Nat]] /\ ledger \in Seq(Entry)
  BY DEF Invariant, AccountTypeOK
<1>2. balances' \in [Currencies -> [available: Nat, locked: Nat]]
  BY <1>1, DeltaTypes
<1>3. e \in Entry /\ e.currency = k /\ e.available = x /\ e.locked = y
  BY <1>2 DEF LedgerEntry, Entry
<1>4. /\ balances' = applyPaperBalanceDelta(balances, k, x, y)
      /\ ledger' = Append(ledger, e)
  BY DEF applyBalanceDelta
<1> HIDE DEF e
<1>5. QED
  BY <1>1, <1>3, <1>4, JournalledDelta

LEMMA LedgerFill ==
  ASSUME Invariant, Explained(ledger, balances), NEW id \in OrderIds, fillOrder(id)
  PROVE  Explained(ledger', balances')
<1> DEFINE o == orders[id]
           in == creditCurrency(o)
           out == reserveCurrency(o)
           debited == applyPaperBalanceDelta(balances, out, 0, -fillDebit(o))
           e1 == LedgerEntry("fill-debit", id, nextTrade, out, 0, -fillDebit(o), debited)
           e2 == LedgerEntry("fill-credit", id, nextTrade, in, fillCredit(o), 0, balances')
<1>1. o \in Order /\ fillAllowed(o)
  BY FillBooks
<1>2. /\ fillCredit(o) \in Nat /\ fillDebit(o) \in Nat
      /\ in \in Currencies /\ out \in Currencies
  BY <1>1, FillAmounts, OrderCurrencies DEF Order
<1>3. /\ Settle(id, nextTrade) /\ nextTrade \in Nat
      /\ balances \in [Currencies -> [available: Nat, locked: Nat]]
      /\ ledger \in Seq(Entry)
  BY DEF fillOrder, Invariant, AccountTypeOK
<1>4. /\ balances' = applyPaperBalanceDelta(debited, in, fillCredit(o), 0)
      /\ ledger' = ledger \o <<e1, e2>>
      /\ balances' \in [Currencies -> [available: Nat, locked: Nat]]
  BY <1>1, <1>3, SettleTypes DEF Settle
<1>5. debited \in [Currencies -> [available: Nat, locked: Nat]]
  <2> HIDE DEF in
  <2>1. balances[out].locked \in Nat /\ balances[out].available \in Nat
    BY <1>2, <1>3
  <2>2. balances[out].locked + (-fillDebit(o)) >= 0
    BY <1>3 DEF Settle, Covered
  <2> DEFINE after == [available |-> balances[out].available + 0,
                       locked |-> balances[out].locked + (-fillDebit(o))]
  <2>3. after \in [available: Nat, locked: Nat]
    <3> HIDE DEF out, o
    <3>1. QED
      BY <1>2, <2>1, <2>2
  <2>4. debited = [balances EXCEPT ![out] = after]
    BY DEF applyPaperBalanceDelta
  <2> HIDE DEF after, debited, out
  <2>5. QED
    BY <1>2, <1>3, <2>3, <2>4
<1> HIDE DEF debited, in, out, o
<1>6. /\ e1 \in Entry /\ e1.currency = out /\ e1.available = 0 /\ e1.locked = -fillDebit(o)
      /\ e2 \in Entry /\ e2.currency = in /\ e2.available = fillCredit(o) /\ e2.locked = 0
  BY <1>2, <1>3, <1>4, <1>5 DEF LedgerEntry, Entry
<1> HIDE DEF e1, e2
<1>7. ledger' = Append(Append(ledger, e1), e2) /\ Append(ledger, e1) \in Seq(Entry)
  <2>1. e1 \in Entry /\ e2 \in Entry /\ ledger \in Seq(Entry) /\ ledger' = ledger \o <<e1, e2>>
    BY <1>3, <1>4, <1>6
  <2>2. \A L \in Seq(Entry) : \A x, y \in Entry :
          /\ Append(L, x) \in Seq(Entry)
          /\ L \o <<x, y>> = Append(Append(L, x), y)
    OBVIOUS
  <2>3. QED
    BY <2>1, <2>2
<1>8. Explained(Append(ledger, e1), debited)
  <2>1. -fillDebit(o) \in Int
    BY <1>2
  <2>2. QED
    BY <1>2, <1>3, <1>6, <2>1, JournalledDelta, SMTT(30) DEF debited
<1>9. Explained(Append(Append(ledger, e1), e2), applyPaperBalanceDelta(debited, in, fillCredit(o), 0))
  <2> DEFINE L == Append(ledger, e1)
             x == fillCredit(o)
  <2>1. L \in Seq(Entry) /\ Explained(L, debited) /\ x \in Int /\ e2.available = x
    BY <1>2, <1>6, <1>7, <1>8
  <2> HIDE DEF L, x
  <2>2. Explained(Append(L, e2), applyPaperBalanceDelta(debited, in, x, 0))
    BY <1>2, <1>5, <1>6, <2>1, JournalledDelta
  <2>3. QED
    BY <2>2 DEF L, x
<1>10. QED
  BY <1>4, <1>7, <1>9

LEMMA LedgerStep ==
  Invariant /\ Explained(ledger, balances) /\ [Next]_vars => Explained(ledger', balances')
<1> SUFFICES ASSUME Invariant, Explained(ledger, balances), [Next]_vars
             PROVE  Explained(ledger', balances')
  OBVIOUS
<1>1. CASE UNCHANGED money
  BY <1>1 DEF money
<1>2. ASSUME NEW order \in Orders, SubmitOrder(order) PROVE Explained(ledger', balances')
  <2> DEFINE k == reserveCurrency(order)
             x == paperReserveForOrder(order)
  <2>1. k \in Currencies /\ x \in Int /\ -x \in Int /\ nextOrder \in OrderIds
    BY <1>2, InputAssumption, OrderCurrencies, ReserveIsAmount DEF Submittable, SubmitOrder
  <2>2. UNCHANGED money \/ applyBalanceDelta("submit-lock", nextOrder, 0, k, -x, x)
    BY <1>2 DEF SubmitOrder
  <2> HIDE DEF k, x
  <2>3. QED
    BY <1>1, <2>1, <2>2, LedgerDelta
<1>3. ASSUME NEW id \in OrderIds, CancelOrder(id) PROVE Explained(ledger', balances')
  <2> DEFINE k == reserveCurrency(orders[id])
             x == paperReserveForRemaining(orders[id], orders[id].quantity - orders[id].executed)
  <2>1. k \in Currencies /\ x \in Int /\ -x \in Int
    BY <1>3, WorkingHoldsItsReserve DEF CancelOrder
  <2>2. UNCHANGED money \/ applyBalanceDelta("cancel-unlock", id, 0, k, x, -x)
    BY <1>3 DEF CancelOrder
  <2> HIDE DEF k, x
  <2>3. QED
    BY <1>1, <2>1, <2>2, LedgerDelta
<1>4. QED
  BY <1>1, <1>2, <1>3, LedgerFill DEF Next, AdvanceOrder, AdvanceKLine, SkipOrder, AbandonBar,
     markKLineProcessed, Tick, vars

-----------------------------------------------------------------------------
(* The trade rows explain the balances                                     *)

Row == [order: OrderIds, symbol: Symbols, side: Sides, gross: Nat, fee: Nat,
        feeCurrency: Currencies, base: Int, quote: Int]

Places(trs) == UNION {{id} \X DOMAIN trs[id] : id \in OrderIds}
RowsOf(trs) == [at \in Places(trs) |-> paperEvidenceTrade(trs[at[1]][at[2]])]

BaseRows(rows, c) == {at \in DOMAIN rows : Base[rows[at].symbol] = c}
QuoteRows(rows, c) == {at \in DOMAIN rows : Quote[rows[at].symbol] = c}
BaseIn(rows, c) == SumFunctionOnSet([at \in BaseRows(rows, c) |-> rows[at].base], BaseRows(rows, c))
QuoteIn(rows, c) == SumFunctionOnSet([at \in QuoteRows(rows, c) |-> rows[at].quote], QuoteRows(rows, c))

\* The row of a trade.
LEMMA RowOfTrade ==
  ASSUME NEW t \in Trade
  PROVE  LET row == paperEvidenceTrade(t)
         IN  /\ row \in Row
             /\ row.order = t.order /\ row.symbol = t.symbol /\ row.side = t.side
             /\ row.gross = t.notional /\ row.fee = t.fee
             /\ t.side = "buy" => /\ row.base = t.quantity - t.fee /\ row.quote = -t.notional
                                  /\ row.feeCurrency = Base[t.symbol]
             /\ t.side = "sell" => /\ row.base = -t.quantity /\ row.quote = t.notional - t.fee
                                   /\ row.feeCurrency = Quote[t.symbol]
<1> DEFINE row == paperEvidenceTrade(t)
           sign == IF t.side = "buy" THEN 1 ELSE -1
<1>1. /\ t.symbol \in Symbols /\ t.side \in {"buy", "sell"} /\ t.order \in OrderIds
      /\ t.quantity \in Nat /\ t.notional \in Nat /\ t.fee \in Nat
      /\ Base[t.symbol] \in Currencies /\ Quote[t.symbol] \in Currencies
      /\ Base[t.symbol] # Quote[t.symbol]
  BY MarketAssumption DEF Trade, Sides
<1>2. row = [order |-> t.order, symbol |-> t.symbol, side |-> t.side, gross |-> t.notional,
             fee |-> t.fee, feeCurrency |-> FeeCurrency(t),
             base |-> sign * t.quantity - FeeIn(t, Base[t.symbol]),
             quote |-> -sign * t.notional - FeeIn(t, Quote[t.symbol])]
  BY DEF paperEvidenceTrade
<1> DEFINE b == sign * t.quantity - FeeIn(t, Base[t.symbol])
           q == -sign * t.notional - FeeIn(t, Quote[t.symbol])
<1>3. CASE t.side = "buy"
  <2>1. FeeCurrency(t) = Base[t.symbol]
    BY <1>3 DEF FeeCurrency
  <2>2. FeeIn(t, Base[t.symbol]) = t.fee /\ FeeIn(t, Quote[t.symbol]) = 0
    BY <1>1, <2>1 DEF FeeIn
  <2>3. b = t.quantity - t.fee /\ q = -t.notional
    BY <1>1, <1>3, <2>2
  <2> HIDE DEF b, q, row
  <2>4. b \in Int /\ q \in Int
    BY <1>1, <2>3
  <2>5. row.base = b /\ row.quote = q
    BY <1>2 DEF b, q
  <2>6. row \in Row
    BY <1>1, <1>2, <2>1, <2>4 DEF Row, Sides, b, q
  <2>7. QED
    BY <1>2, <1>3, <2>1, <2>3, <2>5, <2>6 DEF row
<1>4. CASE t.side = "sell"
  <2>1. FeeCurrency(t) = Quote[t.symbol]
    BY <1>4 DEF FeeCurrency
  <2>2. FeeIn(t, Base[t.symbol]) = 0 /\ FeeIn(t, Quote[t.symbol]) = t.fee
    BY <1>1, <2>1 DEF FeeIn
  <2>3. b = -t.quantity /\ q = t.notional - t.fee
    BY <1>1, <1>4, <2>2
  <2> HIDE DEF b, q, row
  <2>4. b \in Int /\ q \in Int
    BY <1>1, <2>3
  <2>5. row.base = b /\ row.quote = q
    BY <1>2 DEF b, q
  <2>6. row \in Row
    BY <1>1, <1>2, <2>1, <2>4 DEF Row, Sides, b, q
  <2>7. QED
    BY <1>2, <1>4, <2>1, <2>3, <2>5, <2>6 DEF row
<1>5. QED
  BY <1>1, <1>3, <1>4

LEMMA RowsAreRows ==
  ASSUME AccountTypeOK, NEW at \in DOMAIN RowsOf(trades)
  PROVE  /\ at[1] \in OrderIds /\ at[2] \in DOMAIN trades[at[1]]
         /\ at = <<at[1], at[2]>>
         /\ trades[at[1]][at[2]] \in Trade
         /\ RowsOf(trades)[at] = paperEvidenceTrade(trades[at[1]][at[2]])
         /\ RowsOf(trades)[at] \in Row
<1>1. at \in Places(trades) /\ RowsOf(trades)[at] = paperEvidenceTrade(trades[at[1]][at[2]])
  BY DEF RowsOf
<1>2. PICK id \in OrderIds : at \in {id} \X DOMAIN trades[id]
  BY <1>1 DEF Places
<1>3. at[1] = id /\ at[2] \in DOMAIN trades[id] /\ at = <<at[1], at[2]>>
  BY <1>2
<1>4. trades[id] \in Seq(Trade)
  BY DEF AccountTypeOK
<1>5. trades[id][at[2]] \in Trade
  BY <1>3, <1>4, ElementOfSeq, LenProperties
<1>6. QED
  BY <1>1, <1>2, <1>3, <1>5, RowOfTrade

\* A new row adds its changes to the two currencies of its market.
LEMMA RowAdded ==
  ASSUME NEW rows, NEW rows2, NEW p, IsFiniteSet(DOMAIN rows), p \notin DOMAIN rows,
         DOMAIN rows2 = DOMAIN rows \cup {p},
         \A at \in DOMAIN rows : rows2[at] = rows[at] /\ rows[at] \in Row,
         rows2[p] \in Row, NEW c
  PROVE  /\ BaseIn(rows, c) \in Int /\ QuoteIn(rows, c) \in Int
         /\ BaseIn(rows2, c) = BaseIn(rows, c)
              + IF Base[rows2[p].symbol] = c THEN rows2[p].base ELSE 0
         /\ QuoteIn(rows2, c) = QuoteIn(rows, c)
              + IF Quote[rows2[p].symbol] = c THEN rows2[p].quote ELSE 0
<1>1. /\ BaseIn(rows, c) \in Int
      /\ BaseIn(rows2, c) = BaseIn(rows, c)
           + IF Base[rows2[p].symbol] = c THEN rows2[p].base ELSE 0
  <2> DEFINE S == BaseRows(rows, c)
             T == BaseRows(rows2, c)
             f == [at \in S |-> rows[at].base]
             g == [at \in T |-> rows2[at].base]
  <2>1. S \subseteq DOMAIN rows /\ p \notin S
        /\ T = IF Base[rows2[p].symbol] = c THEN S \cup {p} ELSE S
    BY DEF BaseRows
  <2>2. IsFiniteSet(S)
    BY <2>1, FS_Subset
  <2>3. \A at \in S : f[at] \in Int /\ (at \in T => g[at] = f[at])
    BY <2>1 DEF Row
  <2>4. p \in T => g[p] = rows2[p].base
    OBVIOUS
  <2>5. rows2[p].base \in Int
    BY DEF Row
  <2>6. BaseIn(rows, c) = SumFunctionOnSet(f, S) /\ BaseIn(rows2, c) = SumFunctionOnSet(g, T)
    BY DEF BaseIn
  <2> HIDE DEF f, g, S, T
  <2>7. SumFunctionOnSet(f, S) \in Int
    BY <2>2, <2>3, SumIsInteger
  <2>8. CASE Base[rows2[p].symbol] = c
    <3>1. T = S \cup {p}
      BY <2>1, <2>8
    <3>2. (\A at \in S : f[at] \in Int /\ g[at] = f[at]) /\ g[p] \in Int
      BY <2>3, <2>4, <2>5, <3>1
    <3>3. p \notin S
      BY <2>1
    <3>4. SumFunctionOnSet(g, S \cup {p}) = SumFunctionOnSet(f, S) + g[p]
      BY <2>2, <3>2, <3>3, SumGrows
    <3>5. QED
      BY <2>4, <2>6, <2>7, <2>8, <3>1, <3>4
  <2>9. CASE Base[rows2[p].symbol] # c
    <3>1. T = S
      BY <2>1, <2>9
    <3>2. SumFunctionOnSet(g, S) = SumFunctionOnSet(f, S)
      BY <2>2, <2>3, <3>1, SumAgrees
    <3>3. QED
      BY <2>6, <2>7, <2>9, <3>1, <3>2
  <2>10. QED
    BY <2>6, <2>7, <2>8, <2>9
<1>2. /\ QuoteIn(rows, c) \in Int
      /\ QuoteIn(rows2, c) = QuoteIn(rows, c)
           + IF Quote[rows2[p].symbol] = c THEN rows2[p].quote ELSE 0
  <2> DEFINE S == QuoteRows(rows, c)
             T == QuoteRows(rows2, c)
             f == [at \in S |-> rows[at].quote]
             g == [at \in T |-> rows2[at].quote]
  <2>1. S \subseteq DOMAIN rows /\ p \notin S
        /\ T = IF Quote[rows2[p].symbol] = c THEN S \cup {p} ELSE S
    BY DEF QuoteRows
  <2>2. IsFiniteSet(S)
    BY <2>1, FS_Subset
  <2>3. \A at \in S : f[at] \in Int /\ (at \in T => g[at] = f[at])
    BY <2>1 DEF Row
  <2>4. p \in T => g[p] = rows2[p].quote
    OBVIOUS
  <2>5. rows2[p].quote \in Int
    BY DEF Row
  <2>6. QuoteIn(rows, c) = SumFunctionOnSet(f, S) /\ QuoteIn(rows2, c) = SumFunctionOnSet(g, T)
    BY DEF QuoteIn
  <2> HIDE DEF f, g, S, T
  <2>7. SumFunctionOnSet(f, S) \in Int
    BY <2>2, <2>3, SumIsInteger
  <2>8. CASE Quote[rows2[p].symbol] = c
    <3>1. T = S \cup {p}
      BY <2>1, <2>8
    <3>2. (\A at \in S : f[at] \in Int /\ g[at] = f[at]) /\ g[p] \in Int
      BY <2>3, <2>4, <2>5, <3>1
    <3>3. p \notin S
      BY <2>1
    <3>4. SumFunctionOnSet(g, S \cup {p}) = SumFunctionOnSet(f, S) + g[p]
      BY <2>2, <3>2, <3>3, SumGrows
    <3>5. QED
      BY <2>4, <2>6, <2>7, <2>8, <3>1, <3>4
  <2>9. CASE Quote[rows2[p].symbol] # c
    <3>1. T = S
      BY <2>1, <2>9
    <3>2. SumFunctionOnSet(g, S) = SumFunctionOnSet(f, S)
      BY <2>2, <2>3, <3>1, SumAgrees
    <3>3. QED
      BY <2>6, <2>7, <2>9, <3>1, <3>2
  <2>10. QED
    BY <2>6, <2>7, <2>8, <2>9
<1>3. QED
  BY <1>1, <1>2

\* The net changes of the rows add up to the change of every balance.
RowsExplain ==
  /\ IsFiniteSet(DOMAIN RowsOf(trades))
  /\ \A c \in Currencies :
       Total(c) - StartBalance[c] = BaseIn(RowsOf(trades), c) + QuoteIn(RowsOf(trades), c)

LEMMA RowsInit == Init => RowsExplain
<1> SUFFICES ASSUME Init PROVE RowsExplain
  OBVIOUS
<1>1. DOMAIN RowsOf(trades) = {}
  BY DEF Init, RowsOf, Places
<1> DEFINE rows == RowsOf(trades)
<1> HIDE DEF rows
<1>2. ASSUME NEW c \in Currencies PROVE Total(c) - StartBalance[c] = BaseIn(rows, c) + QuoteIn(rows, c)
  <2>1. BaseRows(rows, c) = {} /\ QuoteRows(rows, c) = {}
    BY <1>1 DEF BaseRows, QuoteRows, rows
  <2>2. BaseIn(rows, c) = 0 /\ QuoteIn(rows, c) = 0
    BY <2>1, SumEmpty DEF BaseIn, QuoteIn
  <2>3. StartBalance[c] \in Nat
    BY AmountAssumption
  <2>4. Total(c) = StartBalance[c]
    BY <2>3 DEF Init, Total
  <2>5. QED
    BY <2>2, <2>3, <2>4
<1>3. QED
  BY <1>1, <1>2, FS_EmptySet DEF RowsExplain, rows

\* A fill adds one row.
LEMMA RowsAfterFill ==
  ASSUME Invariant, NEW id \in OrderIds, fillOrder(id)
  PROVE  LET p == <<id, 1>>
             trade == Fill(id, nextTrade, call.bar.end)
         IN  /\ p \notin DOMAIN RowsOf(trades)
             /\ DOMAIN RowsOf(trades') = DOMAIN RowsOf(trades) \cup {p}
             /\ \A at \in DOMAIN RowsOf(trades) : /\ RowsOf(trades')[at] = RowsOf(trades)[at]
                                                  /\ RowsOf(trades)[at] \in Row
             /\ RowsOf(trades')[p] = paperEvidenceTrade(trade)
<1> DEFINE p == <<id, 1>>
           trade == Fill(id, nextTrade, call.bar.end)
<1>1. /\ AccountTypeOK
      /\ trades[id] = <<>> /\ trades'[id] = <<trade>>
      /\ \A other \in OrderIds \ {id} : trades'[other] = trades[other]
  BY FillBooks DEF Invariant
<1> HIDE DEF trade
<1>2. DOMAIN trades[id] = {} /\ DOMAIN trades'[id] = {1} /\ trades'[id][1] = trade
  BY <1>1
<1>3. /\ Places(trades') = Places(trades) \cup {p}
      /\ p \notin Places(trades)
  <2>1. \A at : at \in Places(trades) <=> \E k \in OrderIds : at \in {k} \X DOMAIN trades[k]
    BY DEF Places
  <2>2. \A at : at \in Places(trades') <=> \E k \in OrderIds : at \in {k} \X DOMAIN trades'[k]
    BY DEF Places
  <2>3. p \in {id} \X DOMAIN trades'[id]
    BY <1>2
  <2>4. \A at : at \in {id} \X DOMAIN trades'[id] => at = p
    BY <1>2
  <2>5. \A k \in OrderIds : p \in {k} \X DOMAIN trades[k] => FALSE
    BY <1>2
  <2>6. \A at : at \notin {id} \X DOMAIN trades[id]
    BY <1>2
  <2> HIDE DEF p
  <2>7. \A at : at \in Places(trades') <=> at \in Places(trades) \cup {p}
    BY <1>1, <2>1, <2>2, <2>3, <2>4, <2>6
  <2>8. p \notin Places(trades)
    BY <2>1, <2>5
  <2>9. QED
    BY <2>7, <2>8
<1>4. DOMAIN RowsOf(trades) = Places(trades) /\ DOMAIN RowsOf(trades') = Places(trades')
  BY DEF RowsOf
<1>5. ASSUME NEW at \in DOMAIN RowsOf(trades)
      PROVE  RowsOf(trades')[at] = RowsOf(trades)[at] /\ RowsOf(trades)[at] \in Row
  <2>1. /\ at[1] \in OrderIds /\ at[2] \in DOMAIN trades[at[1]]
        /\ RowsOf(trades)[at] = paperEvidenceTrade(trades[at[1]][at[2]])
        /\ RowsOf(trades)[at] \in Row
    BY <1>1, RowsAreRows
  <2>2. at[1] # id
    BY <1>2, <2>1
  <2>3. trades'[at[1]] = trades[at[1]]
    BY <1>1, <2>1, <2>2
  <2>4. at \in Places(trades')
    BY <1>3, <1>4
  <2>5. RowsOf(trades')[at] = paperEvidenceTrade(trades'[at[1]][at[2]])
    BY <2>4 DEF RowsOf
  <2>6. QED
    BY <2>1, <2>3, <2>5
<1>6. RowsOf(trades')[p] = paperEvidenceTrade(trade)
  <2>1. RowsOf(trades')[p] = paperEvidenceTrade(trades'[p[1]][p[2]])
    BY <1>3 DEF RowsOf
  <2>2. trades'[p[1]][p[2]] = trade
    BY <1>2
  <2>3. QED
    BY <2>1, <2>2
<1>7. QED
  BY <1>3, <1>4, <1>5, <1>6 DEF trade

LEMMA RowsFill ==
  ASSUME Invariant, RowsExplain, NEW id \in OrderIds, fillOrder(id)
  PROVE  RowsExplain'
<1> DEFINE p == <<id, 1>>
           o == orders[id]
           trade == Fill(id, nextTrade, call.bar.end)
           row == paperEvidenceTrade(trade)
           rows == RowsOf(trades)
           rows2 == RowsOf(trades')
<1>1. /\ p \notin DOMAIN rows /\ DOMAIN rows2 = DOMAIN rows \cup {p}
      /\ \A at \in DOMAIN rows : rows2[at] = rows[at] /\ rows[at] \in Row
      /\ rows2[p] = row
  BY RowsAfterFill
<1>2. /\ trade \in Trade /\ o.symbol \in Symbols /\ o.side \in {"buy", "sell"}
      /\ fillQuantity(o) = o.quantity /\ o \in Order /\ fillAllowed(o)
  BY FillBooks DEF Order, Sides
<1>3. /\ trade.symbol = o.symbol /\ trade.side = o.side /\ trade.quantity = fillQuantity(o)
      /\ trade.notional = fillNotional(o) /\ trade.fee = fillFee(o)
  BY DEF Fill
<1> HIDE DEF trade
<1>4. /\ row \in Row /\ row.symbol = o.symbol
      /\ o.side = "buy" => row.base = fillCredit(o) /\ row.quote = -fillDebit(o)
      /\ o.side = "sell" => row.base = -fillDebit(o) /\ row.quote = fillCredit(o)
  BY <1>2, <1>3, RowOfTrade DEF fillCredit, fillDebit
<1> HIDE DEF row, rows, rows2, p
<1>5. IsFiniteSet(DOMAIN rows2)
  BY <1>1, FS_AddElement DEF RowsExplain, rows
<1>6. ASSUME NEW c \in Currencies
      PROVE  Total(c)' - StartBalance[c] = BaseIn(rows2, c) + QuoteIn(rows2, c)
  <2>1. /\ BaseIn(rows, c) \in Int /\ QuoteIn(rows, c) \in Int
        /\ BaseIn(rows2, c) = BaseIn(rows, c) + IF Base[o.symbol] = c THEN row.base ELSE 0
        /\ QuoteIn(rows2, c) = QuoteIn(rows, c) + IF Quote[o.symbol] = c THEN row.quote ELSE 0
    <3>1. IsFiniteSet(DOMAIN rows)
      BY DEF RowsExplain, rows
    <3>2. rows2[p] \in Row /\ rows2[p].symbol = o.symbol
      BY <1>1, <1>4
    <3>3. /\ BaseIn(rows, c) \in Int /\ QuoteIn(rows, c) \in Int
          /\ BaseIn(rows2, c) = BaseIn(rows, c)
               + IF Base[rows2[p].symbol] = c THEN rows2[p].base ELSE 0
          /\ QuoteIn(rows2, c) = QuoteIn(rows, c)
               + IF Quote[rows2[p].symbol] = c THEN rows2[p].quote ELSE 0
      BY <1>1, <3>1, <3>2, RowAdded
    <3>4. QED
      BY <1>1, <3>2, <3>3
  <2>2. /\ balances[c] \in [available: Nat, locked: Nat]
        /\ balances'[c] \in [available: Nat, locked: Nat]
        /\ fillCredit(o) \in Nat /\ fillDebit(o) \in Nat
        /\ balances'[c].available = balances[c].available
             + IF c = creditCurrency(o) THEN fillCredit(o) ELSE 0
        /\ balances'[c].locked = balances[c].locked
             - IF c = reserveCurrency(o) THEN fillDebit(o) ELSE 0
    BY BalancesAfterFill
  <2>3. Total(c) \in Int /\ StartBalance[c] \in Nat
        /\ Total(c)' = Total(c) + (IF c = creditCurrency(o) THEN fillCredit(o) ELSE 0)
                                - (IF c = reserveCurrency(o) THEN fillDebit(o) ELSE 0)
    <3>1. /\ balances[c].available \in Nat /\ balances[c].locked \in Nat
          /\ balances'[c].available \in Nat /\ balances'[c].locked \in Nat
      BY <2>2
    <3>2. QED
      BY <2>2, <3>1, AmountAssumption DEF Total
  <2>4. Total(c) - StartBalance[c] = BaseIn(rows, c) + QuoteIn(rows, c)
    BY DEF RowsExplain, rows
  <2>5. Total(c)' = Total(c) + (IF Base[o.symbol] = c THEN row.base ELSE 0)
                             + (IF Quote[o.symbol] = c THEN row.quote ELSE 0)
    <3>1. CASE o.side = "buy"
      <4>1. creditCurrency(o) = Base[o.symbol] /\ reserveCurrency(o) = Quote[o.symbol]
        BY <3>1 DEF creditCurrency, reserveCurrency
      <4>2. QED
        BY <1>4, <2>2, <2>3, <3>1, <4>1
    <3>2. CASE o.side = "sell"
      <4>1. creditCurrency(o) = Quote[o.symbol] /\ reserveCurrency(o) = Base[o.symbol]
        BY <3>2 DEF creditCurrency, reserveCurrency
      <4>2. QED
        BY <1>4, <2>2, <2>3, <3>2, <4>1
    <3>3. QED
      BY <1>2, <3>1, <3>2
  <2>6. row.base \in Int /\ row.quote \in Int
    BY <1>4 DEF Row
  <2>7. QED
    BY <2>1, <2>3, <2>4, <2>5, <2>6
<1>7. QED
  BY <1>5, <1>6 DEF RowsExplain, rows2, Total

LEMMA RowsStep == Invariant /\ LotsConsistent /\ RowsExplain /\ [Next]_vars => RowsExplain'
<1> SUFFICES ASSUME Invariant, LotsConsistent, RowsExplain, [Next]_vars PROVE RowsExplain'
  OBVIOUS
<1>1. CASE Filling
  BY <1>1, RowsFill DEF Filling
<1>2. CASE ~Filling
  <2>1. trades' = trades
    BY <1>2, LotsConsistentOther DEF Filling, Next, AdvanceOrder
  <2>2. \A c \in Currencies : Total(c)' = Total(c)
    BY <1>2, TotalStays
  <2>3. QED
    BY <2>1, <2>2 DEF RowsExplain, Total
<1>3. QED
  BY <1>1, <1>2

\* Balances, ledger and trades tell the same story: the journal replayed from
\* the opening balances leaves no drift (ReconcileLedger), and the net changes
\* of the trade rows alone add up to the change of every balance.
THEOREM TradesExplain == Spec => []TradesExplainBalances
<1>1. ASSUME Explained(ledger, balances), RowsExplain PROVE TradesExplainBalances
  <2>1. ASSUME NEW c \in Currencies PROVE balances[c] = Expected(c)
    BY <1>1 DEF Explained, Expected, SumOver, AvailableIn, LockedIn, Mine
  <2>2. Drift = {}
    BY <2>1 DEF Drift
  <2>3. TradeRows = RowsOf(trades)
    BY DEF TradeRows, RowsOf, Places
  <2>4. \A c \in Currencies :
          Total(c) - StartBalance[c] = BaseIn(TradeRows, c) + QuoteIn(TradeRows, c)
    BY <1>1, <2>3 DEF RowsExplain
  <2>5. QED
    BY <2>2, <2>4 DEF TradesExplainBalances, SumRows, SumOver, BaseIn, QuoteIn, BaseRows, QuoteRows
<1>2. Invariant /\ LotsConsistent /\ Explained(ledger, balances) /\ RowsExplain /\ [Next]_vars
        => LotsConsistent' /\ Explained(ledger, balances)' /\ RowsExplain'
  BY LotsConsistentStep, LedgerStep, RowsStep
<1>3. QED
  BY <1>1, <1>2, LotsInit, LedgerInit, RowsInit, InvariantHolds, PTL DEF Spec

-----------------------------------------------------------------------------
(* Reading the retained report back                                        *)

GrossOf(rows, P) == SumFunctionOnSet([i \in P |-> rows[i].gross], P)
NetOf(rows, P) == SumFunctionOnSet([i \in P |-> rows[i].net], P)
QuotedIn(rows, Q, c) == {i \in DOMAIN rows : Q[rows[i].symbol] = c}
QuotedSide(rows, Q, c, side) == {i \in DOMAIN rows : Q[rows[i].symbol] = c /\ rows[i].side = side}

DealRow == [symbol: Symbols, entry: OrderIds, exit: OrderIds, quantity: Nat,
            entryFee: Nat, entryFeeCurrency: Currencies, exitFee: Nat,
            exitFeeCurrency: Currencies, gross: Int, net: Int]

LEMMA ClosedRowsAreRows ==
  ASSUME LotsConsistent
  PROVE  /\ DOMAIN ClosedRows = DOMAIN closed
         /\ DOMAIN closed = 1..Len(closed) /\ Len(closed) \in Nat
         /\ \A i \in DOMAIN ClosedRows :
              /\ ClosedRows[i] \in DealRow /\ closed[i] \in Deal
              /\ ClosedRows[i].symbol = closed[i].symbol
              /\ ClosedRows[i].entry = closed[i].entry /\ ClosedRows[i].exit = closed[i].exit
              /\ ClosedRows[i].quantity = closed[i].quantity
              /\ ClosedRows[i].exitFeeCurrency = Quote[ClosedRows[i].symbol]
<1>1. DOMAIN ClosedRows = DOMAIN closed /\ DOMAIN closed = 1..Len(closed) /\ Len(closed) \in Nat
  BY LenProperties DEF ClosedRows, LotsConsistent
<1>2. ASSUME NEW i \in DOMAIN ClosedRows
      PROVE  /\ ClosedRows[i] \in DealRow /\ closed[i] \in Deal
             /\ ClosedRows[i].symbol = closed[i].symbol
             /\ ClosedRows[i].entry = closed[i].entry /\ ClosedRows[i].exit = closed[i].exit
             /\ ClosedRows[i].quantity = closed[i].quantity
             /\ ClosedRows[i].exitFeeCurrency = Quote[ClosedRows[i].symbol]
  <2> DEFINE d == closed[i]
             x == d.exitNotional - d.entryNotional
  <2>1. d \in Deal
    BY <1>1, ElementOfSeq DEF LotsConsistent
  <2>2. ClosedRows[i] =
          [symbol |-> d.symbol, entry |-> d.entry, exit |-> d.exit, quantity |-> d.quantity,
           entryFee |-> d.entryFee, entryFeeCurrency |-> Quote[d.symbol],
           exitFee |-> d.exitFee, exitFeeCurrency |-> Quote[d.symbol], gross |-> x, net |-> d.pnl]
    BY <1>1 DEF ClosedRows
  <2>3. x \in Int /\ Quote[d.symbol] \in Currencies
    BY <2>1, MarketAssumption DEF Deal
  <2> HIDE DEF d, x
  <2>4. QED
    BY <2>1, <2>2, <2>3 DEF Deal, DealRow, d
<1>3. QED
  BY <1>1, <1>2

\* The quote currency the readback takes for each symbol.
Guess == [s \in Symbols |-> paperLifecycleEvidenceQuoteCurrency(ExportPaperLifecycleEvidence, s)]

\* The readback finds a symbol's quote currency, unless nothing of the symbol
\* was closed and none of its trades turned anything over.
LEMMA GuessIsQuote ==
  ASSUME Invariant, LotsConsistent, RowsExplain, NEW s \in Symbols
  PROVE  \/ Guess[s] = Quote[s]
         \/ /\ \A i \in DOMAIN ClosedRows : ClosedRows[i].symbol # s
            /\ \A at \in DOMAIN TradeRows : TradeRows[at].symbol = s => TradeRows[at].gross = 0
<1> DEFINE evidence == ExportPaperLifecycleEvidence
           deals == {i \in DOMAIN ClosedRows : ClosedRows[i].symbol = s}
           P == QuotedIn(TradeRows, Quote, Quote[s])
<1>0. /\ evidence.closed = ClosedRows /\ evidence.trades = TradeRows
      /\ evidence.summary = paperEvidenceSummary(TradeRows, ClosedRows)
  BY DEF ExportPaperLifecycleEvidence
<1>1. Guess[s] = IF deals # {} THEN ClosedRows[Min(deals)].exitFeeCurrency
                 ELSE IF evidence.summary[Quote[s]].turnover # 0 THEN Quote[s] ELSE NoQuote
  BY <1>0 DEF Guess, paperLifecycleEvidenceQuoteCurrency
<1>2. CASE deals # {}
  <2>1. deals \subseteq Nat
    BY ClosedRowsAreRows
  <2>2. Min(deals) \in deals
    <3> HIDE DEF deals
    <3>1. \E least \in deals : \A y \in deals : least <= y
      BY <1>2, <2>1, LeastOf
    <3>2. QED
      BY <3>1 DEF Min
  <2>3. QED
    BY <1>1, <1>2, <2>2, ClosedRowsAreRows
<1>3. CASE deals = {} /\ evidence.summary[Quote[s]].turnover = 0
  <2>1. evidence.summary[Quote[s]].turnover = GrossOf(TradeRows, P)
    <3>1. Quote[s] \in Currencies
      BY MarketAssumption
    <3> HIDE DEF evidence
    <3>2. paperEvidenceSummary(TradeRows, ClosedRows)[Quote[s]].turnover
            = SumRows(TradeRows, LAMBDA r : Quote[r.symbol] = Quote[s], LAMBDA r : r.gross)
      BY <3>1 DEF paperEvidenceSummary, Totals
    <3>3. QED
      BY <1>0, <3>2 DEF SumRows, SumOver, GrossOf, QuotedIn
  <2> DEFINE f == [i \in P |-> TradeRows[i].gross]
  <2>2. TradeRows = RowsOf(trades)
    BY DEF TradeRows, RowsOf, Places
  <2>3. P \subseteq DOMAIN TradeRows /\ IsFiniteSet(P)
    <3>1. P \subseteq DOMAIN TradeRows
      BY DEF QuotedIn
    <3>2. QED
      BY <2>2, <3>1, FS_Subset DEF RowsExplain
  <2>4. \A at \in P : f[at] \in Nat /\ f[at] = TradeRows[at].gross
    <3>1. \A at \in P : TradeRows[at] \in Row
      BY <2>2, <2>3, RowsAreRows DEF Invariant
    <3>2. QED
      BY <3>1 DEF Row
  <2>5. SumFunctionOnSet(f, P) = 0
    BY <1>3, <2>1 DEF GrossOf
  <2>6. \A at \in DOMAIN TradeRows : TradeRows[at].symbol = s => at \in P
    BY DEF QuotedIn
  <2> HIDE DEF f, P
  <2>7. \A at \in P : f[at] = 0
    BY <2>3, <2>4, <2>5, SumBoundsElement
  <2>8. QED
    BY <1>3, <2>4, <2>6, <2>7
<1>4. QED
  BY <1>1, <1>2, <1>3

\* Rows that turned nothing over may be counted in any currency.
LEMMA GrossAgrees ==
  ASSUME Invariant, RowsExplain,
         NEW P \in SUBSET DOMAIN TradeRows, NEW R \in SUBSET DOMAIN TradeRows,
         \A at \in DOMAIN TradeRows : at \in P /\ at \notin R => TradeRows[at].gross = 0,
         \A at \in DOMAIN TradeRows : at \in R /\ at \notin P => TradeRows[at].gross = 0
  PROVE  GrossOf(TradeRows, P) = GrossOf(TradeRows, R)
<1> DEFINE f == [i \in P |-> TradeRows[i].gross]
           g == [i \in R |-> TradeRows[i].gross]
<1>1. TradeRows = RowsOf(trades)
  BY DEF TradeRows, RowsOf, Places
<1>2. IsFiniteSet(P) /\ IsFiniteSet(R)
  BY <1>1, FS_Subset DEF RowsExplain
<1>3. \A at \in DOMAIN TradeRows : TradeRows[at].gross \in Nat
  BY <1>1, RowsAreRows DEF Invariant, Row
<1>4. /\ \A at \in P \cap R : f[at] \in Int /\ g[at] = f[at]
      /\ \A at \in P \ R : f[at] = 0
      /\ \A at \in R \ P : g[at] = 0
  BY <1>3
<1> HIDE DEF f, g
<1>5. SumFunctionOnSet(f, P) = SumFunctionOnSet(g, R)
  BY <1>2, <1>4, SumIgnoresZeros
<1>6. QED
  BY <1>5 DEF GrossOf, f, g

\* The totals of one currency, under a table of quote currencies.
TotalsIn(rows, deals, Q, c) ==
  [turnover |-> GrossOf(rows, QuotedIn(rows, Q, c)),
   bought   |-> GrossOf(rows, QuotedSide(rows, Q, c, "buy")),
   sold     |-> GrossOf(rows, QuotedSide(rows, Q, c, "sell")),
   fees     |-> SumRows(rows, LAMBDA r : r.feeCurrency = c, LAMBDA r : r.fee),
   entryFees |-> SumRows(deals, LAMBDA d : d.entryFeeCurrency = c, LAMBDA d : d.entryFee),
   exitFees |-> SumRows(deals, LAMBDA d : d.exitFeeCurrency = c, LAMBDA d : d.exitFee),
   grossPnL |-> GrossOf(deals, QuotedIn(deals, Q, c)),
   netPnL   |-> NetOf(deals, QuotedIn(deals, Q, c))]

LEMMA GuessedTotals ==
  ASSUME Invariant, LotsConsistent, RowsExplain, NEW c
  PROVE  TotalsIn(TradeRows, ClosedRows, Guess, c) = TotalsIn(TradeRows, ClosedRows, Quote, c)
<1>1. \A at \in DOMAIN TradeRows : TradeRows[at].symbol \in Symbols
  <2>1. TradeRows = RowsOf(trades)
    BY DEF TradeRows, RowsOf, Places
  <2>2. QED
    BY <2>1, RowsAreRows DEF Invariant, Row
<1>2. \A at \in DOMAIN TradeRows :
        Guess[TradeRows[at].symbol] = Quote[TradeRows[at].symbol] \/ TradeRows[at].gross = 0
  BY <1>1, GuessIsQuote
<1>3. \A i \in DOMAIN ClosedRows : Guess[ClosedRows[i].symbol] = Quote[ClosedRows[i].symbol]
  <2>1. \A i \in DOMAIN ClosedRows : ClosedRows[i].symbol \in Symbols
    BY ClosedRowsAreRows DEF DealRow
  <2>2. QED
    BY <2>1, GuessIsQuote
<1>4. GrossOf(TradeRows, QuotedIn(TradeRows, Guess, c)) = GrossOf(TradeRows, QuotedIn(TradeRows, Quote, c))
  <2> DEFINE P == QuotedIn(TradeRows, Guess, c)
             R == QuotedIn(TradeRows, Quote, c)
  <2>1. /\ P \in SUBSET DOMAIN TradeRows /\ R \in SUBSET DOMAIN TradeRows
        /\ \A at \in DOMAIN TradeRows : at \in P /\ at \notin R => TradeRows[at].gross = 0
        /\ \A at \in DOMAIN TradeRows : at \in R /\ at \notin P => TradeRows[at].gross = 0
    BY <1>2 DEF QuotedIn
  <2> HIDE DEF P, R
  <2>2. GrossOf(TradeRows, P) = GrossOf(TradeRows, R)
    BY <2>1, GrossAgrees
  <2>3. QED
    BY <2>2 DEF P, R
<1>5. ASSUME NEW side
      PROVE  GrossOf(TradeRows, QuotedSide(TradeRows, Guess, c, side))
               = GrossOf(TradeRows, QuotedSide(TradeRows, Quote, c, side))
  <2> DEFINE P == QuotedSide(TradeRows, Guess, c, side)
             R == QuotedSide(TradeRows, Quote, c, side)
  <2>1. /\ P \in SUBSET DOMAIN TradeRows /\ R \in SUBSET DOMAIN TradeRows
        /\ \A at \in DOMAIN TradeRows : at \in P /\ at \notin R => TradeRows[at].gross = 0
        /\ \A at \in DOMAIN TradeRows : at \in R /\ at \notin P => TradeRows[at].gross = 0
    BY <1>2 DEF QuotedSide
  <2> HIDE DEF P, R
  <2>2. GrossOf(TradeRows, P) = GrossOf(TradeRows, R)
    BY <2>1, GrossAgrees
  <2>3. QED
    BY <2>2 DEF P, R
<1>6. QuotedIn(ClosedRows, Guess, c) = QuotedIn(ClosedRows, Quote, c)
  BY <1>3 DEF QuotedIn
<1>7. QED
  BY <1>4, <1>5, <1>6 DEF TotalsIn

\* The totals recomputed from one retained report are the ones it was exported
\* with, although the readback has to guess each symbol's quote currency
\* (paperLifecycleEvidenceQuoteCurrency): where it cannot, there is nothing to
\* count.
THEOREM ReadbackAgrees == Spec => []ReadbackAgreesWithExport
<1>1. ASSUME Invariant, LotsConsistent, RowsExplain PROVE ReadbackAgreesWithExport
  <2> DEFINE evidence == ExportPaperLifecycleEvidence
  <2>0. evidence.closed = ClosedRows /\ evidence.trades = TradeRows
        /\ evidence.summary = paperEvidenceSummary(TradeRows, ClosedRows)
    BY DEF ExportPaperLifecycleEvidence
  <2>1. evidence.summary = [c \in Currencies |-> TotalsIn(TradeRows, ClosedRows, Quote, c)]
    BY <2>0 DEF paperEvidenceSummary, Totals, TotalsIn, SumRows, SumOver, GrossOf, NetOf, QuotedIn,
       QuotedSide
  <2>2. aggregatePaperLifecycleRecordedRuns(evidence)
          = [c \in Currencies |-> TotalsIn(TradeRows, ClosedRows, Guess, c)]
    <3> DEFINE G(s) == paperLifecycleEvidenceQuoteCurrency(evidence, s)
    <3>1. /\ \A at \in DOMAIN TradeRows : G(TradeRows[at].symbol) = Guess[TradeRows[at].symbol]
          /\ \A i \in DOMAIN ClosedRows : G(ClosedRows[i].symbol) = Guess[ClosedRows[i].symbol]
      <4>1. /\ \A at \in DOMAIN TradeRows : TradeRows[at].symbol \in Symbols
            /\ \A i \in DOMAIN ClosedRows : ClosedRows[i].symbol \in Symbols
        <5>1. TradeRows = RowsOf(trades)
          BY DEF TradeRows, RowsOf, Places
        <5>2. QED
          BY <1>1, <5>1, RowsAreRows, ClosedRowsAreRows DEF Invariant, Row, DealRow
      <4>2. \A s \in Symbols : G(s) = Guess[s]
        BY DEF Guess
      <4>3. QED
        BY <4>1, <4>2
    <3> HIDE DEF G
    <3>2. ASSUME NEW c \in Currencies
          PROVE  /\ {i \in DOMAIN TradeRows : G(TradeRows[i].symbol) = c} = QuotedIn(TradeRows, Guess, c)
                 /\ {i \in DOMAIN TradeRows : G(TradeRows[i].symbol) = c /\ TradeRows[i].side = "buy"}
                      = QuotedSide(TradeRows, Guess, c, "buy")
                 /\ {i \in DOMAIN TradeRows : G(TradeRows[i].symbol) = c /\ TradeRows[i].side = "sell"}
                      = QuotedSide(TradeRows, Guess, c, "sell")
                 /\ {i \in DOMAIN ClosedRows : G(ClosedRows[i].symbol) = c}
                      = QuotedIn(ClosedRows, Guess, c)
      BY <3>1 DEF QuotedIn, QuotedSide
    <3>3. aggregatePaperLifecycleRecordedRuns(evidence)
            = [c \in Currencies |->
                 [turnover |-> GrossOf(TradeRows, {i \in DOMAIN TradeRows : G(TradeRows[i].symbol) = c}),
                  bought |-> GrossOf(TradeRows, {i \in DOMAIN TradeRows :
                               G(TradeRows[i].symbol) = c /\ TradeRows[i].side = "buy"}),
                  sold |-> GrossOf(TradeRows, {i \in DOMAIN TradeRows :
                               G(TradeRows[i].symbol) = c /\ TradeRows[i].side = "sell"}),
                  fees |-> SumRows(TradeRows, LAMBDA r : r.feeCurrency = c, LAMBDA r : r.fee),
                  entryFees |-> SumRows(ClosedRows, LAMBDA d : d.entryFeeCurrency = c,
                                        LAMBDA d : d.entryFee),
                  exitFees |-> SumRows(ClosedRows, LAMBDA d : d.exitFeeCurrency = c,
                                       LAMBDA d : d.exitFee),
                  grossPnL |-> GrossOf(ClosedRows, {i \in DOMAIN ClosedRows : G(ClosedRows[i].symbol) = c}),
                  netPnL |-> NetOf(ClosedRows, {i \in DOMAIN ClosedRows : G(ClosedRows[i].symbol) = c})]]
      <4> HIDE DEF evidence
      <4>1. QED
        BY <2>0 DEF aggregatePaperLifecycleRecordedRuns, Totals, SumRows, SumOver, GrossOf, NetOf, G
    <3>4. QED
      BY <3>2, <3>3 DEF TotalsIn, SumRows, SumOver
  <2>3. QED
    BY <1>1, <2>1, <2>2, GuessedTotals DEF ReadbackAgreesWithExport
<1>2. Invariant /\ LotsConsistent /\ RowsExplain /\ [Next]_vars => LotsConsistent' /\ RowsExplain'
  BY LotsConsistentStep, RowsStep
<1>3. QED
  BY <1>1, <1>2, LotsInit, RowsInit, InvariantHolds, PTL DEF Spec

-----------------------------------------------------------------------------
(* What the realised trades allocate to the orders                         *)

EntryDeals(cl, id) == {k \in DOMAIN cl : cl[k].entry = id}
ExitDeals(cl, id) == {k \in DOMAIN cl : cl[k].exit = id}
EntryIn(cl, id) == SumFunctionOnSet([k \in EntryDeals(cl, id) |-> cl[k].quantity], EntryDeals(cl, id))
ExitIn(cl, id) == SumFunctionOnSet([k \in ExitDeals(cl, id) |-> cl[k].quantity], ExitDeals(cl, id))

\* No two open lots of a market come from the same order.
Distinct(lots) == \A i, j \in DOMAIN lots : lots[i].order = lots[j].order => i = j

\* What is still open of an order.
LotOf(lots, id) ==
  IF \E j \in DOMAIN lots : lots[j].order = id
  THEN lots[CHOOSE j \in DOMAIN lots : lots[j].order = id].quantity
  ELSE 0

\* What is booked of a filled order: a buy is split into what was closed of it
\* and what is still open; no sale closes more than it sold.
Booked(o, ts, cl, lots, id) ==
  LET t == ts[1]
  IN  /\ ts = <<t>> /\ t \in Trade
      /\ t.order = id /\ t.side = o.side /\ t.symbol = o.symbol
      /\ t.side = "buy" =>
           /\ t.quantity > t.fee
           /\ EntryIn(cl, id) + LotOf(lots, id) = t.quantity - t.fee
      /\ t.side = "sell" => ExitIn(cl, id) <= t.quantity

Allocation ==
  \A id \in OrderIds :
    Filled(id) => Booked(orders[id], trades[id], closed, positions[orders[id].symbol], id)

LEMMA AllocationInit == Init => Allocation
BY DEF Init, Allocation, Filled, NoOrder

LEMMA LotsAreDistinct ==
  ASSUME Invariant, LotsConsistent, LotsInOrder, NEW s \in Symbols
  PROVE  Distinct(positions[s])
<1> SUFFICES ASSUME NEW i \in DOMAIN positions[s], NEW j \in DOMAIN positions[s],
                    positions[s][i].order = positions[s][j].order, i < j
             PROVE  FALSE
  <2>1. \A i \in DOMAIN positions[s] : i \in Nat
    BY LenProperties DEF LotsConsistent
  <2>2. QED
    BY <2>1 DEF Distinct
<1>1. TradeOf(trades, positions[s][i].order) < TradeOf(trades, positions[s][j].order)
  BY DEF LotsInOrder
<1>2. FilledOn(orders, positions[s][i].order, s, "buy")
  BY DEF LotsConsistent
<1>3. TradeOf(trades, positions[s][i].order) \in Nat
  BY <1>2, TradeIdIsNat
<1>4. QED
  BY <1>1, <1>3

LEMMA LotOfIs ==
  ASSUME NEW lots, Distinct(lots), NEW id
  PROVE  /\ \A j \in DOMAIN lots : lots[j].order = id => LotOf(lots, id) = lots[j].quantity
         /\ (\A j \in DOMAIN lots : lots[j].order # id) => LotOf(lots, id) = 0
BY DEF Distinct, LotOf

LEMMA DealsAreFinite ==
  ASSUME NEW cl \in Seq(Deal), NEW id
  PROVE  /\ IsFiniteSet(EntryDeals(cl, id)) /\ IsFiniteSet(ExitDeals(cl, id))
         /\ EntryIn(cl, id) \in Nat /\ ExitIn(cl, id) \in Nat
         /\ \A k \in DOMAIN cl : cl[k].quantity \in Nat /\ cl[k].quantity > 0
<1>1. DOMAIN cl = 1..Len(cl) /\ Len(cl) \in Nat /\ IsFiniteSet(DOMAIN cl)
  BY LenProperties, FS_Interval
<1>2. \A k \in DOMAIN cl : cl[k].quantity \in Nat /\ cl[k].quantity > 0
  <2> SUFFICES ASSUME NEW k \in DOMAIN cl PROVE cl[k].quantity \in Nat /\ cl[k].quantity > 0
    OBVIOUS
  <2>1. cl[k] \in Deal
    BY <1>1, ElementOfSeq
  <2>2. QED
    BY <2>1 DEF Deal
<1> DEFINE E == EntryDeals(cl, id)
           X == ExitDeals(cl, id)
           f == [k \in E |-> cl[k].quantity]
           g == [k \in X |-> cl[k].quantity]
<1>3. E \subseteq DOMAIN cl /\ X \subseteq DOMAIN cl
  BY DEF EntryDeals, ExitDeals
<1>4. IsFiniteSet(E) /\ IsFiniteSet(X)
  BY <1>1, <1>3, FS_Subset
<1>5. (\A k \in E : f[k] \in Nat) /\ (\A k \in X : g[k] \in Nat)
  BY <1>2, <1>3
<1>6. EntryIn(cl, id) = SumFunctionOnSet(f, E) /\ ExitIn(cl, id) = SumFunctionOnSet(g, X)
  BY DEF EntryIn, ExitIn
<1> HIDE DEF E, X, f, g
<1>7. SumFunctionOnSet(f, E) \in Nat /\ SumFunctionOnSet(g, X) \in Nat
  BY <1>4, <1>5, SumIsNatural
<1>8. QED
  BY <1>2, <1>4, <1>6, <1>7 DEF E, X

\* The step of a sale, deal by deal.
SaleStep(id, full, touched) ==
  LET o == orders[id]
      trade == Fill(id, nextTrade, call.bar.end)
      lots == positions[o.symbol]
      n == Len(closed)
  IN  /\ SalePlaces(lots, o.quantity, full, touched)
      /\ positions'[o.symbol] = LotsLeft(lots, o.quantity, full)
      /\ \A r \in Symbols \ {o.symbol} : positions'[r] = positions[r]
      /\ closed \in Seq(Deal) /\ closed' \in Seq(Deal)
      /\ DOMAIN closed = 1..n /\ n \in Nat /\ DOMAIN closed' = 1..(n + touched)
      /\ \A k \in 1..n : closed'[k] = closed[k]
      /\ \A i \in 1..touched :
           /\ i \in DOMAIN lots
           /\ closed'[n + i] = SaleDeal(lots, trade, i)
           /\ closed'[n + i].symbol = o.symbol
           /\ closed'[n + i].entry = lots[i].order /\ closed'[n + i].exit = id
           /\ closed'[n + i].quantity = CloseQuantity(lots, o.quantity, i)

LEMMA SaleSteps ==
  ASSUME Invariant, LotsConsistent, NEW id \in OrderIds, fillOrder(id), orders[id].side # "buy"
  PROVE  \E full, touched \in Nat : SaleStep(id, full, touched)
<1> DEFINE o == orders[id]
           s == o.symbol
           lots == positions[s]
           trade == Fill(id, nextTrade, call.bar.end)
           q == trade.quantity
           n == Len(closed)
<1>1. /\ s \in Symbols /\ trade \in Trade /\ trade.symbol = s /\ trade.order = id
      /\ q = o.quantity /\ q \in Nat /\ q > 0
  BY LotsSell
<1>2. PICK full \in Nat, touched \in Nat : SaleCloses(trade, full, touched)
  BY LotsSell
<1> HIDE DEF trade
<1>3. Sized(lots) /\ closed \in Seq(Deal) /\ DOMAIN positions = Symbols
  BY <1>1 DEF LotsConsistent
<1> DEFINE left == LotsLeft(lots, q, full)
<1>4. /\ SalePlaces(lots, q, full, touched)
      /\ positions' = [positions EXCEPT ![s] = left]
  BY <1>1, <1>2 DEF SaleCloses
<1>5. positions'[s] = left /\ \A r \in Symbols \ {s} : positions'[r] = positions[r]
  BY <1>1, <1>3, <1>4
<1>6. /\ closed' \in Seq(Deal)
      /\ Len(closed') = n + touched /\ n \in Nat
      /\ \A k \in 1..n : closed'[k] = closed[k]
      /\ \A i \in 1..touched : closed'[n + i] = SaleDeal(lots, trade, i)
  BY <1>1, <1>2, <1>3, ClosedAfterSale
<1>7. DOMAIN closed' = 1..(n + touched) /\ DOMAIN closed = 1..n
  BY <1>3, <1>6, LenProperties
<1>8. \A i \in 1..touched :
        /\ i \in DOMAIN lots
        /\ SaleDeal(lots, trade, i).symbol = s
        /\ SaleDeal(lots, trade, i).entry = lots[i].order
        /\ SaleDeal(lots, trade, i).exit = id
        /\ SaleDeal(lots, trade, i).quantity = CloseQuantity(lots, q, i)
  <2> HIDE DEF lots
  <2>1. QED
    BY <1>1, <1>3, <1>4, SaleDeals
<1>9. SaleStep(id, full, touched)
  <2>1. /\ SalePlaces(lots, o.quantity, full, touched)
        /\ positions'[s] = LotsLeft(lots, o.quantity, full)
    BY <1>1, <1>4, <1>5
  <2>2. \A i \in 1..touched :
           /\ i \in DOMAIN lots
           /\ closed'[n + i] = SaleDeal(lots, trade, i)
           /\ closed'[n + i].symbol = s
           /\ closed'[n + i].entry = lots[i].order /\ closed'[n + i].exit = id
           /\ closed'[n + i].quantity = CloseQuantity(lots, o.quantity, i)
    <3> HIDE DEF q, lots, n
    <3>1. QED
      BY <1>1, <1>6, <1>8
  <2> HIDE DEF lots, n, q, s, o
  <2>3. QED
    BY <1>3, <1>5, <1>6, <1>7, <2>1, <2>2 DEF SaleStep, trade, lots, n, s, o
<1>10. QED
  BY <1>9

\* A sale allocates to each bought order what it closed of its lot.
LEMMA EntryAfterSale ==
  ASSUME NEW id \in OrderIds, NEW full \in Nat, NEW touched \in Nat, SaleStep(id, full, touched),
         Distinct(positions[orders[id].symbol]), NEW k
  PROVE  LET lots == positions[orders[id].symbol]
             q == orders[id].quantity
         IN  /\ \A i \in 1..touched : lots[i].order = k =>
                  EntryIn(closed', k) = EntryIn(closed, k) + CloseQuantity(lots, q, i)
             /\ (\A i \in 1..touched : lots[i].order # k) => EntryIn(closed', k) = EntryIn(closed, k)
<1> DEFINE lots == positions[orders[id].symbol]
           q == orders[id].quantity
           n == Len(closed)
           S == EntryDeals(closed, k)
           T == EntryDeals(closed', k)
           f == [j \in S |-> closed[j].quantity]
           g == [j \in T |-> closed'[j].quantity]
<1>1. /\ closed \in Seq(Deal) /\ closed' \in Seq(Deal)
      /\ DOMAIN closed = 1..n /\ n \in Nat /\ DOMAIN closed' = 1..(n + touched)
      /\ \A j \in 1..n : closed'[j] = closed[j]
      /\ \A i \in 1..touched :
           /\ i \in DOMAIN lots
           /\ closed'[n + i].entry = lots[i].order
           /\ closed'[n + i].quantity = CloseQuantity(lots, q, i)
  BY DEF SaleStep
<1>2. /\ IsFiniteSet(S) /\ \A j \in DOMAIN closed : closed[j].quantity \in Nat
      /\ \A j \in DOMAIN closed' : closed'[j].quantity \in Nat
  BY <1>1, DealsAreFinite
<1> HIDE DEF n, lots, q
<1>3. S \subseteq 1..n /\ S \subseteq T
  BY <1>1 DEF EntryDeals
<1>4. \A j \in T \ S : \E i \in 1..touched : j = n + i /\ lots[i].order = k
  <2> SUFFICES ASSUME NEW j \in T, j \notin S PROVE \E i \in 1..touched : j = n + i /\ lots[i].order = k
    OBVIOUS
  <2>1. j \in 1..(n + touched) /\ closed'[j].entry = k
    BY <1>1 DEF EntryDeals
  <2>2. j > n
    <3> SUFFICES ASSUME j <= n PROVE FALSE
      BY <1>1, <2>1
    <3>1. j \in 1..n
      BY <1>1, <2>1
    <3>2. QED
      BY <1>1, <2>1, <3>1 DEF EntryDeals
  <2>3. j - n \in 1..touched /\ n + (j - n) = j
    BY <1>1, <2>1, <2>2
  <2>4. lots[j - n].order = k
    <3>1. closed'[n + (j - n)].entry = lots[j - n].order
      BY <1>1, <2>3
    <3>2. QED
      BY <2>1, <2>3, <3>1
  <2>5. QED
    BY <2>3, <2>4
<1>5. /\ \A j \in S : f[j] \in Nat /\ g[j] = f[j]
      /\ EntryIn(closed, k) = SumFunctionOnSet(f, S) /\ EntryIn(closed', k) = SumFunctionOnSet(g, T)
  <2>1. \A j \in S : f[j] \in Nat /\ g[j] = f[j]
    BY <1>1, <1>2, <1>3
  <2>2. QED
    BY <2>1 DEF EntryIn
<1>6. ASSUME NEW i \in 1..touched, lots[i].order = k
      PROVE  EntryIn(closed', k) = EntryIn(closed, k) + CloseQuantity(lots, q, i)
  <2> DEFINE y == n + i
  <2>1. y \in DOMAIN closed' /\ y \notin 1..n /\ y \notin S
    BY <1>1, <1>3
  <2>2. y \in T
    BY <1>1, <1>6, <2>1 DEF EntryDeals
  <2>3. T = S \cup {y}
    <3>1. \A j \in T \ S : j = y
      <4> SUFFICES ASSUME NEW j \in T \ S PROVE j = y
        OBVIOUS
      <4>1. PICK h \in 1..touched : j = n + h /\ lots[h].order = k
        BY <1>4
      <4>2. h = i
        BY <1>1, <1>6, <4>1 DEF Distinct, lots
      <4>3. QED
        BY <4>1, <4>2
    <3> HIDE DEF y, S, T
    <3>2. QED
      BY <1>3, <2>2, <3>1
  <2>4. g[y] = CloseQuantity(lots, q, i) /\ g[y] \in Int
    <3>1. g[y] = closed'[y].quantity
      BY <2>2
    <3>2. closed'[y].quantity = CloseQuantity(lots, q, i)
      BY <1>1
    <3>3. closed'[y].quantity \in Nat
      BY <1>2, <2>1
    <3> HIDE DEF g, y
    <3>4. QED
      BY <3>1, <3>2, <3>3
  <2> HIDE DEF y, S, T, f, g
  <2>5. IsFiniteSet(S) /\ y \notin S
    BY <1>2, <2>1
  <2>6. (\A j \in S : f[j] \in Int /\ g[j] = f[j]) /\ g[y] \in Int
    BY <1>5, <2>4
  <2>7. SumFunctionOnSet(g, S \cup {y}) = SumFunctionOnSet(f, S) + g[y]
    BY <2>5, <2>6, SumGrows
  <2>8. QED
    BY <1>5, <2>3, <2>4, <2>7
<1>7. ASSUME \A i \in 1..touched : lots[i].order # k
      PROVE  EntryIn(closed', k) = EntryIn(closed, k)
  <2>1. T = S
    BY <1>3, <1>4, <1>7
  <2> HIDE DEF S, T, f, g
  <2>2. SumFunctionOnSet(g, S) = SumFunctionOnSet(f, S)
    BY <1>2, <1>5, SumAgrees
  <2>3. QED
    BY <1>5, <2>1, <2>2
<1>8. QED
  BY <1>6, <1>7 DEF lots, q

\* The quantity allocated and what is left of the lot add up as before.
LEMMA SplitIsKept ==
  ASSUME NEW id \in OrderIds, NEW full \in Nat, NEW touched \in Nat, SaleStep(id, full, touched),
         closed \in Seq(Deal),
         Sized(positions[orders[id].symbol]), orders[id].quantity \in Nat,
         Distinct(positions[orders[id].symbol]), NEW k
  PROVE  EntryIn(closed', k) + LotOf(positions'[orders[id].symbol], k)
           = EntryIn(closed, k) + LotOf(positions[orders[id].symbol], k)
<1> DEFINE lots == positions[orders[id].symbol]
           q == orders[id].quantity
           left == positions'[orders[id].symbol]
<1>1. /\ SalePlaces(lots, q, full, touched) /\ left = LotsLeft(lots, q, full)
      /\ Sized(lots) /\ q \in Nat /\ Distinct(lots)
  BY DEF SaleStep
<1>2. /\ \A i \in 1..touched : lots[i].order = k =>
           EntryIn(closed', k) = EntryIn(closed, k) + CloseQuantity(lots, q, i)
      /\ (\A i \in 1..touched : lots[i].order # k) => EntryIn(closed', k) = EntryIn(closed, k)
  BY EntryAfterSale
<1>3. EntryIn(closed, k) \in Nat
  BY DealsAreFinite
<1> HIDE DEF lots, q, left
<1>4. /\ DOMAIN left = 1..(Len(lots) - full)
      /\ \A j \in DOMAIN left :
           /\ full + j \in DOMAIN lots
           /\ left[j].order = lots[full + j].order
           /\ left[j].quantity = lots[full + j].quantity - CloseQuantity(lots, q, full + j)
  BY <1>1, RemainingLots
<1>5. /\ DOMAIN lots = 1..Len(lots) /\ Len(lots) \in Nat
      /\ full <= touched /\ full \in Nat /\ touched \in Nat /\ touched <= Len(lots)
      /\ \A i \in DOMAIN lots : i <= full <=> CloseQuantity(lots, q, i) = lots[i].quantity
      /\ \A i \in DOMAIN lots : i <= touched <=> CloseQuantity(lots, q, i) > 0
  BY <1>1, LenProperties DEF SalePlaces, Sized
<1>6. Distinct(left)
  <2> SUFFICES ASSUME NEW i \in DOMAIN left, NEW j \in DOMAIN left, left[i].order = left[j].order
               PROVE  i = j
    BY DEF Distinct
  <2>1. i \in Nat /\ j \in Nat
    BY <1>4, <1>5
  <2>2. full + i \in DOMAIN lots /\ full + j \in DOMAIN lots
    BY <1>4
  <2>3. lots[full + i].order = lots[full + j].order
    BY <1>4
  <2>4. full + i = full + j
    BY <1>1, <2>2, <2>3 DEF Distinct
  <2>5. QED
    BY <1>5, <2>1, <2>4
<1>7. CASE \A i \in DOMAIN lots : lots[i].order # k
  <2>1. \A j \in DOMAIN left : left[j].order # k
    BY <1>4, <1>7
  <2>2. \A i \in 1..touched : lots[i].order # k
    BY <1>5, <1>7
  <2>3. LotOf(lots, k) = 0 /\ LotOf(left, k) = 0
    BY <1>1, <1>6, <1>7, <2>1, LotOfIs
  <2>4. QED
    BY <1>2, <2>2, <2>3 DEF lots, left
<1>8. ASSUME NEW i \in DOMAIN lots, lots[i].order = k
      PROVE  EntryIn(closed', k) + LotOf(left, k) = EntryIn(closed, k) + LotOf(lots, k)
  <2>1. /\ LotOf(lots, k) = lots[i].quantity
        /\ lots[i].quantity \in Nat /\ CloseQuantity(lots, q, i) \in Nat
    BY <1>1, <1>8, LotOfIs, LotQuantity, CloseQuantityIs
  <2>2. LotOf(left, k) = lots[i].quantity - CloseQuantity(lots, q, i)
    <3>1. CASE i <= full
      <4>1. \A j \in DOMAIN left : left[j].order # k
        <5> SUFFICES ASSUME NEW j \in DOMAIN left, left[j].order = k PROVE FALSE
          OBVIOUS
        <5>1. full + j = i /\ j \in Nat /\ j >= 1
          BY <1>1, <1>4, <1>8 DEF Distinct
        <5>2. QED
          BY <1>5, <3>1, <5>1
      <4>2. LotOf(left, k) = 0
        BY <1>6, <4>1, LotOfIs
      <4>3. CloseQuantity(lots, q, i) = lots[i].quantity
        BY <1>5, <3>1
      <4>4. QED
        BY <2>1, <4>2, <4>3
    <3>2. CASE i > full
      <4> DEFINE j == i - full
      <4>1. j \in DOMAIN left /\ full + j = i
        BY <1>4, <1>5, <3>2
      <4> HIDE DEF j
      <4>2. left[j].order = k /\ left[j].quantity = lots[i].quantity - CloseQuantity(lots, q, i)
        BY <1>4, <1>8, <4>1
      <4>3. QED
        BY <1>6, <4>1, <4>2, LotOfIs
    <3>3. QED
      BY <1>5, <3>1, <3>2
  <2>3. EntryIn(closed', k) = EntryIn(closed, k) + CloseQuantity(lots, q, i)
    <3>1. CASE i <= touched
      <4>1. i \in 1..touched
        BY <1>5, <3>1
      <4>2. QED
        BY <1>2, <1>8, <4>1
    <3>2. CASE ~(i <= touched)
      <4>1. \A h \in 1..touched : lots[h].order # k
        <5> SUFFICES ASSUME NEW h \in 1..touched, lots[h].order = k PROVE FALSE
          OBVIOUS
        <5>1. h \in DOMAIN lots /\ h <= touched
          BY <1>5
        <5>2. QED
          BY <1>1, <1>8, <3>2, <5>1 DEF Distinct
      <4>2. CloseQuantity(lots, q, i) = 0
        BY <1>5, <2>1, <3>2
      <4>3. QED
        BY <1>2, <1>3, <4>1, <4>2
    <3>3. QED
      BY <3>1, <3>2
  <2>4. QED
    BY <1>3, <2>1, <2>2, <2>3
<1>9. QED
  BY <1>7, <1>8 DEF lots, left

-----------------------------------------------------------------------------
(* A sale closes what it sold, or all there is                             *)

LEMMA ClosedUpTo ==
  ASSUME NEW lots, Sized(lots), NEW q \in Nat, NEW m \in 0..Len(lots)
  PROVE  /\ SumFunctionOnSet([i \in 1..m |-> CloseQuantity(lots, q, i)], 1..m)
              = IF q <= Ahead(lots, m + 1) THEN q ELSE Ahead(lots, m + 1)
         /\ Ahead(lots, m + 1) \in Nat
<1> DEFINE n == Len(lots)
           f(k) == [i \in 1..k |-> CloseQuantity(lots, q, i)]
           Sum(k) == SumFunctionOnSet(f(k), 1..k)
           Least(a) == IF q <= a THEN q ELSE a
           C == {k \in Nat : k <= n => /\ Sum(k) = Least(Ahead(lots, k + 1))
                                       /\ Ahead(lots, k + 1) \in Nat}
<1>1. DOMAIN lots = 1..n /\ n \in Nat
  BY LenProperties DEF Sized
<1>2. 0 \in C
  <2>1. 1..0 = {} /\ Sum(0) = 0
    <3>1. 1..0 = {}
      OBVIOUS
    <3> DEFINE g == f(0)
    <3> HIDE DEF g
    <3>2. SumFunctionOnSet(g, {}) = 0
      BY SumEmpty
    <3>3. QED
      BY <3>1, <3>2 DEF g
  <2>2. Ahead(lots, 0 + 1) = 0
    BY AheadSteps
  <2> HIDE DEF Sum
  <2>3. QED
    BY <2>1, <2>2
<1>3. \A k \in Nat : k \in C => k + 1 \in C
  <2> SUFFICES ASSUME NEW k \in Nat, k \in C, k + 1 <= n
               PROVE  /\ Sum(k + 1) = Least(Ahead(lots, (k + 1) + 1))
                      /\ Ahead(lots, (k + 1) + 1) \in Nat
    BY DEF C
  <2> DEFINE y == k + 1
             a == Ahead(lots, y)
             z == lots[y].quantity
  <2>1. y \in DOMAIN lots /\ Sum(k) = Least(a) /\ a \in Nat
    <3> HIDE DEF Sum, Least
    <3>1. QED
      BY <1>1
  <2>2. Ahead(lots, y + 1) = a + z /\ z \in Nat /\ z > 0
    BY <2>1, AheadSteps, LotQuantity
  <2>3. Sum(y) = Sum(k) + CloseQuantity(lots, q, y) /\ CloseQuantity(lots, q, y) \in Int
    <3>1. 1..y = (1..k) \cup {y} /\ y \notin 1..k
      OBVIOUS
    <3>2. IsFiniteSet(1..k)
      BY FS_Interval
    <3>3. \A i \in 1..y : CloseQuantity(lots, q, i) \in Int
      <4>1. \A i \in 1..y : i \in DOMAIN lots
        BY <1>1
      <4>2. QED
        BY <4>1, CloseQuantityIs
    <3> DEFINE g == f(k)
               h == f(y)
               P == 1..k
    <3>4. (\A i \in P : g[i] \in Int /\ h[i] = g[i]) /\ h[y] \in Int /\ h[y] = CloseQuantity(lots, q, y)
      <4> HIDE DEF y
      <4>1. QED
        BY <3>1, <3>3
    <3>5. 1..y = P \cup {y} /\ y \notin P /\ IsFiniteSet(P)
      BY <3>1, <3>2
    <3> HIDE DEF g, h, y, P
    <3> HIDE DEF C
    <3>6. SumFunctionOnSet(h, P \cup {y}) = SumFunctionOnSet(g, P) + h[y]
      <4>1. \A i \in P : g[i] \in Int /\ h[i] = g[i]
        BY <3>4
      <4>2. h[y] \in Int
        BY <3>4
      <4>3. IsFiniteSet(P) /\ y \notin P
        BY <3>5
      <4>4. QED
        BY <4>1, <4>2, <4>3, SumGrows
    <3>7. QED
      BY <3>4, <3>5, <3>6 DEF g, h, P
  <2> DEFINE c == CloseQuantity(lots, q, y)
  <2>4. /\ q <= a => c = 0
        /\ q >= a + z => c = z
        /\ q < a + z /\ q > a => c = q - a
    BY <2>1, CloseQuantityIs
  <2>5. Least(a) + c = Least(a + z)
    <3> HIDE DEF a, c, z, y
    <3>1. QED
      BY <2>1, <2>2, <2>4, SMTT(30)
  <2>6. Sum(y) = Least(a + z)
    <3> HIDE DEF a, c, z, y, Sum, Least
    <3>1. Sum(y) = Sum(k) + c
      BY <2>3 DEF c
    <3>2. QED
      BY <2>1, <2>5, <3>1
  <2> HIDE DEF Sum, a, z
  <2>7. QED
    BY <2>1, <2>2, <2>6
<1>4. Nat \subseteq C
  <2> HIDE DEF C
  <2>1. QED
    BY <1>2, <1>3, CountingUp
<1>5. m \in C /\ m <= n
  BY <1>1, <1>4
<1>6. QED
  BY <1>5

LEMMA SoldIsClosed ==
  ASSUME NEW lots, Sized(lots), NEW q \in Nat, NEW full \in Nat, NEW touched \in Nat,
         SalePlaces(lots, q, full, touched)
  PROVE  SumFunctionOnSet([i \in 1..touched |-> CloseQuantity(lots, q, i)], 1..touched)
           = IF q <= OpenQuantity(lots) THEN q ELSE OpenQuantity(lots)
<1> DEFINE n == Len(lots)
           S == 1..touched
           R == 1..n
           f == [i \in S |-> CloseQuantity(lots, q, i)]
           g == [i \in R |-> CloseQuantity(lots, q, i)]
<1>1. DOMAIN lots = R /\ n \in Nat /\ touched <= n
  BY LenProperties DEF Sized, SalePlaces
<1>2. S \subseteq R /\ IsFiniteSet(S) /\ IsFiniteSet(R)
  BY <1>1, FS_Interval
<1>3. \A i \in R : CloseQuantity(lots, q, i) \in Nat
  BY <1>1, CloseQuantityIs
<1>4. \A i \in R \ S : g[i] = 0
  <2> SUFFICES ASSUME NEW i \in R, i \notin S PROVE g[i] = 0
    OBVIOUS
  <2>1. ~(i <= touched) /\ i \in DOMAIN lots
    BY <1>1
  <2>2. ~(CloseQuantity(lots, q, i) > 0)
    BY <2>1 DEF SalePlaces
  <2>3. QED
    BY <1>3, <2>2
<1>5. \A i \in S \cap R : f[i] \in Int /\ g[i] = f[i]
  BY <1>3
<1>6. \A i \in S \ R : f[i] = 0
  BY <1>2
<1>7. SumFunctionOnSet(g, R) = IF q <= Ahead(lots, n + 1) THEN q ELSE Ahead(lots, n + 1)
  <2>1. n \in 0..n
    BY <1>1
  <2>2. QED
    BY <2>1, ClosedUpTo
<1> HIDE DEF f, g, S, R
<1>8. SumFunctionOnSet(f, S) = SumFunctionOnSet(g, R)
  BY <1>2, <1>4, <1>5, <1>6, SumIgnoresZeros
<1>9. QED
  BY <1>7, <1>8, OpenIsAhead DEF f, S

-----------------------------------------------------------------------------
(* Every step keeps the allocation                                         *)

LEMMA ExitAfterSale ==
  ASSUME NEW id \in OrderIds, NEW full \in Nat, NEW touched \in Nat, SaleStep(id, full, touched),
         Sized(positions[orders[id].symbol]), orders[id].quantity \in Nat,
         \A j \in DOMAIN closed : closed[j].exit # id
  PROVE  /\ ExitIn(closed', id) <= orders[id].quantity
         /\ \A k : k # id => ExitIn(closed', k) = ExitIn(closed, k)
<1> DEFINE lots == positions[orders[id].symbol]
           q == orders[id].quantity
           n == Len(closed)
           f == [i \in 1..touched |-> CloseQuantity(lots, q, i)]
           T == ExitDeals(closed', id)
           g == [j \in T |-> closed'[j].quantity]
           m == [i \in 1..touched |-> n + i]
<1>1. /\ closed \in Seq(Deal) /\ closed' \in Seq(Deal)
      /\ DOMAIN closed = 1..n /\ n \in Nat /\ DOMAIN closed' = 1..(n + touched)
      /\ \A j \in 1..n : closed'[j] = closed[j]
      /\ \A i \in 1..touched :
           /\ i \in DOMAIN lots
           /\ closed'[n + i].exit = id
           /\ closed'[n + i].quantity = CloseQuantity(lots, q, i)
      /\ SalePlaces(lots, q, full, touched)
      /\ Sized(lots) /\ q \in Nat
  BY DEF SaleStep
<1> HIDE DEF lots, q, n
<1>2. \A j \in 1..(n + touched) : j \in 1..n \/ (j - n \in 1..touched /\ j = n + (j - n))
  BY <1>1
<1>3. ASSUME NEW k, k # id
      PROVE  ExitIn(closed', k) = ExitIn(closed, k)
  <2>1. ExitDeals(closed', k) = ExitDeals(closed, k)
    <3>1. \A j \in DOMAIN closed' : closed'[j].exit = k => j \in 1..n
      <4> SUFFICES ASSUME NEW j \in DOMAIN closed', closed'[j].exit = k, j \notin 1..n PROVE FALSE
        OBVIOUS
      <4>1. j - n \in 1..touched /\ j = n + (j - n)
        BY <1>1, <1>2
      <4>2. closed'[n + (j - n)].exit = id
        BY <1>1, <4>1
      <4>3. QED
        BY <1>3, <4>1, <4>2
    <3>2. \A j \in 1..n : j \in DOMAIN closed'
      BY <1>1
    <3>3. QED
      BY <1>1, <3>1, <3>2 DEF ExitDeals
  <2>2. \A j \in ExitDeals(closed, k) : closed'[j].quantity = closed[j].quantity
    BY <1>1 DEF ExitDeals
  <2>3. [j \in ExitDeals(closed', k) |-> closed'[j].quantity]
          = [j \in ExitDeals(closed, k) |-> closed[j].quantity]
    BY <2>1, <2>2
  <2>4. QED
    BY <2>1, <2>3 DEF ExitIn
<1>4. T = {m[i] : i \in 1..touched}
  <2>1. ASSUME NEW j \in T PROVE j \in {m[i] : i \in 1..touched}
    <3>1. j \in 1..(n + touched) /\ closed'[j].exit = id
      BY <1>1 DEF ExitDeals
    <3>2. j \notin 1..n
      BY <1>1, <3>1
    <3>3. j - n \in 1..touched /\ j = n + (j - n)
      BY <1>2, <3>1, <3>2
    <3>4. QED
      BY <3>3
  <2>2. ASSUME NEW i \in 1..touched PROVE m[i] \in T
    <3>1. n + i \in DOMAIN closed'
      BY <1>1
    <3>2. QED
      BY <1>1, <3>1 DEF ExitDeals
  <2> HIDE DEF T, m
  <2>3. QED
    BY <2>1, <2>2
<1>5. \A x, y \in 1..touched : m[x] = m[y] => x = y
  BY <1>1
<1>6. \A i \in 1..touched : g[m[i]] \in Int /\ f[i] = g[m[i]]
  <2> SUFFICES ASSUME NEW i \in 1..touched PROVE g[m[i]] \in Int /\ f[i] = g[m[i]]
    OBVIOUS
  <2>1. m[i] = n + i /\ m[i] \in T
    BY <1>4
  <2>2. g[m[i]] = closed'[n + i].quantity
    <3> HIDE DEF m, T
    <3>1. QED
      BY <2>1
  <2>3. CloseQuantity(lots, q, i) \in Nat
    BY <1>1, CloseQuantityIs
  <2>4. QED
    BY <1>1, <2>2, <2>3
<1>7. IsFiniteSet(1..touched)
  BY FS_Interval
<1>8. ExitIn(closed', id) = SumFunctionOnSet(g, T)
  BY DEF ExitIn
<1>9. SumFunctionOnSet(f, 1..touched)
        = IF q <= OpenQuantity(lots) THEN q ELSE OpenQuantity(lots)
  BY <1>1, SoldIsClosed
<1>10. OpenQuantity(lots) \in Nat
  BY <1>1, OpenIsAhead
<1> DEFINE S == 1..touched
<1> HIDE DEF f, g, m, T
<1>11. SumFunctionOnSet(f, S) = SumFunctionOnSet(g, {m[x] : x \in S})
  <2> HIDE DEF S
  <2>1. IsFiniteSet(S) /\ (\A x, y \in S : m[x] = m[y] => x = y)
    BY <1>5, <1>7 DEF S
  <2>2. \A x \in S : g[m[x]] \in Int /\ f[x] = g[m[x]]
    BY <1>6 DEF S
  <2>3. QED
    BY <2>1, <2>2, SumReindexes
<1>12. ExitIn(closed', id) <= q
  BY <1>1, <1>4, <1>8, <1>9, <1>10, <1>11
<1>13. QED
  BY <1>3, <1>12 DEF q

\* Of an order that is not filled nothing is allocated or open.
LEMMA NothingAllocated ==
  ASSUME LotsConsistent, NEW id, ~Filled(id)
  PROVE  /\ \A k \in DOMAIN closed : closed[k].entry # id /\ closed[k].exit # id
         /\ EntryIn(closed, id) = 0 /\ ExitIn(closed, id) = 0
         /\ \A s \in Symbols : \A j \in DOMAIN positions[s] : positions[s][j].order # id
<1>1. \A k \in DOMAIN closed : closed[k].entry # id /\ closed[k].exit # id
  BY DEF LotsConsistent, FilledOn, Filled
<1>2. EntryDeals(closed, id) = {} /\ ExitDeals(closed, id) = {}
  BY <1>1 DEF EntryDeals, ExitDeals
<1> DEFINE f == [k \in EntryDeals(closed, id) |-> closed[k].quantity]
           g == [k \in ExitDeals(closed, id) |-> closed[k].quantity]
<1>3. EntryIn(closed, id) = SumFunctionOnSet(f, {}) /\ ExitIn(closed, id) = SumFunctionOnSet(g, {})
  BY <1>2 DEF EntryIn, ExitIn
<1> HIDE DEF f, g
<1>4. EntryIn(closed, id) = 0 /\ ExitIn(closed, id) = 0
  BY <1>3, SumEmpty
<1>5. QED
  BY <1>1, <1>4 DEF LotsConsistent, FilledOn, Filled

LEMMA AllocationOther ==
  ASSUME Invariant, Invariant', LotsConsistent, Allocation,
         \/ \E order \in Orders : SubmitOrder(order)
         \/ \E id \in OrderIds : CancelOrder(id) \/ SkipOrder(id) \/ AbandonBar(id)
         \/ \E bar \in Bars : AdvanceKLine(bar)
         \/ markKLineProcessed \/ Tick \/ UNCHANGED vars
  PROVE  Allocation'
<1>1. /\ UNCHANGED <<positions, closed, trades>>
      /\ \A id \in OrderIds : Filled(id) => orders'[id] = orders[id]
  BY LotsConsistentOther
<1>2. SUFFICES ASSUME NEW id \in OrderIds, Filled(id)'
               PROVE  Booked(orders'[id], trades'[id], closed', positions'[orders'[id].symbol], id)
  BY DEF Allocation
<1>3. Filled(id)
  <2>1. Len(trades'[id]) = 1 /\ Len(trades[id]) = IF Filled(id) THEN 1 ELSE 0
    BY <1>2 DEF Invariant, BooksConsistent
  <2>2. trades'[id] = trades[id]
    BY <1>1
  <2>3. Len(trades[id]) = 1
    BY <2>1, <2>2
  <2>4. CASE ~Filled(id)
    BY <2>1, <2>3, <2>4
  <2>5. QED
    BY <2>4
<1>4. QED
  BY <1>1, <1>3 DEF Allocation

LEMMA AllocationBuy ==
  ASSUME Invariant, LotsConsistent, LotsInOrder, Allocation, NEW id \in OrderIds, fillOrder(id),
         orders[id].side = "buy"
  PROVE  Allocation'
<1> DEFINE o == orders[id]
           s == o.symbol
           lots == positions[s]
           lot == BoughtLot(o, id)
           more == Append(lots, lot)
           trade == Fill(id, nextTrade, call.bar.end)
<1>1. /\ o \in Order /\ ~Filled(id) /\ fillAllowed(o) /\ trades'[id] = <<trade>>
      /\ orders'[id] = FilledOrder(o) /\ orders'[id].symbol = s /\ orders'[id].side = o.side
      /\ trade \in Trade
      /\ \A other \in OrderIds \ {id} : orders'[other] = orders[other] /\ trades'[other] = trades[other]
  BY FillBooks
<1>2. /\ s \in Symbols /\ lot \in Lot /\ lot.quantity = fillCredit(o) /\ lot.order = id
      /\ positions' = [positions EXCEPT ![s] = more]
      /\ closed' = closed
  BY LotsBuy
<1>3. /\ Distinct(lots) /\ Sized(lots) /\ DOMAIN positions = Symbols /\ closed \in Seq(Deal)
      /\ \A r \in Symbols : Sized(positions[r])
  BY <1>2, LotsAreDistinct DEF LotsConsistent
<1>4. /\ \A r \in Symbols : \A j \in DOMAIN positions[r] : positions[r][j].order # id
      /\ EntryIn(closed, id) = 0
  BY <1>1, NothingAllocated
<1>5. positions'[s] = more /\ \A r \in Symbols \ {s} : positions'[r] = positions[r]
  <2> HIDE DEF more
  <2>1. QED
    BY <1>2, <1>3
<1> HIDE DEF lot
<1>6. /\ DOMAIN lots = 1..Len(lots) /\ Len(lots) \in Nat
      /\ DOMAIN more = 1..(Len(lots) + 1)
      /\ \A j \in DOMAIN lots : more[j] = lots[j]
      /\ more[Len(lots) + 1] = lot
  BY <1>2, <1>3, AppendProperties, LenProperties DEF Sized
<1> DEFINE n == Len(lots)
<1> HIDE DEF more, lots, n
<1>7. /\ n \in Nat /\ DOMAIN lots = 1..n /\ DOMAIN more = 1..(n + 1)
      /\ \A j \in 1..(n + 1) : j \in 1..n \/ j = n + 1
      /\ n + 1 \in 1..(n + 1) /\ 1..n \subseteq 1..(n + 1)
      /\ \A j \in 1..n : lots[j].order # id
      /\ more[n + 1].order = id
  <2>1. \A j \in 1..n : lots[j].order # id
    BY <1>2, <1>4, <1>6 DEF lots, n
  <2>2. n \in Nat /\ DOMAIN lots = 1..n /\ DOMAIN more = 1..(n + 1) /\ more[n + 1].order = id
    BY <1>2, <1>6 DEF n
  <2>3. QED
    BY <2>1, <2>2
<1>8. Distinct(more)
  <2> SUFFICES ASSUME NEW i \in 1..(n + 1), NEW j \in 1..(n + 1), more[i].order = more[j].order
               PROVE  i = j
    BY <1>7 DEF Distinct
  <2>1. CASE i \in 1..n /\ j \in 1..n
    BY <1>3, <1>6, <1>7, <2>1 DEF Distinct
  <2>2. CASE i = n + 1 /\ j \in 1..n
    BY <1>6, <1>7, <2>2
  <2>3. CASE i \in 1..n /\ j = n + 1
    BY <1>6, <1>7, <2>3
  <2>4. QED
    BY <1>7, <2>1, <2>2, <2>3
<1>9. LotOf(more, id) = lot.quantity
  BY <1>6, <1>7, <1>8, LotOfIs DEF n
<1>10. ASSUME NEW k, k # id
       PROVE  LotOf(more, k) = LotOf(lots, k)
  <2>1. CASE \E j \in 1..n : lots[j].order = k
    <3>1. PICK j \in 1..n : lots[j].order = k
      BY <2>1
    <3>2. LotOf(lots, k) = lots[j].quantity /\ LotOf(more, k) = more[j].quantity
      BY <1>3, <1>6, <1>7, <1>8, <3>1, LotOfIs
    <3>3. QED
      BY <1>6, <1>7, <3>2
  <2>2. CASE \A j \in 1..n : lots[j].order # k
    <3>1. \A j \in 1..(n + 1) : more[j].order # k
      BY <1>6, <1>7, <1>10, <2>2
    <3>2. QED
      BY <1>3, <1>7, <1>8, <2>2, <3>1, LotOfIs
  <2>3. QED
    BY <2>1, <2>2
<1>11. SUFFICES ASSUME NEW k \in OrderIds, Filled(k)'
                PROVE  Booked(orders'[k], trades'[k], closed', positions'[orders'[k].symbol], k)
  BY DEF Allocation
<1>12. CASE k # id
  <2>1. /\ orders'[k] = orders[k] /\ trades'[k] = trades[k] /\ Filled(k)
    BY <1>1, <1>11, <1>12 DEF Filled
  <2>2. Booked(orders[k], trades[k], closed, positions[orders[k].symbol], k)
    BY <2>1 DEF Allocation
  <2>3. orders[k].symbol \in Symbols
    BY <2>2 DEF Booked, Trade
  <2>4. LotOf(positions'[orders[k].symbol], k) = LotOf(positions[orders[k].symbol], k)
    BY <1>5, <1>10, <1>12, <2>3 DEF lots
  <2>5. Booked(orders[k], trades[k], closed, positions'[orders[k].symbol], k)
    BY <2>2, <2>4 DEF Booked
  <2>6. QED
    BY <1>2, <2>1, <2>5
<1>13. CASE k = id
  <2>1. /\ trade.order = id /\ trade.side = o.side /\ trade.symbol = s
        /\ trade.quantity = fillQuantity(o) /\ trade.fee = fillFee(o)
    BY DEF Fill
  <2>2. fillCredit(o) = fillQuantity(o) - fillFee(o) /\ fillCredit(o) > 0
    BY <1>1 DEF fillCredit, fillAllowed
  <2>3. fillQuantity(o) \in Nat /\ fillFee(o) \in Nat
    BY <1>1, FillAmounts
  <2>4. /\ trade.quantity > trade.fee
        /\ EntryIn(closed, id) + LotOf(more, id) = trade.quantity - trade.fee
    BY <1>2, <1>4, <1>9, <2>1, <2>2, <2>3
  <2> DEFINE ts == <<trade>>
  <2>5. ts[1] = trade
    OBVIOUS
  <2>6. trade.side # "sell"
    BY <2>1
  <2> HIDE DEF trade
  <2>7. Booked(orders'[id], ts, closed, more, id)
    <3> HIDE DEF ts
    <3>1. ts = <<trade>>
      BY DEF ts
    <3>2. QED
      BY <1>1, <2>1, <2>4, <2>5, <2>6, <3>1 DEF Booked
  <2>8. QED
    BY <1>1, <1>2, <1>5, <1>13, <2>7
<1>14. QED
  BY <1>12, <1>13

LEMMA AllocationSell ==
  ASSUME Invariant, LotsConsistent, LotsInOrder, Allocation, NEW id \in OrderIds, fillOrder(id),
         orders[id].side # "buy"
  PROVE  Allocation'
<1> DEFINE o == orders[id]
           s == o.symbol
           lots == positions[s]
           q == o.quantity
           trade == Fill(id, nextTrade, call.bar.end)
<1>1. /\ o \in Order /\ ~Filled(id) /\ trades'[id] = <<trade>> /\ fillQuantity(o) = q
      /\ orders'[id] = FilledOrder(o) /\ orders'[id].symbol = s /\ orders'[id].side = o.side
      /\ trade \in Trade
      /\ \A other \in OrderIds \ {id} : orders'[other] = orders[other] /\ trades'[other] = trades[other]
  BY FillBooks
<1>2. s \in Symbols /\ o.side = "sell" /\ q \in Nat
  BY <1>1, LotsSell DEF Order
<1>3. Distinct(lots) /\ Sized(lots) /\ closed \in Seq(Deal)
  BY <1>2, LotsAreDistinct DEF LotsConsistent
<1>4. PICK full \in Nat, touched \in Nat : SaleStep(id, full, touched)
  BY SaleSteps
<1>5. \A r \in Symbols \ {s} : positions'[r] = positions[r]
  BY <1>4 DEF SaleStep
<1>6. \A j \in DOMAIN closed : closed[j].exit # id
  BY <1>1, NothingAllocated
<1>7. /\ ExitIn(closed', id) <= q
      /\ \A k : k # id => ExitIn(closed', k) = ExitIn(closed, k)
  BY <1>2, <1>3, <1>4, <1>6, ExitAfterSale
<1>8. SUFFICES ASSUME NEW k \in OrderIds, Filled(k)'
               PROVE  Booked(orders'[k], trades'[k], closed', positions'[orders'[k].symbol], k)
  BY DEF Allocation
<1>9. CASE k # id
  <2> DEFINE r == orders[k].symbol
  <2>1. /\ orders'[k] = orders[k] /\ trades'[k] = trades[k] /\ Filled(k)
    BY <1>1, <1>8, <1>9 DEF Filled
  <2>2. Booked(orders[k], trades[k], closed, positions[r], k)
    BY <2>1 DEF Allocation
  <2>3. r \in Symbols
    BY <2>2 DEF Booked, Trade
  <2>4. EntryIn(closed', k) + LotOf(positions'[r], k) = EntryIn(closed, k) + LotOf(positions[r], k)
    <3>1. CASE r = s
      BY <1>2, <1>3, <1>4, <3>1, SplitIsKept
    <3>2. CASE r # s
      <4>1. \A i \in 1..touched : i \in DOMAIN lots
        BY <1>4 DEF SaleStep
      <4>2. \A i \in 1..touched : lots[i].order # k
        BY <1>2, <3>2, <4>1 DEF LotsConsistent, FilledOn
      <4>3. EntryIn(closed', k) = EntryIn(closed, k)
        <5>1. Distinct(positions[orders[id].symbol])
          BY <1>3
        <5>2. (\A i \in 1..touched : positions[orders[id].symbol][i].order # k)
                => EntryIn(closed', k) = EntryIn(closed, k)
          BY <1>4, <5>1, EntryAfterSale
        <5>3. QED
          BY <4>2, <5>2
      <4>4. positions'[r] = positions[r]
        BY <1>5, <2>3, <3>2
      <4>5. QED
        BY <4>3, <4>4
    <3>3. QED
      BY <3>1, <3>2
  <2>5. ExitIn(closed', k) = ExitIn(closed, k)
    BY <1>7, <1>9
  <2>6. Booked(orders[k], trades[k], closed', positions'[r], k)
    <3> DEFINE a == EntryIn(closed', k) + LotOf(positions'[r], k)
               b == EntryIn(closed, k) + LotOf(positions[r], k)
    <3>1. a = b
      BY <2>4
    <3>2. QED
      BY <2>2, <2>5, <3>1 DEF Booked
  <2>7. QED
    BY <2>1, <2>6
<1>10. CASE k = id
  <2>1. /\ trade.order = id /\ trade.side = o.side /\ trade.symbol = s /\ trade.quantity = q
    BY <1>1 DEF Fill
  <2> DEFINE ts == <<trade>>
  <2>2. ts[1] = trade
    OBVIOUS
  <2>3. trade.side # "buy"
    BY <1>2, <2>1
  <2> HIDE DEF trade
  <2>4. Booked(orders'[id], ts, closed', positions'[s], id)
    <3> HIDE DEF ts
    <3>1. ts = <<trade>>
      BY DEF ts
    <3>2. QED
      BY <1>1, <1>7, <2>1, <2>2, <2>3, <3>1 DEF Booked
  <2>5. QED
    BY <1>1, <1>10, <2>4
<1>11. QED
  BY <1>9, <1>10

LEMMA AllocationStep ==
  Invariant /\ Invariant' /\ LotsConsistent /\ LotsInOrder /\ Allocation /\ [Next]_vars
    => Allocation'
BY AllocationBuy, AllocationSell, AllocationOther DEF Next, AdvanceOrder

LEMMA AllocationHolds == Spec => [](Invariant /\ LotsConsistent /\ LotsInOrder /\ Allocation)
<1>1. Spec => [](Invariant /\ LotsConsistent /\ LotsInOrder)
  BY LotsInit, LotsConsistentStep, LotsInOrderStep, InvariantHolds, PTL DEF Spec
<1>2. QED
  BY <1>1, AllocationInit, AllocationStep, PTL DEF Spec

-----------------------------------------------------------------------------
(* The open trades the readback counts                                     *)

\* What the report allocates to an order is what the realised trades do.
LEMMA AllocatedIs ==
  ASSUME LotsConsistent, NEW id
  PROVE  Allocated(ExportPaperLifecycleEvidence, id) = EntryIn(closed, id) + ExitIn(closed, id)
<1> DEFINE E == {i \in DOMAIN ClosedRows : ClosedRows[i].entry = id}
           X == {i \in DOMAIN ClosedRows : ClosedRows[i].exit = id}
<1>1. Allocated(ExportPaperLifecycleEvidence, id)
        = SumFunctionOnSet([i \in E |-> ClosedRows[i].quantity], E)
          + SumFunctionOnSet([i \in X |-> ClosedRows[i].quantity], X)
  BY DEF Allocated, ExportPaperLifecycleEvidence, SumRows, SumOver
<1>2. /\ DOMAIN ClosedRows = DOMAIN closed
      /\ \A i \in DOMAIN ClosedRows :
           /\ ClosedRows[i].entry = closed[i].entry /\ ClosedRows[i].exit = closed[i].exit
           /\ ClosedRows[i].quantity = closed[i].quantity
  BY ClosedRowsAreRows
<1>3. E = EntryDeals(closed, id) /\ X = ExitDeals(closed, id)
  BY <1>2 DEF EntryDeals, ExitDeals
<1>4. (\A i \in E : i \in DOMAIN ClosedRows) /\ (\A i \in X : i \in DOMAIN ClosedRows)
  OBVIOUS
<1> HIDE DEF E, X
<1>5. /\ [i \in E |-> ClosedRows[i].quantity] = [i \in E |-> closed[i].quantity]
      /\ [i \in X |-> ClosedRows[i].quantity] = [i \in X |-> closed[i].quantity]
  BY <1>2, <1>4
<1>6. QED
  BY <1>1, <1>3, <1>5 DEF EntryIn, ExitIn

\* The base quantity a filled order moved: what a buy received net of its fee,
\* what a sale delivered.
Delivered(id) ==
  IF ~Filled(id) THEN 0
  ELSE IF orders[id].side = "buy" THEN trades[id][1].quantity - trades[id][1].fee
  ELSE trades[id][1].quantity

LEMMA ResidualIs ==
  ASSUME Invariant, Allocation, NEW id \in OrderIds
  PROVE  Residual(ExportPaperLifecycleEvidence, id) = Delivered(id) /\ Delivered(id) \in Nat
<1> DEFINE rows == RowsOf(trades)
           R == {at \in DOMAIN rows : rows[at].order = id}
           Size(x) == IF x < 0 THEN -x ELSE x
           f == [at \in R |-> Size(rows[at].base)]
           p == <<id, 1>>
<1>1. Residual(ExportPaperLifecycleEvidence, id) = SumFunctionOnSet(f, R)
  <2>1. TradeRows = rows
    BY DEF TradeRows, RowsOf, Places
  <2> HIDE DEF rows
  <2>2. QED
    BY <2>1 DEF Residual, ExportPaperLifecycleEvidence, SumRows, SumOver
<1>2. AccountTypeOK /\ \A k \in OrderIds : Len(trades[k]) = IF Filled(k) THEN 1 ELSE 0
  BY DEF Invariant, BooksConsistent
<1>3. \A k \in OrderIds : DOMAIN trades[k] = 1..Len(trades[k])
  BY <1>2, LenProperties DEF AccountTypeOK
<1>4. ASSUME NEW at \in R PROVE Filled(id) /\ at = p
  <2>1. /\ at[1] \in OrderIds /\ at[2] \in DOMAIN trades[at[1]] /\ at = <<at[1], at[2]>>
        /\ trades[at[1]][at[2]] \in Trade
        /\ rows[at] = paperEvidenceTrade(trades[at[1]][at[2]])
        /\ rows[at].order = id
    BY <1>2, <1>4, RowsAreRows
  <2>2. Filled(at[1]) /\ at[2] = 1
    <3>1. at[2] \in 1..Len(trades[at[1]]) /\ Len(trades[at[1]]) = IF Filled(at[1]) THEN 1 ELSE 0
      BY <1>2, <1>3, <2>1
    <3>2. QED
      BY <3>1
  <2>3. trades[at[1]][at[2]].order = at[1]
    BY <2>1, <2>2 DEF Allocation, Booked
  <2>4. rows[at].order = at[1]
    BY <2>1, <2>3, RowOfTrade
  <2>5. QED
    BY <2>1, <2>2, <2>4
<1>5. CASE ~Filled(id)
  <2>1. R = {}
    BY <1>4, <1>5
  <2>2. Delivered(id) = 0
    BY <1>5 DEF Delivered
  <2> HIDE DEF f, R
  <2>3. QED
    BY <1>1, <2>1, <2>2, SumEmpty
<1>6. CASE Filled(id)
  <2> DEFINE t == trades[id][1]
  <2>1. /\ t \in Trade /\ t.order = id /\ t.side = orders[id].side
        /\ t.side = "buy" => t.quantity > t.fee
    BY <1>6 DEF Allocation, Booked
  <2>2. p \in DOMAIN rows /\ rows[p] = paperEvidenceTrade(t)
    <3>1. 1 \in DOMAIN trades[id]
      BY <1>2, <1>3, <1>6
    <3>2. p \in Places(trades)
      BY <3>1 DEF Places
    <3>3. QED
      BY <3>2 DEF RowsOf
  <2>3. /\ rows[p].order = id
        /\ t.side = "buy" => rows[p].base = t.quantity - t.fee
        /\ t.side = "sell" => rows[p].base = -t.quantity
    BY <2>1, <2>2, RowOfTrade
  <2>4. t.side \in {"buy", "sell"} /\ t.quantity \in Nat /\ t.fee \in Nat
    BY <2>1 DEF Trade, Sides
  <2>5. Delivered(id) = IF t.side = "buy" THEN t.quantity - t.fee ELSE t.quantity
    BY <1>6, <2>1 DEF Delivered
  <2>6. Size(rows[p].base) = Delivered(id) /\ Delivered(id) \in Nat
    <3>1. CASE t.side = "buy"
      <4>1. t.quantity - t.fee > 0 /\ rows[p].base = t.quantity - t.fee /\ Delivered(id) = t.quantity - t.fee
        BY <2>1, <2>3, <2>4, <2>5, <3>1
      <4> HIDE DEF t, rows
      <4>2. QED
        BY <2>4, <4>1
    <3>2. CASE t.side = "sell"
      <4>1. rows[p].base = -t.quantity /\ Delivered(id) = t.quantity
        BY <2>3, <2>4, <2>5, <3>2
      <4> HIDE DEF t, rows
      <4>2. QED
        BY <2>4, <4>1
    <3>3. QED
      BY <2>4, <3>1, <3>2
  <2>7. R = {p}
    BY <1>4, <2>2, <2>3
  <2>8. f[p] = Delivered(id)
    BY <2>6, <2>7
  <2>9. SumFunctionOnSet(f, {p}) = f[p]
    <3> HIDE DEF f, p
    <3>1. SumFunctionOnSet(f, {p}) = f[p] + SumFunctionOnSet(f, {p} \ {p})
      <4>1. IsFiniteSet({p})
        BY FS_Singleton
      <4>2. \A x \in {p} : f[x] \in Int
        <5>1. f[p] \in Int
          BY <2>6, <2>8
        <5>2. QED
          BY <5>1
      <4>3. QED
        BY <4>1, <4>2, SumTakesOut
    <3>2. {p} \ {p} = {}
      OBVIOUS
    <3>3. SumFunctionOnSet(f, {}) = 0
      BY SumEmpty
    <3>4. QED
      BY <2>6, <2>8, <3>1, <3>2, <3>3
  <2> HIDE DEF f, R
  <2>10. QED
    BY <1>1, <2>6, <2>7, <2>8, <2>9
<1>7. QED
  BY <1>5, <1>6

\* The orders an open lot of the given markets comes from.
OpenOn(T) == {id \in OrderIds : \E s \in T : \E j \in DOMAIN positions[s] : positions[s][j].order = id}

\* One order per open lot.
LEMMA OpenLotsCounted ==
  ASSUME Invariant, LotsConsistent, LotsInOrder
  PROVE  /\ IsFiniteSet(OpenOn(Symbols))
         /\ Cardinality(OpenOn(Symbols))
              = SumFunctionOnSet([s \in Symbols |-> Len(positions[s])], Symbols)
<1> DEFINE f == [s \in Symbols |-> Len(positions[s])]
           Counted(T) == /\ IsFiniteSet(OpenOn(T))
                         /\ Cardinality(OpenOn(T)) = SumFunctionOnSet(f, T)
           C == {T \in SUBSET Symbols : Counted(T)}
<1>1. ASSUME NEW s \in Symbols
      PROVE  /\ f[s] = Len(positions[s]) /\ f[s] \in Nat
             /\ IsFiniteSet(OpenOn({s})) /\ Cardinality(OpenOn({s})) = Len(positions[s])
  <2> DEFINE lots == positions[s]
             n == Len(lots)
             m == [j \in 1..n |-> lots[j].order]
  <2>1. DOMAIN lots = 1..n /\ n \in Nat /\ Distinct(lots)
    BY LenProperties, LotsAreDistinct DEF LotsConsistent, Sized
  <2>2. \A j \in 1..n : m[j] \in OpenOn({s})
    <3>1. \A j \in DOMAIN lots : lots[j].order \in OrderIds
      BY DEF LotsConsistent, FilledOn
    <3>2. QED
      BY <2>1, <3>1 DEF OpenOn
  <2>3. \A id \in OpenOn({s}) : \E j \in 1..n : m[j] = id
    BY <2>1 DEF OpenOn
  <2>4. \A i, j \in 1..n : m[i] = m[j] => i = j
    BY <2>1 DEF Distinct
  <2>5. IsFiniteSet(1..n) /\ Cardinality(1..n) = n
    BY <2>1, FS_Interval
  <2> DEFINE S == 1..n
             O == OpenOn({s})
  <2> HIDE DEF m, S, O
  <2>6. /\ IsFiniteSet(S) /\ (\A x, y \in S : m[x] = m[y] => x = y)
        /\ (\A x \in S : m[x] \in O) /\ (\A y \in O : \E x \in S : m[x] = y)
    BY <2>2, <2>3, <2>4, <2>5 DEF S, O
  <2>7. IsFiniteSet(O) /\ Cardinality(O) = Cardinality(S)
    BY <2>6, SameNumber
  <2>8. QED
    BY <2>1, <2>5, <2>7 DEF O, S
<1>2. {} \in C
  <2>1. OpenOn({}) = {}
    BY DEF OpenOn
  <2> HIDE DEF f
  <2>2. QED
    BY <2>1, SumEmpty, FS_EmptySet
<1>3. \A T \in SUBSET Symbols : \A s \in Symbols \ T : T \in C => T \cup {s} \in C
  <2> SUFFICES ASSUME NEW T \in SUBSET Symbols, NEW s \in Symbols \ T, Counted(T)
               PROVE  Counted(T \cup {s})
    OBVIOUS
  <2>1. OpenOn(T \cup {s}) = OpenOn(T) \cup OpenOn({s})
    BY DEF OpenOn
  <2>2. OpenOn(T) \cap OpenOn({s}) = {}
    <3> SUFFICES ASSUME NEW id, id \in OpenOn(T), id \in OpenOn({s}) PROVE FALSE
      OBVIOUS
    <3>1. orders[id].symbol \in T
      BY DEF OpenOn, LotsConsistent, FilledOn
    <3>2. orders[id].symbol = s
      BY DEF OpenOn, LotsConsistent, FilledOn
    <3>3. QED
      BY <3>1, <3>2
  <2>3. IsFiniteSet(T) /\ s \notin T /\ \A x \in T \cup {s} : f[x] \in Int
    <3>1. \A x \in Symbols : f[x] \in Nat
      BY <1>1
    <3> HIDE DEF f
    <3>2. QED
      BY <3>1, MarketsAssumption, FS_Subset
  <2>4. IsFiniteSet(OpenOn({s})) /\ Cardinality(OpenOn({s})) = f[s] /\ f[s] \in Nat
    BY <1>1
  <2> HIDE DEF f
  <2>5. SumFunctionOnSet(f, T \cup {s}) = f[s] + SumFunctionOnSet(f, T)
    BY <2>3, SumAdds
  <2>6. IsFiniteSet(OpenOn(T)) /\ Cardinality(OpenOn(T)) = SumFunctionOnSet(f, T)
    OBVIOUS
  <2>7. /\ IsFiniteSet(OpenOn(T) \cup OpenOn({s}))
        /\ Cardinality(OpenOn(T) \cup OpenOn({s}))
             = Cardinality(OpenOn(T)) + Cardinality(OpenOn({s}))
               - Cardinality(OpenOn(T) \cap OpenOn({s}))
    BY <2>4, <2>6, FS_Union
  <2>8. Cardinality(OpenOn(T) \cap OpenOn({s})) = 0
    BY <2>2, FS_EmptySet
  <2>9. Cardinality(OpenOn(T)) \in Nat
    BY <2>6, FS_CardinalityType
  <2>10. IsFiniteSet(OpenOn(T \cup {s}))
    BY <2>1, <2>7
  <2>11. Cardinality(OpenOn(T \cup {s})) = Cardinality(OpenOn(T)) + Cardinality(OpenOn({s}))
    <3>1. Cardinality(OpenOn(T \cup {s})) = Cardinality(OpenOn(T)) + Cardinality(OpenOn({s})) - 0
      BY <2>1, <2>7, <2>8
    <3>2. QED
      BY <2>4, <2>9, <3>1
  <2>12. Cardinality(OpenOn(T \cup {s})) = SumFunctionOnSet(f, T \cup {s})
    BY <2>4, <2>5, <2>6, <2>9, <2>11
  <2>13. QED
    BY <2>10, <2>12
<1>4. Symbols \in C
  <2> HIDE DEF C
  <2>1. QED
    BY <1>2, <1>3, MarketsAssumption, SetInduction
<1>5. QED
  BY <1>4

\* The filled sales that did not find all their quantity in open lots.
Unmatched ==
  {id \in OrderIds : /\ Filled(id) /\ orders[id].side = "sell"
                     /\ ExitIn(closed, id) < trades[id][1].quantity}

LEMMA UnmatchedCounted ==
  ASSUME Invariant, Allocation
  PROVE  /\ IsFiniteSet(Unmatched)
         /\ Cardinality(Unmatched)
              = Cardinality({t \in AllTrades : t.side = "sell"
                                               /\ ExitIn(closed, t.order) < t.quantity})
<1> DEFINE m == [id \in Unmatched |-> trades[id][1]]
           T == {t \in AllTrades : t.side = "sell" /\ ExitIn(closed, t.order) < t.quantity}
<1>1. IsFiniteSet(Unmatched)
  <2>1. Unmatched \subseteq OrderIds /\ \A id \in Unmatched : orders[id] # NoOrder
    BY DEF Unmatched, Filled, NoOrder
  <2>2. QED
    BY <2>1, UsedIdsAreFinite
<1>2. \A id \in OrderIds : /\ DOMAIN trades[id] = 1..Len(trades[id])
                           /\ Len(trades[id]) = IF Filled(id) THEN 1 ELSE 0
  BY LenProperties DEF Invariant, AccountTypeOK, BooksConsistent
<1>3. \A id \in OrderIds : Filled(id) => /\ trades[id][1].order = id
                                         /\ trades[id][1].side = orders[id].side
  BY DEF Allocation, Booked
<1>4. ASSUME NEW id \in Unmatched PROVE m[id] \in T /\ m[id].order = id
  <2>1. id \in OrderIds /\ Filled(id) /\ 1 \in DOMAIN trades[id]
    BY <1>2 DEF Unmatched
  <2>2. trades[id][1] \in AllTrades
    BY <2>1 DEF AllTrades
  <2>3. QED
    BY <1>3, <2>1, <2>2 DEF Unmatched
<1>5. ASSUME NEW t \in T PROVE \E id \in Unmatched : m[id] = t
  <2>1. PICK id \in OrderIds : \E i \in DOMAIN trades[id] : t = trades[id][i]
    BY DEF AllTrades
  <2>2. PICK i \in DOMAIN trades[id] : t = trades[id][i]
    BY <2>1
  <2>3. Filled(id) /\ i = 1
    <3>1. i \in 1..Len(trades[id]) /\ Len(trades[id]) = IF Filled(id) THEN 1 ELSE 0
      BY <1>2, <2>1, <2>2
    <3>2. QED
      BY <3>1
  <2>4. t.order = id /\ t.side = orders[id].side
    BY <1>3, <2>1, <2>2, <2>3
  <2>5. id \in Unmatched
    BY <2>1, <2>2, <2>3, <2>4 DEF Unmatched
  <2>6. QED
    BY <2>2, <2>3, <2>5
<1>6. \A x, y \in Unmatched : m[x] = m[y] => x = y
  BY <1>4
<1> HIDE DEF m, T
<1>7. IsFiniteSet(T) /\ Cardinality(T) = Cardinality(Unmatched)
  BY <1>1, <1>4, <1>5, <1>6, SameNumber
<1>8. QED
  BY <1>1, <1>7 DEF T

\* What an order's allocation says of its lot and of its sale.
LEMMA OpenMeans ==
  ASSUME Invariant, LotsConsistent, LotsInOrder, Allocation, NEW id \in OrderIds
  PROVE  LET a == EntryIn(closed, id) + ExitIn(closed, id)
         IN  /\ a <= Delivered(id)
             /\ a < Delivered(id) <=> id \in OpenOn(Symbols) \cup Unmatched
             /\ ~(id \in OpenOn(Symbols) /\ id \in Unmatched)
<1> DEFINE e == EntryIn(closed, id)
           x == ExitIn(closed, id)
           o == orders[id]
           t == trades[id][1]
           lots == positions[o.symbol]
<1>1. closed \in Seq(Deal) /\ e \in Nat /\ x \in Nat
  BY DealsAreFinite DEF LotsConsistent
<1>2. id \in OpenOn(Symbols) =>
        /\ Filled(id) /\ o.side = "buy" /\ o.symbol \in Symbols
        /\ \E j \in DOMAIN lots : lots[j].order = id
  BY DEF OpenOn, LotsConsistent, FilledOn, Filled
<1>3. CASE ~Filled(id)
  <2>1. e = 0 /\ x = 0 /\ Delivered(id) = 0
    BY <1>3, NothingAllocated DEF Delivered
  <2>2. id \notin Unmatched /\ id \notin OpenOn(Symbols)
    BY <1>2, <1>3 DEF Unmatched
  <2>3. QED
    BY <2>1, <2>2
<1>4. ASSUME Filled(id)
      PROVE  /\ t \in Trade /\ t.side = o.side /\ t.symbol = o.symbol
             /\ t.side = "buy" => t.quantity > t.fee /\ e + LotOf(lots, id) = t.quantity - t.fee
             /\ t.side = "sell" => x <= t.quantity
  BY <1>4 DEF Allocation, Booked
<1>5. CASE Filled(id) /\ o.side = "buy"
  <2>1. t \in Trade /\ t.quantity > t.fee /\ e + LotOf(lots, id) = t.quantity - t.fee
        /\ o.symbol \in Symbols
    BY <1>4, <1>5 DEF Trade
  <2>2. x = 0
    <3>1. \A k \in DOMAIN closed : closed[k].exit # id
      BY <1>5 DEF LotsConsistent, FilledOn
    <3>2. ExitDeals(closed, id) = {}
      BY <3>1 DEF ExitDeals
    <3> DEFINE g == [k \in ExitDeals(closed, id) |-> closed[k].quantity]
    <3>3. x = SumFunctionOnSet(g, {})
      BY <3>2 DEF ExitIn
    <3> HIDE DEF g, x
    <3>4. QED
      BY <3>3, SumEmpty
  <2>3. Sized(lots) /\ Distinct(lots)
    BY <2>1, LotsAreDistinct DEF LotsConsistent
  <2>4. /\ LotOf(lots, id) \in Nat
        /\ LotOf(lots, id) > 0 <=> id \in OpenOn(Symbols)
    <3> HIDE DEF lots
    <3>1. CASE \E j \in DOMAIN lots : lots[j].order = id
      <4>1. PICK j \in DOMAIN lots : lots[j].order = id
        BY <3>1
      <4>2. LotOf(lots, id) = lots[j].quantity /\ lots[j].quantity \in Nat /\ lots[j].quantity > 0
        BY <2>3, <4>1, LotOfIs, LotQuantity
      <4>3. id \in OpenOn(Symbols)
        BY <2>1, <4>1 DEF OpenOn, lots
      <4>4. QED
        BY <4>2, <4>3
    <3>2. CASE \A j \in DOMAIN lots : lots[j].order # id
      <4>1. LotOf(lots, id) = 0
        BY <2>3, <3>2, LotOfIs
      <4>2. id \notin OpenOn(Symbols)
        BY <1>2, <3>2
      <4>3. QED
        BY <4>1, <4>2
    <3>3. QED
      BY <3>1, <3>2
  <2>5. id \notin Unmatched
    BY <1>5 DEF Unmatched
  <2>6. Delivered(id) = t.quantity - t.fee /\ t.quantity \in Nat /\ t.fee \in Nat
    BY <1>5, <2>1 DEF Delivered, Trade
  <2> DEFINE l == LotOf(lots, id)
             M == Delivered(id)
             open == id \in OpenOn(Symbols)
  <2>7. e + l = M /\ M \in Int /\ l \in Nat /\ (l > 0 <=> open)
    BY <2>1, <2>4, <2>6
  <2> HIDE DEF l, M, e, x, open
  <2>8. e + x <= M /\ (e + x < M <=> open)
    BY <1>1, <2>2, <2>7
  <2>9. QED
    BY <2>5, <2>8 DEF M, e, x, open
<1>6. CASE Filled(id) /\ o.side # "buy"
  <2>1. t \in Trade /\ t.side = "sell" /\ o.side = "sell" /\ x <= t.quantity /\ t.quantity \in Nat
    BY <1>4, <1>6 DEF Trade, Sides
  <2>2. e = 0
    <3>1. \A k \in DOMAIN closed : closed[k].entry # id
      BY <1>6 DEF LotsConsistent, FilledOn
    <3>2. EntryDeals(closed, id) = {}
      BY <3>1 DEF EntryDeals
    <3> DEFINE g == [k \in EntryDeals(closed, id) |-> closed[k].quantity]
    <3>3. e = SumFunctionOnSet(g, {})
      BY <3>2 DEF EntryIn
    <3> HIDE DEF g, e
    <3>4. QED
      BY <3>3, SumEmpty
  <2>3. id \notin OpenOn(Symbols)
    BY <1>2, <1>6
  <2>4. Delivered(id) = t.quantity
    BY <1>6 DEF Delivered
  <2>5. id \in Unmatched <=> x < t.quantity
    BY <1>6, <2>1 DEF Unmatched
  <2> HIDE DEF e, x, t
  <2>6. e + x <= Delivered(id) /\ (e + x < Delivered(id) <=> id \in Unmatched)
    BY <1>1, <2>1, <2>2, <2>4, <2>5
  <2>7. QED
    BY <2>3, <2>6 DEF e, x
<1>7. QED
  BY <1>3, <1>5, <1>6

\* A finished run is accepted by the readback, which finds the open lots and
\* the unmatched sales from the rows alone.
THEOREM OpenTradesCounted == Spec => []OpenTradesAreOpenLots
<1>1. ASSUME Invariant, LotsConsistent, LotsInOrder, Allocation PROVE OpenTradesAreOpenLots
  <2> DEFINE evidence == ExportPaperLifecycleEvidence
             a(id) == EntryIn(closed, id) + ExitIn(closed, id)
             sales == {t \in AllTrades : t.side = "sell" /\ ExitIn(closed, t.order) < t.quantity}
             counted == {id \in OrderIds : Allocated(evidence, id) < Residual(evidence, id)}
  <2>1. \A id \in OrderIds : Allocated(evidence, id) = a(id) /\ Residual(evidence, id) = Delivered(id)
    BY <1>1, AllocatedIs, ResidualIs
  <2>2. \A id \in OrderIds :
          /\ a(id) <= Delivered(id)
          /\ a(id) < Delivered(id) <=> id \in OpenOn(Symbols) \cup Unmatched
          /\ ~(id \in OpenOn(Symbols) /\ id \in Unmatched)
    BY <1>1, OpenMeans
  <2> HIDE DEF a
  <2>3. Consumable(evidence)
    BY <2>1, <2>2 DEF Consumable
  <2>4. counted = OpenOn(Symbols) \cup Unmatched
    <3>1. OpenOn(Symbols) \subseteq OrderIds /\ Unmatched \subseteq OrderIds
      BY DEF OpenOn, Unmatched
    <3> HIDE DEF evidence
    <3>2. QED
      BY <2>1, <2>2, <3>1
  <2>5. OpenOn(Symbols) \cap Unmatched = {}
    BY <2>2 DEF OpenOn
  <2>6. /\ IsFiniteSet(OpenOn(Symbols)) /\ IsFiniteSet(Unmatched)
        /\ Cardinality(OpenOn(Symbols)) = SumFunctionOnSet([s \in Symbols |-> Len(positions[s])], Symbols)
        /\ Cardinality(Unmatched) = Cardinality(sales)
    BY <1>1, OpenLotsCounted, UnmatchedCounted
  <2> HIDE DEF sales, counted
  <2>7. Cardinality(counted) = Cardinality(OpenOn(Symbols)) + Cardinality(Unmatched)
    <3> DEFINE A == OpenOn(Symbols)
               B == Unmatched
    <3>1. IsFiniteSet(A) /\ IsFiniteSet(B) /\ A \cap B = {} /\ counted = A \cup B
      BY <2>4, <2>5, <2>6
    <3> HIDE DEF A, B
    <3>2. Cardinality(A \cup B) = Cardinality(A) + Cardinality(B) - Cardinality(A \cap B)
      BY <3>1, FS_Union
    <3>3. Cardinality(A \cap B) = 0
      BY <3>1, FS_EmptySet
    <3>4. Cardinality(A) \in Nat /\ Cardinality(B) \in Nat
      BY <3>1, FS_CardinalityType
    <3>5. Cardinality(counted) = Cardinality(A) + Cardinality(B)
      BY <3>1, <3>2, <3>3, <3>4
    <3>6. QED
      BY <3>5 DEF A, B
  <2>8. paperLifecycleEvidenceOpenTradeCount(evidence)
          = SumFunctionOnSet([s \in Symbols |-> Len(positions[s])], Symbols) + Cardinality(sales)
    BY <2>6, <2>7 DEF paperLifecycleEvidenceOpenTradeCount, counted
  <2> HIDE DEF evidence
  <2>9. QED
    BY <2>3, <2>8 DEF OpenTradesAreOpenLots, evidence, sales, SumOver, SumClosed, ExitIn, ExitDeals
<1>2. QED
  BY <1>1, AllocationHolds, PTL

-----------------------------------------------------------------------------
(* The money of a sale                                                     *)

Within(x, n) == -n <= x /\ x <= n

\* What a realised trade is made of.
LEMMA DealParts ==
  ASSUME NEW lots, Sized(lots), NEW trade \in Trade, trade.quantity > 0, NEW i \in DOMAIN lots
  PROVE  LET deal == SaleDeal(lots, trade, i)
             lot == lots[i]
             part == CloseQuantity(lots, trade.quantity, i)
         IN  /\ part \in Nat /\ part <= lot.quantity
             /\ lot \in Lot /\ lot.quantity > 0
             /\ deal.entryNotional = Allocate(lot.entryNotional, part, lot.quantity)
             /\ deal.entryFee = Allocate(lot.entryFee, part, lot.quantity)
             /\ deal.exitNotional = Mul(trade.price, part)
             /\ deal.exitFee = Allocate(trade.fee, part, trade.quantity)
             /\ deal.pnl = deal.exitNotional - deal.exitFee - deal.entryNotional - deal.entryFee
             /\ deal.entryNotional \in Nat /\ deal.entryFee \in Nat
             /\ deal.exitNotional \in Nat /\ deal.exitFee \in Nat /\ deal.pnl \in Int
<1> DEFINE lot == lots[i]
           part == CloseQuantity(lots, trade.quantity, i)
           deal == SaleDeal(lots, trade, i)
           en == Allocate(lot.entryNotional, part, lot.quantity)
           ef == Allocate(lot.entryFee, part, lot.quantity)
           xn == Mul(trade.price, part)
           xf == Allocate(trade.fee, part, trade.quantity)
<1>1. /\ trade.quantity \in Nat /\ trade.fee \in Nat /\ trade.price \in Nat
  BY DEF Trade
<1>2. part \in Nat /\ part <= lot.quantity
  BY <1>1, CloseQuantityIs
<1>3. lot \in Lot /\ lot.quantity \in Nat /\ lot.quantity > 0
      /\ lot.entryNotional \in Nat /\ lot.entryFee \in Nat
  BY LotQuantity DEF Lot
<1>4. en \in Nat /\ ef \in Nat /\ xn \in Nat /\ xf \in Nat
  BY <1>1, <1>2, <1>3, AllocateBounds, MulIsAmount
<1>5. deal = [symbol |-> trade.symbol, entry |-> lot.order, exit |-> trade.order, quantity |-> part,
              entryNotional |-> en, entryFee |-> ef, exitNotional |-> xn, exitFee |-> xf,
              pnl |-> xn - xf - en - ef]
  BY DEF SaleDeal, ClosedPart
<1> HIDE DEF deal, en, ef, xn, xf, part, lot
<1>6. /\ deal.entryNotional = en /\ deal.entryFee = ef /\ deal.exitNotional = xn
      /\ deal.exitFee = xf /\ deal.pnl = xn - xf - en - ef
  BY <1>5
<1>7. deal.pnl \in Int
  BY <1>4, <1>6
<1>8. QED
  BY <1>2, <1>3, <1>4, <1>6, <1>7 DEF deal, en, ef, xn, xf, part, lot

\* A product rounded down.
LEMMA MulRounds ==
  ASSUME NEW a \in Nat, NEW b \in Nat
  PROVE  /\ Mul(a, b) \in Nat
         /\ 0 <= a * b - Scale * Mul(a, b) /\ a * b - Scale * Mul(a, b) < Scale
<1> DEFINE x == a * b
           m == x \div Scale
<1>1. x \in Nat /\ Scale \in Nat /\ Scale > 0
  BY AmountAssumption
<1> HIDE DEF x
<1>2. m \in Nat /\ Scale * m <= x /\ x < Scale * m + Scale
  BY <1>1
<1> HIDE DEF m
<1>3. Mul(a, b) = m
  BY DEF Mul, m, x
<1> DEFINE sm == Scale * m
<1>4. sm \in Int
  BY <1>1, <1>2
<1> HIDE DEF sm
<1>5. 0 <= x - sm /\ x - sm < Scale
  BY <1>1, <1>2, <1>4 DEF sm
<1>6. QED
  BY <1>2, <1>3, <1>5 DEF x, sm

\* A share of an amount misses less than a unit and a scale's part of a unit.
LEMMA AllocateRounds ==
  ASSUME NEW a \in Nat, NEW part \in Nat, NEW whole \in Nat, whole > 0, part <= whole
  PROVE  /\ 0 <= a * part - whole * Allocate(a, part, whole)
         /\ a * part - whole * Allocate(a, part, whole) <= Scale + whole
<1> DEFINE x == a * part
           m == Mul(a, part)
           n == (m * Scale) \div whole
<1>1. Scale \in Nat /\ Scale > 0 /\ x \in Nat
  BY AmountAssumption
<1>2. m \in Nat /\ 0 <= x - Scale * m /\ x - Scale * m < Scale
  BY MulRounds
<1>3. CASE part < whole
  <2> DEFINE ms == m * Scale
  <2>1. ms \in Nat /\ ms = Scale * m
    BY <1>1, <1>2
  <2>2. Allocate(a, part, whole) = n
    BY <1>3 DEF Allocate, Quotient
  <2> HIDE DEF m, x, ms
  <2>3. n = ms \div whole
    BY DEF ms
  <2> HIDE DEF n
  <2>4. n \in Nat /\ whole * n <= ms /\ ms < whole * n + whole
    BY <2>1, <2>3
  <2> DEFINE wn == whole * n
  <2>5. wn \in Nat
    BY <2>4
  <2> HIDE DEF wn
  <2>6. 0 <= x - wn /\ x - wn <= Scale + whole
    BY <1>1, <1>2, <2>1, <2>4, <2>5 DEF wn
  <2>7. QED
    BY <2>2, <2>6 DEF wn, x
<1>4. CASE ~(part < whole)
  <2>1. part = whole /\ Allocate(a, part, whole) = a
    BY <1>4 DEF Allocate
  <2>2. a * part = whole * a
    BY <2>1
  <2>3. a * part - whole * Allocate(a, part, whole) = 0
    BY <2>1, <2>2
  <2>4. QED
    BY <1>1, <2>3
<1>5. QED
  BY <1>3, <1>4

\* Dividing an inequality by a positive number.
LEMMA Cancel ==
  ASSUME NEW q \in Nat, q > 0, NEW a \in Int, NEW b \in Int, q * a <= q * b
  PROVE  a <= b
<1> SUFFICES ASSUME a >= b + 1 PROVE FALSE
  OBVIOUS
<1>1. q * a >= q * (b + 1)
  BY Z3
<1>2. q * (b + 1) = q * b + q
  OBVIOUS
<1> DEFINE x == q * a
           y == q * b
<1>3. x \in Int /\ y \in Int
  OBVIOUS
<1>4. x >= y + q /\ x <= y
  BY <1>1, <1>2
<1> HIDE DEF x, y
<1>5. QED
  BY <1>3, <1>4

\* The proceeds of a sale are what its realised trades report, but for a unit
\* per trade and its part of the fee.
LEMMA SaleMoney ==
  ASSUME NEW lots, Sized(lots), NEW trade \in Trade, trade.quantity > 0,
         trade.notional = Mul(trade.price, trade.quantity),
         trade.quantity <= OpenQuantity(lots),
         NEW full \in Nat, NEW touched \in Nat, SalePlaces(lots, trade.quantity, full, touched),
         NEW xn, xn = [i \in 1..touched |-> SaleDeal(lots, trade, i).exitNotional],
         NEW xf, xf = [i \in 1..touched |-> SaleDeal(lots, trade, i).exitFee]
  PROVE  LET X == SumFunctionOnSet(xn, 1..touched)
             F == SumFunctionOnSet(xf, 1..touched)
         IN  /\ X \in Int /\ F \in Int
             /\ Within((trade.notional - trade.fee) - (X - F),
                       touched * (2 + Scale \div trade.quantity))
<1> DEFINE q == trade.quantity
           n == Len(lots)
           I == 1..touched
           part == [i \in I |-> CloseQuantity(lots, q, i)]
           X == SumFunctionOnSet(xn, I)
           F == SumFunctionOnSet(xf, I)
           k == Scale \div q
           N == trade.notional
           fee == trade.fee
           p == trade.price
<1>1. /\ q \in Nat /\ q > 0 /\ fee \in Nat /\ p \in Nat /\ N \in Nat
      /\ Scale \in Nat /\ Scale > 0 /\ touched \in Nat
  BY AmountAssumption DEF Trade
<1>2. DOMAIN lots = 1..n /\ n \in Nat /\ touched <= n
  BY LenProperties DEF Sized, SalePlaces
<1>3. \A i \in I : i \in DOMAIN lots
  BY <1>2
<1>4. SumFunctionOnSet(part, I) = q
  <2>1. OpenQuantity(lots) \in Nat
    BY OpenIsAhead
  <2>2. SumFunctionOnSet(part, I) = IF q <= OpenQuantity(lots) THEN q ELSE OpenQuantity(lots)
    BY <1>1, SoldIsClosed
  <2>3. QED
    BY <2>2
<1>5. ASSUME NEW i \in I
      PROVE  /\ part[i] \in Nat /\ part[i] <= q
             /\ xn[i] = Mul(p, part[i]) /\ xf[i] = Allocate(fee, part[i], q)
             /\ xn[i] \in Nat /\ xf[i] \in Nat
  <2>1. i \in DOMAIN lots
    BY <1>3
  <2>2. /\ part[i] \in Nat
        /\ xn[i] = Mul(p, part[i]) /\ xf[i] = Allocate(fee, part[i], q)
        /\ xn[i] \in Nat /\ xf[i] \in Nat
    BY <2>1, DealParts
  <2>3. part[i] <= q
    <3>1. Ahead(lots, i) \in Nat /\ lots[i].quantity \in Nat /\ lots[i].quantity > 0
      BY <2>1, AheadSteps, LotQuantity
    <3> DEFINE a == Ahead(lots, i)
               c == CloseQuantity(lots, q, i)
               z == lots[i].quantity
    <3>2. /\ q <= a => c = 0
          /\ q >= a + z => c = z
          /\ q < a + z /\ q > a => c = q - a
      BY <1>1, <2>1, CloseQuantityIs
    <3> HIDE DEF a, c, z, q
    <3>3. c <= q
      BY <1>1, <3>1, <3>2, SMTT(30) DEF a, z
    <3>4. QED
      BY <3>3 DEF c, q
  <2>4. QED
    BY <2>2, <2>3
<1>6. \A i \in I : /\ part[i] \in Int /\ xn[i] \in Int
                   /\ 0 <= p * part[i] - Scale * xn[i]
                   /\ p * part[i] - Scale * xn[i] <= Scale
  <2> SUFFICES ASSUME NEW i \in I
               PROVE  /\ part[i] \in Int /\ xn[i] \in Int
                      /\ 0 <= p * part[i] - Scale * xn[i]
                      /\ p * part[i] - Scale * xn[i] <= Scale
    OBVIOUS
  <2> DEFINE c == part[i]
  <2>1. c \in Nat /\ xn[i] = Mul(p, c)
    BY <1>5
  <2> HIDE DEF part, c
  <2>2. /\ Mul(p, c) \in Nat /\ 0 <= p * c - Scale * Mul(p, c) /\ p * c - Scale * Mul(p, c) < Scale
    BY <1>1, <2>1, MulRounds
  <2> DEFINE d == p * c - Scale * Mul(p, c)
  <2>3. d \in Int
    BY <1>1, <2>1, <2>2
  <2> HIDE DEF d
  <2>4. d <= Scale
    BY <1>1, <2>2, <2>3 DEF d
  <2>5. QED
    BY <2>1, <2>2, <2>4 DEF c, d
<1>7. \A i \in I : /\ part[i] \in Int /\ xf[i] \in Int
                   /\ 0 <= fee * part[i] - q * xf[i]
                   /\ fee * part[i] - q * xf[i] <= Scale + q
  <2> SUFFICES ASSUME NEW i \in I
               PROVE  /\ part[i] \in Int /\ xf[i] \in Int
                      /\ 0 <= fee * part[i] - q * xf[i]
                      /\ fee * part[i] - q * xf[i] <= Scale + q
    OBVIOUS
  <2> DEFINE c == part[i]
  <2>1. c \in Nat /\ c <= q /\ xf[i] = Allocate(fee, c, q) /\ xf[i] \in Nat
    BY <1>5
  <2> HIDE DEF part, c
  <2>2. /\ 0 <= fee * c - q * Allocate(fee, c, q) /\ fee * c - q * Allocate(fee, c, q) <= Scale + q
    BY <1>1, <2>1, AllocateRounds
  <2>3. QED
    BY <2>1, <2>2 DEF c
<1>8. /\ X \in Int
      /\ 0 <= p * q - Scale * X /\ p * q - Scale * X <= touched * Scale
  <2> HIDE DEF part, q, p
  <2>1. Scale \in Int /\ p \in Int
    BY <1>1
  <2>2. /\ X \in Int
        /\ 0 <= p * SumFunctionOnSet(part, I) - Scale * X
        /\ p * SumFunctionOnSet(part, I) - Scale * X <= touched * Scale
    BY <1>6, <2>1, SumOfShares
  <2>3. QED
    BY <1>4, <2>2
<1>9. /\ F \in Int
      /\ 0 <= fee * q - q * F /\ fee * q - q * F <= touched * (Scale + q)
  <2> HIDE DEF part, q, fee
  <2>1. Scale + q \in Int /\ fee \in Int /\ q \in Int
    BY <1>1
  <2>2. /\ F \in Int
        /\ 0 <= fee * SumFunctionOnSet(part, I) - q * F
        /\ fee * SumFunctionOnSet(part, I) - q * F <= touched * (Scale + q)
    BY <1>7, <2>1, SumOfShares
  <2>3. QED
    BY <1>4, <2>2
<1> HIDE DEF X, F, part, I
<1>10. 0 <= N - X /\ N - X <= touched
  <2> DEFINE pq == p * q
             sx == Scale * X
             sn == Scale * N
             ts == Scale * touched
  <2>1. pq \in Int /\ sx \in Int /\ sn \in Int /\ ts \in Int
    BY <1>1, <1>8
  <2>2. 0 <= pq - sn /\ pq - sn < Scale
    BY <1>1, MulRounds
  <2>3. 0 <= pq - sx /\ pq - sx <= ts
    <3>1. touched * Scale = ts
      BY <1>1
    <3>2. QED
      BY <1>8, <3>1
  <2> HIDE DEF pq
  <2>4. sx < sn + Scale /\ sn <= sx + ts
    <3> HIDE DEF sx, sn, ts
    <3>1. QED
      BY <1>1, <2>1, <2>2, <2>3
  <2>5. Scale * (N + 1) = sn + Scale /\ Scale * (X + touched) = sx + ts
    BY <1>1, <1>8
  <2>6. N <= X + touched
    <3>1. Scale * N <= Scale * (X + touched)
      BY <2>4, <2>5
    <3> DEFINE y == X + touched
    <3>2. y \in Int /\ N \in Int
      BY <1>1, <1>8
    <3> HIDE DEF N, y
    <3>3. N <= y
      BY <1>1, <3>1, <3>2, Cancel DEF y
    <3>4. QED
      BY <3>3 DEF y
  <2>7. X <= N
    <3> SUFFICES ASSUME N + 1 <= X PROVE FALSE
      BY <1>1, <1>8
    <3>1. Scale * (N + 1) <= Scale * X
      <4> DEFINE e == X - (N + 1)
      <4>1. e \in Nat /\ X = (N + 1) + e
        BY <1>1, <1>8
      <4> HIDE DEF e
      <4>2. Scale * e \in Nat
        BY <1>1, <4>1
      <4>3. Scale * X = Scale * (N + 1) + Scale * e
        BY <1>1, <4>1
      <4> DEFINE u == Scale * (N + 1)
                 v == Scale * e
      <4>4. u \in Int /\ v \in Nat /\ Scale * X = u + v
        BY <1>1, <4>2, <4>3
      <4> HIDE DEF u, v
      <4>5. QED
        BY <4>4 DEF u
    <3> HIDE DEF sn, N
    <3>2. sn + Scale <= sx
      BY <2>5, <3>1
    <3> HIDE DEF sx
    <3>3. QED
      BY <1>1, <2>1, <2>4, <3>2
  <2>8. QED
    BY <1>1, <1>8, <2>6, <2>7
<1>11. k \in Nat /\ Scale < q * k + q
  <2> HIDE DEF q
  <2>1. QED
    BY <1>1
<1> HIDE DEF k
<1>12. 0 <= fee - F /\ fee - F <= touched * (2 + k)
  <2> DEFINE D == fee - F
  <2>1. D \in Int /\ q * D = fee * q - q * F
    <3>1. fee \in Int /\ q \in Int /\ F \in Int
      BY <1>1, <1>9
    <3> HIDE DEF fee, q
    <3>2. q * (fee - F) = fee * q - q * F
      BY <3>1
    <3>3. QED
      BY <3>1, <3>2
  <2> DEFINE qd == q * D
             w == touched * (Scale + q)
             r == q * (touched * (2 + k))
             z == fee * q - q * F
  <2>2. qd \in Int /\ w \in Int /\ 0 <= qd /\ qd <= w
    <3>1. z \in Int /\ w \in Int
      BY <1>1, <1>9, SMTT(30)
    <3>2. 0 <= z /\ z <= w /\ qd = z
      BY <1>9, <2>1
    <3> HIDE DEF z, w, qd
    <3>3. QED
      BY <3>1, <3>2
  <2>3. w <= r
    <3> DEFINE a == Scale + q
               b == q * (2 + k)
    <3>1. q * (2 + k) = q * k + q + q
      <4> HIDE DEF q
      <4>1. QED
        BY <1>1, <1>11
    <3>2. a \in Int /\ b \in Int /\ a <= b
      <4> DEFINE qk == q * k
      <4>1. qk \in Int
        BY <1>1, <1>11
      <4>2. b = qk + q + q /\ Scale < qk + q
        BY <1>11, <3>1
      <4> HIDE DEF qk, b
      <4>3. QED
        BY <1>1, <4>1, <4>2
    <3>3. r = touched * b
      <4> HIDE DEF q
      <4> DEFINE parts == 2 + k
      <4>1. parts \in Nat
        BY <1>11
      <4> HIDE DEF parts
      <4>2. q * (touched * parts) = touched * (q * parts)
        BY <1>1, <4>1
      <4>3. QED
        BY <4>2 DEF parts
    <3> DEFINE e == b - a
    <3>4. e \in Nat /\ b = a + e
      <4> HIDE DEF a, b
      <4>1. QED
        BY <3>2
    <3> HIDE DEF a, b, e
    <3>5. touched * b = touched * a + touched * e /\ touched * e \in Nat /\ touched * a \in Int
      BY <1>1, <3>2, <3>4
    <3>6. w = touched * a
      BY DEF a
    <3> DEFINE ta == touched * a
               te == touched * e
    <3>7. ta \in Int /\ te \in Nat /\ r = ta + te /\ w = ta
      BY <3>3, <3>5, <3>6
    <3> HIDE DEF ta, te, r, w
    <3>8. QED
      BY <3>7
  <2>4. r \in Int /\ touched * (2 + k) \in Int
    BY <1>1, <1>11
  <2>5. q * D <= q * (touched * (2 + k))
    <3> HIDE DEF qd, w, r
    <3>1. qd <= r
      BY <2>2, <2>3, <2>4
    <3>2. QED
      BY <3>1 DEF qd, r
  <2> DEFINE y == touched * (2 + k)
  <2>6. y \in Int
    BY <2>4
  <2>7. q * D <= q * y /\ q * 0 <= q * D
    BY <1>1, <2>2, <2>5
  <2> HIDE DEF D, y
  <2>8. D <= y /\ 0 <= D
    BY <1>1, <2>1, <2>6, <2>7, Cancel DEF D
  <2>9. QED
    BY <2>8 DEF D, y
<1>13. Within((N - fee) - (X - F), touched * (2 + k))
  <2> DEFINE y == touched * (2 + k)
  <2>1. y \in Int /\ touched <= y
    <3>1. y = touched + (touched + touched * k) /\ touched * k \in Nat
      BY <1>1, <1>11
    <3> DEFINE tk == touched * k
    <3>2. tk \in Nat /\ y = touched + (touched + tk)
      BY <3>1
    <3> HIDE DEF tk, y
    <3>3. QED
      BY <1>1, <3>2
  <2>2. 0 <= fee - F /\ fee - F <= y /\ 0 <= N - X /\ N - X <= y
    <3>1. 0 <= fee - F /\ fee - F <= y
      BY <1>12
    <3> HIDE DEF y, N, fee
    <3>2. QED
      BY <1>1, <1>8, <1>10, <2>1, <3>1
  <2> HIDE DEF y, N, fee
  <2>3. Within((N - fee) - (X - F), y)
    BY <1>1, <1>8, <1>9, <2>1, <2>2, SMTT(30) DEF Within
  <2>4. QED
    BY <2>3 DEF y
<1>14. QED
  BY <1>8, <1>9, <1>13 DEF X, F, I, k

-----------------------------------------------------------------------------
(* What the open lots cost                                                 *)

CostOfLot(lot) == lot.entryNotional + lot.entryFee
CostOf(lots) == SumFunctionOnSet([i \in DOMAIN lots |-> CostOfLot(lots[i])], DOMAIN lots)

LEMMA CostIsAmount ==
  ASSUME NEW lots, Sized(lots)
  PROVE  CostOf(lots) \in Nat /\ \A i \in DOMAIN lots : CostOfLot(lots[i]) \in Nat
<1> DEFINE f == [i \in DOMAIN lots |-> CostOfLot(lots[i])]
           S == DOMAIN lots
<1>1. \A i \in DOMAIN lots : CostOfLot(lots[i]) \in Nat
  <2> SUFFICES ASSUME NEW i \in DOMAIN lots PROVE CostOfLot(lots[i]) \in Nat
    OBVIOUS
  <2>1. lots[i] \in Lot
    BY LotQuantity
  <2>2. QED
    BY <2>1 DEF Lot, CostOfLot
<1>2. IsFiniteSet(S) /\ \A i \in S : f[i] \in Nat
  <2>1. S = 1..Len(lots) /\ Len(lots) \in Nat
    BY LenProperties DEF Sized
  <2>2. QED
    BY <1>1, <2>1, FS_Interval
<1> HIDE DEF f, S
<1>3. SumFunctionOnSet(f, S) \in Nat
  BY <1>2, SumIsNatural
<1>4. QED
  BY <1>1, <1>3 DEF CostOf, f, S

LEMMA CostAfterBuy ==
  ASSUME NEW lots, Sized(lots), NEW lot \in Lot, lot.quantity > 0
  PROVE  CostOf(Append(lots, lot)) = CostOf(lots) + CostOfLot(lot)
<1> DEFINE n == Len(lots)
           more == Append(lots, lot)
           S == DOMAIN lots
           y == n + 1
           f == [i \in S |-> CostOfLot(lots[i])]
           g == [i \in DOMAIN more |-> CostOfLot(more[i])]
<1>1. lots \in Seq(Lot) /\ S = 1..n /\ n \in Nat
  BY LenProperties DEF Sized
<1>2. /\ DOMAIN more = 1..y
      /\ \A i \in S : more[i] = lots[i]
      /\ more[y] = lot
  BY <1>1, AppendProperties, LenProperties
<1>3. IsFiniteSet(S) /\ DOMAIN more = S \cup {y} /\ y \notin S
  <2> HIDE DEF n, more, S
  <2>1. 1..y = (1..n) \cup {y} /\ y \notin 1..n
    BY <1>1
  <2>2. IsFiniteSet(1..n)
    BY <1>1, FS_Interval
  <2>3. QED
    BY <1>1, <1>2, <2>1, <2>2
<1>4. \A i \in S : f[i] \in Int /\ g[i] = f[i]
  <2>1. \A i \in S : CostOfLot(lots[i]) \in Nat
    BY CostIsAmount
  <2> HIDE DEF more
  <2>2. QED
    BY <1>2, <1>3, <2>1
<1>5. g[y] = CostOfLot(lot) /\ g[y] \in Int
  <2>1. CostOfLot(lot) \in Int
    BY DEF Lot, CostOfLot
  <2>2. g[y] = CostOfLot(lot)
    <3> HIDE DEF more, y
    <3>1. QED
      BY <1>2, <1>3
  <2>3. QED
    BY <2>1, <2>2
<1>6. CostOf(more) = SumFunctionOnSet(g, S \cup {y}) /\ CostOf(lots) = SumFunctionOnSet(f, S)
  BY <1>3 DEF CostOf
<1> HIDE DEF g, f, more, S, y
<1>7. SumFunctionOnSet(g, S \cup {y}) = SumFunctionOnSet(f, S) + g[y]
  BY <1>3, <1>4, <1>5, SumGrows
<1>8. QED
  BY <1>5, <1>6, <1>7 DEF more

\* The costs a sale takes out of the lots are those its realised trades report.
LEMMA CostAfterSale ==
  ASSUME NEW lots, Sized(lots), NEW trade \in Trade, trade.quantity > 0,
         NEW full \in Nat, NEW touched \in Nat, SalePlaces(lots, trade.quantity, full, touched),
         NEW e, \A i \in 1..touched : e[i] = SaleDeal(lots, trade, i).entryNotional
                                             + SaleDeal(lots, trade, i).entryFee
  PROVE  LET E == SumFunctionOnSet(e, 1..touched)
         IN  E \in Int /\ CostOf(LotsLeft(lots, trade.quantity, full)) = CostOf(lots) - E
<1> DEFINE q == trade.quantity
           n == Len(lots)
           I == 1..touched
           J == 1..n
           K == 1..(n - full)
           left == LotsLeft(lots, q, full)
           d(i) == SaleDeal(lots, trade, i)
           a == [i \in J |-> d(i).entryNotional + d(i).entryFee]
           h == [i \in J |-> CostOfLot(lots[i]) - a[i]]
           f == [i \in J |-> CostOfLot(lots[i])]
           g == [j \in K |-> CostOfLot(left[j])]
           m == [j \in K |-> full + j]
<1>1. q \in Nat /\ q > 0
  BY DEF Trade
<1>2. DOMAIN lots = J /\ n \in Nat /\ touched <= n /\ full <= n /\ full <= touched
  BY LenProperties DEF Sized, SalePlaces
<1>3. /\ DOMAIN left = K
      /\ \A j \in K : /\ full + j \in J
                      /\ left[j] = LotAfter(lots[full + j], CloseQuantity(lots, q, full + j))
  BY <1>1, <1>2, RemainingLots
<1>4. ASSUME NEW i \in J
      PROVE  /\ a[i] \in Nat /\ f[i] \in Nat /\ h[i] \in Int
             /\ CostOfLot(LotAfter(lots[i], CloseQuantity(lots, q, i))) = h[i]
             /\ i > touched => a[i] = 0
             /\ i <= full => h[i] = 0
  <2> DEFINE lot == lots[i]
             part == CloseQuantity(lots, q, i)
             en == Allocate(lot.entryNotional, part, lot.quantity)
             ef == Allocate(lot.entryFee, part, lot.quantity)
  <2>1. /\ part \in Nat /\ part <= lot.quantity /\ lot \in Lot /\ lot.quantity > 0
        /\ d(i).entryNotional = en /\ d(i).entryFee = ef /\ en \in Nat /\ ef \in Nat
    BY <1>2, DealParts
  <2>2. a[i] = en + ef /\ f[i] = lot.entryNotional + lot.entryFee /\ h[i] = f[i] - a[i]
    BY <2>1 DEF CostOfLot
  <2>3. lot.entryNotional \in Nat /\ lot.entryFee \in Nat /\ lot.quantity \in Nat
    BY <2>1 DEF Lot
  <2>4. CostOfLot(LotAfter(lot, part)) = (lot.entryNotional - en) + (lot.entryFee - ef)
    <3> DEFINE after == [lot EXCEPT !.quantity = lot.quantity - part,
                                    !.entryNotional = lot.entryNotional - en,
                                    !.entryFee = lot.entryFee - ef]
    <3>1. LotAfter(lot, part) = after
      BY DEF LotAfter
    <3> HIDE DEF lot, en, ef, part
    <3>2. after.entryNotional = lot.entryNotional - en /\ after.entryFee = lot.entryFee - ef
      BY <2>1 DEF Lot
    <3>3. QED
      BY <3>1, <3>2 DEF CostOfLot
  <2>5. i > touched => en = 0 /\ ef = 0
    <3> SUFFICES ASSUME i > touched PROVE en = 0 /\ ef = 0
      OBVIOUS
    <3>1. ~(part > 0)
      BY <1>2 DEF SalePlaces
    <3>2. part = 0
      BY <2>1, <3>1
    <3>3. \A x \in Nat : Allocate(x, 0, lot.quantity) = 0
      <4> SUFFICES ASSUME NEW x \in Nat PROVE Allocate(x, 0, lot.quantity) = 0
        OBVIOUS
      <4> DEFINE whole == lot.quantity
      <4>1. whole \in Nat /\ whole > 0 /\ Scale \in Nat /\ Scale > 0
        BY <2>1, <2>3, AmountAssumption
      <4> HIDE DEF whole
      <4>2. Mul(x, 0) = 0
        BY <4>1 DEF Mul
      <4>3. Quotient(0, whole) = 0
        BY <4>1 DEF Quotient
      <4>4. QED
        BY <4>1, <4>2, <4>3 DEF Allocate, whole
    <3>4. QED
      BY <2>3, <3>2, <3>3
  <2>6. i <= full => en = lot.entryNotional /\ ef = lot.entryFee
    <3> SUFFICES ASSUME i <= full PROVE en = lot.entryNotional /\ ef = lot.entryFee
      OBVIOUS
    <3>1. part = lot.quantity
      BY <1>2 DEF SalePlaces
    <3>2. ~(part < lot.quantity)
      BY <2>3, <3>1
    <3> HIDE DEF part, lot
    <3>3. QED
      BY <3>2 DEF Allocate
  <2> HIDE DEF lot, part, en, ef, a, f, h, d
  <2>7. a[i] \in Nat /\ f[i] \in Nat /\ h[i] \in Int
    <3>1. a[i] \in Nat
      BY <2>1, <2>2
    <3>2. f[i] \in Nat
      BY <2>2, <2>3
    <3>3. QED
      BY <2>2, <3>1, <3>2
  <2>8. CostOfLot(LotAfter(lot, part)) = h[i]
    BY <2>1, <2>2, <2>3, <2>4
  <2>9. (i > touched => a[i] = 0) /\ (i <= full => h[i] = 0)
    BY <2>1, <2>2, <2>3, <2>5, <2>6
  <2>10. QED
    BY <2>7, <2>8, <2>9 DEF lot, part
<1>5. IsFiniteSet(I) /\ IsFiniteSet(J) /\ IsFiniteSet(K)
  BY <1>2, FS_Interval
<1>6. I \subseteq J /\ \A i \in I : e[i] = a[i]
  BY <1>2
<1>7. (\A i \in J \ I : i > touched) /\ \A i \in J : i <= full \/ i \in {m[j] : j \in K}
  <2>1. \A i \in J : i > full => i - full \in K /\ i = m[i - full]
    BY <1>2
  <2>2. \A i \in J \ I : i > touched
    BY <1>2
  <2>3. \A i \in J : i <= full \/ i > full
    BY <1>2
  <2> HIDE DEF m, J, K, I
  <2>4. QED
    BY <2>1, <2>2, <2>3
<1>8. (\A x, y \in K : m[x] = m[y] => x = y) /\ \A j \in K : m[j] \in J /\ m[j] > full
  BY <1>2
<1>9. \A j \in K : h[m[j]] \in Int /\ g[j] = h[m[j]]
  <2> SUFFICES ASSUME NEW j \in K PROVE h[m[j]] \in Int /\ g[j] = h[m[j]]
    OBVIOUS
  <2> DEFINE i == full + j
  <2>1. m[j] = i /\ i \in J /\ g[j] = CostOfLot(left[j])
        /\ left[j] = LotAfter(lots[i], CloseQuantity(lots, q, i))
    <3> HIDE DEF left
    <3>1. QED
      BY <1>3
  <2> HIDE DEF i, g, h, m, left, K, J
  <2>2. QED
    BY <1>4, <2>1
<1>10. CostOf(left) = SumFunctionOnSet(g, K) /\ CostOf(lots) = SumFunctionOnSet(f, J)
  <2> HIDE DEF left
  <2>1. QED
    BY <1>2, <1>3 DEF CostOf
<1>11. \A i \in J : h[i] \in Int /\ a[i] \in Int /\ f[i] = h[i] + a[i]
  <2>1. \A i \in J : h[i] = f[i] - a[i]
    OBVIOUS
  <2>2. \A i \in J : a[i] \in Nat /\ f[i] \in Nat /\ h[i] \in Int
    BY <1>4
  <2> HIDE DEF a, f, h, J
  <2>3. QED
    BY <2>1, <2>2
<1> DEFINE M == {m[j] : j \in K}
<1>12. M \subseteq J /\ IsFiniteSet(M)
  <2>1. M \subseteq J
    BY <1>8
  <2> HIDE DEF M
  <2>2. QED
    BY <1>5, <2>1, FS_Subset
<1>13. SumFunctionOnSet(g, K) = SumFunctionOnSet(h, M)
  <2>1. \A x, y \in K : m[x] = m[y] => x = y
    BY <1>8
  <2>2. IsFiniteSet(K)
    BY <1>5
  <2> HIDE DEF g, h, m, K
  <2>3. SumFunctionOnSet(g, K) = SumFunctionOnSet(h, {m[j] : j \in K})
    BY <2>1, <2>2, <1>9, SumReindexes
  <2>4. QED
    BY <2>3
<1>14. SumFunctionOnSet(h, M) = SumFunctionOnSet(h, J)
  <2>1. IsFiniteSet(M) /\ IsFiniteSet(J)
    BY <1>5, <1>12
  <2>2. \A i \in J : h[i] \in Int /\ (i <= full => h[i] = 0)
    BY <1>4
  <2> HIDE DEF h, M, J
  <2>3. \A i \in M \cap J : h[i] \in Int /\ h[i] = h[i]
    BY <2>2
  <2>4. \A i \in M \ J : h[i] = 0
    BY <1>12
  <2>5. \A i \in J \ M : h[i] = 0
    BY <2>2, <1>7 DEF M
  <2>6. QED
    BY <2>1, <2>3, <2>4, <2>5, SumIgnoresZeros
<1>15. SumFunctionOnSet(e, I) = SumFunctionOnSet(a, J)
  <2>1. \A i \in J : a[i] \in Nat /\ (i > touched => a[i] = 0)
    BY <1>4
  <2>2. IsFiniteSet(I) /\ IsFiniteSet(J)
    BY <1>5
  <2> HIDE DEF a, I, J
  <2>3. \A i \in I \cap J : e[i] \in Int /\ a[i] = e[i]
    <3>1. \A i \in I : i \in J /\ a[i] = e[i]
      BY <1>6
    <3>2. QED
      BY <2>1, <3>1
  <2>4. \A i \in I \ J : e[i] = 0
    BY <1>6
  <2>5. \A i \in J \ I : a[i] = 0
    BY <2>1, <1>7
  <2>6. QED
    BY <2>2, <2>3, <2>4, <2>5, SumIgnoresZeros
<1> HIDE DEF a, f, g, h, J, K, I, M, m
<1>16. SumFunctionOnSet(f, J) = SumFunctionOnSet(h, J) + SumFunctionOnSet(a, J)
  BY <1>5, <1>11, SumPlus
<1>17. SumFunctionOnSet(h, J) \in Int /\ SumFunctionOnSet(a, J) \in Int
  BY <1>5, <1>11, SumIsInteger
<1> HIDE DEF left
<1>18. SumFunctionOnSet(e, I) \in Int /\ CostOf(left) = CostOf(lots) - SumFunctionOnSet(e, I)
  BY <1>10, <1>13, <1>14, <1>15, <1>16, <1>17
<1>19. QED
  BY <1>18 DEF left, I

-----------------------------------------------------------------------------
(* What the realised trades of a market report                             *)

DealsOn(cl, s) == {k \in DOMAIN cl : cl[k].symbol = s}
PnlOf(cl, s) == SumFunctionOnSet([k \in DealsOn(cl, s) |-> cl[k].pnl], DealsOn(cl, s))

\* What rounding can take from a realised trade: it depends on the size of the sale.
SlackOf(cl, trs, s) ==
  SumFunctionOnSet([k \in DealsOn(cl, s) |-> 2 + Scale \div trs[cl[k].exit][1].quantity], DealsOn(cl, s))

LEMMA DealsAfterSale ==
  ASSUME NEW id \in OrderIds, NEW full \in Nat, NEW touched \in Nat, SaleStep(id, full, touched)
  PROVE  LET s == orders[id].symbol
             n == Len(closed)
         IN  /\ n \in Nat /\ DealsOn(closed, s) \subseteq 1..n
             /\ DealsOn(closed', s) = DealsOn(closed, s) \cup ((n + 1)..(n + touched))
             /\ \A r : r # s => DealsOn(closed', r) = DealsOn(closed, r)
             /\ \A k \in 1..n : closed'[k] = closed[k]
<1> DEFINE s == orders[id].symbol
           n == Len(closed)
           new == (n + 1)..(n + touched)
<1>1. /\ DOMAIN closed = 1..n /\ n \in Nat /\ DOMAIN closed' = 1..(n + touched)
      /\ \A k \in 1..n : closed'[k] = closed[k]
      /\ \A i \in 1..touched : closed'[n + i].symbol = s
  BY DEF SaleStep
<1>2. 1..(n + touched) = (1..n) \cup new
  BY <1>1
<1> HIDE DEF n, s
<1>3. \A k \in new : closed'[k].symbol = s
  <2>1. \A k \in new : k - n \in 1..touched /\ k = n + (k - n)
    BY <1>1 DEF new
  <2>2. QED
    BY <1>1, <2>1
<1> HIDE DEF new
<1>4. DealsOn(closed', s) = DealsOn(closed, s) \cup new
  BY <1>1, <1>2, <1>3 DEF DealsOn
<1>5. \A r : r # s => DealsOn(closed', r) = DealsOn(closed, r)
  BY <1>1, <1>2, <1>3 DEF DealsOn
<1>6. QED
  BY <1>1, <1>4, <1>5 DEF DealsOn, n, s, new

\* The proceeds, fees and costs of the realised trades of a sale.
SaleParts(lots, trade, touched, xn, xf, e) ==
  \A i \in 1..touched :
    LET deal == SaleDeal(lots, trade, i)
    IN  /\ xn[i] = deal.exitNotional /\ xf[i] = deal.exitFee
        /\ e[i] = deal.entryNotional + deal.entryFee

\* A sale with what its realised trades report.
SaleReport(id, trade, full, touched, xn, xf, e) ==
  LET lots == positions[orders[id].symbol]
  IN  /\ SaleStep(id, full, touched)
      /\ trade \in Trade /\ trade = Fill(id, nextTrade, call.bar.end)
      /\ trade.quantity = orders[id].quantity /\ trade.quantity > 0
      /\ Sized(lots) /\ SaleParts(lots, trade, touched, xn, xf, e)

LEMMA PnlAfterSale ==
  ASSUME NEW id \in OrderIds, NEW full \in Nat, NEW touched \in Nat,
         NEW trade, NEW xn, NEW xf, NEW e, SaleReport(id, trade, full, touched, xn, xf, e)
  PROVE  LET s == orders[id].symbol
             X == SumFunctionOnSet(xn, 1..touched)
             F == SumFunctionOnSet(xf, 1..touched)
             C == SumFunctionOnSet(e, 1..touched)
         IN  /\ X \in Int /\ F \in Int /\ C \in Int /\ PnlOf(closed, s) \in Int
             /\ PnlOf(closed', s) = PnlOf(closed, s) + (X - F - C)
<1>0. /\ SaleStep(id, full, touched)
      /\ trade \in Trade /\ trade = Fill(id, nextTrade, call.bar.end)
      /\ trade.quantity = orders[id].quantity /\ trade.quantity > 0
      /\ Sized(positions[orders[id].symbol])
      /\ SaleParts(positions[orders[id].symbol], trade, touched, xn, xf, e)
  BY DEF SaleReport
<1> DEFINE s == orders[id].symbol
           lots == positions[s]
           n == Len(closed)
           I == 1..touched
           S == DealsOn(closed, s)
           R == DealsOn(closed', s)
           f == [k \in S |-> closed[k].pnl]
           g == [k \in R |-> closed'[k].pnl]
           h == [i \in I |-> SaleDeal(lots, trade, i).pnl]
           out == [i \in I |-> xf[i] + e[i]]
<1>1. ASSUME NEW i \in I
      PROVE  /\ xn[i] \in Int /\ xf[i] \in Int /\ e[i] \in Int /\ h[i] \in Int
             /\ out[i] = xf[i] + e[i] /\ xn[i] = h[i] + out[i]
             /\ closed'[n + i].pnl = h[i]
  <2> DEFINE deal == SaleDeal(lots, trade, i)
  <2>1. i \in DOMAIN lots /\ closed'[n + i] = deal
    BY <1>0 DEF SaleStep
  <2>2. /\ deal.pnl = deal.exitNotional - deal.exitFee - deal.entryNotional - deal.entryFee
        /\ deal.entryNotional \in Nat /\ deal.entryFee \in Nat
        /\ deal.exitNotional \in Nat /\ deal.exitFee \in Nat /\ deal.pnl \in Int
    BY <1>0, <2>1, DealParts
  <2>3. xn[i] = deal.exitNotional /\ xf[i] = deal.exitFee /\ e[i] = deal.entryNotional + deal.entryFee
    BY <1>0 DEF SaleParts
  <2>4. h[i] = deal.pnl /\ out[i] = xf[i] + e[i]
    OBVIOUS
  <2> HIDE DEF deal, h, out, n
  <2>5. QED
    BY <2>1, <2>2, <2>3, <2>4
<1>2. /\ n \in Nat /\ S \subseteq 1..n /\ R = S \cup ((n + 1)..(n + touched))
      /\ \A k \in 1..n : closed'[k] = closed[k]
  BY <1>0, DealsAfterSale
<1>3. \A k \in S : closed[k].pnl \in Int
  <2>1. closed \in Seq(Deal)
    BY <1>0 DEF SaleStep
  <2>2. \A k \in DOMAIN closed : closed[k] \in Deal
    BY <2>1, ElementOfSeq, LenProperties
  <2>3. QED
    BY <2>2 DEF Deal, DealsOn
<1>4. \A k \in S : f[k] \in Int /\ g[k] = f[k]
  <2>1. \A k \in S : k \in R /\ closed'[k] = closed[k]
    BY <1>2
  <2> HIDE DEF S, R
  <2>2. QED
    BY <1>3, <2>1
<1>5. \A i \in I : h[i] \in Int /\ g[n + i] = h[i]
  <2>1. \A i \in I : n + i \in R
    <3> HIDE DEF R, S
    <3>1. QED
      BY <1>2
  <2>2. \A i \in I : g[n + i] = closed'[n + i].pnl
    <3> HIDE DEF R, n, I
    <3>1. QED
      BY <2>1
  <2> HIDE DEF R, n, I, g, h
  <2>3. QED
    BY <1>1, <2>2
<1>6. PnlOf(closed', s) = SumFunctionOnSet(g, R) /\ PnlOf(closed, s) = SumFunctionOnSet(f, S)
  BY DEF PnlOf
<1>7. touched \in Nat /\ IsFiniteSet(I)
  BY FS_Interval
<1>8. \A i \in I : h[i] \in Int /\ out[i] \in Int /\ xn[i] = h[i] + out[i]
  <2> HIDE DEF h, out, I
  <2>1. QED
    BY <1>1
<1>9. \A i \in I : xf[i] \in Int /\ e[i] \in Int /\ out[i] = xf[i] + e[i]
  <2> HIDE DEF h, out, I
  <2>1. QED
    BY <1>1
<1>10. \A i \in I : xn[i] \in Int
  BY <1>1
<1>17. n \in Nat /\ touched \in Nat
  BY <1>2
<1>18. S \subseteq 1..n
  BY <1>2
<1>19. R = S \cup ((n + 1)..(n + touched))
  BY <1>2
<1>20. \A i \in 1..touched : h[i] \in Int /\ g[n + i] = h[i]
  BY <1>5
<1> HIDE DEF f, g, h, out, n, S, R
<1>21. Continues(n, touched, S, R, f, g, h)
  BY <1>4, <1>17, <1>18, <1>19, <1>20 DEF Continues
<1>11. /\ SumFunctionOnSet(f, S) \in Int /\ SumFunctionOnSet(h, I) \in Int
       /\ SumFunctionOnSet(g, R) = SumFunctionOnSet(f, S) + SumFunctionOnSet(h, I)
  BY <1>21, SumAppends
<1> HIDE DEF I, lots, s
<1>12. SumFunctionOnSet(xn, I) = SumFunctionOnSet(h, I) + SumFunctionOnSet(out, I)
  BY <1>7, <1>8, SumPlus
<1>13. SumFunctionOnSet(out, I) = SumFunctionOnSet(xf, I) + SumFunctionOnSet(e, I)
  BY <1>7, <1>9, SumPlus
<1>14. SumFunctionOnSet(xf, I) \in Int /\ SumFunctionOnSet(e, I) \in Int
  BY <1>7, <1>9, SumIsInteger
<1>15. SumFunctionOnSet(xn, I) \in Int
  BY <1>7, <1>10, SumIsInteger
<1>16. QED
  BY <1>6, <1>11, <1>12, <1>13, <1>14, <1>15 DEF I, s

\* Sums over the realised trades of a market that a step neither adds to nor changes.
LEMMA SlackAfterSale ==
  ASSUME NEW id \in OrderIds, NEW full \in Nat, NEW touched \in Nat, SaleStep(id, full, touched),
         NEW q \in Nat, q > 0, trades'[id][1].quantity = q,
         \A k \in DOMAIN closed : /\ trades[closed[k].exit][1].quantity \in Nat
                                  /\ trades[closed[k].exit][1].quantity > 0
                                  /\ trades'[closed[k].exit] = trades[closed[k].exit]
  PROVE  LET s == orders[id].symbol
         IN  /\ SlackOf(closed, trades, s) \in Int
             /\ SlackOf(closed', trades', s) = SlackOf(closed, trades, s) + touched * (2 + Scale \div q)
<1> DEFINE s == orders[id].symbol
           n == Len(closed)
           I == 1..touched
           S == DealsOn(closed, s)
           R == DealsOn(closed', s)
           w == 2 + Scale \div q
           f == [k \in S |-> 2 + Scale \div trades[closed[k].exit][1].quantity]
           g == [k \in R |-> 2 + Scale \div trades'[closed'[k].exit][1].quantity]
           h == [i \in I |-> w]
<1>1. /\ n \in Nat /\ S \subseteq 1..n /\ R = S \cup ((n + 1)..(n + touched))
      /\ \A k \in 1..n : closed'[k] = closed[k]
  BY DealsAfterSale
<1>2. Scale \in Nat /\ w \in Int
  BY AmountAssumption
<1>3. \A k \in S : f[k] \in Int /\ g[k] = f[k]
  <2> SUFFICES ASSUME NEW k \in S PROVE f[k] \in Int /\ g[k] = f[k]
    OBVIOUS
  <2> DEFINE x == trades[closed[k].exit][1].quantity
  <2>1. x \in Nat /\ x > 0 /\ trades'[closed[k].exit] = trades[closed[k].exit]
    BY DEF DealsOn
  <2>2. k \in R /\ closed'[k] = closed[k]
    BY <1>1
  <2>3. f[k] = 2 + Scale \div x
    <3> HIDE DEF S
    <3>1. QED
      OBVIOUS
  <2>4. g[k] = 2 + Scale \div x
    <3> HIDE DEF R
    <3>1. g[k] = 2 + Scale \div trades'[closed'[k].exit][1].quantity
      BY <2>2
    <3>2. trades'[closed'[k].exit][1].quantity = x
      BY <2>1, <2>2
    <3> HIDE DEF g, x
    <3>3. QED
      BY <3>1, <3>2
  <2> HIDE DEF f, g, x
  <2>5. Scale \div x \in Int
    BY <1>2, <2>1
  <2>6. QED
    BY <2>3, <2>4, <2>5
<1>4. \A i \in I : h[i] \in Int /\ g[n + i] = h[i]
  <2> SUFFICES ASSUME NEW i \in I PROVE h[i] \in Int /\ g[n + i] = h[i]
    OBVIOUS
  <2>1. n + i \in R /\ closed'[n + i].exit = id
    BY <1>1 DEF SaleStep
  <2>2. g[n + i] = 2 + Scale \div trades'[closed'[n + i].exit][1].quantity
    <3> HIDE DEF R, n
    <3>1. QED
      BY <2>1
  <2>3. trades'[closed'[n + i].exit][1].quantity = q
    BY <2>1
  <2> HIDE DEF g, n
  <2>4. g[n + i] = 2 + Scale \div q
    BY <2>2, <2>3
  <2>5. h[i] = w
    OBVIOUS
  <2>6. QED
    BY <1>2, <2>4, <2>5
<1>5. SumFunctionOnSet(h, I) = touched * w
  <2>1. w \in Int /\ touched \in Nat
    BY <1>2
  <2> HIDE DEF w
  <2>2. SumFunctionOnSet([i \in 1..touched |-> w], 1..touched) = touched * w
    BY <2>1, SumOfConstant
  <2>3. QED
    BY <2>2
<1>6. SlackOf(closed', trades', s) = SumFunctionOnSet(g, R)
      /\ SlackOf(closed, trades, s) = SumFunctionOnSet(f, S)
  BY DEF SlackOf
<1>9. n \in Nat /\ touched \in Nat
  BY <1>1
<1>10. S \subseteq 1..n
  BY <1>1
<1>11. R = S \cup ((n + 1)..(n + touched))
  BY <1>1
<1>12. \A i \in 1..touched : h[i] \in Int /\ g[n + i] = h[i]
  BY <1>4
<1> HIDE DEF f, g, h, n, S, R
<1>13. Continues(n, touched, S, R, f, g, h)
  BY <1>3, <1>9, <1>10, <1>11, <1>12 DEF Continues
<1>7. /\ SumFunctionOnSet(f, S) \in Int
      /\ SumFunctionOnSet(g, R) = SumFunctionOnSet(f, S) + SumFunctionOnSet(h, I)
  BY <1>13, SumAppends
<1>8. QED
  BY <1>5, <1>6, <1>7

-----------------------------------------------------------------------------
(* Cash and profit                                                         *)

\* The market s has both its currencies to itself.
Sole(s) == \A r \in Symbols : r # s => {Base[s], Quote[s]} \cap {Base[r], Quote[r]} = {}

BuysOn(ords, s) == {id \in OrderIds : FilledOn(ords, id, s, "buy")}

Owed(cl, lots, s) == PnlOf(cl, s) - CostOf(lots)
SlackOn(ords, cl, trs, s) == Cardinality(BuysOn(ords, s)) + SlackOf(cl, trs, s)

\* The quote currency gained is the realised profit less what the open lots
\* cost, to within what rounding can take of each fill.
CashMatches ==
  \A s \in Symbols : StartBalance[Base[s]] = 0 /\ Sole(s) =>
    Within((Total(Quote[s]) - StartBalance[Quote[s]]) - Owed(closed, positions[s], s),
           SlackOn(orders, closed, trades, s))

LEMMA WithinGrows ==
  ASSUME NEW a \in Int, NEW b \in Int, NEW n \in Int, NEW d \in Int, Within(a, n), Within(b - a, d)
  PROVE  Within(b, n + d)
BY DEF Within

LEMMA BuysAreFinite ==
  ASSUME Invariant, NEW s
  PROVE  IsFiniteSet(BuysOn(orders, s)) /\ Cardinality(BuysOn(orders, s)) \in Nat
<1>1. BuysOn(orders, s) \subseteq OrderIds /\ \A id \in BuysOn(orders, s) : orders[id] # NoOrder
  BY DEF BuysOn, FilledOn, NoOrder
<1>2. QED
  BY <1>1, UsedIdsAreFinite, FS_CardinalityType

\* The sale of a realised trade sold something.
LEMMA DealsAreSold ==
  ASSUME Invariant, LotsConsistent, Allocation, NEW k \in DOMAIN closed
  PROVE  /\ FilledOn(orders, closed[k].exit, closed[k].symbol, "sell")
         /\ trades[closed[k].exit][1].quantity \in Nat
         /\ trades[closed[k].exit][1].quantity > 0
<1> DEFINE id == closed[k].exit
           t == trades[id][1]
           D == ExitDeals(closed, id)
           f == [j \in D |-> closed[j].quantity]
<1>1. FilledOn(orders, id, closed[k].symbol, "sell")
  BY DEF LotsConsistent
<1>2. Booked(orders[id], trades[id], closed, positions[orders[id].symbol], id)
  BY <1>1 DEF Allocation, Filled, FilledOn
<1>3. t \in Trade /\ t.side = "sell" /\ ExitIn(closed, id) <= t.quantity
  BY <1>1, <1>2 DEF Booked, FilledOn
<1>4. closed \in Seq(Deal)
  BY DEF LotsConsistent
<1>5. /\ IsFiniteSet(D) /\ ExitIn(closed, id) \in Nat
      /\ \A j \in DOMAIN closed : closed[j].quantity \in Nat /\ closed[j].quantity > 0
  BY <1>4, DealsAreFinite
<1>6. k \in D /\ D \subseteq DOMAIN closed
  BY DEF ExitDeals
<1>7. (\A j \in D : f[j] \in Nat) /\ f[k] = closed[k].quantity
  BY <1>5, <1>6
<1>8. ExitIn(closed, id) = SumFunctionOnSet(f, D)
  BY DEF ExitIn
<1> HIDE DEF f, D
<1>9. f[k] <= SumFunctionOnSet(f, D)
  BY <1>5, <1>6, <1>7, SumBoundsElement
<1>10. t.quantity \in Nat
  BY <1>3 DEF Trade
<1> HIDE DEF t
<1>11. t.quantity > 0
  BY <1>3, <1>5, <1>7, <1>8, <1>9, <1>10
<1>12. QED
  BY <1>1, <1>10, <1>11 DEF t

LEMMA MarketIsInt ==
  ASSUME Invariant, LotsConsistent, Allocation, NEW s \in Symbols
  PROVE  /\ PnlOf(closed, s) \in Int /\ CostOf(positions[s]) \in Nat
         /\ SlackOf(closed, trades, s) \in Int
         /\ Owed(closed, positions[s], s) \in Int
         /\ SlackOn(orders, closed, trades, s) \in Int
<1> DEFINE D == DealsOn(closed, s)
           f == [k \in D |-> closed[k].pnl]
           g == [k \in D |-> 2 + Scale \div trades[closed[k].exit][1].quantity]
<1>1. closed \in Seq(Deal) /\ Sized(positions[s])
  BY DEF LotsConsistent
<1>2. /\ DOMAIN closed = 1..Len(closed) /\ Len(closed) \in Nat
      /\ \A k \in DOMAIN closed : closed[k] \in Deal
  BY <1>1, ElementOfSeq, LenProperties
<1>3. IsFiniteSet(D)
  <2>1. IsFiniteSet(DOMAIN closed)
    BY <1>2, FS_Interval
  <2>2. D \subseteq DOMAIN closed
    BY DEF DealsOn
  <2>3. QED
    BY <2>1, <2>2, FS_Subset
<1>4. \A k \in D : f[k] \in Int
  BY <1>2 DEF Deal, DealsOn
<1>5. \A k \in D : g[k] \in Int
  <2> SUFFICES ASSUME NEW k \in D PROVE g[k] \in Int
    OBVIOUS
  <2> DEFINE x == trades[closed[k].exit][1].quantity
  <2>1. x \in Nat /\ x > 0
    BY DealsAreSold DEF DealsOn
  <2>2. Scale \in Nat
    BY AmountAssumption
  <2>3. g[k] = 2 + Scale \div x
    OBVIOUS
  <2> HIDE DEF g, x
  <2>4. QED
    BY <2>1, <2>2, <2>3
<1>6. PnlOf(closed, s) = SumFunctionOnSet(f, D) /\ SlackOf(closed, trades, s) = SumFunctionOnSet(g, D)
  BY DEF PnlOf, SlackOf
<1> HIDE DEF f, g, D
<1>7. SumFunctionOnSet(f, D) \in Int
  BY <1>3, <1>4, SumIsInteger
<1>8. SumFunctionOnSet(g, D) \in Int
  BY <1>3, <1>5, SumIsInteger
<1>9. CostOf(positions[s]) \in Nat
  BY <1>1, CostIsAmount
<1>10. Cardinality(BuysOn(orders, s)) \in Nat
  BY BuysAreFinite
<1>11. QED
  BY <1>6, <1>7, <1>8, <1>9, <1>10 DEF Owed, SlackOn

LEMMA TotalIsNat ==
  ASSUME Invariant, NEW c \in Currencies
  PROVE  Total(c) \in Nat /\ StartBalance[c] \in Nat
<1>1. balances[c] \in [available: Nat, locked: Nat]
  BY DEF Invariant, AccountTypeOK
<1>2. balances[c].available \in Nat /\ balances[c].locked \in Nat
  BY <1>1
<1>3. QED
  BY <1>2, AmountAssumption DEF Total

LEMMA CashInit == Init => CashMatches
<1> SUFFICES ASSUME Init, NEW s \in Symbols
             PROVE  Within((Total(Quote[s]) - StartBalance[Quote[s]]) - Owed(closed, positions[s], s),
                           SlackOn(orders, closed, trades, s))
  BY DEF CashMatches
<1>1. /\ positions[s] = <<>> /\ DOMAIN positions[s] = {} /\ closed = <<>> /\ DOMAIN closed = {}
      /\ \A id \in OrderIds : orders[id] = NoOrder
  BY DEF Init
<1>2. DealsOn(closed, s) = {} /\ BuysOn(orders, s) = {}
  BY <1>1 DEF DealsOn, BuysOn, FilledOn, NoOrder
<1>3. PnlOf(closed, s) = 0 /\ SlackOf(closed, trades, s) = 0
  BY <1>2, SumEmpty DEF PnlOf, SlackOf
<1>4. CostOf(positions[s]) = 0
  BY <1>1, SumEmpty DEF CostOf
<1>5. Cardinality(BuysOn(orders, s)) = 0
  BY <1>2, FS_EmptySet
<1>6. Quote[s] \in Currencies /\ StartBalance[Quote[s]] \in Nat
  BY MarketAssumption, AmountAssumption
<1>7. Total(Quote[s]) = StartBalance[Quote[s]]
  BY <1>6 DEF Init, Total
<1>8. QED
  BY <1>3, <1>4, <1>5, <1>6, <1>7 DEF Within, Owed, SlackOn

LEMMA TotalAfterFill ==
  ASSUME Invariant, NEW id \in OrderIds, fillOrder(id), NEW c \in Currencies
  PROVE  LET o == orders[id]
         IN  /\ fillCredit(o) \in Nat /\ fillDebit(o) \in Nat
             /\ Total(c)' = (Total(c) + (IF c = creditCurrency(o) THEN fillCredit(o) ELSE 0))
                                      - (IF c = reserveCurrency(o) THEN fillDebit(o) ELSE 0)
<1> DEFINE o == orders[id]
           x == IF c = creditCurrency(o) THEN fillCredit(o) ELSE 0
           y == IF c = reserveCurrency(o) THEN fillDebit(o) ELSE 0
<1>1. /\ balances[c] \in [available: Nat, locked: Nat]
      /\ balances'[c] \in [available: Nat, locked: Nat]
      /\ fillCredit(o) \in Nat /\ fillDebit(o) \in Nat
      /\ balances'[c].available = balances[c].available + x
      /\ balances'[c].locked = balances[c].locked - y
  BY BalancesAfterFill
<1>2. /\ balances[c].available \in Nat /\ balances[c].locked \in Nat
      /\ balances'[c].available \in Nat /\ balances'[c].locked \in Nat
      /\ x \in Nat /\ y \in Nat
  BY <1>1
<1> HIDE DEF x, y
<1>3. Total(c)' = (Total(c) + x) - y
  BY <1>1, <1>2 DEF Total
<1>4. QED
  BY <1>1, <1>3 DEF x, y

\* The sales behind the realised trades are not those of a later fill.
LEMMA OldSalesStay ==
  ASSUME Invariant, LotsConsistent, NEW id \in OrderIds, fillOrder(id), NEW k \in DOMAIN closed
  PROVE  trades'[closed[k].exit] = trades[closed[k].exit]
<1>1. FilledOn(orders, closed[k].exit, closed[k].symbol, "sell")
  BY DEF LotsConsistent
<1>2. closed[k].exit \in OrderIds /\ closed[k].exit # id
  BY <1>1, FilledStaysFilled DEF FilledOn
<1>3. QED
  BY <1>2, FillBooks

LEMMA BuysAfterFill ==
  ASSUME Invariant, NEW id \in OrderIds, fillOrder(id), NEW s
  PROVE  LET o == orders[id]
         IN  /\ id \notin BuysOn(orders, s)
             /\ BuysOn(orders', s) = IF o.symbol = s /\ o.side = "buy"
                                     THEN BuysOn(orders, s) \cup {id} ELSE BuysOn(orders, s)
<1>1. /\ ~Filled(id) /\ Filled(id)'
      /\ orders'[id].symbol = orders[id].symbol /\ orders'[id].side = orders[id].side
      /\ \A other \in OrderIds \ {id} : orders'[other] = orders[other]
  BY FillBooks
<1>2. orders[id].status # "filled" /\ orders'[id].status = "filled"
  BY <1>1 DEF Filled
<1>3. id \notin BuysOn(orders, s)
  BY <1>2 DEF BuysOn, FilledOn
<1>4. \A other \in OrderIds \ {id} : FilledOn(orders', other, s, "buy") <=> FilledOn(orders, other, s, "buy")
  BY <1>1 DEF FilledOn
<1>5. FilledOn(orders', id, s, "buy") <=> orders[id].symbol = s /\ orders[id].side = "buy"
  BY <1>1, <1>2 DEF FilledOn
<1>6. QED
  BY <1>3, <1>4, <1>5 DEF BuysOn

LEMMA SoldSlackStays ==
  ASSUME Invariant, LotsConsistent, Allocation, NEW id \in OrderIds, fillOrder(id),
         NEW s, DealsOn(closed', s) = DealsOn(closed, s),
         \A k \in DealsOn(closed, s) : closed'[k] = closed[k]
  PROVE  PnlOf(closed', s) = PnlOf(closed, s) /\ SlackOf(closed', trades', s) = SlackOf(closed, trades, s)
<1> DEFINE D == DealsOn(closed, s)
           D2 == DealsOn(closed', s)
<1>1. \A k \in D : trades'[closed[k].exit] = trades[closed[k].exit]
  BY OldSalesStay DEF DealsOn
<1>2. D2 = D
  OBVIOUS
<1> HIDE DEF D, D2
<1>3. [k \in D2 |-> closed'[k].pnl] = [k \in D |-> closed[k].pnl]
  BY <1>2 DEF D
<1>4. [k \in D2 |-> 2 + Scale \div trades'[closed'[k].exit][1].quantity]
        = [k \in D |-> 2 + Scale \div trades[closed[k].exit][1].quantity]
  BY <1>1, <1>2 DEF D
<1>5. QED
  BY <1>2, <1>3, <1>4 DEF PnlOf, SlackOf, D, D2

\* A fill on another market leaves this one's books alone.
LEMMA FillElsewhere ==
  ASSUME Invariant, LotsConsistent, Allocation, NEW id \in OrderIds, fillOrder(id),
         NEW s \in Symbols, orders[id].symbol # s
  PROVE  /\ Owed(closed', positions'[s], s) = Owed(closed, positions[s], s)
         /\ SlackOn(orders', closed', trades', s) = SlackOn(orders, closed, trades, s)
<1> DEFINE o == orders[id]
<1>1. BuysOn(orders', s) = BuysOn(orders, s)
  BY BuysAfterFill
<1>2. /\ positions'[s] = positions[s]
      /\ DealsOn(closed', s) = DealsOn(closed, s)
      /\ \A k \in DealsOn(closed, s) : closed'[k] = closed[k]
  <2>1. CASE o.side = "buy"
    <3>1. /\ positions' = [positions EXCEPT ![o.symbol] = Append(positions[o.symbol], BoughtLot(o, id))]
          /\ closed' = closed
      BY <2>1, LotsBuy
    <3>2. DOMAIN positions = Symbols
      BY DEF LotsConsistent
    <3>3. QED
      BY <3>1, <3>2
  <2>2. CASE o.side # "buy"
    <3>1. PICK full \in Nat, touched \in Nat : SaleStep(id, full, touched)
      BY <2>2, SaleSteps
    <3>2. positions'[s] = positions[s]
      BY <3>1 DEF SaleStep
    <3>3. /\ DealsOn(closed', s) = DealsOn(closed, s)
          /\ \A k \in 1..Len(closed) : closed'[k] = closed[k]
      BY <3>1, DealsAfterSale
    <3>4. DealsOn(closed, s) \subseteq 1..Len(closed)
      BY <3>1 DEF SaleStep, DealsOn
    <3>5. QED
      BY <3>2, <3>3, <3>4
  <2>3. QED
    BY <2>1, <2>2
<1>3. PnlOf(closed', s) = PnlOf(closed, s) /\ SlackOf(closed', trades', s) = SlackOf(closed, trades, s)
  BY <1>2, SoldSlackStays
<1>4. QED
  BY <1>1, <1>2, <1>3 DEF Owed, SlackOn

\* Rounding a product and its two parts loses a unit at most.
LEMMA PartsOfProduct ==
  ASSUME NEW p \in Nat, NEW q \in Nat, NEW a \in Nat, NEW b \in Nat, a + b = q
  PROVE  /\ Mul(p, q) \in Nat /\ Mul(p, a) \in Nat /\ Mul(p, b) \in Nat
         /\ 0 <= Mul(p, q) - (Mul(p, a) + Mul(p, b))
         /\ Mul(p, q) - (Mul(p, a) + Mul(p, b)) <= 1
<1> DEFINE x == p * a
           y == p * b
<1>1. p * q = x + y /\ x \in Nat /\ y \in Nat
  BY Z3
<1>2. Scale \in Nat /\ Scale > 0
  BY AmountAssumption
<1> HIDE DEF x, y
<1>3. ASSUME NEW u \in Nat, NEW v \in Nat
      PROVE  /\ (u + v) \div Scale \in Nat /\ u \div Scale \in Nat /\ v \div Scale \in Nat
             /\ 0 <= (u + v) \div Scale - (u \div Scale + v \div Scale)
             /\ (u + v) \div Scale - (u \div Scale + v \div Scale) <= 1
  <2> DEFINE w == u + v
             i == u \div Scale
             j == v \div Scale
             k == w \div Scale
  <2>1. /\ i \in Nat /\ Scale * i <= u /\ u < Scale * i + Scale
        /\ j \in Nat /\ Scale * j <= v /\ v < Scale * j + Scale
    BY <1>2
  <2>2. k \in Nat /\ Scale * k <= w /\ w < Scale * k + Scale
    <3>1. w \in Nat
      OBVIOUS
    <3> HIDE DEF w
    <3>2. QED
      BY <1>2, <3>1
  <2>3. w = u + v
    OBVIOUS
  <2> HIDE DEF i, j, k, w
  <2> DEFINE si == Scale * i
             sj == Scale * j
             sk == Scale * k
  <2>4. si \in Nat /\ sj \in Nat /\ sk \in Nat
    BY <1>2, <2>1, <2>2
  <2>5. /\ Scale * (i + j) = si + sj
        /\ Scale * (k + 1) = sk + Scale
        /\ Scale * ((i + j) + 2) = si + sj + Scale + Scale
        /\ Scale * (k) = sk
    BY <1>2, <2>1, <2>2
  <2>6. si + sj < sk + Scale /\ sk < si + sj + Scale + Scale
    <3> HIDE DEF si, sj, sk
    <3>1. QED
      BY <1>2, <2>1, <2>2, <2>3, <2>4 DEF si, sj, sk
  <2> DEFINE m == i + j
  <2>7. m \in Nat /\ Scale * m < Scale * (k + 1) /\ Scale * k < Scale * (m + 2)
    BY <2>1, <2>5, <2>6
  <2> HIDE DEF m
  <2>8. m <= k
    <3> SUFFICES ASSUME k + 1 <= m PROVE FALSE
      BY <2>2, <2>7
    <3> DEFINE t == m - (k + 1)
    <3>1. t \in Nat /\ m = (k + 1) + t
      BY <2>2, <2>7
    <3> HIDE DEF t
    <3>2. Scale * m = Scale * (k + 1) + Scale * t /\ Scale * t \in Nat /\ Scale * (k + 1) \in Nat
      BY <1>2, <2>2, <3>1
    <3> DEFINE aa == Scale * m
               bb == Scale * (k + 1)
               cc == Scale * t
    <3>3. aa = bb + cc /\ cc \in Nat /\ bb \in Nat /\ aa < bb
      BY <2>7, <3>2
    <3> HIDE DEF aa, bb, cc
    <3>4. QED
      BY <3>3
  <2>9. k <= m + 1
    <3> SUFFICES ASSUME m + 2 <= k PROVE FALSE
      BY <2>2, <2>7
    <3> DEFINE t == k - (m + 2)
    <3>1. t \in Nat /\ k = (m + 2) + t
      BY <2>2, <2>7
    <3> HIDE DEF t
    <3>2. Scale * k = Scale * (m + 2) + Scale * t /\ Scale * t \in Nat /\ Scale * (m + 2) \in Nat
      BY <1>2, <2>7, <3>1
    <3> DEFINE aa == Scale * k
               bb == Scale * (m + 2)
               cc == Scale * t
    <3>3. aa = bb + cc /\ cc \in Nat /\ bb \in Nat /\ aa < bb
      BY <2>7, <3>2
    <3> HIDE DEF aa, bb, cc
    <3>4. QED
      BY <3>3
  <2>10. /\ k \in Nat /\ i \in Nat /\ j \in Nat /\ 0 <= k - (i + j) /\ k - (i + j) <= 1
    BY <2>1, <2>2, <2>7, <2>8, <2>9 DEF m
  <2>11. QED
    BY <2>10 DEF i, j, k, w
<1>4. Mul(p, q) = (x + y) \div Scale /\ Mul(p, a) = x \div Scale /\ Mul(p, b) = y \div Scale
  BY <1>1 DEF Mul, x, y
<1>5. QED
  BY <1>1, <1>3, <1>4

CashError(s) == (Total(Quote[s]) - StartBalance[Quote[s]]) - Owed(closed, positions[s], s)

LEMMA CashBuy ==
  ASSUME Invariant, LotsConsistent, Allocation, NEW id \in OrderIds, fillOrder(id),
         NEW s \in Symbols, orders[id].symbol = s, orders[id].side = "buy",
         Within(CashError(s), SlackOn(orders, closed, trades, s))
  PROVE  Within(CashError(s)', SlackOn(orders', closed', trades', s))
<1> DEFINE o == orders[id]
           c == Quote[s]
           lots == positions[s]
           lot == BoughtLot(o, id)
           p == o.price
           q == o.quantity
           cost == CostOf(lots)
           pnl == PnlOf(closed, s)
           slack == SlackOf(closed, trades, s)
           buys == Cardinality(BuysOn(orders, s))
           total == Total(c)
           start == StartBalance[c]
           spent == Mul(p, q)
           en == Mul(p, fillCredit(o))
           ef == Mul(p, fillFee(o))
<1>1. c \in Currencies /\ c # Base[s]
  BY MarketAssumption
<1>2. total \in Nat /\ start \in Nat
  BY <1>1, TotalIsNat
<1>3. /\ o \in Order /\ fillQuantity(o) = q /\ Fill(id, nextTrade, call.bar.end) \in Trade
      /\ p \in Nat /\ q \in Nat
  BY FillBooks DEF Order
<1>4. fillFee(o) \in Nat
  BY <1>3 DEF Fill, Trade
<1>5. fillCredit(o) \in Nat /\ fillCredit(o) = q - fillFee(o)
  <2>1. fillCredit(o) \in Nat
    BY <1>1, TotalAfterFill
  <2>2. QED
    BY <1>3, <2>1 DEF fillCredit
<1>6. /\ spent \in Nat /\ en \in Nat /\ ef \in Nat
      /\ 0 <= spent - (en + ef) /\ spent - (en + ef) <= 1
  <2> DEFINE a == fillCredit(o)
             b == fillFee(o)
  <2>1. a \in Nat /\ b \in Nat /\ a + b = q
    <3> HIDE DEF a, b, q
    <3>1. QED
      BY <1>3, <1>4, <1>5 DEF a, b
  <2> HIDE DEF a, b, q, p
  <2>2. QED
    BY <1>3, <2>1, PartsOfProduct DEF a, b
<1>7. Total(c)' = total - spent
  <2>1. c = reserveCurrency(o) /\ c # creditCurrency(o) /\ fillDebit(o) = spent
    BY <1>1, <1>3 DEF reserveCurrency, creditCurrency, fillDebit, fillNotional
  <2>2. Total(c)' = (Total(c) + 0) - fillDebit(o)
    BY <1>1, <2>1, TotalAfterFill
  <2>3. QED
    BY <1>2, <2>1, <2>2
<1>8. /\ lot \in Lot /\ lot.quantity > 0 /\ positions'[s] = Append(lots, lot) /\ closed' = closed
      /\ Sized(lots)
  <2>1. DOMAIN positions = Symbols /\ Sized(lots)
    BY DEF LotsConsistent
  <2>2. /\ lot \in Lot /\ lot.quantity > 0 /\ closed' = closed
        /\ positions' = [positions EXCEPT ![o.symbol] = Append(positions[o.symbol], lot)]
    BY LotsBuy
  <2> HIDE DEF lot
  <2>3. QED
    BY <2>1, <2>2
<1>9. CostOfLot(lot) = en + ef
  BY DEF CostOfLot, BoughtLot
<1>10. CostOf(positions'[s]) = cost + (en + ef)
  <2> HIDE DEF lot, lots, en, ef
  <2>1. QED
    BY <1>8, <1>9, CostAfterBuy
<1>11. PnlOf(closed', s) = pnl /\ SlackOf(closed', trades', s) = slack
  BY <1>8, SoldSlackStays
<1>12. buys \in Nat /\ Cardinality(BuysOn(orders', s)) = buys + 1
  <2>1. id \notin BuysOn(orders, s) /\ BuysOn(orders', s) = BuysOn(orders, s) \cup {id}
    BY BuysAfterFill
  <2>2. IsFiniteSet(BuysOn(orders, s)) /\ buys \in Nat
    BY BuysAreFinite
  <2>3. QED
    BY <2>1, <2>2, FS_AddElement
<1>13. pnl \in Int /\ cost \in Nat /\ slack \in Int
  BY MarketIsInt
<1> DEFINE before == (total - start) - (pnl - cost)
           after == ((total - spent) - start) - (pnl - (cost + (en + ef)))
<1>14. CashError(s) = before /\ SlackOn(orders, closed, trades, s) = buys + slack
  BY DEF CashError, Owed, SlackOn
<1>15. CashError(s)' = after /\ SlackOn(orders', closed', trades', s) = (buys + 1) + slack
  <2> HIDE DEF en, ef, spent, total, start, cost, pnl, buys, slack
  <2>1. CashError(s)' = (Total(c)' - start) - (PnlOf(closed', s) - CostOf(positions'[s]))
    BY DEF CashError, Owed, start
  <2>2. QED
    BY <1>7, <1>10, <1>11, <1>12, <2>1 DEF SlackOn
<1> HIDE DEF en, ef, spent, total, start, cost, pnl, buys, slack
<1>16. before \in Int /\ after \in Int /\ after - before = (en + ef) - spent /\ buys + slack \in Int
       /\ (buys + slack) + 1 = (buys + 1) + slack
  BY <1>2, <1>6, <1>12, <1>13
<1>17. Within(after - before, 1)
  BY <1>6, <1>16 DEF Within
<1> HIDE DEF before, after
<1>18. Within(after, (buys + slack) + 1)
  <2> DEFINE n == buys + slack
  <2>1. n \in Int /\ Within(before, n)
    BY <1>14, <1>16
  <2> HIDE DEF n
  <2>2. Within(after, n + 1)
    BY <1>16, <1>17, <2>1, WithinGrows
  <2>3. QED
    BY <2>2 DEF n
<1>19. QED
  BY <1>15, <1>16, <1>18

\* A market nothing was given to at the start never sells more than its open lots.
LEMMA SaleIsBacked ==
  ASSUME Invariant, ReservesConsistent, LotsConsistent, HoldingsMatch,
         NEW id \in OrderIds, orders[id].working, NEW s \in Symbols,
         orders[id].symbol = s, orders[id].side = "sell", StartBalance[Base[s]] = 0, Sole(s)
  PROVE  orders[id].quantity <= OpenQuantity(positions[s])
<1> DEFINE c == Base[s]
           q == orders[id].quantity
           open == OpenQuantity(positions[s])
<1>1. c \in Currencies /\ reserveCurrency(orders[id]) = c /\ paperReserveForOrder(orders[id]) = q
  BY MarketAssumption DEF reserveCurrency, paperReserveForOrder, paperReserveForRemaining
<1>2. q <= balances[c].locked
  BY <1>1, ReserveIsLocked
<1>3. Alone(s)
  BY DEF Alone, Sole
<1>4. Total(c) <= 0 + open
  BY <1>3 DEF HoldingsMatch
<1>5. balances[c] \in [available: Nat, locked: Nat] /\ orders[id] \in Order
  BY <1>1, WorkingHoldsItsReserve DEF Invariant, AccountTypeOK
<1>6. balances[c].available \in Nat /\ balances[c].locked \in Nat /\ q \in Nat
  BY <1>5 DEF Order
<1>7. open \in Nat
  BY OpenIsAhead DEF LotsConsistent
<1> HIDE DEF q, open
<1>8. q <= open
  BY <1>2, <1>4, <1>6, <1>7 DEF Total
<1>9. QED
  BY <1>8 DEF q, open

LEMMA CashSell ==
  ASSUME Invariant, ReservesConsistent, LotsConsistent, HoldingsMatch, Allocation,
         NEW id \in OrderIds, fillOrder(id),
         NEW s \in Symbols, orders[id].symbol = s, orders[id].side = "sell",
         StartBalance[Base[s]] = 0, Sole(s),
         Within(CashError(s), SlackOn(orders, closed, trades, s))
  PROVE  Within(CashError(s)', SlackOn(orders', closed', trades', s))
<1> DEFINE o == orders[id]
           c == Quote[s]
           lots == positions[s]
           trade == Fill(id, nextTrade, call.bar.end)
           q == trade.quantity
           cost == CostOf(lots)
           pnl == PnlOf(closed, s)
           slack == SlackOf(closed, trades, s)
           buys == Cardinality(BuysOn(orders, s))
           total == Total(c)
           start == StartBalance[c]
<1>1. c \in Currencies /\ c # Base[s]
  BY MarketAssumption
<1>2. total \in Nat /\ start \in Nat
  BY <1>1, TotalIsNat
<1>3. /\ trade \in Trade /\ q = o.quantity /\ q \in Nat /\ q > 0 /\ o.working
      /\ trades'[id] = <<trade>> /\ fillQuantity(o) = q
  <2>1. /\ trade \in Trade /\ q = o.quantity /\ q \in Nat /\ q > 0
    BY LotsSell
  <2>2. o.working /\ trades'[id] = <<trade>> /\ fillQuantity(o) = o.quantity
    BY FillBooks
  <2>3. QED
    BY <2>1, <2>2
<1>4. PICK full \in Nat, touched \in Nat : SaleStep(id, full, touched)
  BY SaleSteps
<1>5. /\ SalePlaces(lots, q, full, touched)
      /\ positions'[s] = LotsLeft(lots, q, full)
  BY <1>3, <1>4 DEF SaleStep
<1>6. Sized(lots) /\ trade.notional = Mul(trade.price, trade.quantity)
  <2>1. Sized(lots)
    BY DEF LotsConsistent
  <2>2. trade.notional = Mul(trade.price, trade.quantity)
    BY DEF Fill, fillNotional
  <2>3. QED
    BY <2>1, <2>2
<1>7. q <= OpenQuantity(lots)
  BY <1>3, SaleIsBacked
<1> DEFINE I == 1..touched
           xn == [i \in I |-> SaleDeal(lots, trade, i).exitNotional]
           xf == [i \in I |-> SaleDeal(lots, trade, i).exitFee]
           e == [i \in I |-> SaleDeal(lots, trade, i).entryNotional + SaleDeal(lots, trade, i).entryFee]
           X == SumFunctionOnSet(xn, I)
           F == SumFunctionOnSet(xf, I)
           C == SumFunctionOnSet(e, I)
           w == touched * (2 + Scale \div q)
           got == trade.notional - trade.fee
<1>8. Within(got - (X - F), w)
  <2> HIDE DEF trade, lots
  <2>1. QED
    BY <1>3, <1>5, <1>6, <1>7, SaleMoney
<1>9. C \in Int /\ CostOf(positions'[s]) = cost - C
  <2>1. \A i \in 1..touched : e[i] = SaleDeal(lots, trade, i).entryNotional
                                     + SaleDeal(lots, trade, i).entryFee
    OBVIOUS
  <2> HIDE DEF trade, lots, e
  <2>2. /\ C \in Int
        /\ CostOf(LotsLeft(lots, q, full)) = CostOf(lots) - C
    BY <1>3, <1>5, <1>6, <2>1, CostAfterSale
  <2>3. QED
    BY <1>5, <2>2
<1>10. /\ X \in Int /\ F \in Int /\ pnl \in Int
       /\ PnlOf(closed', s) = pnl + ((X - F) - C)
  <2>1. SaleParts(lots, trade, touched, xn, xf, e)
    BY DEF SaleParts
  <2>2. trade = Fill(id, nextTrade, call.bar.end)
    OBVIOUS
  <2> HIDE DEF trade, e, xn, xf
  <2> DEFINE r == orders[id].symbol
  <2>3. /\ trade \in Trade /\ trade.quantity = orders[id].quantity /\ trade.quantity > 0
        /\ SaleStep(id, full, touched)
    BY <1>3, <1>4
  <2>4. r = s /\ Sized(positions[r]) /\ SaleParts(positions[r], trade, touched, xn, xf, e)
    BY <1>6, <2>1
  <2>5. /\ SumFunctionOnSet(xn, 1..touched) \in Int /\ SumFunctionOnSet(xf, 1..touched) \in Int
        /\ SumFunctionOnSet(e, 1..touched) \in Int /\ PnlOf(closed, r) \in Int
        /\ PnlOf(closed', r) = PnlOf(closed, r)
             + (SumFunctionOnSet(xn, 1..touched) - SumFunctionOnSet(xf, 1..touched)
                - SumFunctionOnSet(e, 1..touched))
    <3>1. SaleReport(id, trade, full, touched, xn, xf, e)
      BY <2>2, <2>3, <2>4 DEF r, SaleReport
    <3> HIDE DEF q, lots, o, I
    <3>2. QED
      BY <3>1, PnlAfterSale
  <2>6. /\ X \in Int /\ F \in Int /\ C \in Int /\ pnl \in Int
        /\ PnlOf(closed', s) = pnl + (X - F - C)
    <3> HIDE DEF r
    <3>1. QED
      BY <2>4, <2>5
  <2> HIDE DEF X, F, C, pnl
  <2>7. QED
    BY <2>6
<1>11. /\ slack \in Int
       /\ SlackOf(closed', trades', s) = slack + w
  <2>1. \A k \in DOMAIN closed : /\ trades[closed[k].exit][1].quantity \in Nat
                                 /\ trades[closed[k].exit][1].quantity > 0
                                 /\ trades'[closed[k].exit] = trades[closed[k].exit]
    BY DealsAreSold, OldSalesStay
  <2> HIDE DEF trade
  <2>2. trades'[id][1].quantity = q
    BY <1>3
  <2> HIDE DEF q
  <2>3. /\ SlackOf(closed, trades, s) \in Int
        /\ SlackOf(closed', trades', s) = SlackOf(closed, trades, s) + touched * (2 + Scale \div q)
    BY <1>3, <1>4, <2>1, <2>2, SlackAfterSale
  <2>4. QED
    BY <2>3
<1>12. buys \in Nat /\ Cardinality(BuysOn(orders', s)) = buys
  <2>1. BuysOn(orders', s) = BuysOn(orders, s)
    BY BuysAfterFill
  <2>2. QED
    BY <2>1, BuysAreFinite
<1>13. got \in Int /\ Total(c)' = total + got
  <2>1. /\ c = creditCurrency(o) /\ c # reserveCurrency(o)
    BY <1>1 DEF reserveCurrency, creditCurrency
  <2>2. fillCredit(o) = got
    BY DEF fillCredit, Fill
  <2>3. fillCredit(o) \in Nat /\ Total(c)' = (Total(c) + fillCredit(o)) - 0
    BY <1>1, <2>1, TotalAfterFill
  <2> HIDE DEF got
  <2>4. QED
    BY <1>2, <2>2, <2>3
<1>14. cost \in Nat
  BY MarketIsInt
<1>15. w \in Int
  <2>1. Scale \in Nat
    BY AmountAssumption
  <2> DEFINE k == Scale \div q
  <2> HIDE DEF trade, q
  <2>2. k \in Int
    BY <1>3, <2>1
  <2> HIDE DEF k
  <2>3. touched * (2 + k) \in Int
    BY <2>2
  <2>4. QED
    BY <2>3 DEF k
<1> HIDE DEF X, F, C, w, got, e, xn, xf, I, trade, q
<1> DEFINE before == (total - start) - (pnl - cost)
           after == ((total + got) - start) - ((pnl + ((X - F) - C)) - (cost - C))
<1>16. CashError(s) = before /\ SlackOn(orders, closed, trades, s) = buys + slack
  BY DEF CashError, Owed, SlackOn
<1>17. CashError(s)' = after /\ SlackOn(orders', closed', trades', s) = buys + (slack + w)
  <2> HIDE DEF total, start, cost, pnl, buys, slack
  <2>1. CashError(s)' = (Total(c)' - start) - (PnlOf(closed', s) - CostOf(positions'[s]))
    BY DEF CashError, Owed, start
  <2>2. QED
    BY <1>9, <1>10, <1>11, <1>12, <1>13, <2>1 DEF SlackOn
<1> HIDE DEF total, start, cost, pnl, buys, slack
<1>18. before \in Int /\ after \in Int /\ after - before = got - (X - F) /\ buys + slack \in Int
       /\ (buys + slack) + w = buys + (slack + w)
  BY <1>2, <1>9, <1>10, <1>11, <1>12, <1>13, <1>14, <1>15
<1> HIDE DEF before, after
<1>19. Within(after, (buys + slack) + w)
  <2> DEFINE n == buys + slack
  <2>1. n \in Int /\ Within(before, n) /\ Within(after - before, w)
    BY <1>8, <1>16, <1>18
  <2> HIDE DEF n
  <2>2. Within(after, n + w)
    BY <1>15, <1>18, <2>1, WithinGrows
  <2>3. QED
    BY <2>2 DEF n
<1>20. QED
  BY <1>17, <1>18, <1>19

LEMMA CashStep ==
  /\ Invariant /\ ReservesConsistent /\ LotsConsistent /\ HoldingsMatch /\ Allocation
  /\ CashMatches /\ [Next]_vars
  => CashMatches'
<1> SUFFICES ASSUME Invariant, ReservesConsistent, LotsConsistent, HoldingsMatch, Allocation,
                    CashMatches, [Next]_vars,
                    NEW s \in Symbols, StartBalance[Base[s]] = 0, Sole(s)
             PROVE  Within(CashError(s)', SlackOn(orders', closed', trades', s))
  BY DEF CashMatches, CashError, Sole, Within, SlackOn, Owed, PnlOf, SlackOf, CostOf, BuysOn
<1>1. Within(CashError(s), SlackOn(orders, closed, trades, s))
  BY DEF CashMatches, CashError
<1>2. Quote[s] \in Currencies
  BY MarketAssumption
<1>3. CASE ~Filling
  <2>1. /\ UNCHANGED <<positions, closed, trades>>
        /\ \A id \in OrderIds : Filled(id) => orders'[id] = orders[id]
        /\ \A id \in OrderIds : orders'[id].status = "filled" => Filled(id)
    BY <1>3, LotsConsistentOther DEF Filling, Next, AdvanceOrder
  <2>2. Total(Quote[s])' = Total(Quote[s])
    BY <1>2, <1>3, TotalStays
  <2>3. CashError(s)' = CashError(s)
    BY <2>1, <2>2 DEF CashError
  <2>4. BuysOn(orders', s) = BuysOn(orders, s)
    BY <2>1 DEF BuysOn, FilledOn, Filled
  <2>5. QED
    BY <1>1, <2>1, <2>3, <2>4 DEF SlackOn
<1>4. ASSUME NEW id \in OrderIds, fillOrder(id)
      PROVE  Within(CashError(s)', SlackOn(orders', closed', trades', s))
  <2>1. orders[id].symbol \in Symbols /\ orders[id].side \in {"buy", "sell"}
    BY <1>4, FillBooks DEF Order, Sides
  <2>2. CASE orders[id].symbol # s
    <3>1. /\ Owed(closed', positions'[s], s) = Owed(closed, positions[s], s)
          /\ SlackOn(orders', closed', trades', s) = SlackOn(orders, closed, trades, s)
      BY <1>4, <2>2, FillElsewhere
    <3>2. Quote[s] # creditCurrency(orders[id]) /\ Quote[s] # reserveCurrency(orders[id])
      BY <2>1, <2>2 DEF Sole, creditCurrency, reserveCurrency
    <3>3. Total(Quote[s])' = (Total(Quote[s]) + 0) - 0 /\ Total(Quote[s]) \in Nat
      BY <1>2, <1>4, <3>2, TotalAfterFill, TotalIsNat
    <3>4. Total(Quote[s])' = Total(Quote[s])
      BY <3>3
    <3>5. CashError(s)' = CashError(s)
      BY <3>1, <3>4 DEF CashError
    <3>6. QED
      BY <1>1, <3>1, <3>5
  <2>3. CASE orders[id].symbol = s /\ orders[id].side = "buy"
    BY <1>1, <1>4, <2>3, CashBuy
  <2>4. CASE orders[id].symbol = s /\ orders[id].side = "sell"
    BY <1>1, <1>4, <2>4, CashSell
  <2>5. QED
    BY <2>1, <2>2, <2>3, <2>4
<1>5. QED
  BY <1>3, <1>4 DEF Filling

\* A filled buy is one trade.
LEMMA BuysCounted ==
  ASSUME Invariant, Allocation, NEW s \in Symbols
  PROVE  Cardinality({t \in AllTrades : t.symbol = s /\ t.side = "buy"}) = Cardinality(BuysOn(orders, s))
<1> DEFINE B == BuysOn(orders, s)
           m == [id \in B |-> trades[id][1]]
           T == {t \in AllTrades : t.symbol = s /\ t.side = "buy"}
<1>1. IsFiniteSet(B)
  BY BuysAreFinite
<1>2. \A id \in OrderIds : /\ DOMAIN trades[id] = 1..Len(trades[id])
                           /\ Len(trades[id]) = IF Filled(id) THEN 1 ELSE 0
  BY LenProperties DEF Invariant, AccountTypeOK, BooksConsistent
<1>3. \A id \in OrderIds : Filled(id) => /\ trades[id][1].order = id
                                         /\ trades[id][1].side = orders[id].side
                                         /\ trades[id][1].symbol = orders[id].symbol
  BY DEF Allocation, Booked
<1>4. ASSUME NEW id \in B PROVE m[id] \in T /\ m[id].order = id
  <2>1. id \in OrderIds /\ Filled(id) /\ orders[id].symbol = s /\ orders[id].side = "buy"
    BY DEF BuysOn, FilledOn, Filled
  <2>2. trades[id][1] \in AllTrades
    BY <1>2, <2>1 DEF AllTrades
  <2>3. m[id] = trades[id][1]
    OBVIOUS
  <2> HIDE DEF m, B
  <2>4. QED
    BY <1>3, <2>1, <2>2, <2>3
<1>5. ASSUME NEW t \in T PROVE \E id \in B : m[id] = t
  <2>1. PICK id \in OrderIds : \E i \in DOMAIN trades[id] : t = trades[id][i]
    BY DEF AllTrades
  <2>2. PICK i \in DOMAIN trades[id] : t = trades[id][i]
    BY <2>1
  <2>3. Filled(id) /\ i = 1
    <3>1. i \in 1..Len(trades[id]) /\ Len(trades[id]) = IF Filled(id) THEN 1 ELSE 0
      BY <1>2, <2>1, <2>2
    <3>2. QED
      BY <3>1
  <2>4. t.order = id /\ t.side = orders[id].side /\ t.symbol = orders[id].symbol
    BY <1>3, <2>1, <2>2, <2>3
  <2>5. id \in B
    BY <2>1, <2>3, <2>4 DEF BuysOn, FilledOn, Filled
  <2>6. QED
    BY <2>2, <2>3, <2>5
<1>6. \A x, y \in B : m[x] = m[y] => x = y
  BY <1>4
<1> HIDE DEF m, T, B
<1>7. Cardinality(T) = Cardinality(B)
  BY <1>1, <1>4, <1>5, <1>6, SameNumber
<1>8. QED
  BY <1>7 DEF T, B

\* What a market that has both its currencies to itself gained in cash is what
\* the realised trades report as profit, less what the open lots cost, to
\* within the rounding of its fills (closePositionLots).
THEOREM CashExplainsProfit == Spec => []RealizedPnLMatchesCash
<1>1. ASSUME Invariant, LotsConsistent, Allocation, CashMatches PROVE RealizedPnLMatchesCash
  <2> SUFFICES ASSUME NEW s \in Symbols, StartBalance[Base[s]] = 0, Sole(s)
               PROVE  LET pnl == SumClosed(LAMBDA c : c.symbol = s, LAMBDA c : c.pnl)
                          cost == SumLots(s, LAMBDA lot : lot.entryNotional + lot.entryFee)
                          error == Total(Quote[s]) - StartBalance[Quote[s]] - (pnl - cost)
                      IN  -RoundingSlack(s) <= error /\ error <= RoundingSlack(s)
    BY DEF RealizedPnLMatchesCash, Sole
  <2>1. Within((Total(Quote[s]) - StartBalance[Quote[s]]) - Owed(closed, positions[s], s),
               SlackOn(orders, closed, trades, s))
    BY <1>1 DEF CashMatches
  <2>2. SumClosed(LAMBDA c : c.symbol = s, LAMBDA c : c.pnl) = PnlOf(closed, s)
    BY DEF SumClosed, SumOver, PnlOf, DealsOn
  <2>3. SumLots(s, LAMBDA lot : lot.entryNotional + lot.entryFee) = CostOf(positions[s])
    BY DEF SumLots, SumOver, CostOf, CostOfLot
  <2>4. RoundingSlack(s) = SlackOn(orders, closed, trades, s)
    <3>1. SumClosed(LAMBDA c : c.symbol = s, LAMBDA c : 2 + Scale \div trades[c.exit][1].quantity)
            = SlackOf(closed, trades, s)
      BY DEF SumClosed, SumOver, SlackOf, DealsOn
    <3>2. QED
      BY <1>1, <3>1, BuysCounted DEF RoundingSlack, SlackOn
  <2>5. QED
    BY <2>1, <2>2, <2>3, <2>4 DEF Within, Owed
<1>2. /\ Invariant /\ ReservesConsistent /\ LotsConsistent /\ HoldingsMatch /\ Allocation
      /\ CashMatches /\ [Next]_vars
      => (ReservesConsistent /\ HoldingsMatch /\ CashMatches)'
  BY ReservesStep, HoldingsStep, CashStep
<1>3. Init => ReservesConsistent /\ HoldingsMatch /\ CashMatches
  BY ReservesInit, HoldingsInit, CashInit
<1>4. QED
  BY <1>1, <1>2, <1>3, AllocationHolds, PTL DEF Spec

-----------------------------------------------------------------------------
(* The books of a session fed by its source                                *)

\* Fed by batches of fixtures or of HTX's bars, skipped, abandoned or repeated
\* (AdvanceKLines), the books of a session and what is exported of it still
\* agree: reserves, lots, holdings, profit, trades and totals.
THEOREM ReplayBooksHold ==
  ReplaySpec => [](/\ LockedBacksWorkingOrders
                   /\ ClosesOldestLotFirst
                   /\ LotsMatchHoldings
                   /\ RealizedPnLMatchesCash
                   /\ TradesExplainBalances
                   /\ OpenTradesAreOpenLots
                   /\ ReadbackAgreesWithExport)
BY SourcesKeepSession, LockedIsReserved, OldestLotFirst, LotsBackHoldings, CashExplainsProfit,
   TradesExplain, OpenTradesCounted, ReadbackAgrees, PTL
=============================================================================

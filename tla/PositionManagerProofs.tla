------------------------ MODULE PositionManagerProofs ------------------------
(***************************************************************************)
(* What the position manager's stale view of its position may decide, for  *)
(* every quantity, minimum, number of orders and delay of fills.  The      *)
(* argument is about the trail of fills between the entity's view and the  *)
(* exchange: following it, a position's number never decreases, and grows  *)
(* wherever the position was closed.                                       *)
(***************************************************************************)
EXTENDS PositionManager, FoldTheorems, SequenceTheorems, TLAPS

Triggers == {"none", "set"}

Orders == [kind: {"open", "close", "reduce"}, delta: Int, stop: Triggers, current: BOOLEAN]
Fills == [delta: Int \ {0}, life: Nat]

Commands ==
  [pc: {"idle", "open", "wait"}, side: {"none", "buy", "sell"}, quantity: Int,
   stop: Triggers, wait: Nat, life: Nat, current: BOOLEAN]
Callbacks ==
  [pc: {"idle", "profit", "clean", "query", "check"}, seen: Nat, tries: Nat, stop: Triggers]
Positions == [base: Int, life: Nat, stop: Triggers]
Views == [base: Int, life: Nat, stop: Triggers, profit: Nat]
Events == [life: Nat, profit: Nat, whole: BOOLEAN]

ManagerTypeOK ==
  /\ exch \in Positions
  /\ queue \in Seq(Orders)
  /\ fills \in Seq(Fills)
  /\ local \in Views
  /\ cmd \in Commands
  /\ cmd.pc # "idle" => cmd.side # "none"
  /\ market \in Callbacks
  /\ announced \in Events
  /\ whole \in Nat

\* The position and its number after each of a sequence of fills.
Trail(f, from, to, after, lives) ==
  /\ after[0] = from.base /\ lives[0] = from.life
  /\ after[Len(f)] = to.base /\ lives[Len(f)] = to.life
  /\ \A i \in 1..Len(f) : after[i] = after[i - 1] + f[i].delta /\ lives[i] = f[i].life
  /\ \A i, j \in 0..Len(f) :
       i < j => lives[i] <= lives[j] /\ (after[i] = 0 => lives[i] < lives[j])

Leads(f, from, to) ==
  \E after \in [0..Len(f) -> Int], lives \in [0..Len(f) -> Nat] : Trail(f, from, to, after, lives)

\* The fills on their way lead from the entity's view to the exchange's.
ViewTrails == Leads(fills, local, exch)

\* A profit that is stored, or about to be, while the position that was seen
\* in an earlier k-line callback is still open is that position's.
ProfitKept ==
  /\ whole <= local.life
  /\ whole = local.life /\ ~IsClosed => local.profit = local.life
  /\ whole = local.life /\ ~IsClosed /\ market.pc = "profit" => market.seen = local.life
  /\ AnnouncedProfitIsItsOwn

\* While it waits, UpdatePosition's position has not been followed by an older
\* one; once it goes on, that position has ended at the exchange.
CloseAwaited ==
  /\ cmd.pc = "wait" => cmd.life <= local.life
  /\ cmd.pc = "open" /\ cmd.life # 0 =>
       /\ cmd.life <= exch.life
       /\ exch.base = 0 \/ cmd.life < exch.life

\* A position that is more than dust, in the other direction.
Opposed(base, delta) == Abs(base) >= MinQuantity /\ Flips(base, delta)

\* Only full closes are first in the queue, one of them of an opposed position.
ClosesFirst(q, base, n, delta) ==
  /\ \A j \in 1..n : q[j].kind = "close"
  /\ Opposed(base, delta) => \E j \in 1..n : Flips(base, q[j].delta)

\* What an order given with an up-to-date view still finds when its turn comes.
Prepared(q, base, i) ==
  q[i].current =>
    /\ q[i].kind = "open" => q[i].delta # 0 /\ ClosesFirst(q, base, i - 1, q[i].delta)
    /\ q[i].kind = "reduce" =>
         /\ i = 1
         /\ base > 0 => q[i].delta \in -base..0
         /\ base < 0 => q[i].delta \in 0..-base

OrdersPrepared ==
  /\ \A i \in 1..Len(queue) : Prepared(queue, exch.base, i)
  /\ cmd.pc = "open" /\ cmd.current =>
       ClosesFirst(queue, exch.base, Len(queue), Signed(cmd.side, 1))

ManagerInv ==
  ManagerTypeOK /\ ViewTrails /\ ProfitKept /\ CloseAwaited /\ OrdersPrepared

-----------------------------------------------------------------------------
(* Quantities                                                              *)

LEMMA AbsIsNat == \A n \in Int : Abs(n) \in Nat /\ (n # 0 => Abs(n) > 0)
BY DEF Abs

LEMMA DivisionIsInt == \A a \in Int, b \in Nat \ {0} : a \div b \in Int
OBVIOUS

LEMMA PartOf ==
  ASSUME NEW n \in Nat, NEW f \in 0..100
  PROVE  (n * f) \div 100 \in 0..n
<1>1. n * f \in Nat /\ n * f <= n * 100
  OBVIOUS
<1>2. QED
  BY <1>1

LEMMA WholeOf == \A n \in Nat : (n * 100) \div 100 = n
OBVIOUS

LEMMA FractionBounds ==
  ASSUME ManagerTypeOK, NEW close \in Closes, ~IsDust
  PROVE  closePercentage(close) \in Int /\ closePercentage(close) <= 100
<1>1. close.value \in Nat /\ Abs(local.base) \in Nat \ {0}
  <2>1. local.base \in Int
    BY DEF ManagerTypeOK, Views, Commands
  <2>2. QED
    BY <2>1, PositionAssumption, AbsIsNat DEF IsDust
<1>2. (close.value * 100) \div Abs(local.base) \in Int /\ close.value \div 100 \in Int
  BY <1>1, DivisionIsInt
<1>3. QED
  BY <1>1, <1>2 DEF closePercentage

LEMMA OrderTyped ==
  ASSUME NEW k \in {"open", "close", "reduce"}, NEW delta \in Int,
         NEW stop \in Triggers, NEW current \in BOOLEAN
  PROVE  LET order == Order(k, delta, stop, current)
         IN /\ order \in Orders
            /\ order.kind = k /\ order.delta = delta /\ order.current = current
BY DEF Order, Orders

LEMMA CloseOrderIs ==
  ASSUME ManagerTypeOK, NEW f \in 1..100, NEW current \in BOOLEAN, ~IsClosed
  PROVE  LET order == CloseOrder(f, current)
         IN /\ order \in Orders /\ order.current = current
            /\ order.kind = IF f = 100 THEN "close" ELSE "reduce"
            /\ local.base > 0 => order.delta \in -local.base..0
            /\ local.base < 0 => order.delta \in 0..-local.base
            /\ f = 100 => order.delta = -local.base
<1> DEFINE part == (Abs(local.base) * f) \div 100
           delta == -Signed(Side(local.base), part)
           k == IF f = 100 THEN "close" ELSE "reduce"
<1>1. local.base \in Int /\ local.base # 0 /\ Abs(local.base) \in Nat
  BY AbsIsNat DEF ManagerTypeOK, Views, IsClosed
<1>2. part \in 0..Abs(local.base) /\ (f = 100 => part = Abs(local.base))
  BY <1>1, PartOf, WholeOf
<1> HIDE DEF part
<1>3. /\ delta \in Int
      /\ local.base > 0 => delta \in -local.base..0
      /\ local.base < 0 => delta \in 0..-local.base
      /\ f = 100 => delta = -local.base
  BY <1>1, <1>2 DEF Signed, Side, Abs
<1>4. CloseOrder(f, current) = Order(k, delta, "none", current)
  BY DEF CloseOrder, part
<1>5. k \in {"open", "close", "reduce"}
  <2>1. CASE f = 100
    BY <2>1
  <2>2. CASE f # 100
    BY <2>2
  <2>3. QED
    BY <2>1, <2>2
<1> HIDE DEF delta, k
<1> DEFINE order == CloseOrder(f, current)
<1>6. order \in Orders /\ order.kind = k /\ order.delta = delta /\ order.current = current
  BY <1>3, <1>4, <1>5, OrderTyped DEF Triggers
<1> HIDE DEF order
<1>7. /\ order \in Orders /\ order.current = current
      /\ order.kind = IF f = 100 THEN "close" ELSE "reduce"
      /\ local.base > 0 => order.delta \in -local.base..0
      /\ local.base < 0 => order.delta \in 0..-local.base
      /\ f = 100 => order.delta = -local.base
  BY <1>3, <1>6 DEF k
<1>8. QED
  BY <1>7 DEF order

LEMMA QuantityIsInt ==
  ASSUME NEW side, NEW ratio \in Nat
  PROVE  calculateQuantity(side, ratio) \in Int
<1>1. QuoteQuantity \in Nat
  BY PositionAssumption
<1>2. (QuoteQuantity * ratio) \div 100 \in Int
  BY <1>1
<1>3. QED
  BY <1>1, <1>2 DEF calculateQuantity

-----------------------------------------------------------------------------
(* The trail                                                               *)

\* What the start of a trail tells of its end.
LEMMA TrailTells ==
  ASSUME NEW f \in Seq(Fills), NEW from, NEW to, Leads(f, from, to)
  PROVE  /\ from.life <= to.life
         /\ from.base = 0 => to.base = 0 \/ from.life < to.life
         /\ f = <<>> => from.base = to.base
<1>1. PICK after \in [0..Len(f) -> Int], lives \in [0..Len(f) -> Nat] :
        Trail(f, from, to, after, lives)
  BY DEF Leads
<1>2. Len(f) \in Nat
  BY LenProperties
<1>3. 0 \in 0..Len(f) /\ Len(f) \in 0..Len(f) /\ lives[0] \in Nat
  BY <1>2
<1>4. CASE Len(f) = 0
  BY <1>1, <1>3, <1>4 DEF Trail
<1>5. CASE Len(f) # 0
  <2>1. 0 < Len(f) /\ f # <<>>
    BY <1>2, <1>5
  <2>2. lives[0] <= lives[Len(f)] /\ (after[0] = 0 => lives[0] < lives[Len(f)])
    BY <1>1, <1>3, <2>1 DEF Trail
  <2>3. QED
    BY <1>1, <2>1, <2>2 DEF Trail
<1>6. QED
  BY <1>4, <1>5

\* Only numbers and quantities make a trail.
LEMMA SameTrail ==
  ASSUME NEW f, NEW from, NEW to, NEW from2, NEW to2, Leads(f, from, to),
         from2.base = from.base, from2.life = from.life,
         to2.base = to.base, to2.life = to.life
  PROVE  Leads(f, from2, to2)
BY DEF Leads, Trail

\* A fill at the exchange makes the trail longer.
LEMMA LongerTrail ==
  ASSUME NEW f \in Seq(Fills), NEW from, NEW to, NEW to2, Leads(f, from, to),
         NEW fill \in Fills, to.base \in Int, to.life \in Nat,
         to2.base = to.base + fill.delta, to2.life = fill.life,
         to.life <= fill.life, to.base = 0 => to.life < fill.life
  PROVE  Leads(Append(f, fill), from, to2)
<1> DEFINE n == Len(f)
           g == Append(f, fill)
<1>1. PICK after \in [0..n -> Int], lives \in [0..n -> Nat] :
        Trail(f, from, to, after, lives)
  BY DEF Leads
<1>2. n \in Nat /\ fill.life \in Nat /\ fill.delta \in Int
  BY LenProperties DEF Fills
<1>3. Len(g) = n + 1 /\ g[n + 1] = fill /\ \A i \in 1..n : g[i] = f[i]
  BY AppendProperties
<1>4. /\ after[0] = from.base /\ lives[0] = from.life
      /\ after[n] = to.base /\ lives[n] = to.life
      /\ \A i \in 1..n : after[i] = after[i - 1] + f[i].delta /\ lives[i] = f[i].life
      /\ \A i, j \in 0..n :
           i < j => lives[i] <= lives[j] /\ (after[i] = 0 => lives[i] < lives[j])
  BY <1>1 DEF Trail
<1> HIDE DEF n, g
<1> DEFINE after2 == [i \in 0..(n + 1) |-> IF i \in 0..n THEN after[i] ELSE to2.base]
           lives2 == [i \in 0..(n + 1) |-> IF i \in 0..n THEN lives[i] ELSE to2.life]
<1>5. /\ after2 \in [0..(n + 1) -> Int] /\ \A i \in 0..n : after2[i] = after[i]
      /\ after2[n + 1] = to2.base
  BY <1>1, <1>2, SMTT(30)
<1>6. /\ lives2 \in [0..(n + 1) -> Nat] /\ \A i \in 0..n : lives2[i] = lives[i]
      /\ lives2[n + 1] = to2.life
  BY <1>1, <1>2
<1> HIDE DEF after2, lives2
<1>7. 0 \in 0..n /\ n \in 0..n
  BY <1>2
<1>8. ASSUME NEW i \in 1..(n + 1)
      PROVE  after2[i] = after2[i - 1] + g[i].delta /\ lives2[i] = g[i].life
  <2>1. CASE i = n + 1
    <3>1. i - 1 = n
      BY <1>2, <2>1
    <3>2. QED
      BY <1>3, <1>4, <1>5, <1>6, <1>7, <2>1, <3>1
  <2>2. CASE i # n + 1
    <3>1. i \in 1..n /\ i \in 0..n /\ i - 1 \in 0..n
      BY <1>2, <2>2
    <3>2. QED
      BY <1>3, <1>4, <1>5, <1>6, <3>1
  <2>3. QED
    BY <2>1, <2>2
<1>9. ASSUME NEW i \in 0..(n + 1), NEW j \in 0..(n + 1), i < j
      PROVE  lives2[i] <= lives2[j] /\ (after2[i] = 0 => lives2[i] < lives2[j])
  <2>1. i \in 0..n /\ lives[i] \in Nat
    BY <1>1, <1>2, <1>9
  <2>2. CASE j \in 0..n
    BY <1>4, <1>5, <1>6, <1>9, <2>1, <2>2
  <2>3. CASE j \notin 0..n
    <3>1. j = n + 1
      BY <1>2, <2>3
    <3>2. CASE i = n
      BY <1>4, <1>5, <1>6, <2>1, <3>1, <3>2
    <3>3. CASE i # n
      <4>1. i < n
        BY <1>2, <2>1, <3>3
      <4>2. lives[i] <= to.life /\ (after[i] = 0 => lives[i] < to.life)
        BY <1>4, <1>7, <2>1, <4>1
      <4>3. QED
        BY <1>2, <1>5, <1>6, <2>1, <3>1, <4>2, SMTT(30)
    <3>4. QED
      BY <3>2, <3>3
  <2>4. QED
    BY <2>2, <2>3
<1>10. after2[0] = from.base /\ lives2[0] = from.life
  BY <1>4, <1>5, <1>6, <1>7
<1>11. Trail(g, from, to2, after2, lives2)
  BY <1>3, <1>5, <1>6, <1>8, <1>9, <1>10 DEF Trail
<1>12. Leads(g, from, to2)
  BY <1>3, <1>5, <1>6, <1>11 DEF Leads
<1>13. QED
  BY <1>12 DEF g

\* A fill that reaches the entity makes it shorter.
LEMMA ShorterTrail ==
  ASSUME NEW f \in Seq(Fills), f # <<>>, NEW from, NEW to, NEW from2, Leads(f, from, to),
         from2.base = from.base + Head(f).delta, from2.life = Head(f).life
  PROVE  /\ Leads(Tail(f), from2, to)
         /\ from.life <= from2.life
         /\ from.base = 0 => from.life < from2.life
<1> DEFINE n == Len(f)
           g == Tail(f)
<1>1. PICK after \in [0..n -> Int], lives \in [0..n -> Nat] :
        Trail(f, from, to, after, lives)
  BY DEF Leads
<1>2. n \in Nat \ {0} /\ Head(f) = f[1]
  BY EmptySeq
<1>3. g \in Seq(Fills) /\ Len(g) = n - 1 /\ \A i \in 1..(n - 1) : g[i] = f[i + 1]
  BY HeadTailProperties
<1>4. /\ after[0] = from.base /\ lives[0] = from.life
      /\ after[n] = to.base /\ lives[n] = to.life
      /\ \A i \in 1..n : after[i] = after[i - 1] + f[i].delta /\ lives[i] = f[i].life
      /\ \A i, j \in 0..n :
           i < j => lives[i] <= lives[j] /\ (after[i] = 0 => lives[i] < lives[j])
  BY <1>1 DEF Trail
<1> HIDE DEF n, g
<1> DEFINE after2 == [i \in 0..(n - 1) |-> after[i + 1]]
           lives2 == [i \in 0..(n - 1) |-> lives[i + 1]]
<1>5. \A i \in 0..(n - 1) : i + 1 \in 0..n /\ i + 1 \in 1..n
  BY <1>2
<1>6. /\ after2 \in [0..(n - 1) -> Int] /\ \A i \in 0..(n - 1) : after2[i] = after[i + 1]
      /\ lives2 \in [0..(n - 1) -> Nat] /\ \A i \in 0..(n - 1) : lives2[i] = lives[i + 1]
  BY <1>1, <1>5
<1> HIDE DEF after2, lives2
<1>7. 0 \in 0..(n - 1) /\ n - 1 \in 0..(n - 1) /\ 1 \in 1..n /\ 1 \in 0..n /\ 0 \in 0..n
      /\ 0 + 1 = 1 /\ 1 - 1 = 0 /\ (n - 1) + 1 = n
  BY <1>2
<1>8. after[1] = from2.base /\ lives[1] = from2.life
  BY <1>2, <1>4, <1>7
<1>9. after2[0] = from2.base /\ lives2[0] = from2.life
      /\ after2[n - 1] = to.base /\ lives2[n - 1] = to.life
  BY <1>4, <1>6, <1>7, <1>8
<1>10. ASSUME NEW i \in 1..(n - 1)
       PROVE  after2[i] = after2[i - 1] + g[i].delta /\ lives2[i] = g[i].life
  <2>1. i \in 0..(n - 1) /\ i - 1 \in 0..(n - 1) /\ i + 1 \in 1..n
        /\ (i - 1) + 1 = i /\ (i + 1) - 1 = i
    BY <1>2
  <2>2. after[i + 1] = after[i] + f[i + 1].delta /\ lives[i + 1] = f[i + 1].life
    BY <1>4, <2>1
  <2>3. QED
    BY <1>3, <1>6, <2>1, <2>2
<1>11. ASSUME NEW i \in 0..(n - 1), NEW j \in 0..(n - 1), i < j
       PROVE  lives2[i] <= lives2[j] /\ (after2[i] = 0 => lives2[i] < lives2[j])
  <2>1. i + 1 \in 0..n /\ j + 1 \in 0..n /\ i + 1 < j + 1
    BY <1>2, <1>11
  <2>2. QED
    BY <1>4, <1>6, <2>1
<1>12. Leads(g, from2, to)
  <2>1. Trail(g, from2, to, after2, lives2)
    BY <1>3, <1>9, <1>10, <1>11 DEF Trail
  <2>2. QED
    BY <1>3, <1>6, <2>1 DEF Leads
<1>13. from.life <= from2.life /\ (from.base = 0 => from.life < from2.life)
  BY <1>4, <1>7, <1>8
<1>14. QED
  BY <1>12, <1>13 DEF g

-----------------------------------------------------------------------------
(* Types                                                                   *)

LEMMA ParseTyped == \A side, stop : ParseStop(side, stop) \in Triggers
BY DEF ParseStop, Triggers

LEMMA CurrentTyped == Current \in BOOLEAN
BY DEF Current

LEMMA NoCommandTyped == NoCommand \in Commands /\ NoCommand.pc = "idle"
BY DEF NoCommand, Commands, Triggers

LEMMA OpeningTyped ==
  ASSUME NEW side \in {"buy", "sell"}, NEW ratio \in Nat, NEW stop \in Triggers,
         NEW life \in Nat, NEW current \in BOOLEAN
  PROVE  LET opening == Opening(side, ratio, stop, life, current)
         IN /\ opening \in Commands
            /\ opening.pc = "open" /\ opening.side = side
            /\ opening.life = life /\ opening.current = current
<1> DEFINE quantity == calculateQuantity(side, ratio)
<1>1. quantity \in Int
  BY QuantityIsInt
<1>2. Opening(side, ratio, stop, life, current) =
        [NoCommand EXCEPT !.pc = "open", !.side = side, !.quantity = quantity,
                          !.stop = stop, !.life = life, !.current = current]
  BY DEF Opening
<1>3. Opening(side, ratio, stop, life, current) =
        [pc |-> "open", side |-> side, quantity |-> quantity, stop |-> stop, wait |-> 0,
         life |-> life, current |-> current]
  BY <1>2 DEF NoCommand
<1> HIDE DEF quantity
<1> DEFINE opening == Opening(side, ratio, stop, life, current)
<1>4. /\ opening.pc = "open" /\ opening.side = side
      /\ opening.life = life /\ opening.current = current
  BY <1>3
<1>5. opening \in Commands
  BY <1>1, <1>3 DEF Commands
<1>6. QED
  BY <1>4, <1>5

\* An order goes to the end of the exchange's queue.
LEMMA Queued ==
  ASSUME ManagerTypeOK, NEW order \in Orders, Taken(order)
  PROVE  /\ queue' \in Seq(Orders) /\ Len(queue') = Len(queue) + 1
         /\ \A i \in 1..Len(queue) : queue'[i] = queue[i]
         /\ queue'[Len(queue) + 1] = order
BY AppendProperties DEF ManagerTypeOK, Taken

LEMMA CloseQueued ==
  ASSUME ManagerTypeOK, NEW f \in 1..100, NEW current \in BOOLEAN, ~CloseRefused(f),
         Taken(CloseOrder(f, current))
  PROVE  /\ queue' \in Seq(Orders) /\ Len(queue') = Len(queue) + 1
         /\ \A i \in 1..Len(queue) : queue'[i] = queue[i]
         /\ queue'[Len(queue) + 1] = CloseOrder(f, current)
         /\ CloseOrder(f, current) \in Orders /\ ~IsClosed
<1>1. ~IsClosed
  BY DEF CloseRefused
<1>2. CloseOrder(f, current) \in Orders
  BY <1>1, CloseOrderIs
<1>3. QED
  BY <1>1, <1>2, Queued

LEMMA OpenTyped ==
  ASSUME ManagerTypeOK, cmd.pc = "open", cmd.quantity >= MinQuantity
  PROVE  LET order == Order("open", Signed(cmd.side, cmd.quantity), cmd.stop, cmd.current)
         IN /\ order \in Orders /\ order.kind = "open" /\ order.current = cmd.current
            /\ order.delta = Signed(cmd.side, cmd.quantity) /\ order.delta # 0
<1>1. cmd.quantity \in Int /\ cmd.quantity > 0 /\ cmd.stop \in Triggers /\ cmd.current \in BOOLEAN
  <2>1. cmd.quantity \in Int /\ cmd.stop \in Triggers /\ cmd.current \in BOOLEAN
    BY DEF ManagerTypeOK, Views, Commands
  <2>2. QED
    BY <2>1, PositionAssumption
<1>2. Signed(cmd.side, cmd.quantity) \in Int /\ Signed(cmd.side, cmd.quantity) # 0
  BY <1>1 DEF Signed
<1>3. QED
  BY <1>1, <1>2, OrderTyped

LEMMA ManagerInit == Init => ManagerInv
<1> SUFFICES ASSUME Init PROVE ManagerInv
  OBVIOUS
<1>1. /\ exch = [base |-> 0, life |-> 0, stop |-> "none"]
      /\ local = [base |-> 0, life |-> 0, stop |-> "none", profit |-> 0]
      /\ queue = <<>> /\ fills = <<>> /\ cmd = NoCommand /\ market = NoCallback
      /\ announced = NoEvent /\ whole = 0
  BY DEF Init
<1>2. ManagerTypeOK
  <2>1. queue \in Seq(Orders) /\ fills \in Seq(Fills)
    BY <1>1, EmptySeq
  <2>2. cmd \in Commands /\ cmd.pc = "idle"
    BY <1>1, NoCommandTyped
  <2>3. exch \in Positions
        /\ local \in Views
    BY <1>1 DEF Positions, Views, Triggers
  <2>4. announced \in Events /\ whole \in Nat
    BY <1>1 DEF NoEvent, Events
  <2>5. market \in Callbacks
    BY <1>1 DEF NoCallback, Callbacks, Triggers
  <2>6. QED
    BY <2>1, <2>2, <2>3, <2>4, <2>5 DEF ManagerTypeOK
<1>3. ViewTrails
  <2> DEFINE none == [i \in 0..0 |-> 0]
  <2>1. Len(fills) = 0 /\ none[0] = 0 /\ none \in [0..0 -> Int] /\ none \in [0..0 -> Nat]
    BY <1>1, EmptySeq
  <2> HIDE DEF none
  <2>2. Trail(fills, local, exch, none, none)
    BY <1>1, <2>1 DEF Trail
  <2>3. QED
    BY <2>1, <2>2 DEF ViewTrails, Leads
<1>4. ProfitKept
  BY <1>1 DEF ProfitKept, IsClosed, AnnouncedProfitIsItsOwn, NoEvent
<1>5. CloseAwaited
  BY <1>1, NoCommandTyped DEF CloseAwaited
<1>6. OrdersPrepared
  BY <1>1, NoCommandTyped, EmptySeq DEF OrdersPrepared
<1>7. QED
  BY <1>2, <1>3, <1>4, <1>5, <1>6 DEF ManagerInv

-----------------------------------------------------------------------------
(* What the steps with two cases do                                        *)

LEMMA ExecuteDoes ==
  ASSUME ManagerTypeOK, Execute
  PROVE  /\ queue # <<>> /\ Head(queue) \in Orders
         /\ queue' = Tail(queue) /\ queue' \in Seq(Orders)
         /\ Executed(Head(queue)) \in Int
         /\ \/ Executed(Head(queue)) = 0 /\ UNCHANGED <<exch, fills>>
            \/ \E fill \in Fills :
                 /\ fill.delta = Executed(Head(queue)) /\ fill.life = exch'.life
                 /\ fills' = Append(fills, fill)
                 /\ exch' \in Positions /\ exch'.base = exch.base + fill.delta
                 /\ exch.life <= fill.life /\ (exch.base = 0 => exch.life < fill.life)
<1> DEFINE order == Head(queue)
           delta == Executed(order)
           after == exch.base + delta
           new == exch.base = 0 \/ Flips(exch.base, after)
           life == IF new THEN exch.life + 1 ELSE exch.life
           stop == IF after = 0 THEN "none" ELSE IF new THEN order.stop ELSE exch.stop
<1>1. /\ queue # <<>> /\ queue' = Tail(queue)
      /\ IF delta = 0 THEN UNCHANGED <<exch, fills>>
         ELSE /\ exch' = [base |-> after, life |-> life, stop |-> stop]
              /\ fills' = Append(fills, [delta |-> delta, life |-> exch'.life])
  BY DEF Execute
<1>2. order \in Orders /\ queue' \in Seq(Orders)
  BY <1>1, HeadTailProperties DEF ManagerTypeOK
<1>3. exch.base \in Int /\ exch.life \in Nat /\ exch.stop \in Triggers
  BY DEF ManagerTypeOK, Positions
<1>4. order.delta \in Int /\ order.stop \in Triggers
  BY <1>2 DEF Orders
<1>5. delta \in Int
  BY <1>3, <1>4 DEF Executed
<1> HIDE DEF order, delta
<1>6. after \in Int /\ life \in Nat /\ stop \in Triggers
      /\ exch.life <= life /\ (exch.base = 0 => exch.life < life)
  BY <1>3, <1>4, <1>5 DEF Triggers
<1> HIDE DEF life, stop
<1>7. CASE delta # 0
  <2> DEFINE fill == [delta |-> delta, life |-> life]
  <2>1. exch' = [base |-> after, life |-> life, stop |-> stop]
    BY <1>1, <1>7
  <2>2. exch'.life = life /\ exch'.base = after /\ exch' \in Positions
    BY <1>6, <2>1 DEF Positions
  <2>3. fills' = Append(fills, fill)
    BY <1>1, <1>7, <2>2
  <2>4. fill \in Fills /\ fill.delta = delta /\ fill.life = life
    BY <1>5, <1>6, <1>7 DEF Fills
  <2> HIDE DEF fill
  <2>5. QED
    BY <1>1, <1>2, <1>5, <1>6, <2>2, <2>3, <2>4 DEF delta, order
<1>8. CASE delta = 0
  BY <1>1, <1>2, <1>5, <1>8 DEF delta, order
<1>9. QED
  BY <1>7, <1>8

LEMMA UpdateDoes ==
  ASSUME ManagerTypeOK, PositionUpdate
  PROVE  /\ fills # <<>> /\ Head(fills) \in Fills
         /\ fills' = Tail(fills) /\ fills' \in Seq(Fills)
         /\ local' \in Views /\ local'.base = local.base + Head(fills).delta
         /\ local'.life = Head(fills).life /\ local'.profit = local.profit
         /\ announced' \in Events
         /\ announced' = announced \/
              /\ local.base # 0
              /\ announced' = [life |-> local.life, profit |-> local.profit,
                               whole |-> whole = local.life]
         /\ UNCHANGED <<exch, queue, cmd, market, whole>>
<1> DEFINE fill == Head(fills)
<1>1. /\ fills # <<>> /\ fills' = Tail(fills)
      /\ local' = [local EXCEPT !.base = @ + fill.delta, !.life = fill.life]
      /\ announced' = IF local.base + fill.delta = 0
                      THEN [life |-> local.life, profit |-> local.profit,
                            whole |-> whole = local.life]
                      ELSE announced
      /\ UNCHANGED <<exch, queue, cmd, market, whole>>
  BY DEF PositionUpdate
<1>2. fill \in Fills /\ fills' \in Seq(Fills)
  BY <1>1, HeadTailProperties DEF ManagerTypeOK
<1>3. fill.delta \in Int \ {0} /\ fill.life \in Nat
  BY <1>2 DEF Fills
<1>4. local \in Views /\ local.base \in Int /\ announced \in Events
  BY DEF ManagerTypeOK, Views
<1> HIDE DEF fill
<1> DEFINE base == local.base + fill.delta
<1>5. local' \in Views /\ local'.base = base /\ local'.life = fill.life
      /\ local'.profit = local.profit
  <2>1. base \in Int
    BY <1>3, <1>4
  <2>2. local' = [local EXCEPT !.base = base, !.life = fill.life]
    BY <1>1
  <2> HIDE DEF base
  <2>3. QED
    BY <1>3, <1>4, <2>1, <2>2 DEF Views
<1>6. [life |-> local.life, profit |-> local.profit, whole |-> whole = local.life] \in Events
  BY <1>4 DEF Views, Events
<1>7. announced' = announced \/
        /\ local.base # 0
        /\ announced' = [life |-> local.life, profit |-> local.profit,
                         whole |-> whole = local.life]
  BY <1>1, <1>3, <1>4
<1>8. announced' \in Events
  BY <1>4, <1>6, <1>7
<1>9. QED
  BY <1>1, <1>2, <1>5, <1>7, <1>8 DEF fill

LEMMA CloseCommandDoes ==
  ASSUME ManagerTypeOK, NEW close \in Closes, CloseCommand(close)
  PROVE  \E f \in 1..100 : ~CloseRefused(f) /\ Taken(CloseOrder(f, Current))
<1>1. ~IsDust /\ closePercentage(close) > 0
  BY DEF CloseCommand
<1>2. closePercentage(close) \in 1..100
  BY <1>1, FractionBounds
<1>3. QED
  BY <1>2 DEF CloseCommand

\* The command UpdatePosition leaves waiting.
LEMMA UpdatePositionDoes ==
  ASSUME ManagerTypeOK, NEW stop \in Stops, UpdatePosition(stop)
  PROVE  /\ cmd' \in Commands /\ cmd'.pc = "wait" /\ cmd'.side # "none"
         /\ cmd'.life = local.life
         /\ ~CloseRefused(100) /\ Taken(CloseOrder(100, Current))
<1> DEFINE side == Side(local.base)
           parsed == ParseStop("self", stop)
<1>1. parsed \in Triggers /\ local.life \in Nat
  BY ParseTyped DEF ManagerTypeOK, Views
<1>2. side \in {"buy", "sell"}
  BY DEF Side
<1>3. cmd' = [NoCommand EXCEPT !.pc = "wait", !.side = side, !.stop = parsed,
                               !.life = local.life]
  BY DEF UpdatePosition
<1> HIDE DEF side, parsed
<1>4. cmd' = [pc |-> "wait", side |-> side, quantity |-> 0, stop |-> parsed, wait |-> 0,
              life |-> local.life, current |-> FALSE]
  BY <1>3 DEF NoCommand
<1>5. cmd' \in Commands /\ cmd'.pc = "wait" /\ cmd'.side # "none" /\ cmd'.life = local.life
  BY <1>1, <1>2, <1>4 DEF Commands
<1>6. QED
  BY <1>5 DEF UpdatePosition

\* The side and the life of a command never change while it runs.
LEMMA SubmitOpenDoes ==
  ASSUME ManagerTypeOK, SubmitOpen
  PROVE  \/ cmd' = NoCommand /\ UNCHANGED <<queue, sent>>
         \/ /\ cmd' \in Commands /\ cmd'.pc = "open" /\ cmd'.side = cmd.side
            /\ cmd'.life = cmd.life /\ cmd'.current = cmd.current
            /\ UNCHANGED <<queue, sent>>
         \/ /\ cmd' = NoCommand /\ cmd.quantity >= MinQuantity
            /\ Taken(Order("open", Signed(cmd.side, cmd.quantity), cmd.stop, cmd.current))
<1>1. ASSUME cmd' = [cmd EXCEPT !.quantity = Reduced(@)]
      PROVE  /\ cmd' \in Commands /\ cmd'.pc = "open" /\ cmd'.side = cmd.side
             /\ cmd'.life = cmd.life /\ cmd'.current = cmd.current
  <2> DEFINE quantity == Reduced(cmd.quantity)
  <2>1. cmd \in Commands /\ cmd.pc = "open" /\ cmd.quantity \in Int
    BY DEF ManagerTypeOK, Commands, SubmitOpen
  <2>2. quantity \in Int
    BY <2>1 DEF Reduced
  <2>3. cmd' = [cmd EXCEPT !.quantity = quantity]
    BY <1>1
  <2> HIDE DEF quantity
  <2>4. QED
    BY <2>1, <2>2, <2>3 DEF Commands
<1>2. MinQuantity \in Int /\ Funds \in Int
  BY PositionAssumption
<1>3. QED
  BY <1>1, <1>2 DEF SubmitOpen

LEMMA WaitForCloseDoes ==
  ASSUME ManagerTypeOK, WaitForClose
  PROVE  \/ cmd' = NoCommand
         \/ /\ cmd' \in Commands /\ cmd'.pc = "wait" /\ cmd'.side # "none"
            /\ cmd'.life = cmd.life
         \/ /\ IsClosed /\ cmd' \in Commands /\ cmd'.pc = "open" /\ cmd'.side # "none"
            /\ cmd'.life = cmd.life /\ cmd'.current = FALSE
<1>1. /\ cmd \in Commands /\ cmd.pc = "wait" /\ cmd.side \in {"buy", "sell"}
      /\ cmd.life \in Nat /\ cmd.stop \in Triggers /\ cmd.wait \in Nat
  BY DEF WaitForClose, ManagerTypeOK, Commands
<1>2. ASSUME cmd' = Opening(cmd.side, 0, cmd.stop, cmd.life, FALSE)
      PROVE  /\ cmd' \in Commands /\ cmd'.pc = "open" /\ cmd'.side # "none"
             /\ cmd'.life = cmd.life /\ cmd'.current = FALSE
  <2> DEFINE quantity == calculateQuantity(cmd.side, 0)
  <2>1. quantity \in Int
    BY QuantityIsInt
  <2>2. cmd' = [NoCommand EXCEPT !.pc = "open", !.side = cmd.side, !.quantity = quantity,
                                 !.stop = cmd.stop, !.life = cmd.life, !.current = FALSE]
    BY <1>2 DEF Opening
  <2> HIDE DEF quantity
  <2>3. cmd' = [pc |-> "open", side |-> cmd.side, quantity |-> quantity, stop |-> cmd.stop,
                wait |-> 0, life |-> cmd.life, current |-> FALSE]
    BY <2>2 DEF NoCommand
  <2>4. QED
    BY <1>1, <2>1, <2>3 DEF Commands
<1>3. ASSUME cmd' = [cmd EXCEPT !.wait = @ + 1]
      PROVE  /\ cmd' \in Commands /\ cmd'.pc = "wait" /\ cmd'.side # "none"
             /\ cmd'.life = cmd.life
  BY <1>1, <1>3 DEF Commands
<1>4. QED
  BY <1>2, <1>3 DEF WaitForClose, CloseIsSeen

LEMMA OpenCommandDoes ==
  ASSUME ManagerTypeOK, NEW side \in {"buy", "sell"}, NEW ratio \in Ratios, NEW stop \in Stops,
         OpenCommand(side, ratio, stop)
  PROVE  /\ cmd' \in Commands /\ cmd'.pc = "open" /\ cmd'.side = side
         /\ cmd'.life = 0 /\ cmd'.current = Current
         /\ \/ ClosesOpposite(side) /\ ~CloseRefused(100) /\ Taken(CloseOrder(100, Current))
            \/ ~ClosesOpposite(side) /\ UNCHANGED <<queue, sent>>
<1>1. ratio \in Nat /\ ParseStop(side, stop) \in Triggers /\ Current \in BOOLEAN /\ 0 \in Nat
  BY PositionAssumption, ParseTyped, CurrentTyped
<1>2. cmd' = Opening(side, ratio, ParseStop(side, stop), 0, Current)
  BY DEF OpenCommand
<1>3. cmd' \in Commands /\ cmd'.pc = "open" /\ cmd'.side = side
      /\ cmd'.life = 0 /\ cmd'.current = Current
  BY <1>1, <1>2, OpeningTyped
<1>4. QED
  BY <1>3 DEF OpenCommand

\* The market data callbacks.
LEMMA KLineDoes ==
  ASSUME ManagerTypeOK, KLineClosed
  PROVE  /\ market' \in Callbacks
         /\ market'.seen = IF IsClosed THEN 0 ELSE local.life
         /\ UNCHANGED <<exch, queue, fills, local, cmd, announced, whole>>
<1> DEFINE seen == IF IsClosed THEN 0 ELSE local.life
<1>1. seen \in Nat
  BY DEF ManagerTypeOK, Views
<1>2. market' = [NoCallback EXCEPT !.pc = "profit", !.seen = seen]
  BY DEF KLineClosed
<1> HIDE DEF seen
<1>3. market' = [pc |-> "profit", seen |-> seen, tries |-> 0, stop |-> "none"]
  BY <1>2 DEF NoCallback
<1>4. market' \in Callbacks /\ market'.seen = seen
  BY <1>1, <1>3 DEF Callbacks, Triggers
<1>5. QED
  BY <1>4 DEF KLineClosed, exchange, entity, seen

LEMMA CallbackDoes ==
  ASSUME ManagerTypeOK, StartClean \/ QueryPositionInfo \/ CheckTriggers
  PROVE  /\ market' \in Callbacks /\ market'.pc # "profit"
         /\ UNCHANGED <<exch, fills, local, cmd, announced, whole>>
         /\ queue' = queue \/ \E stale \in BOOLEAN :
              ~stale /\ ~CloseRefused(100) /\ Taken(CloseOrder(100, stale))
<1>1. market \in Callbacks /\ exch.stop \in Triggers /\ market.tries \in Nat
  BY DEF ManagerTypeOK, Callbacks, Positions
<1>2. NoCallback \in Callbacks /\ NoCallback.pc = "idle"
  BY DEF Callbacks, NoCallback, Triggers
<1>3. CASE StartClean
  <2>1. market' = [market EXCEPT !.pc = "query"] \/ market' = NoCallback
    BY <1>3 DEF StartClean
  <2>2. market' \in Callbacks /\ market'.pc # "profit"
    BY <1>1, <1>2, <2>1 DEF Callbacks
  <2>3. QED
    BY <1>3, <2>2 DEF StartClean, exchange, entity
<1>4. CASE QueryPositionInfo
  <2>1. market.pc = "query"
    BY <1>4 DEF QueryPositionInfo
  <2>2. ASSUME market' = [market EXCEPT !.pc = "check", !.stop = exch.stop]
        PROVE  market' \in Callbacks /\ market'.pc # "profit"
    BY <1>1, <2>2 DEF Callbacks
  <2>3. ASSUME market' = [market EXCEPT !.tries = @ + 1]
        PROVE  market' \in Callbacks /\ market'.pc # "profit"
    BY <1>1, <2>1, <2>3 DEF Callbacks
  <2>4. ASSUME market' = NoCallback
        PROVE  market' \in Callbacks /\ market'.pc # "profit"
    BY <1>2, <2>4
  <2>5. market' \in Callbacks /\ market'.pc # "profit"
    BY <1>4, <2>2, <2>3, <2>4 DEF QueryPositionInfo
  <2>6. QED
    BY <1>4, <2>5 DEF QueryPositionInfo, exchange, entity
<1>5. CASE CheckTriggers
  <2>1. queue' = queue \/ (~CloseRefused(100) /\ Taken(CloseOrder(100, FALSE)))
    BY <1>5 DEF CheckTriggers
  <2>2. queue' = queue \/ \E stale \in BOOLEAN :
          ~stale /\ ~CloseRefused(100) /\ Taken(CloseOrder(100, stale))
    BY <2>1, Zenon
  <2>3. QED
    BY <1>2, <1>5, <2>2 DEF CheckTriggers, entity
<1>6. QED
  BY <1>3, <1>4, <1>5

-----------------------------------------------------------------------------
(* The invariant                                                           *)

LEMMA NextTypes == ManagerInv /\ [Next]_vars => ManagerTypeOK'
<1> SUFFICES ASSUME ManagerInv, [Next]_vars PROVE ManagerTypeOK'
  OBVIOUS
<1>0. ManagerTypeOK
  BY DEF ManagerInv
<1>1. ASSUME NEW close \in Closes, CloseCommand(close) PROVE ManagerTypeOK'
  <2>1. PICK f \in 1..100 : ~CloseRefused(f) /\ Taken(CloseOrder(f, Current))
    BY <1>0, <1>1, CloseCommandDoes
  <2>2. queue' \in Seq(Orders)
    BY <1>0, <2>1, CloseQueued, CurrentTyped
  <2>3. QED
    BY <1>0, <1>1, <2>2 DEF CloseCommand, entity, ManagerTypeOK
<1>2. ASSUME NEW side \in {"buy", "sell"}, NEW ratio \in Ratios, NEW stop \in Stops,
             OpenCommand(side, ratio, stop)
      PROVE  ManagerTypeOK'
  <2>1. cmd' \in Commands /\ cmd'.side # "none"
        /\ (queue' = queue \/ (~CloseRefused(100) /\ Taken(CloseOrder(100, Current))))
    BY <1>0, <1>2, OpenCommandDoes
  <2>2. queue' \in Seq(Orders)
    BY <1>0, <2>1, CloseQueued, CurrentTyped DEF ManagerTypeOK
  <2>3. QED
    BY <1>0, <1>2, <2>1, <2>2 DEF OpenCommand, entity, ManagerTypeOK
<1>3. ASSUME NEW stop \in Stops, UpdatePositionV2(stop) PROVE ManagerTypeOK'
  <2>1. ParseStop("self", stop) \in Triggers /\ local \in Views /\ exch \in Positions
    BY <1>0, ParseTyped DEF ManagerTypeOK
  <2>2. local' \in Views
    BY <1>3, <2>1 DEF UpdatePositionV2, Views
  <2>3. exch' \in Positions
    BY <1>3, <2>1, <2>2 DEF UpdatePositionV2, Views, Positions
  <2>4. QED
    BY <1>0, <1>3, <2>2, <2>3 DEF UpdatePositionV2, ManagerTypeOK
<1>4. ASSUME NEW stop \in Stops, UpdatePosition(stop) PROVE ManagerTypeOK'
  <2>1. cmd' \in Commands /\ cmd'.side # "none"
        /\ ~CloseRefused(100) /\ Taken(CloseOrder(100, Current))
    BY <1>0, <1>4, UpdatePositionDoes
  <2>2. queue' \in Seq(Orders)
    BY <1>0, <2>1, CloseQueued, CurrentTyped
  <2>3. QED
    BY <1>0, <1>4, <2>1, <2>2 DEF UpdatePosition, entity, ManagerTypeOK
<1>5. ASSUME SubmitOpen PROVE ManagerTypeOK'
  <2>1. cmd.pc = "open" /\ cmd.side # "none"
    BY <1>0, <1>5 DEF SubmitOpen, ManagerTypeOK
  <2>2. cmd' \in Commands /\ (cmd'.pc # "idle" => cmd'.side # "none")
    BY <1>0, <1>5, <2>1, SubmitOpenDoes, NoCommandTyped
  <2>3. queue' \in Seq(Orders)
    BY <1>0, <1>5, <2>1, SubmitOpenDoes, OpenTyped, Queued DEF ManagerTypeOK
  <2>4. QED
    BY <1>0, <1>5, <2>2, <2>3 DEF SubmitOpen, entity, ManagerTypeOK
<1>6. ASSUME OpenFails \/ WaitForClose PROVE ManagerTypeOK'
  <2>1. cmd' \in Commands /\ (cmd'.pc # "idle" => cmd'.side # "none")
    BY <1>0, <1>6, WaitForCloseDoes, NoCommandTyped DEF OpenFails
  <2>2. QED
    BY <1>0, <1>6, <2>1 DEF OpenFails, WaitForClose, exchange, entity, ManagerTypeOK
<1>7. ASSUME KLineClosed PROVE ManagerTypeOK'
  BY <1>0, <1>7, KLineDoes DEF ManagerTypeOK
<1>8. ASSUME StartClean \/ QueryPositionInfo \/ CheckTriggers PROVE ManagerTypeOK'
  <2>1. queue' = queue \/ \E stale \in BOOLEAN :
          ~stale /\ ~CloseRefused(100) /\ Taken(CloseOrder(100, stale))
    BY <1>0, <1>8, CallbackDoes
  <2>2. queue' \in Seq(Orders)
    BY <1>0, <2>1, CloseQueued DEF ManagerTypeOK
  <2>3. QED
    BY <1>0, <1>8, <2>2, CallbackDoes DEF ManagerTypeOK
<1>9. ASSUME UpdateProfit PROVE ManagerTypeOK'
  <2>1. local \in Views /\ market \in Callbacks /\ market.seen \in Nat /\ local.life \in Nat
        /\ whole \in Nat
    BY <1>0 DEF ManagerTypeOK, Views, Callbacks
  <2>2. local' \in Views
    BY <1>9, <2>1 DEF UpdateProfit, UpdatedProfit, Views
  <2>3. market' \in Callbacks
    BY <1>9, <2>1 DEF UpdateProfit, Callbacks
  <2>4. whole' \in Nat
    BY <1>9, <2>1 DEF UpdateProfit
  <2>5. QED
    BY <1>0, <1>9, <2>2, <2>3, <2>4 DEF UpdateProfit, exchange, ManagerTypeOK
<1>10. ASSUME Execute PROVE ManagerTypeOK'
  <2>1. queue' \in Seq(Orders)
    BY <1>0, <1>10, ExecuteDoes
  <2>2. exch' \in Positions /\ fills' \in Seq(Fills)
    BY <1>0, <1>10, ExecuteDoes, AppendProperties DEF ManagerTypeOK
  <2>3. QED
    BY <1>0, <1>10, <2>1, <2>2 DEF Execute, entity, ManagerTypeOK
<1>11. ASSUME PositionUpdate PROVE ManagerTypeOK'
  BY <1>0, <1>11, UpdateDoes DEF ManagerTypeOK
<1>12. CASE UNCHANGED vars
  BY <1>0, <1>12 DEF vars, ManagerTypeOK
<1>13. QED
  BY <1>1, <1>2, <1>3, <1>4, <1>5, <1>6, <1>7, <1>8, <1>9, <1>10, <1>11, <1>12
     DEF Next, CommandStep, CallbackStep

\* Positions move only by an execution or a fill.
LEMMA PlacesKept ==
  ASSUME ManagerTypeOK, [Next]_vars, ~Execute, ~PositionUpdate
  PROVE  /\ fills' = fills
         /\ local'.base = local.base /\ local'.life = local.life
         /\ exch'.base = exch.base /\ exch'.life = exch.life
<1>1. local \in Views /\ exch \in Positions
  BY DEF ManagerTypeOK
<1>2. ASSUME NEW stop \in Stops, UpdatePositionV2(stop)
      PROVE  /\ fills' = fills
             /\ local'.base = local.base /\ local'.life = local.life
             /\ exch'.base = exch.base /\ exch'.life = exch.life
  BY <1>1, <1>2 DEF UpdatePositionV2, Views, Positions
<1>3. ASSUME UpdateProfit
      PROVE  /\ fills' = fills /\ exch' = exch
             /\ local'.base = local.base /\ local'.life = local.life
  BY <1>1, <1>3 DEF UpdateProfit, exchange, Views
<1>4. ASSUME NEW close \in Closes, CloseCommand(close)
      PROVE  UNCHANGED <<fills, local, exch>>
  BY <1>4 DEF CloseCommand, entity
<1>5. ASSUME NEW side \in {"buy", "sell"}, NEW ratio \in Ratios, NEW stop \in Stops,
             OpenCommand(side, ratio, stop)
      PROVE  UNCHANGED <<fills, local, exch>>
  BY <1>5 DEF OpenCommand, entity
<1>6. ASSUME NEW stop \in Stops, UpdatePosition(stop)
      PROVE  UNCHANGED <<fills, local, exch>>
  BY <1>6 DEF UpdatePosition, entity
<1>7. ASSUME CommandStep \/ KLineClosed
      PROVE  UNCHANGED <<fills, local, exch>>
  BY <1>7 DEF CommandStep, SubmitOpen, OpenFails, WaitForClose, KLineClosed, exchange, entity
<1>8. ASSUME StartClean \/ QueryPositionInfo \/ CheckTriggers
      PROVE  UNCHANGED <<fills, local, exch>>
  BY <1>8 DEF StartClean, QueryPositionInfo, CheckTriggers, exchange, entity
<1>9. CASE UNCHANGED vars
  BY <1>9 DEF vars
<1>10. QED
  BY <1>2, <1>3, <1>4, <1>5, <1>6, <1>7, <1>8, <1>9 DEF Next, CallbackStep

LEMMA NextTrails == ManagerInv /\ [Next]_vars => ViewTrails'
<1> SUFFICES ASSUME ManagerInv, [Next]_vars PROVE ViewTrails'
  OBVIOUS
<1>0. ManagerTypeOK /\ Leads(fills, local, exch) /\ fills \in Seq(Fills)
  BY DEF ManagerInv, ManagerTypeOK, ViewTrails
<1>1. CASE ~Execute /\ ~PositionUpdate
  <2>1. fills' = fills
        /\ local'.base = local.base /\ local'.life = local.life
        /\ exch'.base = exch.base /\ exch'.life = exch.life
    BY <1>0, <1>1, PlacesKept
  <2>2. Leads(fills, local', exch')
    BY <1>0, <2>1, SameTrail
  <2>3. QED
    BY <2>1, <2>2 DEF ViewTrails
<1>2. CASE Execute
  <2>1. local' = local
    BY <1>2 DEF Execute, entity
  <2>2. CASE UNCHANGED <<exch, fills>>
    BY <1>0, <2>1, <2>2 DEF ViewTrails
  <2>3. ASSUME NEW fill \in Fills, fill.life = exch'.life,
               fills' = Append(fills, fill), exch'.base = exch.base + fill.delta,
               exch.life <= fill.life, exch.base = 0 => exch.life < fill.life
        PROVE  ViewTrails'
    <3>1. exch.base \in Int /\ exch.life \in Nat
      BY <1>0 DEF ManagerTypeOK, Positions
    <3>2. Leads(Append(fills, fill), local, exch')
      BY <1>0, <2>3, <3>1, LongerTrail
    <3>3. QED
      BY <2>1, <2>3, <3>2 DEF ViewTrails
  <2>4. QED
    BY <1>0, <1>2, <2>2, <2>3, ExecuteDoes
<1>3. CASE PositionUpdate
  <2>1. /\ fills # <<>> /\ fills' = Tail(fills) /\ exch' = exch
        /\ local'.base = local.base + Head(fills).delta
        /\ local'.life = Head(fills).life
    BY <1>0, <1>3, UpdateDoes
  <2>2. Leads(Tail(fills), local', exch)
    BY <1>0, <2>1, ShorterTrail
  <2>3. QED
    BY <2>1, <2>2 DEF ViewTrails
<1>4. QED
  BY <1>1, <1>2, <1>3

LEMMA NextProfits == ManagerInv /\ [Next]_vars => ProfitKept'
<1> SUFFICES ASSUME ManagerInv, [Next]_vars PROVE ProfitKept'
  OBVIOUS
<1>0. /\ ManagerTypeOK /\ ProfitKept /\ Leads(fills, local, exch) /\ fills \in Seq(Fills)
      /\ whole \in Nat /\ local.life \in Nat /\ local.base \in Int
  BY DEF ManagerInv, ManagerTypeOK, ViewTrails, Views
<1>1. CASE PositionUpdate
  <2>1. /\ fills # <<>> /\ UNCHANGED <<market, whole>> /\ local' \in Views
        /\ local'.base = local.base + Head(fills).delta
        /\ local'.life = Head(fills).life /\ local'.profit = local.profit
        /\ announced' = announced \/
              /\ local.base # 0
              /\ announced' = [life |-> local.life, profit |-> local.profit,
                               whole |-> whole = local.life]
    BY <1>0, <1>1, UpdateDoes
  <2>2. local.life <= local'.life /\ (local.base = 0 => local.life < local'.life)
    BY <1>0, <2>1, ShorterTrail
  <2>3. local'.life \in Nat
    BY <2>1 DEF Views
  <2>4. whole' <= local'.life
    BY <1>0, <2>1, <2>2, <2>3 DEF ProfitKept
  <2>5. ASSUME whole' = local'.life
        PROVE  local.life = local'.life /\ whole = local.life /\ ~IsClosed
    BY <1>0, <2>1, <2>2, <2>3, <2>5 DEF ProfitKept, IsClosed
  <2>6. AnnouncedProfitIsItsOwn'
    <3>1. CASE announced' = announced
      BY <1>0, <3>1 DEF ProfitKept, AnnouncedProfitIsItsOwn
    <3>2. ASSUME local.base # 0,
                 announced' = [life |-> local.life, profit |-> local.profit,
                               whole |-> whole = local.life]
          PROVE  AnnouncedProfitIsItsOwn'
      <4>1. whole = local.life => local.profit = local.life
        BY <1>0, <3>2 DEF ProfitKept, IsClosed
      <4>2. QED
        BY <3>2, <4>1 DEF AnnouncedProfitIsItsOwn
    <3>3. QED
      BY <2>1, <3>1, <3>2
  <2>7. QED
    BY <1>0, <2>1, <2>4, <2>5, <2>6 DEF ProfitKept
<1>2. CASE UpdateProfit
  <2> DEFINE seen == market.seen
  <2>1. local \in Views /\ seen \in Nat /\ market.pc = "profit"
    BY <1>0, <1>2 DEF ManagerTypeOK, Callbacks, UpdateProfit
  <2>2. /\ local' = [local EXCEPT !.profit = seen] /\ announced' = announced
        /\ market' = [market EXCEPT !.pc = "clean"]
        /\ whole' = IF seen # 0 /\ ~IsClosed /\ seen = local.life THEN local.life ELSE whole
    BY <1>2 DEF UpdateProfit, UpdatedProfit
  <2>3. local'.base = local.base /\ local'.life = local.life /\ local'.profit = seen
    BY <2>1, <2>2 DEF Views
  <2>4. market'.pc = "clean"
    BY <1>0, <2>2 DEF ManagerTypeOK, Callbacks
  <2> HIDE DEF seen
  <2>5. whole' <= local'.life
    BY <1>0, <2>2, <2>3 DEF ProfitKept
  <2>6. whole' = local'.life /\ ~IsClosed' => local'.profit = local'.life
    BY <1>0, <2>1, <2>2, <2>3 DEF ProfitKept, IsClosed, seen
  <2>7. QED
    BY <1>0, <2>2, <2>4, <2>5, <2>6 DEF ProfitKept, AnnouncedProfitIsItsOwn
<1>3. ASSUME UNCHANGED <<announced, whole>>, local'.base = local.base,
             local'.life = local.life, local'.profit = local.profit,
             \/ market' = market \/ market'.pc # "profit"
             \/ market'.seen = IF IsClosed THEN 0 ELSE local.life
      PROVE  ProfitKept'
  BY <1>0, <1>3 DEF ProfitKept, AnnouncedProfitIsItsOwn, IsClosed
<1>4. CASE KLineClosed
  BY <1>0, <1>3, <1>4, KLineDoes
<1>5. CASE StartClean \/ QueryPositionInfo \/ CheckTriggers
  BY <1>0, <1>3, <1>5, CallbackDoes
<1>6. ASSUME NEW stop \in Stops, UpdatePositionV2(stop) PROVE ProfitKept'
  <2>1. local'.base = local.base /\ local'.life = local.life /\ local'.profit = local.profit
    BY <1>0, <1>6 DEF UpdatePositionV2, ManagerTypeOK, Views
  <2>2. QED
    BY <1>3, <1>6, <2>1 DEF UpdatePositionV2
<1>7. CASE Execute
  BY <1>3, <1>7 DEF Execute, entity
<1>8. ASSUME NEW close \in Closes, CloseCommand(close) PROVE ProfitKept'
  BY <1>3, <1>8 DEF CloseCommand, entity
<1>9. ASSUME NEW side \in {"buy", "sell"}, NEW ratio \in Ratios, NEW stop \in Stops,
             OpenCommand(side, ratio, stop)
      PROVE  ProfitKept'
  BY <1>3, <1>9 DEF OpenCommand, entity
<1>10. CASE CommandStep
  BY <1>3, <1>10 DEF CommandStep, SubmitOpen, OpenFails, WaitForClose, exchange, entity
<1>11. CASE UNCHANGED vars
  BY <1>3, <1>11 DEF vars
<1>12. ASSUME NEW stop \in Stops, UpdatePosition(stop) PROVE ProfitKept'
  BY <1>3, <1>12 DEF UpdatePosition, entity
<1>13. QED
  BY <1>1, <1>2, <1>4, <1>5, <1>6, <1>7, <1>8, <1>9, <1>10, <1>11, <1>12
     DEF Next, CallbackStep

LEMMA NextAwaits == ManagerInv /\ [Next]_vars => CloseAwaited'
<1> SUFFICES ASSUME ManagerInv, [Next]_vars PROVE CloseAwaited'
  OBVIOUS
<1>0. /\ ManagerTypeOK /\ CloseAwaited /\ Leads(fills, local, exch) /\ fills \in Seq(Fills)
      /\ exch.life \in Nat /\ local.life \in Nat /\ cmd.life \in Nat
  BY DEF ManagerInv, ManagerTypeOK, ViewTrails, Views, Positions, Commands
<1>1. CASE Execute
  <2>1. local' = local /\ cmd' = cmd
    BY <1>1 DEF Execute, entity
  <2>2. \/ exch' = exch
        \/ \E fill \in Fills : /\ fill.life = exch'.life /\ exch.life <= fill.life
                               /\ exch.base = 0 => exch.life < fill.life
    BY <1>0, <1>1, ExecuteDoes
  <2>3. CASE exch' = exch
    BY <1>0, <2>1, <2>3 DEF CloseAwaited
  <2>4. ASSUME NEW fill \in Fills, fill.life = exch'.life, exch.life <= fill.life,
               exch.base = 0 => exch.life < fill.life
        PROVE  CloseAwaited'
    <3>1. fill.life \in Nat
      BY DEF Fills
    <3>2. QED
      BY <1>0, <2>1, <2>4, <3>1 DEF CloseAwaited
  <2>5. QED
    BY <2>2, <2>3, <2>4
<1>2. CASE PositionUpdate
  <2>1. /\ fills # <<>> /\ UNCHANGED <<exch, cmd>> /\ local' \in Views
        /\ local'.base = local.base + Head(fills).delta /\ local'.life = Head(fills).life
    BY <1>0, <1>2, UpdateDoes
  <2>2. local.life <= local'.life
    BY <1>0, <2>1, ShorterTrail
  <2>3. local'.life \in Nat
    BY <2>1 DEF Views
  <2>4. QED
    BY <1>0, <2>1, <2>2, <2>3 DEF CloseAwaited
<1>3. CASE ~Execute /\ ~PositionUpdate
  <2>1. /\ local'.base = local.base /\ local'.life = local.life
        /\ exch'.base = exch.base /\ exch'.life = exch.life
    BY <1>0, <1>3, PlacesKept
  <2>2. CASE WaitForClose
    <3>1. cmd.life <= local.life
      BY <1>0, <2>2 DEF WaitForClose, CloseAwaited
    <3>2. local.life <= exch.life /\ (IsClosed => exch.base = 0 \/ local.life < exch.life)
      BY <1>0, TrailTells DEF IsClosed
    <3>3. \/ cmd'.pc = "idle"
          \/ cmd'.pc = "wait" /\ cmd'.life = cmd.life
          \/ cmd'.pc = "open" /\ cmd'.life = cmd.life /\ IsClosed
      BY <1>0, <2>2, WaitForCloseDoes, NoCommandTyped
    <3>4. cmd.life <= exch.life
          /\ (IsClosed => exch.base = 0 \/ cmd.life < exch.life)
      BY <1>0, <3>1, <3>2
    <3>5. QED
      BY <2>1, <3>1, <3>3, <3>4 DEF CloseAwaited
  <2>3. ASSUME NEW stop \in Stops, UpdatePosition(stop) PROVE CloseAwaited'
    BY <1>0, <2>1, <2>3, UpdatePositionDoes DEF CloseAwaited
  <2>4. ASSUME NEW side \in {"buy", "sell"}, NEW ratio \in Ratios, NEW stop \in Stops,
               OpenCommand(side, ratio, stop)
        PROVE  CloseAwaited'
    BY <1>0, <2>4, OpenCommandDoes DEF CloseAwaited
  <2>5. CASE SubmitOpen \/ OpenFails
    <3>1. cmd.pc = "open"
      BY <2>5 DEF SubmitOpen, OpenFails
    <3>2. cmd' = NoCommand \/ (cmd'.pc = "open" /\ cmd'.life = cmd.life)
      BY <1>0, <2>5, SubmitOpenDoes DEF OpenFails
    <3>3. QED
      BY <1>0, <2>1, <3>1, <3>2, NoCommandTyped DEF CloseAwaited
  <2>6. ASSUME cmd' = cmd PROVE CloseAwaited'
    BY <1>0, <2>1, <2>6 DEF CloseAwaited
  <2>7. CASE KLineClosed \/ CallbackStep
    BY <2>6, <2>7 DEF KLineClosed, CallbackStep, UpdateProfit, StartClean,
       QueryPositionInfo, CheckTriggers
  <2>8. ASSUME NEW close \in Closes, CloseCommand(close) PROVE CloseAwaited'
    BY <2>6, <2>8 DEF CloseCommand
  <2>9. ASSUME NEW stop \in Stops, UpdatePositionV2(stop) PROVE CloseAwaited'
    BY <2>6, <2>9 DEF UpdatePositionV2
  <2>10. CASE UNCHANGED vars
    BY <2>6, <2>10 DEF vars
  <2>11. QED
    BY <1>3, <2>2, <2>3, <2>4, <2>5, <2>7, <2>8, <2>9, <2>10 DEF Next, CommandStep
<1>4. QED
  BY <1>1, <1>2, <1>3

-----------------------------------------------------------------------------
(* Orders                                                                  *)

LEMMA AppendedKeeps ==
  ASSUME NEW q, NEW q2, NEW base, NEW n \in Nat, \A i \in 1..n : q2[i] = q[i]
  PROVE  /\ \A d : ClosesFirst(q, base, n, d) => ClosesFirst(q2, base, n, d)
         /\ \A i \in 1..n : Prepared(q, base, i) => Prepared(q2, base, i)
<1>1. ASSUME NEW m \in 0..n, NEW d, ClosesFirst(q, base, m, d)
      PROVE  ClosesFirst(q2, base, m, d)
  <2>1. \A j \in 1..m : j \in 1..n
    OBVIOUS
  <2>2. QED
    BY <1>1, <2>1 DEF ClosesFirst
<1>2. \A i \in 1..n : i - 1 \in 0..n
  OBVIOUS
<1>3. QED
  BY <1>1, <1>2 DEF Prepared

LEMMA CloseAppended ==
  ASSUME NEW q, NEW base, NEW n \in Nat, NEW d, ClosesFirst(q, base, n, d),
         q[n + 1].kind = "close"
  PROVE  ClosesFirst(q, base, n + 1, d)
<1>1. \A j \in 1..(n + 1) : j \in 1..n \/ j = n + 1
  OBVIOUS
<1>2. \A j \in 1..n : j \in 1..(n + 1)
  OBVIOUS
<1>3. QED
  BY <1>1, <1>2 DEF ClosesFirst

\* The close that is first is executed: an opposed position is gone, or another
\* close is for it.
LEMMA FirstExecuted ==
  ASSUME ManagerTypeOK, queue # <<>>, NEW n \in 1..Len(queue), NEW d \in Int,
         ClosesFirst(queue, exch.base, n, d)
  PROVE  ClosesFirst(Tail(queue), exch.base + Executed(Head(queue)), n - 1, d)
<1> DEFINE q == Tail(queue)
           base == exch.base + Executed(Head(queue))
<1>1. /\ queue \in Seq(Orders) /\ exch.base \in Int /\ Head(queue) = queue[1]
      /\ \A i \in 1..(Len(queue) - 1) : q[i] = queue[i + 1]
  BY HeadTailProperties DEF ManagerTypeOK, Positions
<1>2. Len(queue) \in Nat /\ \A j \in 1..(n - 1) : j + 1 \in 1..n /\ q[j] = queue[j + 1]
  BY <1>1, LenProperties
<1>3. Head(queue).kind = "close"
  BY <1>1, <1>2 DEF ClosesFirst
<1> HIDE DEF q
<1>4. \A j \in 1..(n - 1) : q[j].kind = "close"
  BY <1>2 DEF ClosesFirst
<1>5. CASE Flips(exch.base, queue[1].delta)
  <2>1. base = 0
    BY <1>1, <1>3, <1>5 DEF Executed
  <2>2. ~Opposed(base, d)
    BY <2>1 DEF Opposed, Flips
  <2> HIDE DEF base
  <2>3. ClosesFirst(q, base, n - 1, d)
    BY <1>4, <2>2 DEF ClosesFirst
  <2>4. QED
    BY <2>3 DEF q, base
<1>6. CASE ~Flips(exch.base, queue[1].delta)
  <2>1. base = exch.base
    BY <1>1, <1>3, <1>6 DEF Executed
  <2> HIDE DEF base
  <2>2. ASSUME Opposed(base, d) PROVE \E j \in 1..(n - 1) : Flips(base, q[j].delta)
    <3>1. PICK j \in 1..n : Flips(exch.base, queue[j].delta)
      BY <2>1, <2>2 DEF ClosesFirst
    <3>2. j - 1 \in 1..(n - 1) /\ (j - 1) + 1 = j
      BY <1>6, <3>1
    <3>3. q[j - 1] = queue[j]
      BY <1>2, <3>2
    <3>4. QED
      BY <2>1, <3>1, <3>2, <3>3
  <2>3. ClosesFirst(q, base, n - 1, d)
    BY <1>4, <2>2 DEF ClosesFirst
  <2>4. QED
    BY <2>3 DEF q, base
<1>7. QED
  BY <1>5, <1>6

\* Only an execution takes orders off the queue.
LEMMA QueueKept ==
  ASSUME ManagerTypeOK, [Next]_vars, ~Execute
  PROVE  queue' = queue \/ Len(queue') > Len(queue)
<1>1. ASSUME NEW order, Taken(order) PROVE Len(queue') > Len(queue)
  <2>1. Len(queue) \in Nat /\ queue' = Append(queue, order) /\ queue \in Seq(Orders \cup {order})
    BY <1>1, LenProperties DEF Taken, ManagerTypeOK
  <2>2. Len(queue') = Len(queue) + 1
    BY <2>1, AppendProperties
  <2>3. QED
    BY <2>1, <2>2
<1>2. ASSUME NEW close \in Closes, CloseCommand(close) PROVE Len(queue') > Len(queue)
  BY <1>1, <1>2 DEF CloseCommand
<1>3. ASSUME NEW side \in {"buy", "sell"}, NEW ratio \in Ratios, NEW stop \in Stops,
             OpenCommand(side, ratio, stop)
      PROVE  queue' = queue \/ Len(queue') > Len(queue)
  BY <1>1, <1>3 DEF OpenCommand
<1>4. ASSUME NEW stop \in Stops, UpdatePosition(stop) PROVE Len(queue') > Len(queue)
  BY <1>1, <1>4 DEF UpdatePosition
<1>5. ASSUME NEW stop \in Stops, UpdatePositionV2(stop) PROVE queue' = queue
  BY <1>5 DEF UpdatePositionV2
<1>6. ASSUME SubmitOpen \/ CheckTriggers PROVE queue' = queue \/ Len(queue') > Len(queue)
  BY <1>1, <1>6 DEF SubmitOpen, CheckTriggers
<1>7. ASSUME OpenFails \/ WaitForClose \/ KLineClosed \/ UpdateProfit \/ StartClean
             \/ QueryPositionInfo \/ PositionUpdate
      PROVE  queue' = queue
  BY <1>7 DEF OpenFails, WaitForClose, KLineClosed, UpdateProfit, StartClean,
     QueryPositionInfo, PositionUpdate, exchange
<1>8. CASE UNCHANGED vars
  BY <1>8 DEF vars
<1>9. QED
  BY <1>2, <1>3, <1>4, <1>5, <1>6, <1>7, <1>8 DEF Next, CommandStep, CallbackStep

\* An order added at the end leaves the others as they were.
LEMMA PreparedAtEnd ==
  ASSUME ManagerInv, queue' \in Seq(Orders), Len(queue') = Len(queue) + 1,
         \A i \in 1..Len(queue) : queue'[i] = queue[i], exch'.base = exch.base,
         Prepared(queue', exch.base, Len(queue) + 1),
         cmd'.pc = "open" /\ cmd'.current =>
           ClosesFirst(queue', exch.base, Len(queue) + 1, Signed(cmd'.side, 1))
  PROVE  OrdersPrepared'
<1>1. Len(queue) \in Nat
  BY LenProperties DEF ManagerInv, ManagerTypeOK
<1>2. \A i \in 1..Len(queue) : Prepared(queue', exch.base, i)
  BY <1>1, AppendedKeeps DEF ManagerInv, OrdersPrepared
<1>3. \A i \in 1..(Len(queue) + 1) : i \in 1..Len(queue) \/ i = Len(queue) + 1
  BY <1>1
<1>4. QED
  BY <1>2, <1>3 DEF OrdersPrepared

LEMMA PreparedSame ==
  ASSUME OrdersPrepared, queue' = queue, exch'.base = exch.base,
         \/ cmd'.pc # "open" \/ ~cmd'.current
         \/ /\ cmd.pc = "open" /\ cmd'.side = cmd.side /\ cmd'.current = cmd.current
  PROVE  OrdersPrepared'
BY DEF OrdersPrepared

\* Opposed is a matter of the side alone.
LEMMA OpposedSide ==
  ASSUME NEW base \in Int, NEW side \in {"buy", "sell"}, NEW quantity \in Nat \ {0}
  PROVE  Opposed(base, Signed(side, quantity)) <=> Opposed(base, Signed(side, 1))
BY DEF Opposed, Signed, Flips

LEMMA OpenOrderPrepared ==
  ASSUME ManagerInv, SubmitOpen, cmd.quantity >= MinQuantity, cmd' = NoCommand,
         Taken(Order("open", Signed(cmd.side, cmd.quantity), cmd.stop, cmd.current))
  PROVE  OrdersPrepared'
<1> DEFINE order == Order("open", Signed(cmd.side, cmd.quantity), cmd.stop, cmd.current)
           n == Len(queue)
<1>1. /\ ManagerTypeOK /\ cmd.pc = "open" /\ cmd.side \in {"buy", "sell"}
      /\ cmd.quantity \in Nat \ {0} /\ n \in Nat /\ exch' = exch /\ exch.base \in Int
  <2>1. ManagerTypeOK /\ cmd.pc = "open" /\ exch' = exch
    BY DEF ManagerInv, SubmitOpen
  <2>2. cmd.side \in {"buy", "sell"} /\ cmd.quantity \in Int /\ n \in Nat /\ exch.base \in Int
    BY <2>1, LenProperties DEF ManagerTypeOK, Commands, Positions
  <2>3. QED
    BY <2>1, <2>2, PositionAssumption
<1>2. /\ order \in Orders /\ order.kind = "open" /\ order.current = cmd.current
      /\ order.delta = Signed(cmd.side, cmd.quantity) /\ order.delta # 0
  BY <1>1, OpenTyped
<1>3. /\ queue' \in Seq(Orders) /\ Len(queue') = n + 1
      /\ \A i \in 1..n : queue'[i] = queue[i]
      /\ queue'[n + 1] = order
  BY <1>1, <1>2, Queued
<1> HIDE DEF order, n
<1>4. ASSUME cmd.current PROVE ClosesFirst(queue', exch.base, n, order.delta)
  <2>1. ClosesFirst(queue, exch.base, n, Signed(cmd.side, 1))
    BY <1>1, <1>4 DEF ManagerInv, OrdersPrepared, n
  <2>2. ClosesFirst(queue, exch.base, n, order.delta)
    BY <1>1, <1>2, <2>1, OpposedSide DEF ClosesFirst
  <2>3. QED
    BY <1>1, <1>3, <2>2, AppendedKeeps
<1>5. (n + 1) - 1 = n
  BY <1>1
<1>6. Prepared(queue', exch.base, n + 1)
  BY <1>2, <1>3, <1>4, <1>5 DEF Prepared
<1>7. cmd'.pc = "idle" /\ exch'.base = exch.base
  BY <1>1, NoCommandTyped
<1>8. QED
  BY <1>3, <1>6, <1>7, PreparedAtEnd DEF n

\* ClosePosition's order at the end of the queue.
LEMMA ClosePrepared ==
  ASSUME ManagerInv, NEW f \in 1..100, NEW current \in BOOLEAN, ~CloseRefused(f),
         Taken(CloseOrder(f, current)), current => Current
  PROVE  /\ queue' \in Seq(Orders) /\ Len(queue') = Len(queue) + 1
         /\ \A i \in 1..Len(queue) : queue'[i] = queue[i]
         /\ Prepared(queue', exch.base, Len(queue) + 1)
         /\ f = 100 => queue'[Len(queue) + 1].kind = "close"
         /\ f = 100 => queue'[Len(queue) + 1].delta = -local.base
         /\ ~IsClosed
<1> DEFINE order == CloseOrder(f, current)
           n == Len(queue)
<1>1. ManagerTypeOK /\ n \in Nat
  BY LenProperties DEF ManagerInv, ManagerTypeOK
<1>2. /\ queue' \in Seq(Orders) /\ n + 1 = Len(queue') /\ ~IsClosed
      /\ \A i \in 1..n : queue'[i] = queue[i]
      /\ queue'[n + 1] = order
  BY <1>1, CloseQueued
<1>3. /\ order.current = current
      /\ order.kind = IF f = 100 THEN "close" ELSE "reduce"
      /\ local.base > 0 => order.delta \in -local.base..0
      /\ local.base < 0 => order.delta \in 0..-local.base
      /\ f = 100 => order.delta = -local.base
  BY <1>1, <1>2, CloseOrderIs, ZenonT(30)
<1>4. ASSUME current PROVE n = 0 /\ local.base = exch.base
  <2>1. queue = <<>> /\ fills = <<>>
    BY <1>4 DEF Current
  <2>2. Leads(fills, local, exch) /\ fills \in Seq(Fills)
    BY <1>1 DEF ManagerInv, ViewTrails, ManagerTypeOK
  <2>3. local.base = exch.base
    BY <2>1, <2>2, TrailTells
  <2>4. QED
    BY <2>1, <2>3, EmptySeq
<1> HIDE DEF order, n
<1>5. Prepared(queue', exch.base, n + 1)
  BY <1>2, <1>3, <1>4 DEF Prepared
<1>6. QED
  BY <1>2, <1>3, <1>5 DEF n

LEMMA OpenCommandPrepared ==
  ASSUME ManagerInv, NEW side \in {"buy", "sell"}, NEW ratio \in Ratios, NEW stop \in Stops,
         OpenCommand(side, ratio, stop)
  PROVE  OrdersPrepared'
<1>1. /\ ManagerTypeOK /\ exch' = exch /\ exch.base \in Int /\ local.base \in Int
      /\ OrdersPrepared /\ MinQuantity \in Nat \ {0} /\ Current \in BOOLEAN
  BY PositionAssumption, CurrentTyped
     DEF ManagerInv, ManagerTypeOK, Positions, Views, OpenCommand, entity
<1>2. /\ cmd'.pc = "open" /\ cmd'.side = side /\ cmd'.current = Current
      /\ \/ ClosesOpposite(side) /\ ~CloseRefused(100) /\ Taken(CloseOrder(100, Current))
         \/ ~ClosesOpposite(side) /\ queue' = queue
  BY <1>1, OpenCommandDoes
<1>3. ASSUME Current PROVE Len(queue) = 0 /\ local.base = exch.base
  <2>1. queue = <<>> /\ fills = <<>> /\ Leads(fills, local, exch) /\ fills \in Seq(Fills)
    BY <1>1, <1>3 DEF Current, ManagerInv, ViewTrails, ManagerTypeOK
  <2>2. QED
    BY <2>1, TrailTells, EmptySeq
<1>4. CASE ~CloseRefused(100) /\ Taken(CloseOrder(100, Current))
  <2>1. /\ queue' \in Seq(Orders) /\ Len(queue') = Len(queue) + 1
        /\ \A i \in 1..Len(queue) : queue'[i] = queue[i]
        /\ Prepared(queue', exch.base, Len(queue) + 1)
        /\ queue'[Len(queue) + 1].kind = "close"
        /\ queue'[Len(queue) + 1].delta = -local.base
        /\ ~IsClosed
    BY <1>1, <1>4, ClosePrepared
  <2>2. ASSUME Current PROVE ClosesFirst(queue', exch.base, Len(queue) + 1, Signed(side, 1))
    <3>1. Len(queue) + 1 = 1 /\ queue'[1].kind = "close" /\ queue'[1].delta = -exch.base
          /\ exch.base # 0
      BY <1>3, <2>1, <2>2 DEF IsClosed
    <3>2. Flips(exch.base, queue'[1].delta)
      BY <1>1, <3>1 DEF Flips
    <3>3. QED
      BY <3>1, <3>2 DEF ClosesFirst
  <2>3. QED
    BY <1>1, <1>2, <2>1, <2>2, PreparedAtEnd
<1>5. CASE ~ClosesOpposite(side) /\ queue' = queue
  <2>1. ASSUME Current PROVE ClosesFirst(queue, exch.base, Len(queue), Signed(side, 1))
    <3>1. Len(queue) = 0 /\ (IsDust \/ Side(exch.base) = side) /\ local.base = exch.base
      BY <1>3, <1>5, <2>1 DEF ClosesOpposite
    <3>2. Abs(exch.base) \in Nat
      BY <1>1, AbsIsNat
    <3>3. IsDust => ~(Abs(exch.base) >= MinQuantity)
      BY <1>1, <3>1, <3>2 DEF IsDust
    <3>4. Side(exch.base) = side => ~Flips(exch.base, Signed(side, 1))
      BY <1>1 DEF Side, Signed, Flips
    <3>5. ~Opposed(exch.base, Signed(side, 1))
      BY <3>1, <3>3, <3>4 DEF Opposed
    <3>6. QED
      BY <3>1, <3>5 DEF ClosesFirst
  <2>2. QED
    BY <1>1, <1>2, <1>5, <2>1 DEF OrdersPrepared
<1>6. QED
  BY <1>2, <1>4, <1>5

LEMMA ExecutePrepared ==
  ASSUME ManagerInv, Execute
  PROVE  OrdersPrepared'
<1> DEFINE base == exch.base + Executed(Head(queue))
           n == Len(queue)
<1>1. ManagerTypeOK /\ OrdersPrepared /\ queue \in Seq(Orders)
  BY DEF ManagerInv, ManagerTypeOK
<1>2. /\ queue # <<>> /\ queue' = Tail(queue)
      /\ exch'.base = base /\ cmd' = cmd
  <2>1. /\ queue # <<>> /\ queue' = Tail(queue) /\ cmd' = cmd
        /\ Executed(Head(queue)) \in Int
        /\ \/ Executed(Head(queue)) = 0 /\ exch' = exch
           \/ exch'.base = base
    BY <1>1, ExecuteDoes DEF Execute
  <2>2. exch.base \in Int
    BY <1>1 DEF ManagerTypeOK, Positions
  <2>3. QED
    BY <2>1, <2>2
<1>3. /\ n \in Nat \ {0} /\ Len(queue') = n - 1
      /\ \A i \in 1..(n - 1) : queue'[i] = queue[i + 1] /\ i + 1 \in 1..n
  BY <1>1, <1>2, EmptySeq, HeadTailProperties
<1>4. ASSUME NEW m \in 1..n, NEW d \in Int, ClosesFirst(queue, exch.base, m, d)
      PROVE  ClosesFirst(queue', base, m - 1, d)
  BY <1>1, <1>2, <1>4, FirstExecuted
<1> HIDE DEF base, n
<1>5. ASSUME NEW i \in 1..(n - 1) PROVE Prepared(queue', base, i)
  <2>1. Prepared(queue, exch.base, i + 1) /\ queue'[i] = queue[i + 1]
        /\ (i + 1) - 1 = i /\ i \in 1..n /\ i + 1 # 1
    BY <1>1, <1>3 DEF OrdersPrepared, n
  <2>2. queue[i + 1].delta \in Int
    <3>1. i + 1 \in 1..Len(queue)
      BY <1>3 DEF n
    <3>2. queue[i + 1] \in Orders
      BY <1>1, <3>1, ElementOfSeq
    <3>3. QED
      BY <3>2 DEF Orders
  <2>3. ASSUME queue[i + 1].current, queue[i + 1].kind = "open"
        PROVE  queue[i + 1].delta # 0 /\ ClosesFirst(queue', base, i - 1, queue[i + 1].delta)
    BY <1>4, <2>1, <2>2, <2>3 DEF Prepared
  <2>4. ~(queue[i + 1].current /\ queue[i + 1].kind = "reduce")
    BY <2>1 DEF Prepared
  <2>5. QED
    BY <2>1, <2>3, <2>4 DEF Prepared
<1>6. ASSUME cmd.pc = "open", cmd.current
      PROVE  ClosesFirst(queue', base, n - 1, Signed(cmd.side, 1))
  <2>1. n \in 1..n /\ Signed(cmd.side, 1) \in Int
    BY <1>3 DEF Signed
  <2>2. QED
    BY <1>1, <1>4, <1>6, <2>1 DEF OrdersPrepared, n
<1>7. QED
  BY <1>2, <1>3, <1>5, <1>6 DEF OrdersPrepared

LEMMA NextPrepared == ManagerInv /\ [Next]_vars => OrdersPrepared'
<1> SUFFICES ASSUME ManagerInv, [Next]_vars PROVE OrdersPrepared'
  OBVIOUS
<1>0. ManagerTypeOK /\ OrdersPrepared /\ exch \in Positions /\ NoCommand.pc = "idle"
  BY NoCommandTyped DEF ManagerInv, ManagerTypeOK
<1>1. ASSUME NEW close \in Closes, CloseCommand(close) PROVE OrdersPrepared'
  <2>1. PICK f \in 1..100 : ~CloseRefused(f) /\ Taken(CloseOrder(f, Current))
    BY <1>0, <1>1, CloseCommandDoes
  <2>2. cmd'.pc # "open" /\ exch'.base = exch.base
    BY <1>1 DEF CloseCommand
  <2>3. QED
    BY <2>1, <2>2, CurrentTyped, ClosePrepared, PreparedAtEnd
<1>2. ASSUME NEW stop \in Stops, UpdatePosition(stop) PROVE OrdersPrepared'
  <2>1. cmd'.pc # "open" /\ ~CloseRefused(100) /\ Taken(CloseOrder(100, Current))
    BY <1>0, <1>2, UpdatePositionDoes
  <2>2. exch'.base = exch.base /\ 100 \in 1..100
    BY <1>2 DEF UpdatePosition
  <2>3. QED
    BY <2>1, <2>2, CurrentTyped, ClosePrepared, PreparedAtEnd
<1>3. ASSUME NEW stop \in Stops, UpdatePositionV2(stop) PROVE OrdersPrepared'
  <2>1. cmd' = cmd /\ cmd.pc = "idle" /\ queue' = queue /\ exch'.base = exch.base
    BY <1>0, <1>3 DEF UpdatePositionV2, Positions
  <2>2. QED
    BY <1>0, <2>1, PreparedSame
<1>4. CASE SubmitOpen
  <2>1. exch'.base = exch.base /\ cmd.pc = "open"
    BY <1>4 DEF SubmitOpen
  <2>2. CASE queue' = queue
    BY <1>0, <1>4, <2>1, <2>2, SubmitOpenDoes, PreparedSame
  <2>3. QED
    BY <1>0, <1>4, <2>2, SubmitOpenDoes, OpenOrderPrepared
<1>5. CASE OpenFails \/ WaitForClose
  <2>1. queue' = queue /\ exch'.base = exch.base
    BY <1>5 DEF OpenFails, WaitForClose, exchange
  <2>2. cmd'.pc # "open" \/ ~cmd'.current
    BY <1>0, <1>5, WaitForCloseDoes DEF OpenFails
  <2>3. QED
    BY <1>0, <2>1, <2>2, PreparedSame
<1>6. ASSUME cmd' = cmd, queue' = queue, exch' = exch PROVE OrdersPrepared'
  BY <1>0, <1>6 DEF OrdersPrepared
<1>7. CASE KLineClosed \/ UpdateProfit \/ PositionUpdate \/ UNCHANGED vars
  BY <1>6, <1>7 DEF KLineClosed, UpdateProfit, PositionUpdate, vars, exchange
<1>8. CASE StartClean \/ QueryPositionInfo \/ CheckTriggers
  <2> DEFINE n == Len(queue)
  <2>1. /\ cmd' = cmd /\ exch' = exch
        /\ queue' = queue \/ \E stale \in BOOLEAN :
             ~stale /\ ~CloseRefused(100) /\ Taken(CloseOrder(100, stale))
    BY <1>0, <1>8, CallbackDoes
  <2>2. ASSUME NEW stale \in BOOLEAN, ~stale, ~CloseRefused(100),
               Taken(CloseOrder(100, stale))
        PROVE  OrdersPrepared'
    <3>1. /\ queue' \in Seq(Orders) /\ Len(queue') = n + 1
          /\ \A i \in 1..n : queue'[i] = queue[i]
          /\ Prepared(queue', exch.base, n + 1)
          /\ queue'[n + 1].kind = "close"
      BY <2>2, ClosePrepared
    <3>2. n \in Nat
      BY <1>0, LenProperties DEF ManagerTypeOK
    <3> HIDE DEF n
    <3>3. ASSUME cmd.pc = "open", cmd.current
          PROVE  ClosesFirst(queue', exch.base, n + 1, Signed(cmd.side, 1))
      <4>1. ClosesFirst(queue, exch.base, n, Signed(cmd.side, 1))
        BY <1>0, <3>3 DEF OrdersPrepared, n
      <4>2. ClosesFirst(queue', exch.base, n, Signed(cmd.side, 1))
        BY <3>1, <3>2, <4>1, AppendedKeeps
      <4>3. QED
        BY <3>1, <3>2, <4>2, CloseAppended
    <3>4. QED
      BY <2>1, <3>1, <3>3, PreparedAtEnd DEF n
  <2>3. QED
    BY <1>6, <2>1, <2>2
<1>9. QED
  BY <1>1, <1>2, <1>3, <1>4, <1>5, <1>7, <1>8, OpenCommandPrepared, ExecutePrepared
     DEF Next, CommandStep, CallbackStep

-----------------------------------------------------------------------------
(* The theorems                                                            *)

LEMMA ManagerStep == ManagerInv /\ [Next]_vars => ManagerInv'
BY NextTypes, NextTrails, NextProfits, NextAwaits, NextPrepared DEF ManagerInv

\* Whatever the delay of the fills, they lead from the entity's view to the
\* exchange's position, profits are of the position they are announced for, an
\* update waits for its own position's end, and every order given with an
\* up-to-date view still finds what it was given for (exchange_entity.go).
THEOREM ManagerCorrect == Spec => []ManagerInv
<1>1. Init => ManagerInv
  BY ManagerInit
<1>2. ManagerInv /\ [Next]_vars => ManagerInv'
  BY ManagerStep
<1>3. QED
  BY <1>1, <1>2, PTL DEF Spec

\* The profit announced for a position that has lived through a k-line callback
\* is its own (UpdateProfit, OnPositionUpdate's callback).
THEOREM AnnouncedTruly == Spec => []AnnouncedProfitIsItsOwn
<1>1. ManagerInv => AnnouncedProfitIsItsOwn
  BY DEF ManagerInv, ProfitKept
<1>2. QED
  BY <1>1, ManagerCorrect, PTL

\* UpdatePosition opens again only when the position it closed has ended at the
\* exchange too, however late its fill is seen (UpdatePosition's wait).
THEOREM ReopenedAfterClose == Spec => ReopensAfterClose
<1> DEFINE Reopens ==
             cmd.life # 0 /\ cmd.pc = "open" /\ cmd' = NoCommand /\ sent' # sent =>
               exch.base = 0 \/ exch.life # cmd.life
<1>1. ManagerInv => [Reopens]_vars
  <2> SUFFICES ASSUME ManagerInv, cmd.life # 0, cmd.pc = "open"
               PROVE  exch.base = 0 \/ exch.life # cmd.life
    OBVIOUS
  <2>1. exch.life \in Nat /\ (exch.base = 0 \/ cmd.life < exch.life)
    BY DEF ManagerInv, ManagerTypeOK, Positions, CloseAwaited
  <2>2. QED
    BY <2>1
<1> HIDE DEF Reopens
<1>2. Spec => [][Reopens]_vars
  BY <1>1, ManagerCorrect, PTL DEF Spec
<1>3. QED
  BY <1>2 DEF ReopensAfterClose, Reopens

\* What an order that was given with an up-to-date view does to a position that
\* is more than dust.
LEMMA PreparedDoes ==
  ASSUME ManagerInv, Execute, Head(queue).current, Abs(exch.base) >= MinQuantity
  PROVE  /\ ~Flips(exch.base, exch'.base)
         /\ IF Head(queue).kind = "open" THEN Abs(exch'.base) > Abs(exch.base)
            ELSE Abs(exch'.base) <= Abs(exch.base)
<1> DEFINE order == Head(queue)
           base == exch.base
           delta == Executed(order)
<1>1. /\ ManagerTypeOK /\ base \in Int /\ queue # <<>> /\ order \in Orders
      /\ delta \in Int /\ exch'.base = base + delta
  <2>1. ManagerTypeOK /\ base \in Int
    BY DEF ManagerInv, ManagerTypeOK, Positions
  <2>2. /\ queue # <<>> /\ order \in Orders /\ delta \in Int
        /\ (delta = 0 /\ exch' = exch) \/ exch'.base = base + delta
    BY <2>1, ExecuteDoes
  <2>3. QED
    BY <2>1, <2>2
<1>2. Prepared(queue, base, 1) /\ queue[1] = order
  <2>1. Len(queue) \in Nat \ {0} /\ queue[1] = order
    BY <1>1, EmptySeq, HeadTailProperties DEF ManagerTypeOK
  <2>2. 1 \in 1..Len(queue)
    BY <2>1
  <2>3. QED
    BY <2>1, <2>2 DEF ManagerInv, OrdersPrepared
<1>3. base # 0
  <2>1. Abs(0) = 0
    BY DEF Abs
  <2>2. MinQuantity \in Nat \ {0}
    BY PositionAssumption
  <2>3. QED
    BY <2>1, <2>2
<1>4. order.kind # "close" => delta = order.delta
  BY DEF Executed
<1>5. order.kind = "close" => delta = 0 \/ delta = -base
  BY DEF Executed
<1>6. ASSUME order.kind = "open" PROVE delta # 0 /\ ~Flips(base, delta)
  <2>1. order.delta # 0 /\ ClosesFirst(queue, base, 0, order.delta)
    BY <1>2, <1>6 DEF Prepared
  <2>2. ~Opposed(base, order.delta)
    BY <2>1 DEF ClosesFirst
  <2>3. QED
    BY <1>4, <1>6, <2>1, <2>2 DEF Opposed
<1>7. ASSUME order.kind = "reduce"
      PROVE  (base > 0 => delta \in -base..0) /\ (base < 0 => delta \in 0..-base)
  BY <1>2, <1>4, <1>7 DEF Prepared
<1>8. order.kind \in {"open", "close", "reduce"}
  BY <1>1 DEF Orders
<1> HIDE DEF order, base, delta
<1>9. ASSUME order.kind = "open"
      PROVE  ~Flips(base, base + delta) /\ Abs(base + delta) > Abs(base)
  BY <1>1, <1>3, <1>6, <1>9 DEF Flips, Abs
<1>10. ASSUME order.kind # "open"
       PROVE  ~Flips(base, base + delta) /\ Abs(base + delta) <= Abs(base)
  BY <1>1, <1>3, <1>5, <1>7, <1>8, <1>10 DEF Flips, Abs
<1>11. QED
  BY <1>1, <1>9, <1>10 DEF order, base

\* An order given with an up-to-date view does what it is for on a position that
\* is more than dust: a close never goes past it, an open never eats into one in
\* the other direction (closePercentage, HandleCommand's close before an open).
THEOREM OrdersDoTheirPart == Spec => OrdersDoWhatTheyAreFor
<1> DEFINE DoTheirPart ==
             Len(queue') < Len(queue) /\ Head(queue).current /\ Abs(exch.base) >= MinQuantity =>
               /\ ~Flips(exch.base, exch'.base)
               /\ IF Head(queue).kind = "open" THEN Abs(exch'.base) > Abs(exch.base)
                  ELSE Abs(exch'.base) <= Abs(exch.base)
<1>1. ManagerInv /\ [Next]_vars => [DoTheirPart]_vars
  <2> SUFFICES ASSUME ManagerInv, [Next]_vars, Len(queue') < Len(queue),
                      Head(queue).current, Abs(exch.base) >= MinQuantity
               PROVE  DoTheirPart
    OBVIOUS
  <2>1. ManagerTypeOK /\ Len(queue) \in Nat
    BY LenProperties DEF ManagerInv, ManagerTypeOK
  <2>2. ~(queue' = queue) /\ ~(Len(queue') > Len(queue))
    BY <2>1
  <2>3. Execute
    BY <2>1, <2>2, QueueKept
  <2>4. QED
    BY <2>3, PreparedDoes
<1> HIDE DEF DoTheirPart
<1>2. Spec => [][DoTheirPart]_vars
  BY <1>1, ManagerCorrect, PTL DEF Spec
<1>3. QED
  BY <1>2 DEF OrdersDoWhatTheyAreFor, DoTheirPart
-----------------------------------------------------------------------------
(* The type invariant                                                      *)

\* The bounds of the counters, and which positions the entity can speak of: its
\* view's number is the last it has seen, and nothing it keeps is newer.
BoundsOK ==
  /\ cmd.quantity \in 0..QuoteQuantity /\ cmd.wait \in 0..MaxWait
  /\ market.tries \in 0..2 /\ market.seen <= local.life
  /\ announced.life <= local.life /\ local.profit <= local.life

LEMMA BoundsInit == Init => BoundsOK
BY PositionAssumption DEF Init, BoundsOK, NoCommand, NoCallback, NoEvent

LEMMA QuantityBounds ==
  ASSUME NEW side, NEW ratio \in 0..100
  PROVE  calculateQuantity(side, ratio) \in 0..QuoteQuantity
<1> DEFINE quote == IF ratio = 0 THEN QuoteQuantity ELSE (QuoteQuantity * ratio) \div 100
<1>1. QuoteQuantity \in Nat
  BY PositionAssumption
<1>2. (QuoteQuantity * ratio) \div 100 \in 0..QuoteQuantity
  BY <1>1, PartOf
<1>3. quote \in 0..QuoteQuantity
  BY <1>1, <1>2
<1>4. calculateQuantity(side, ratio) = IF side = "sell" THEN (quote * 99) \div 100 ELSE quote
  BY DEF calculateQuantity
<1> HIDE DEF quote
<1>5. (quote * 99) \div 100 \in 0..quote
  BY <1>1, <1>3, PartOf
<1>6. QED
  BY <1>1, <1>3, <1>4, <1>5

LEMMA OpeningBounds ==
  ASSUME NEW side, NEW ratio \in 0..100, NEW stop, NEW life, NEW current
  PROVE  /\ Opening(side, ratio, stop, life, current).quantity \in 0..QuoteQuantity
         /\ Opening(side, ratio, stop, life, current).wait = 0
<1> DEFINE quantity == calculateQuantity(side, ratio)
<1>1. quantity \in 0..QuoteQuantity
  BY QuantityBounds
<1>2. Opening(side, ratio, stop, life, current) =
        [NoCommand EXCEPT !.pc = "open", !.side = side, !.quantity = quantity,
                          !.stop = stop, !.life = life, !.current = current]
  BY DEF Opening
<1> HIDE DEF quantity
<1>3. Opening(side, ratio, stop, life, current) =
        [pc |-> "open", side |-> side, quantity |-> quantity, stop |-> stop, wait |-> 0,
         life |-> life, current |-> current]
  BY <1>2 DEF NoCommand
<1>4. QED
  BY <1>1, <1>3

LEMMA NextBounds == ManagerInv /\ BoundsOK /\ [Next]_vars => BoundsOK'
<1> SUFFICES ASSUME ManagerInv, BoundsOK, [Next]_vars PROVE BoundsOK'
  OBVIOUS
<1>0. ManagerTypeOK /\ ViewTrails
  BY DEF ManagerInv
<1>1. /\ local \in Views /\ local.life \in Nat /\ local.profit \in Nat
      /\ cmd \in Commands /\ cmd.quantity \in Int /\ cmd.wait \in Nat
      /\ market \in Callbacks /\ market.seen \in Nat /\ market.tries \in Nat
      /\ announced \in Events /\ announced.life \in Nat
      /\ fills \in Seq(Fills)
  BY <1>0 DEF ManagerTypeOK, Views, Commands, Callbacks, Events
<1>2. QuoteQuantity \in Nat /\ MaxWait \in Nat /\ \A ratio \in Ratios : ratio \in 0..100
  BY PositionAssumption
<1>3. NoCommand.quantity = 0 /\ NoCommand.wait = 0
      /\ NoCallback.tries = 0 /\ NoCallback.seen = 0
  BY DEF NoCommand, NoCallback
\* What is enough of a command's step, and of the others'.
<1>4. ASSUME cmd'.quantity \in 0..QuoteQuantity, cmd'.wait \in 0..MaxWait,
             UNCHANGED <<market, announced, local>>
      PROVE  BoundsOK'
  BY <1>4 DEF BoundsOK
<1>5. ASSUME UNCHANGED <<cmd, announced, local>>,
             market'.tries \in 0..2, market'.seen <= local.life
      PROVE  BoundsOK'
  BY <1>5 DEF BoundsOK
<1>6. ASSUME NEW close \in Closes, CloseCommand(close) PROVE BoundsOK'
  BY <1>6 DEF CloseCommand, entity, BoundsOK
<1>7. ASSUME NEW side \in {"buy", "sell"}, NEW ratio \in Ratios, NEW stop \in Stops,
             OpenCommand(side, ratio, stop)
      PROVE  BoundsOK'
  <2>1. cmd' = Opening(side, ratio, ParseStop(side, stop), 0, Current)
        /\ UNCHANGED <<market, announced, local>>
    BY <1>7 DEF OpenCommand, entity
  <2>2. cmd'.quantity \in 0..QuoteQuantity /\ cmd'.wait = 0
    BY <1>2, <2>1, OpeningBounds
  <2>3. QED
    BY <1>2, <1>4, <2>1, <2>2
<1>8. ASSUME NEW stop \in Stops, UpdatePositionV2(stop) PROVE BoundsOK'
  <2>1. local'.life = local.life /\ local'.profit = local.profit
    BY <1>1, <1>8 DEF UpdatePositionV2, Views
  <2>2. QED
    BY <1>8, <2>1 DEF UpdatePositionV2, BoundsOK
<1>9. ASSUME NEW stop \in Stops, UpdatePosition(stop) PROVE BoundsOK'
  <2>1. cmd'.quantity = 0 /\ cmd'.wait = 0
    BY <1>9 DEF UpdatePosition, NoCommand
  <2>2. UNCHANGED <<market, announced, local>>
    BY <1>9 DEF UpdatePosition, entity
  <2>3. QED
    BY <1>2, <1>4, <2>1, <2>2
<1>10. ASSUME SubmitOpen PROVE BoundsOK'
  <2>1. UNCHANGED <<market, announced, local>>
    BY <1>10 DEF SubmitOpen, entity
  <2>2. cmd' = NoCommand \/ cmd' = [cmd EXCEPT !.quantity = Reduced(@)]
    BY <1>10 DEF SubmitOpen
  <2>3. Reduced(cmd.quantity) \in 0..cmd.quantity
    BY <1>1, PartOf DEF Reduced, BoundsOK
  <2>4. cmd'.quantity \in 0..QuoteQuantity /\ cmd'.wait \in 0..MaxWait
    BY <1>1, <1>2, <1>3, <2>2, <2>3, SMTT(30) DEF BoundsOK, Commands
  <2>5. QED
    BY <1>4, <2>1, <2>4
<1>11. ASSUME OpenFails PROVE BoundsOK'
  BY <1>2, <1>3, <1>4, <1>11 DEF OpenFails, entity
<1>12. ASSUME WaitForClose PROVE BoundsOK'
  <2>1. UNCHANGED <<market, announced, local>>
    BY <1>12 DEF WaitForClose, entity
  <2>2. CASE cmd' = Opening(cmd.side, 0, cmd.stop, cmd.life, FALSE)
    <3>1. 0 \in 0..100
      OBVIOUS
    <3>2. cmd'.quantity \in 0..QuoteQuantity /\ cmd'.wait = 0
      BY <2>2, <3>1, OpeningBounds
    <3>3. QED
      BY <1>2, <1>4, <2>1, <3>2
  <2>3. CASE ~TimedOut(cmd.wait) /\ cmd' = [cmd EXCEPT !.wait = @ + 1]
    <3>1. cmd'.quantity = cmd.quantity /\ cmd'.wait = cmd.wait + 1 /\ cmd.wait < MaxWait
      BY <1>1, <1>2, <2>3 DEF Commands, TimedOut
    <3>2. QED
      BY <1>1, <1>2, <1>4, <2>1, <3>1 DEF BoundsOK
  <2>4. CASE cmd' = NoCommand
    BY <1>2, <1>3, <1>4, <2>1, <2>4
  <2>5. QED
    BY <1>12, <2>2, <2>3, <2>4 DEF WaitForClose
<1>13. ASSUME KLineClosed PROVE BoundsOK'
  <2>1. market'.tries = 0
    BY <1>13 DEF KLineClosed, NoCallback
  <2>2. market'.seen <= local.life /\ UNCHANGED <<local, cmd, announced>>
    BY <1>0, <1>1, <1>13, KLineDoes
  <2>3. QED
    BY <1>5, <2>1, <2>2
<1>14. ASSUME UpdateProfit PROVE BoundsOK'
  <2>1. local'.life = local.life /\ local'.profit = market.seen
    BY <1>1, <1>14 DEF UpdateProfit, UpdatedProfit, Views
  <2>2. market'.tries = market.tries /\ market'.seen = market.seen
    BY <1>1, <1>14 DEF UpdateProfit, Callbacks
  <2>3. QED
    BY <1>14, <2>1, <2>2 DEF UpdateProfit, BoundsOK
<1>15. ASSUME StartClean \/ QueryPositionInfo \/ CheckTriggers PROVE BoundsOK'
  <2>1. UNCHANGED <<cmd, announced, local>>
    BY <1>0, <1>15, CallbackDoes
  <2>2. \/ market' = NoCallback
        \/ market' = [market EXCEPT !.pc = "query"]
        \/ market' = [market EXCEPT !.pc = "check", !.stop = exch.stop]
        \/ market.tries < 2 /\ market' = [market EXCEPT !.tries = @ + 1]
    BY <1>15 DEF StartClean, QueryPositionInfo, CheckTriggers
  <2>3. market'.tries \in 0..2 /\ market'.seen \in {0, market.seen}
    <3>1. CASE market' = NoCallback
      BY <1>3, <3>1
    <3>2. CASE market' = [market EXCEPT !.pc = "query"]
      BY <1>1, <3>2 DEF BoundsOK, Callbacks
    <3>3. CASE market' = [market EXCEPT !.pc = "check", !.stop = exch.stop]
      BY <1>1, <3>3 DEF BoundsOK, Callbacks
    <3>4. CASE market.tries < 2 /\ market' = [market EXCEPT !.tries = @ + 1]
      BY <1>1, <3>4 DEF BoundsOK, Callbacks
    <3>5. QED
      BY <2>2, <3>1, <3>2, <3>3, <3>4
  <2>4. QED
    BY <1>1, <1>5, <2>1, <2>3 DEF BoundsOK
<1>16. ASSUME Execute PROVE BoundsOK'
  BY <1>16 DEF Execute, entity, BoundsOK
<1>17. ASSUME PositionUpdate PROVE BoundsOK'
  <2>1. /\ fills # <<>> /\ local'.base = local.base + Head(fills).delta
        /\ local'.life = Head(fills).life /\ local'.profit = local.profit
        /\ local' \in Views /\ UNCHANGED <<cmd, market>>
        /\ announced'.life \in {announced.life, local.life}
    BY <1>0, <1>17, UpdateDoes
  <2>2. Leads(fills, local, exch)
    BY <1>0 DEF ViewTrails
  <2>3. local.life <= local'.life
    BY <1>1, <2>1, <2>2, ShorterTrail
  <2>4. local'.life \in Nat
    BY <2>1 DEF Views
  <2>5. QED
    BY <1>1, <2>1, <2>3, <2>4 DEF BoundsOK
<1>18. CASE UNCHANGED vars
  BY <1>18 DEF vars, BoundsOK
<1>19. QED
  BY <1>6, <1>7, <1>8, <1>9, <1>10, <1>11, <1>12, <1>13, <1>14, <1>15, <1>16, <1>17, <1>18
  DEF Next, CommandStep, CallbackStep

\* sum[i] is where the first i fills lead.
AddsUp(f, base, sum) ==
  sum = [i \in 0..Len(f) |-> IF i = 0 THEN base ELSE sum[i - 1] + f[i].delta]

\* Summing the fills up gives the end of their trail.
LEMMA TrailAddsUp ==
  ASSUME NEW f \in Seq(Fills), NEW from, NEW to, Leads(f, from, to),
         NEW sum, AddsUp(f, from.base, sum)
  PROVE  sum[Len(f)] = to.base
<1>1. PICK after \in [0..Len(f) -> Int], lives \in [0..Len(f) -> Nat] :
        Trail(f, from, to, after, lives)
  BY DEF Leads
<1>2. Len(f) \in Nat
  BY LenProperties
<1>3. /\ after[0] = from.base /\ after[Len(f)] = to.base
      /\ \A i \in 1..Len(f) : after[i] = after[i - 1] + f[i].delta
  BY <1>1 DEF Trail
<1>4. /\ sum[0] = from.base
      /\ \A i \in 1..Len(f) : sum[i] = sum[i - 1] + f[i].delta
  <2>1. \A i \in 0..Len(f) : sum[i] = IF i = 0 THEN from.base ELSE sum[i - 1] + f[i].delta
    BY DEF AddsUp
  <2>2. QED
    BY <1>2, <2>1
<1> DEFINE n == Len(f)
           C == {i \in Nat : i \in 0..n => sum[i] = after[i]}
<1> HIDE DEF n
<1>5. 0 \in C
  BY <1>3, <1>4
<1>6. ASSUME NEW i \in Nat, i \in C PROVE i + 1 \in C
  <2>1. CASE i + 1 \in 0..n
    <3>1. i \in 0..n /\ i + 1 \in 1..n /\ (i + 1) - 1 = i
      BY <1>2, <2>1 DEF n
    <3>2. sum[i + 1] = sum[i] + f[i + 1].delta /\ after[i + 1] = after[i] + f[i + 1].delta
      BY <1>3, <1>4, <3>1 DEF n
    <3>3. sum[i] = after[i]
      BY <1>6, <3>1
    <3>4. QED
      BY <3>2, <3>3
  <2>2. CASE i + 1 \notin 0..n
    BY <2>2
  <2>3. QED
    BY <2>1, <2>2
<1>7. Nat \subseteq C
  <2> HIDE DEF C
  <2>1. QED
    BY <1>5, <1>6, CountingUp
<1>8. n \in Nat /\ n \in 0..n
  BY <1>2 DEF n
<1>9. sum[n] = after[n]
  BY <1>7, <1>8
<1>10. QED
  BY <1>3, <1>9 DEF n

LEMMA UnseenIsTheEnd ==
  ASSUME ManagerTypeOK, ViewTrails
  PROVE  Unseen(local.base) = exch.base
<1> DEFINE chosen == CHOOSE sum : AddsUp(fills, local.base, sum)
<1>1. fills \in Seq(Fills) /\ Len(fills) \in Nat /\ Leads(fills, local, exch)
  BY LenProperties DEF ManagerTypeOK, ViewTrails
<1>2. PICK after \in [0..Len(fills) -> Int], lives \in [0..Len(fills) -> Nat] :
        Trail(fills, local, exch, after, lives)
  BY <1>1 DEF Leads
<1>3. \A i \in 0..Len(fills) :
        after[i] = IF i = 0 THEN local.base ELSE after[i - 1] + fills[i].delta
  <2>1. /\ after[0] = local.base
        /\ \A i \in 1..Len(fills) : after[i] = after[i - 1] + fills[i].delta
    BY <1>2 DEF Trail
  <2>2. QED
    BY <1>1, <2>1
<1>4. AddsUp(fills, local.base, after)
  BY <1>2, <1>3 DEF AddsUp
<1>5. AddsUp(fills, local.base, chosen)
  BY <1>4
<1>6. Unseen(local.base) = chosen[Len(fills)]
  BY DEF Unseen, AddsUp
<1> HIDE DEF chosen
<1>7. chosen[Len(fills)] = exch.base
  BY <1>1, <1>5, TrailAddsUp
<1>8. QED
  BY <1>6, <1>7

\* Type correctness, for every quantity, bound and delay of fills: the entity's
\* view and the fills on their way make up the position at the exchange, and a
\* command's quantity never exceeds the leveraged quote amount.
THEOREM ManagerTypes == Spec => []TypeOK
<1> DEFINE Inv == ManagerInv /\ BoundsOK
<1>1. Init => Inv
  BY ManagerInit, BoundsInit
<1>2. Inv /\ [Next]_vars => Inv'
  BY ManagerStep, NextBounds
<1>3. Inv => TypeOK
  <2> SUFFICES ASSUME ManagerInv, BoundsOK PROVE TypeOK
    OBVIOUS
  <2>0. ManagerTypeOK /\ ViewTrails /\ whole <= local.life
    BY DEF ManagerInv, ProfitKept
  <2>1. Unseen(local.base) = exch.base
    BY <2>0, UnseenIsTheEnd
  <2>2. local.life <= exch.life
    <3>1. fills \in Seq(Fills) /\ Leads(fills, local, exch)
      BY <2>0 DEF ManagerTypeOK, ViewTrails
    <3>2. QED
      BY <3>1, TrailTells
  <2>3. /\ cmd.pc \in {"idle", "open", "wait"}
        /\ market.pc \in {"idle", "profit", "clean", "query", "check"}
        /\ exch.life \in Nat /\ local.life \in Nat /\ local.profit \in Nat
        /\ announced.life \in Nat /\ whole \in Nat
    BY <2>0 DEF ManagerTypeOK, Commands, Callbacks, Positions, Views, Events
  <2>4. local.life \in 0..exch.life /\ announced.life \in 0..local.life
        /\ local.profit \in 0..exch.life /\ whole \in 0..exch.life
    BY <2>0, <2>2, <2>3 DEF BoundsOK
  <2>5. QED
    BY <2>1, <2>3, <2>4 DEF TypeOK, BoundsOK
<1> HIDE DEF Inv
<1>4. QED
  BY <1>1, <1>2, <1>3, PTL DEF Spec
=============================================================================

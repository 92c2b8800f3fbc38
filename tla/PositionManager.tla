--------------------------- MODULE PositionManager ---------------------------
(***************************************************************************)
(* How the exchange entity (exchange_entity.go) opens, closes and updates  *)
(* its position.  Three goroutines work on it: the one that runs commands  *)
(* (HandleCommand), the market data stream with the k-line and the         *)
(* clean-position callbacks, and the user data stream that brings the      *)
(* fills.  The entity decides on its own view of the position, which       *)
(* trails the exchange by the fills still on their way.                    *)
(*                                                                         *)
(* The exchange and bbgo's executor are external: it takes market orders   *)
(* and executes them whole, in order, at price 1, so a quantity in quote   *)
(* is one in base.  Limit orders, and the events a k-line sends, are in    *)
(* DecisionLoop; fund ratios, which only change wording, are left out.     *)
(* A position is known by its number (`life`); 0 is no position.           *)
(***************************************************************************)
EXTENDS Integers, Sequences

CONSTANTS
  QuoteQuantity, \* the leveraged quote amount CalculateQuoteQuantity gives
  Funds,         \* the largest open order the exchange accepts
  MinQuantity,   \* the market's
  Ratios,        \* quote_ratio arguments, in hundredths; 0 for none
  Closes,        \* close_position arguments: [by, value, percent]
  Stops,         \* trigger arguments: "none", "price", "percent", "dynamic"
  MaxWait,       \* ticks UpdatePosition waits
  MaxOrders,     \* bounds the orders sent
  MaxBars        \* bounds the k-lines

ASSUME PositionAssumption ==
  /\ {QuoteQuantity, Funds, MaxWait, MaxOrders, MaxBars} \subseteq Nat
  /\ MinQuantity \in Nat \ {0}
  /\ Ratios \subseteq 0..100   \* HandleCommand refuses a ratio above one
  /\ \A close \in Closes : close.value \in Nat

VARIABLES
  service,   \* the exchange can update a position (ExchangePositionUpdateService)
  exch,      \* the position at the exchange: [base, life, stop]
  queue,     \* orders it has taken and not executed
  fills,     \* fills the entity has not seen
  local,     \* the entity's PositionX: [base, life, stop, profit]
  cmd,       \* the command in progress
  market,    \* the market data callback in progress
  announced, \* the last position_closed event
  whole,     \* history: the last position that lived through a k-line callback
  sent, bars

vars == <<service, exch, queue, fills, local, cmd, market, announced, whole, sent, bars>>
exchange == <<service, exch, queue, fills, sent>>
entity == <<local, announced, whole>>

NoCommand == [pc |-> "idle", side |-> "none", quantity |-> 0, stop |-> "none", wait |-> 0,
              life |-> 0, current |-> FALSE]
NoCallback == [pc |-> "idle", seen |-> 0, tries |-> 0, stop |-> "none"]
NoEvent == [life |-> 0, profit |-> 0, whole |-> FALSE]

Abs(n) == IF n < 0 THEN -n ELSE n
IsClosed == local.base = 0
IsDust == Abs(local.base) < MinQuantity
Side(base) == IF base > 0 THEN "buy" ELSE "sell"
Signed(side, quantity) == IF side = "buy" THEN quantity ELSE -quantity
Current == queue = <<>> /\ fills = <<>>
Room == sent < MaxOrders

-----------------------------------------------------------------------------
(* Quantities                                                              *)

\* Mutant: a fraction above one is not cut.
UncappedFraction(close) ==
  IF close.by = "percentage" /\ (close.percent \/ close.value > 100)
  THEN close.value \div 100 ELSE close.value

\* The fraction of the position close_position closes, in hundredths; "2" is
\* two percent and "1" is all of it.  0 stands for an argument that is refused.
closePercentage(close) ==
  LET fraction ==
        CASE close.by = "percentage" ->
               IF close.percent \/ close.value > 100 THEN close.value \div 100 ELSE close.value
          [] close.by = "quantity" -> (close.value * 100) \div Abs(local.base)
          [] close.by = "profit_amount" -> IF local.profit = 0 THEN 0 ELSE close.value
          [] OTHER -> 100
  IN IF fraction > 100 THEN 100 ELSE fraction

calculateQuantity(side, ratio) ==
  LET quote == IF ratio = 0 THEN QuoteQuantity ELSE (QuoteQuantity * ratio) \div 100
  IN IF side = "sell" THEN (quote * 99) \div 100 ELSE quote

\* Mutant: the same quantity is tried again.
SameQuantity(quantity) == quantity

Reduced(quantity) == (quantity * 99) \div 100

\* ParseStopLoss and ParseTakeProfit: a percentage needs a side, and
\* update_position has none when its arguments are parsed.
ParseStop(side, stop) ==
  IF stop = "price" \/ (stop = "percent" /\ side # "self") THEN "set" ELSE "none"

-----------------------------------------------------------------------------
(* Orders                                                                  *)

Order(kind, delta, stop, current) ==
  [kind |-> kind, delta |-> delta, stop |-> stop, current |-> current]

Taken(order) ==
  /\ sent' = sent + 1
  /\ queue' = Append(queue, order)

\* ClosePosition's order for a fraction of the position the entity sees.  A
\* full close is marked as such and can only close.
CloseOrder(fraction, current) ==
  Order(IF fraction = 100 THEN "close" ELSE "reduce",
        -Signed(Side(local.base), (Abs(local.base) * fraction) \div 100),
        "none", current)

\* ClosePosition refuses: no position, or a sale below the market's minimum.
CloseRefused(fraction) ==
  \/ IsClosed
  \/ local.base > 0 /\ (local.base * fraction) \div 100 < MinQuantity

-----------------------------------------------------------------------------
(* Commands                                                                *)

\* HandleCommand, close_position.  An exchange error leaves things as they are.
CloseCommand(close) ==
  LET fraction == closePercentage(close)
  IN /\ cmd.pc = "idle"
     /\ Room
     /\ ~IsDust
     /\ fraction > 0
     /\ ~CloseRefused(fraction)
     /\ Taken(CloseOrder(fraction, Current))
     /\ UNCHANGED <<service, exch, fills, entity, cmd, market, bars>>

\* A position in the other direction is closed before a new one is opened.
ClosesOpposite(side) == ~IsDust /\ Side(local.base) # side

Opening(side, ratio, stop, life, current) ==
  [NoCommand EXCEPT !.pc = "open", !.side = side, !.quantity = calculateQuantity(side, ratio),
                    !.stop = stop, !.life = life, !.current = current]

\* HandleCommand, open_long_position and open_short_position, up to OpenPosition's
\* loop.  The same direction is refused unless a quote_ratio is given.
OpenCommand(side, ratio, stop) ==
  /\ cmd.pc = "idle"
  /\ Room
  /\ \/ /\ ClosesOpposite(side)
        /\ ~CloseRefused(100)
        /\ Taken(CloseOrder(100, Current))
     \/ /\ ~ClosesOpposite(side)
        /\ IsDust \/ ratio > 0
        /\ UNCHANGED <<queue, sent>>
  /\ cmd' = Opening(side, ratio, ParseStop(side, stop), 0, Current)
  /\ UNCHANGED <<service, exch, fills, entity, market, bars>>

\* One round of OpenPosition's loop.
SubmitOpen ==
  LET delta == Signed(cmd.side, cmd.quantity)
  IN /\ cmd.pc = "open"
     /\ \/ /\ cmd.quantity < MinQuantity
           /\ cmd' = NoCommand
           /\ UNCHANGED <<queue, sent>>
        \/ /\ cmd.quantity >= MinQuantity
           /\ cmd.quantity > Funds
           /\ cmd' = [cmd EXCEPT !.quantity = Reduced(@)]
           /\ UNCHANGED <<queue, sent>>
        \/ /\ cmd.quantity \in MinQuantity..Funds
           /\ Taken(Order("open", delta, cmd.stop, cmd.current))
           /\ cmd' = NoCommand
     /\ UNCHANGED <<service, exch, fills, entity, market, bars>>

\* The exchange refuses the order for another reason.
OpenFails ==
  /\ cmd.pc = "open"
  /\ cmd' = NoCommand
  /\ UNCHANGED <<exchange, entity, market, bars>>

\* UpdatePositionV2: the entity's own copy is changed first, and keeps the new
\* triggers when the exchange refuses them.
UpdatePositionV2(stop) ==
  LET parsed == ParseStop("self", stop)
  IN /\ cmd.pc = "idle"
     /\ service
     /\ local' = [local EXCEPT !.stop = IF parsed = "none" THEN @ ELSE parsed]
     /\ \/ exch.base # 0 /\ exch' = [exch EXCEPT !.stop = local'.stop]
        \/ UNCHANGED exch
     /\ UNCHANGED <<service, queue, fills, sent, announced, whole, cmd, market, bars>>

\* UpdatePosition, for exchanges without the service: close, wait, open again.
UpdatePosition(stop) ==
  /\ cmd.pc = "idle"
  /\ ~service
  /\ Room
  /\ ~CloseRefused(100)
  /\ Taken(CloseOrder(100, Current))
  /\ cmd' = [NoCommand EXCEPT !.pc = "wait", !.side = Side(local.base),
                              !.stop = ParseStop("self", stop), !.life = local.life]
  /\ UNCHANGED <<service, exch, fills, entity, market, bars>>

\* Mutant: the wait has no end.
NeverTimesOut(wait) == FALSE

TimedOut(wait) == wait >= MaxWait

\* Mutant: the position is opened again after the first tick.
ReopensAtOnce == TRUE

CloseIsSeen == IsClosed

\* One tick of the wait, or its end.
WaitForClose ==
  /\ cmd.pc = "wait"
  /\ \/ /\ CloseIsSeen
        /\ cmd' = Opening(cmd.side, 0, cmd.stop, cmd.life, FALSE)
     \/ /\ ~CloseIsSeen
        /\ ~TimedOut(cmd.wait)
        /\ cmd' = [cmd EXCEPT !.wait = @ + 1]
     \/ /\ TimedOut(cmd.wait)
        /\ cmd' = NoCommand
  /\ UNCHANGED <<exchange, entity, market, bars>>

-----------------------------------------------------------------------------
(* The market data stream                                                  *)

\* The k-line callback computes the profit from what it reads ...
KLineClosed ==
  /\ market.pc = "idle"
  /\ bars < MaxBars
  /\ bars' = bars + 1
  /\ market' = [NoCallback EXCEPT !.pc = "profit", !.seen = IF IsClosed THEN 0 ELSE local.life]
  /\ UNCHANGED <<exchange, entity, cmd>>

\* Mutant: a profit once computed stays.
FirstProfitStays(profit) == IF local.profit = 0 THEN profit ELSE local.profit

UpdatedProfit(profit) == profit

\* ... and stores it (UpdateProfit).
UpdateProfit ==
  /\ market.pc = "profit"
  /\ local' = [local EXCEPT !.profit = UpdatedProfit(market.seen)]
  /\ whole' = IF market.seen # 0 /\ ~IsClosed /\ market.seen = local.life
              THEN local.life ELSE whole
  /\ market' = [market EXCEPT !.pc = "clean"]
  /\ UNCHANGED <<exchange, announced, cmd, bars>>

\* handleCleanPosition, on the same stream: nothing to do, or a query after a delay.
StartClean ==
  /\ market.pc = "clean"
  /\ market' = IF service /\ ~IsClosed THEN [market EXCEPT !.pc = "query"] ELSE NoCallback
  /\ UNCHANGED <<exchange, entity, cmd, bars>>

\* QueryPositionInfo, three times at most.
QueryPositionInfo ==
  /\ market.pc = "query"
  /\ \/ market' = [market EXCEPT !.pc = "check", !.stop = exch.stop]
     \/ market' = IF market.tries < 2 THEN [market EXCEPT !.tries = @ + 1] ELSE NoCallback
  /\ UNCHANGED <<exchange, entity, cmd, bars>>

\* The bar has reached a trigger, or has not.
CheckTriggers ==
  /\ market.pc = "check"
  /\ \/ /\ market.stop = "set"
        /\ Room
        /\ ~CloseRefused(100)
        /\ Taken(CloseOrder(100, FALSE))
     \/ UNCHANGED <<queue, sent>>
  /\ market' = NoCallback
  /\ UNCHANGED <<service, exch, fills, entity, cmd, bars>>

-----------------------------------------------------------------------------
(* The exchange (external) and the user data stream                        *)

Flips(before, after) == (before > 0 /\ after < 0) \/ (before < 0 /\ after > 0)

\* An order marked as a full close takes what is there, in its direction.
Executed(order) ==
  IF order.kind # "close" THEN order.delta
  ELSE IF Flips(exch.base, order.delta) THEN -exch.base ELSE 0

Execute ==
  LET order == Head(queue)
      delta == Executed(order)
      after == exch.base + delta
      new == exch.base = 0 \/ Flips(exch.base, after)
  IN /\ queue # <<>>
     /\ queue' = Tail(queue)
     /\ IF delta = 0 THEN UNCHANGED <<exch, fills>>
        ELSE /\ exch' = [base |-> after,
                         life |-> IF new THEN exch.life + 1 ELSE exch.life,
                         stop |-> IF after = 0 THEN "none" ELSE IF new THEN order.stop ELSE exch.stop]
             /\ fills' = Append(fills, [delta |-> delta, life |-> exch'.life])
     /\ UNCHANGED <<service, sent, entity, cmd, market, bars>>

\* The fill reaches the entity, and OnPositionUpdate announces a closed position.
PositionUpdate ==
  LET fill == Head(fills)
      closed == local.base + fill.delta = 0
  IN /\ fills # <<>>
     /\ fills' = Tail(fills)
     /\ local' = [local EXCEPT !.base = @ + fill.delta, !.life = fill.life]
     /\ announced' = IF closed
                     THEN [life |-> local.life, profit |-> local.profit,
                           whole |-> whole = local.life]
                     ELSE announced
     /\ UNCHANGED <<service, exch, queue, sent, cmd, market, whole, bars>>

-----------------------------------------------------------------------------

Init ==
  /\ service \in BOOLEAN
  /\ exch = [base |-> 0, life |-> 0, stop |-> "none"]
  /\ queue = <<>> /\ fills = <<>>
  /\ local = [base |-> 0, life |-> 0, stop |-> "none", profit |-> 0]
  /\ cmd = NoCommand
  /\ market = NoCallback
  /\ announced = NoEvent
  /\ whole = 0
  /\ sent = 0 /\ bars = 0

CommandStep == SubmitOpen \/ OpenFails \/ WaitForClose
CallbackStep == UpdateProfit \/ StartClean \/ QueryPositionInfo \/ CheckTriggers

Next ==
  \/ \E close \in Closes : CloseCommand(close)
  \/ \E side \in {"buy", "sell"}, ratio \in Ratios, stop \in Stops : OpenCommand(side, ratio, stop)
  \/ \E stop \in Stops : UpdatePositionV2(stop) \/ UpdatePosition(stop)
  \/ KLineClosed \/ CommandStep \/ CallbackStep
  \/ Execute \/ PositionUpdate

\* Both goroutines keep running: a loop's next round, a tick of a timer, an
\* answer or the timeout of a query comes in the end.
Spec == Init /\ [][Next]_vars
FairSpec == Spec /\ WF_vars(SubmitOpen) /\ WF_vars(WaitForClose) /\ WF_vars(CallbackStep)

-----------------------------------------------------------------------------
(* Properties                                                              *)

Unseen(base) ==
  LET after[i \in 0..Len(fills)] == IF i = 0 THEN base ELSE after[i - 1] + fills[i].delta
  IN after[Len(fills)]

\* Type invariant; the entity's view and the fills on their way make up the
\* position at the exchange.
TypeOK ==
  /\ cmd.pc \in {"idle", "open", "wait"}
  /\ cmd.quantity \in 0..QuoteQuantity /\ cmd.wait \in 0..MaxWait
  /\ market.pc \in {"idle", "profit", "clean", "query", "check"} /\ market.tries \in 0..2
  /\ Unseen(local.base) = exch.base
  /\ local.life \in 0..exch.life /\ announced.life \in 0..local.life
  /\ local.profit \in 0..exch.life /\ whole \in 0..exch.life

\* An order of a command that began with an up-to-date view does what it is for,
\* on a position that is more than dust: a close never goes past the position
\* it closes, an open never eats into one in the other direction
\* (closePercentage's bound, HandleCommand's close before an open, which takes
\* dust for no position).  Commands that follow each other faster than their
\* fills are seen have no such promise.
OrdersDoWhatTheyAreFor ==
  [][Len(queue') < Len(queue) /\ Head(queue).current /\ Abs(exch.base) >= MinQuantity =>
       /\ ~Flips(exch.base, exch'.base)
       /\ IF Head(queue).kind = "open" THEN Abs(exch'.base) > Abs(exch.base)
          ELSE Abs(exch'.base) <= Abs(exch.base)]_vars

\* UpdatePosition opens again only when the position it closed has ended, at the
\* exchange too, however late its fill is seen.
ReopensAfterClose ==
  [][cmd.life # 0 /\ cmd.pc = "open" /\ cmd' = NoCommand /\ sent' # sent =>
       exch.base = 0 \/ exch.life # cmd.life]_vars

\* The profit announced for a position that has lived through a k-line callback
\* is its own, though the profit is stored by one goroutine, announced by another
\* and never reset in between (UpdateProfit, OnPositionUpdate's callback).
AnnouncedProfitIsItsOwn == announced.whole => announced.profit = announced.life

\* A command comes to its end: OpenPosition reduces the quantity until it is
\* taken or too small, UpdatePosition's wait times out.
CommandsReturn == cmd.pc # "idle" ~> cmd.pc = "idle"
=============================================================================

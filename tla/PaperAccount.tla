---------------------------- MODULE PaperAccount ----------------------------
(***************************************************************************)
(* What a spot paper account promises, without bars, prices, fees, lots or *)
(* a ledger: an order reserves free funds once, and then either gives back *)
(* exactly what it reserved or settles, giving up the whole reserve for a  *)
(* credit in one currency.  Nothing else moves free funds.                 *)
(***************************************************************************)
EXTENDS Integers

CONSTANTS Currencies, OrderIds, StartBalance, NoHold

VARIABLES
  free,   \* [Currencies -> Nat]
  held,   \* [OrderIds -> [currency, amount]], NoHold unless the order is open
  phase   \* [OrderIds -> {"none", "open", "done"}]

accountVars == <<free, held, phase>>

Init ==
  /\ free = [c \in Currencies |-> StartBalance[c]]
  /\ held = [id \in OrderIds |-> NoHold]
  /\ phase = [id \in OrderIds |-> "none"]

Moves(id, from, to) ==
  /\ phase[id] = from
  /\ phase' = [phase EXCEPT ![id] = to]

OnlyChanges(c) ==
  /\ free'[c] \in Nat
  /\ free' = [free EXCEPT ![c] = free'[c]]

Reserve(id, c) ==
  /\ Moves(id, "none", "open")
  /\ OnlyChanges(c)
  /\ free'[c] <= free[c]
  /\ held' = [held EXCEPT ![id] = [currency |-> c, amount |-> free[c] - free'[c]]]

Release(id) ==
  /\ Moves(id, "open", "done")
  /\ free' = [free EXCEPT ![held[id].currency] = @ + held[id].amount]
  /\ held' = [held EXCEPT ![id] = NoHold]

Settle(id, c) ==
  /\ Moves(id, "open", "done")
  /\ OnlyChanges(c)
  /\ free'[c] >= free[c]
  /\ c # held[id].currency
  /\ held' = [held EXCEPT ![id] = NoHold]

Next ==
  \E id \in OrderIds :
    \/ \E c \in Currencies : Reserve(id, c) \/ Settle(id, c)
    \/ Release(id)

Spec == Init /\ [][Next]_accountVars
=============================================================================

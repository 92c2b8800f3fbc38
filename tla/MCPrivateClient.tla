--------------------------- MODULE MCPrivateClient ---------------------------
(***************************************************************************)
(* PrivateClient with two callers, orders of one and two units, and inputs *)
(* the client refuses: a limit order without a price and a stop order.     *)
(***************************************************************************)
EXTENDS PrivateClient

Input(t, p, q) == [type |-> t, price |-> p, quantity |-> q]
MCOrders ==
  {Input("LIMIT", 1, 2), Input("MARKET", 0, 1),
   Input("LIMIT", 0, 1), Input("STOP_LIMIT", 1, 1), Input("MARKET", 0, 0)}
Symmetric == Permutations(Callers)
=============================================================================

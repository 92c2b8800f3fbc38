-------------------------- MODULE MCPositionManager --------------------------
(***************************************************************************)
(* PositionManager with an account whose leveraged quote amount is more    *)
(* than the exchange accepts, so every full open is reduced first.         *)
(***************************************************************************)
EXTENDS PositionManager

Close(by, value, percent) == [by |-> by, value |-> value, percent |-> percent]
MCCloses ==
  {Close("all", 0, FALSE), Close("percentage", 15000, TRUE), Close("percentage", 50, FALSE),
   Close("quantity", 3, FALSE), Close("profit_amount", 50, FALSE)}
=============================================================================

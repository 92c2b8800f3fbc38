--------------------------- MODULE MCEvidenceStore ---------------------------
(***************************************************************************)
(* EvidenceStore with two goroutines and three finished runs: two reports  *)
(* of one run that differ, and one whose orders have no client id.  A      *)
(* fourth session still has an order open.                                 *)
(***************************************************************************)
EXTENDS EvidenceStore

Session(r, t, n, c) == [run |-> r, trades |-> t, named |-> n, complete |-> c]
MCSessions ==
  {Session("a", 1, TRUE, TRUE), Session("a", 2, TRUE, TRUE),
   Session("b", 1, TRUE, TRUE), Session("c", 1, FALSE, TRUE),
   Session("d", 1, TRUE, FALSE)}
=============================================================================

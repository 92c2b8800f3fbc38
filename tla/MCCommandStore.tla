--------------------------- MODULE MCCommandStore ---------------------------
(***************************************************************************)
(* CommandStore: goroutine names for TLC.                                  *)
(***************************************************************************)
EXTENDS CommandStore

MCExecutor == "loop"
=============================================================================

----------------------------- MODULE EvidenceLog -----------------------------
(***************************************************************************)
(* What an evidence file promises: a log of reports to which reports are   *)
(* added at the end, each run once, and of which only the end may be lost, *)
(* and nothing that a caller was told is committed.                        *)
(***************************************************************************)
EXTENDS Sequences, Integers

CONSTANTS
  Reports,       \* what can be logged
  SameRun(_, _)  \* whether two reports are of one run

VARIABLES
  log,       \* Seq(Reports)
  committed  \* the reports whose callers were told so

logVars == <<log, committed>>

Logged(r) == \E i \in DOMAIN log : log[i] = r

Init ==
  /\ log = <<>>
  /\ committed = {}

Add(r) ==
  /\ \A i \in DOMAIN log : ~SameRun(log[i], r)
  /\ log' = Append(log, r)
  /\ UNCHANGED committed

Confirm(r) ==
  /\ Logged(r)
  /\ committed' = committed \cup {r}
  /\ UNCHANGED log

\* The end of the log is taken back or lost.
Lose(n) ==
  /\ n < Len(log)
  /\ \A i \in n + 1 .. Len(log) : log[i] \notin committed
  /\ log' = SubSeq(log, 1, n)
  /\ UNCHANGED committed

Next ==
  \/ \E r \in Reports : Add(r) \/ Confirm(r)
  \/ \E n \in 0..Len(log) : Lose(n)

Spec == Init /\ [][Next]_logVars
=============================================================================

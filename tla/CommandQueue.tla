---------------------------- MODULE CommandQueue ----------------------------
(***************************************************************************)
(* What the next-cycle command store promises: a durable queue.  Commands  *)
(* are added once, may be run any number of times while they are queued,   *)
(* and leave the queue only after they were run.  The promise ends when    *)
(* the store has once failed to be read.                                   *)
(***************************************************************************)
EXTENDS Integers

CONSTANT Ids

VARIABLES
  queued,    \* commands waiting in the store
  attempted, \* commands run at least once
  damaged    \* a read of the store has failed

queueVars == <<queued, attempted, damaged>>

Init ==
  /\ queued = {}
  /\ attempted = {}
  /\ damaged = FALSE

Add(S) ==
  /\ S \cap (queued \cup attempted) = {}
  /\ queued' = queued \cup S
  /\ UNCHANGED <<attempted, damaged>>

Attempt(id) ==
  /\ id \in queued
  /\ attempted' = attempted \cup {id}
  /\ UNCHANGED <<queued, damaged>>

Settle(S) ==
  /\ S \subseteq queued \cap attempted
  /\ queued' = queued \ S
  /\ UNCHANGED <<attempted, damaged>>

Damage ==
  /\ damaged' = TRUE
  /\ UNCHANGED <<queued, attempted>>

\* A store taken for missing starts afresh; commands of before are forgotten.
Forget(S, T) ==
  /\ damaged
  /\ queued' = (queued \ S) \cup T
  /\ UNCHANGED <<attempted, damaged>>

Next ==
  \/ \E S \in SUBSET Ids : Add(S) \/ Settle(S)
  \/ \E id \in Ids : Attempt(id)
  \/ Damage
  \/ \E S, T \in SUBSET Ids : Forget(S, T)

Spec == Init /\ [][Next]_queueVars
=============================================================================

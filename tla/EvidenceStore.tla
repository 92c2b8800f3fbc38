---------------------------- MODULE EvidenceStore ----------------------------
(***************************************************************************)
(* The evidence file of pkg/exchanges/htx: an append-only file of lines    *)
(* written either by PaperLifecycleEvidenceFileStore.Append                *)
(* (paper_evidence_store.go) or by PaperLifecycleEvidenceRecorder.Record   *)
(* (paper_evidence_recorder.go).  Both take the path's lock, read the      *)
(* whole file, refuse what they cannot read, look for the same evidence,   *)
(* then append, roll back a failed write by truncation, and sync.          *)
(*                                                                         *)
(* A step is a stretch between two system calls that change the file or    *)
(* its durability; the process may end, and the machine may lose what was  *)
(* not synced, between any two of them.  The lock is one per path and      *)
(* process; several processes on one file are excluded by the code's own   *)
(* contract.  A line is a report, or Torn when it has no end.              *)
(***************************************************************************)
EXTENDS Integers, Sequences, FiniteSets

CONSTANTS
  Kinds,       \* {"store", "recorder"}: what writes the file
  Users,       \* goroutines that append
  Sessions,    \* what is reported: [run, trades, named, complete]
  MaxClock,    \* bounds the sessions' clock, which stamps an export
  MaxCrashes,  \* bounds the ends of the process and the power losses
  MaxErrors    \* bounds the failing writes, truncations and syncs

NoUser == "none"

ASSUME EvidenceAssumption ==
  /\ Kinds \subseteq {"store", "recorder"}
  /\ NoUser \notin Users
  /\ MaxClock \in Nat \ {0}

Torn == [kind |-> "torn", run |-> "none", trades |-> 0, named |-> FALSE, at |-> 0]

VARIABLES
  kind,     \* what writes this file
  file,     \* the lines as the next read sees them
  durable,  \* how many of them are known to be on disk
  dirty,    \* a failed write's remains may come back: it was cut off without a sync
  lock,     \* the user holding the path's lock, or NoUser
  proc,     \* [Users -> [pc, line, start]]
  clock,
  crashes, errors,
  told      \* history: the lines whose caller got (true, nil)

vars == <<kind, file, durable, dirty, lock, proc, clock, crashes, errors, told>>
disk == <<file, durable, dirty>>
env == <<kind, clock, crashes>>

Idle == [pc |-> "idle", line |-> Torn, start |-> 0]

-----------------------------------------------------------------------------
(* Lines                                                                   *)

Report(k, s, at) == [kind |-> k, run |-> s.run, trades |-> s.trades, named |-> s.named, at |-> at]
AllReports ==
  {Report(k, s, at) : k \in Kinds, s \in {x \in Sessions : x.complete}, at \in 1..MaxClock}

\* Of the required fields only an order's client id can be empty: nothing
\* before the export asks for one.
validatePaperLifecycleEvidence(line) == line # Torn /\ line.named

\* What must not be logged twice: to the recorder a run, by its id; to the
\* store, which knows no runs, the very same bytes.
SameRun(a, b) == IF a.kind = "recorder" THEN a.run = b.run ELSE a = b

\* The recorder's answer to a retry ignores the time of the export.
Equivalent(a, b) ==
  IF a.kind = "recorder" THEN [a EXCEPT !.at = 0] = [b EXCEPT !.at = 0] ELSE a = b

\* Whether readAllLocked or readRunsLocked returns the lines of the file.
Readable ==
  /\ \A i \in DOMAIN file : validatePaperLifecycleEvidence(file[i])
  /\ \A i, j \in DOMAIN file :
       SameRun(file[i], file[j]) => Equivalent(file[i], file[j])

-----------------------------------------------------------------------------
(* One append                                                              *)

Goto(u, pc) == proc' = [proc EXCEPT ![u].pc = pc]
Return(u) == lock' = NoUser /\ proc' = [proc EXCEPT ![u] = Idle]

\* Mutant: the lock is not taken.
EnterAnyway(u) == lock' = u

Enter(u) == lock = NoUser /\ lock' = u

\* Mutant: the recorder writes what it would not read.
AcceptAll(line) == TRUE

\* Only the recorder applies the readback's validation to what it writes.
Acceptable(line) == line.kind = "recorder" => validatePaperLifecycleEvidence(line)

\* Everything that happens before the file is opened for writing and can end
\* the call: an unreadable file, a session that is not exportable, evidence
\* that is not accepted, and the same run again, which is answered with
\* (false, nil) if the report is equivalent and refused if it is not.
Begin(u, s) ==
  LET line == Report(kind, s, clock)
  IN /\ proc[u].pc = "idle"
     /\ Enter(u)
     /\ Readable
     /\ s.complete
     /\ Acceptable(line)
     /\ \A i \in DOMAIN file : ~SameRun(file[i], line)
     /\ proc' = [proc EXCEPT ![u] = [pc |-> "write", line |-> line, start |-> Len(file)]]
     /\ UNCHANGED <<disk, env, errors, told>>

Written(line, start) == SubSeq(file, 1, start) \o <<line>>

Write(u) ==
  /\ proc[u].pc = "write"
  /\ file' = Written(proc[u].line, proc[u].start)
  /\ Goto(u, "sync")
  /\ UNCHANGED <<durable, dirty, lock, env, errors, told>>

\* The write fails or is short, having left a part of the line or nothing.
WriteFails(u) ==
  /\ proc[u].pc = "write"
  /\ errors < MaxErrors
  /\ errors' = errors + 1
  /\ file' \in {file, Written(Torn, proc[u].start)}
  /\ Goto(u, "truncate")
  /\ dirty' = TRUE
  /\ UNCHANGED <<durable, lock, env, told>>

Truncated(start) == SubSeq(file, 1, start)

Truncate(u) ==
  /\ proc[u].pc = "truncate"
  /\ file' = Truncated(proc[u].start)
  /\ Return(u)
  /\ UNCHANGED <<durable, dirty, env, errors, told>>

TruncateFails(u) ==
  /\ proc[u].pc = "truncate"
  /\ errors < MaxErrors
  /\ errors' = errors + 1
  /\ Return(u)
  /\ UNCHANGED <<disk, env, told>>

\* Mutant: the call is answered without a sync.
NothingSynced == durable

Synced == Len(file)

\* The sync reaches the whole file, also lines whose own sync had failed.
Sync(u) ==
  /\ proc[u].pc = "sync"
  /\ durable' = Synced
  /\ dirty' = FALSE
  /\ told' = told \cup {proc[u].line}
  /\ Return(u)
  /\ UNCHANGED <<file, env, errors>>

SyncFails(u) ==
  /\ proc[u].pc = "sync"
  /\ errors < MaxErrors
  /\ errors' = errors + 1
  /\ Return(u)
  /\ UNCHANGED <<disk, env, told>>

-----------------------------------------------------------------------------
(* Outside                                                                 *)

Restart ==
  /\ crashes < MaxCrashes
  /\ crashes' = crashes + 1
  /\ lock' = NoUser
  /\ proc' = [u \in Users |-> Idle]
  /\ UNCHANGED <<kind, clock, errors, told>>

Writing == {u \in Users : proc[u].pc = "write"}

\* The process ends, possibly inside a write.
Crash ==
  /\ Restart
  /\ file' \in {file} \cup {Written(Torn, proc[u].start) : u \in Writing}
  /\ UNCHANGED <<durable, dirty>>

\* The machine ends: of what was not synced any beginning remains.
PowerLoss ==
  /\ Restart
  /\ \E n \in durable..Len(file) :
       \/ file' = SubSeq(file, 1, n)
       \/ /\ n < Len(file) \/ dirty \/ Writing # {}
          /\ n > 0 => file[n] # Torn
          /\ file' = Written(Torn, n)
  /\ durable' = Len(file')
  /\ dirty' = FALSE

\* Someone removes the line without an end, as the error asks for.
Repair ==
  /\ lock = NoUser
  /\ file # <<>> /\ file[Len(file)] = Torn
  /\ file' = SubSeq(file, 1, Len(file) - 1)
  /\ durable' = IF durable < Len(file) THEN durable ELSE Len(file')
  /\ UNCHANGED <<dirty, lock, proc, env, errors, told>>

Tick ==
  /\ clock < MaxClock
  /\ clock' = clock + 1
  /\ UNCHANGED <<kind, disk, lock, proc, crashes, errors, told>>

Init ==
  /\ kind \in Kinds
  /\ file = <<>>
  /\ durable = 0
  /\ dirty = FALSE
  /\ lock = NoUser
  /\ proc = [u \in Users |-> Idle]
  /\ clock = 1
  /\ crashes = 0
  /\ errors = 0
  /\ told = {}

Next ==
  \/ \E u \in Users :
       \/ \E s \in Sessions : Begin(u, s)
       \/ Write(u) \/ WriteFails(u) \/ Truncate(u) \/ TruncateFails(u)
       \/ Sync(u) \/ SyncFails(u)
  \/ Crash \/ PowerLoss \/ Repair \/ Tick

Spec == Init /\ [][Next]_vars

-----------------------------------------------------------------------------
(* Properties                                                              *)

\* Type invariant.
TypeOK ==
  /\ kind \in Kinds
  /\ file \in Seq(AllReports \cup {Torn})
  /\ durable \in 0..Len(file)
  /\ dirty \in BOOLEAN
  /\ lock \in Users \cup {NoUser}
  /\ \A u \in Users :
       /\ proc[u] = Idle \/ (/\ proc[u].pc \in {"write", "truncate", "sync"}
                             /\ proc[u].line \in AllReports
                             /\ proc[u].start \in Nat)
       /\ proc[u] # Idle <=> lock = u
  /\ clock \in 1..MaxClock
  /\ told \subseteq AllReports

\* Only the last line of a file can be torn, and a file the recorder writes is
\* unreadable only while it is: no sequence of errors, crashes and retries
\* makes the recorder refuse lines it wrote itself (Record, readRunsLocked).
RecorderStaysReadable ==
  /\ \A i \in DOMAIN file : file[i] = Torn => i = Len(file)
  /\ kind = "recorder" /\ (\A i \in DOMAIN file : file[i] # Torn) => Readable

\* The file without a torn last line.
WholeLines ==
  IF file # <<>> /\ file[Len(file)] = Torn THEN SubSeq(file, 1, Len(file) - 1) ELSE file

\* The file implements the log: each run once, in order, and what a caller was
\* told is committed survives every error, crash and power loss.
Log == INSTANCE EvidenceLog WITH
  Reports <- AllReports, SameRun <- SameRun,
  log <- WholeLines, committed <- told
ImplementsLog == Log!Spec
=============================================================================

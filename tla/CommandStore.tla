---------------------------- MODULE CommandStore ----------------------------
(***************************************************************************)
(* The file behind next-cycle commands: pkg/memory/command_memory.go and   *)
(* its two users in pkg/jarvis.go, the cycle that runs pending commands    *)
(* and the agent answers that schedule new ones.                           *)
(*                                                                         *)
(* SaveCommands and ArchiveCompletedCommands read the whole file, change   *)
(* the store in memory, write it to one temporary path and rename that     *)
(* over the file, with no lock: the steps of two goroutines (the event     *)
(* loop and a chat message) may interleave, and the process may crash      *)
(* between any two of them.  An open file is followed through a rename, as *)
(* POSIX does.  A crash loses memory, never written file contents: loss of *)
(* power before the data reached the disk is not modelled.                 *)
(***************************************************************************)
EXTENDS Integers, Sequences, FiniteSets, SequencesExt, Selection

CONSTANTS
  Procs,          \* goroutines that use the store
  Executor,       \* the one among them that runs pending commands
  MaxRetries,     \* 1 for every command processNextCommands creates
  MaxKept,        \* completed or failed commands the archive keeps: 50
  MaxCommands,    \* bound on the commands ever scheduled
  MaxCrashes, MaxReadErrors, MaxWriteErrors   \* bounds on what goes wrong

\* Command ids, handed out in order.
Ids == 1..MaxCommands

ASSUME StoreAssumption ==
  /\ Executor \in Procs
  /\ {MaxRetries, MaxKept, MaxCommands} \subseteq Nat
  /\ {MaxCrashes, MaxReadErrors, MaxWriteErrors} \subseteq Nat
  /\ MaxRetries > 0

VARIABLES
  file,      \* contents of the command file: a store, None or Torn
  tmp,       \* contents of the temporary path, likewise
  proc,      \* [Procs -> control state of the goroutine]
  nextId,    \* the next command's id
  saved,     \* commands whose SaveCommands returned without an error
  ran,       \* [Ids -> how often the command was run]
  faults     \* how many [crashes, reads, writes] went wrong

vars == <<file, tmp, proc, nextId, saved, ran, faults>>

None == [kind |-> "none"]
Torn == [kind |-> "torn"]      \* truncated or half written: does not parse
Store(pending, completed, dead) ==
  [kind |-> "store", pending |-> pending, completed |-> completed, failed |-> dead]
EmptyStore == Store(<<>>, <<>>, <<>>)

Command(id) == [id |-> id, status |-> "pending", retries |-> 0]

Idle == [pc |-> "idle", op |-> "none", cmds |-> <<>>, at |-> 1,
         data |-> EmptyStore, fd |-> "none"]
Ready(p, pc) == proc[p].pc = pc

-----------------------------------------------------------------------------
(* Reading and changing a store in memory                                  *)

Readable == file.kind # "torn"

\* loadStore: a missing file is an empty store.
loadStore == IF file = None THEN EmptyStore ELSE file

Retryable(c) ==
  c.status = "pending" \/ (c.status = "failed" /\ c.retries < MaxRetries)

LoadPendingCommands ==
  Keep(loadStore.pending, {c \in ToSet(loadStore.pending) : Retryable(c)})

\* removeFromPending takes out the first command with this id.
Without(cmds, id) == RemoveFirstMatch(cmds, LAMBDA c : c.id = id)
Has(cmds, id) == \E i \in DOMAIN cmds : cmds[i].id = id
\* Pending ids differ (Place appends no second one), so the first is the only one.
Replaced(cmds, cmd) == [i \in DOMAIN cmds |-> IF cmds[i].id = cmd.id THEN cmd ELSE cmds[i]]

\* Mutant: a finished command is recorded but stays pending.
PlaceKeepsPending(s, cmd) ==
  CASE cmd.status = "pending" -> [s EXCEPT !.pending = Append(@, cmd)]
    [] cmd.status = "completed" -> [s EXCEPT !.completed = Append(@, cmd)]
    [] OTHER -> [s EXCEPT !.failed = Append(@, cmd)]

\* One command of a SaveCommands call, filed by its status.
Place(s, cmd) ==
  CASE cmd.status = "pending" ->
         [s EXCEPT !.pending = IF Has(@, cmd.id) THEN Replaced(@, cmd) ELSE Append(@, cmd)]
    [] cmd.status = "completed" ->
         [s EXCEPT !.pending = Without(@, cmd.id), !.completed = Append(@, cmd)]
    [] cmd.status = "failed" /\ cmd.retries >= MaxRetries ->
         [s EXCEPT !.pending = Without(@, cmd.id), !.failed = Append(@, cmd)]
    [] OTHER ->
         [s EXCEPT !.pending = Replaced(@, cmd)]

PlaceAll(s, cmds) == FoldLeft(Place, s, cmds)

\* SaveCommands starts afresh from a file it cannot read.
Updated(cmds) == PlaceAll(IF Readable THEN loadStore ELSE EmptyStore, cmds)

Newest(cmds) == SubSeq(cmds, 1 + Len(cmds) - (IF Len(cmds) > MaxKept THEN MaxKept ELSE Len(cmds)), Len(cmds))

Archived(s) == [s EXCEPT !.completed = Newest(@), !.failed = Newest(@)]

-----------------------------------------------------------------------------
(* Scheduling and running commands                                         *)

\* processNextCommands: the agent's answer schedules new commands.
ScheduleCommands(p, n) ==
  /\ Ready(p, "idle")
  /\ nextId + n - 1 \in Ids
  /\ nextId' = nextId + n
  /\ proc' = [proc EXCEPT ![p] =
       [Idle EXCEPT !.pc = "save", !.op = "schedule",
                    !.cmds = [i \in 1..n |-> Command(nextId + i - 1)]]]
  /\ UNCHANGED <<file, tmp, saved, ran, faults>>

\* Mutant: a temporary file left behind is taken for a save in progress.
StartCycleUnlessTemp(p) ==
  /\ p = Executor
  /\ Ready(p, "idle")
  /\ tmp = None
  /\ Readable
  /\ LoadPendingCommands # <<>>
  /\ proc' = [proc EXCEPT ![p] =
       [Idle EXCEPT !.pc = "run", !.op = "status", !.cmds = LoadPendingCommands]]
  /\ UNCHANGED <<file, tmp, nextId, saved, ran, faults>>

\* executeNextCycleCommands: nothing happens when the file cannot be read or
\* holds nothing to run.
StartCycle(p) ==
  /\ p = Executor
  /\ Ready(p, "idle")
  /\ Readable
  /\ LoadPendingCommands # <<>>
  /\ proc' = [proc EXCEPT ![p] =
       [Idle EXCEPT !.pc = "run", !.op = "status", !.cmds = LoadPendingCommands]]
  /\ UNCHANGED <<file, tmp, nextId, saved, ran, faults>>

\* Mutant: a failure is not counted.
UncountedFailure(cmd, ok) ==
  IF ok THEN [cmd EXCEPT !.status = "completed"] ELSE [cmd EXCEPT !.status = "failed"]

AfterRun(cmd, ok) ==
  IF ok THEN [cmd EXCEPT !.status = "completed"]
  ELSE [cmd EXCEPT !.status = "failed", !.retries = @ + 1]

\* Mutant: a failing command is tried again at once.
RunCommandAgain(p, ok) ==
  LET me == proc[p]
      cmd == me.cmds[me.at]
  IN
  /\ Ready(p, "run")
  /\ me.at <= Len(me.cmds)
  /\ ran' = [ran EXCEPT ![cmd.id] = @ + 1]
  /\ proc' = [proc EXCEPT ![p].cmds[me.at] = AfterRun(cmd, ok),
                          ![p].at = IF ok THEN @ + 1 ELSE @]
  /\ UNCHANGED <<file, tmp, nextId, saved, faults>>

RunCommand(p, ok) ==
  LET me == proc[p]
      cmd == me.cmds[me.at]
  IN
  /\ Ready(p, "run")
  /\ me.at <= Len(me.cmds)
  /\ ran' = [ran EXCEPT ![cmd.id] = @ + 1]
  /\ proc' = [proc EXCEPT ![p].cmds[me.at] = AfterRun(cmd, ok), ![p].at = @ + 1]
  /\ UNCHANGED <<file, tmp, nextId, saved, faults>>

EndCycle(p) ==
  /\ Ready(p, "run")
  /\ proc[p].at > Len(proc[p].cmds)
  /\ proc' = [proc EXCEPT ![p].pc = "save"]
  /\ UNCHANGED <<file, tmp, nextId, saved, ran, faults>>

-----------------------------------------------------------------------------
(* Writing the file                                                        *)

\* The statuses are saved, then archived, also when saving failed.
AfterSave(p) == IF proc[p].op = "status" THEN [Idle EXCEPT !.pc = "archive"] ELSE Idle

LoadForSave(p) ==
  /\ Ready(p, "save")
  /\ proc' = [proc EXCEPT ![p].pc = "open", ![p].data = Updated(proc[p].cmds)]
  /\ UNCHANGED <<file, tmp, nextId, saved, ran, faults>>

\* A read that fails is taken for a missing file: the store starts afresh.
LoadFails(p) ==
  /\ Ready(p, "save")
  /\ faults.reads < MaxReadErrors
  /\ faults' = [faults EXCEPT !.reads = @ + 1]
  /\ proc' = [proc EXCEPT ![p].pc = "open",
                          ![p].data = PlaceAll(EmptyStore, proc[p].cmds)]
  /\ UNCHANGED <<file, tmp, nextId, saved, ran>>

\* ArchiveCompletedCommands gives up on a file it cannot read.
LoadForArchive(p) ==
  /\ Ready(p, "archive")
  /\ proc' = [proc EXCEPT ![p] =
       IF Readable
       THEN [Idle EXCEPT !.pc = "open", !.op = "archive", !.data = Archived(loadStore)]
       ELSE Idle]
  /\ UNCHANGED <<file, tmp, nextId, saved, ran, faults>>

\* Mutant: the file itself is truncated and written.
OpenInPlace(p) ==
  /\ Ready(p, "open")
  /\ file' = Torn
  /\ proc' = [proc EXCEPT ![p].pc = "write", ![p].fd = "file"]
  /\ UNCHANGED <<tmp, nextId, saved, ran, faults>>

\* os.WriteFile creates or truncates the temporary file ...
OpenTemp(p) ==
  /\ Ready(p, "open")
  /\ tmp' = Torn
  /\ proc' = [proc EXCEPT ![p].pc = "write", ![p].fd = "tmp"]
  /\ UNCHANGED <<file, nextId, saved, ran, faults>>

\* What a write leaves in a file: over what another writer put there, it may
\* leave the tail of it behind.
Written(data, old) == IF old = Torn THEN {data} ELSE {data, Torn}

\* ... and writes to the file it opened, wherever a rename has moved it.
WriteTemp(p) ==
  LET me == proc[p]
  IN
  /\ Ready(p, "write")
  /\ \/ me.fd = "tmp" /\ tmp' \in Written(me.data, tmp) /\ UNCHANGED file
     \/ me.fd = "file" /\ file' \in Written(me.data, file) /\ UNCHANGED tmp
     \/ me.fd = "gone" /\ UNCHANGED <<file, tmp>>
  /\ proc' = [proc EXCEPT ![p].pc = "rename"]
  /\ UNCHANGED <<nextId, saved, ran, faults>>

WriteFails(p) ==
  /\ Ready(p, "write")
  /\ faults.writes < MaxWriteErrors
  /\ faults' = [faults EXCEPT !.writes = @ + 1]
  /\ proc' = [proc EXCEPT ![p] = AfterSave(p)]
  /\ UNCHANGED <<file, tmp, nextId, saved, ran>>

\* Where an open file is after a rename of tmp over file.
Moved(fd) == CASE fd = "tmp" -> "file" [] fd = "file" -> "gone" [] OTHER -> fd

\* The rename moves what is at the temporary path now, whoever wrote it.
Rename(p) ==
  LET me == proc[p]
  IN
  /\ Ready(p, "rename")
  /\ tmp # None
  /\ file' = tmp
  /\ tmp' = None
  /\ saved' = IF me.op = "schedule" THEN saved \cup {c.id : c \in ToSet(me.cmds)} ELSE saved
  /\ proc' = [q \in Procs |->
       IF q = p THEN AfterSave(p) ELSE [proc[q] EXCEPT !.fd = Moved(@)]]
  /\ UNCHANGED <<nextId, ran, faults>>

\* The rename fails, by itself or because another goroutine's has taken the
\* temporary file: that file is removed.
RenameFails(p) ==
  /\ Ready(p, "rename")
  /\ \/ tmp = None /\ UNCHANGED faults
     \/ /\ faults.writes < MaxWriteErrors
        /\ faults' = [faults EXCEPT !.writes = @ + 1]
  /\ tmp' = None
  /\ proc' = [q \in Procs |->
       CASE q = p -> AfterSave(p)
         [] q # p /\ proc[q].fd = "tmp" -> [proc[q] EXCEPT !.fd = "gone"]
         [] OTHER -> proc[q]]
  /\ UNCHANGED <<file, nextId, saved, ran>>

Crash ==
  /\ faults.crashes < MaxCrashes
  /\ faults' = [faults EXCEPT !.crashes = @ + 1]
  /\ proc' = [p \in Procs |-> Idle]
  /\ UNCHANGED <<file, tmp, nextId, saved, ran>>

-----------------------------------------------------------------------------
Init ==
  /\ file = None
  /\ tmp = None
  /\ proc = [p \in Procs |-> Idle]
  /\ nextId = 1
  /\ saved = {}
  /\ ran = [id \in Ids |-> 0]
  /\ faults = [crashes |-> 0, reads |-> 0, writes |-> 0]

Save(p) ==
  \/ LoadForSave(p) \/ LoadFails(p) \/ LoadForArchive(p)
  \/ OpenTemp(p) \/ WriteTemp(p) \/ WriteFails(p) \/ Rename(p) \/ RenameFails(p)

Cycle(p) ==
  StartCycle(p) \/ (\E ok \in BOOLEAN : RunCommand(p, ok)) \/ EndCycle(p)

Next ==
  \/ \E p \in Procs : Cycle(p) \/ Save(p) \/ \E n \in Ids : ScheduleCommands(p, n)
  \/ Crash

Spec == Init /\ [][Next]_vars

\* Decision cycles keep coming and their steps are not put off for ever.
FairSpec == Spec /\ \A p \in Procs : WF_vars(Cycle(p)) /\ WF_vars(Save(p))

-----------------------------------------------------------------------------
(* Properties                                                              *)

Commands == [id: Ids, status: {"pending", "completed", "failed"}, retries: 0..MaxRetries]
Stores == [kind: {"store"}, pending: Seq(Commands), completed: Seq(Commands), failed: Seq(Commands)]

\* Type invariant.
TypeOK ==
  /\ {file, tmp} \subseteq Stores \cup {None, Torn}
  /\ \A p \in Procs :
       /\ proc[p].cmds \in Seq(Commands)
       /\ proc[p].at \in 1..(Len(proc[p].cmds) + 1)
       /\ proc[p].data \in Stores
       /\ proc[p].fd \in {"none", "tmp", "file", "gone"}
  /\ nextId \in Nat \ {0}
  /\ saved \subseteq Ids
  /\ ran \in [Ids -> Nat]

IdsOf(cmds) == {c.id : c \in ToSet(cmds)}
Queued == IF file.kind = "store" THEN IdsOf(file.pending) ELSE {}

\* Documented (docs/features/next_commands_feature.md:11, and
\* pkg/memory/command_memory.go:161, "atomic write"): a command whose scheduling
\* was reported as saved is in the store until it has been run.
SavedCommandsSurvive ==
  \A id \in saved : id \in Queued \/ ran[id] > 0

\* A command is in at most one of the three lists, and once, whatever crashes
\* and fails: also when a save that was never made, or a store started afresh,
\* lets a finished command be filed again (SaveCommands).
EachCommandInOneList ==
  file.kind = "store" =>
    LET all == file.pending \o file.completed \o file.failed
    IN Cardinality(IdsOf(all)) = Len(all)

\* A command is run again only to retry a failure or because a crash or a
\* failed write came between running it and saving that it ran.
RunsAreAccountedFor ==
  \A id \in Ids : ran[id] <= MaxRetries + faults.crashes + faults.writes

\* Every saved command is run in the end, unless a read of the file has failed.
SavedCommandsRun == \A id \in Ids : id \in saved ~> ran[id] > 0 \/ faults.reads > 0

Queue == INSTANCE CommandQueue WITH
  queued <- Queued, attempted <- {id \in Ids : ran[id] > 0}, damaged <- faults.reads > 0

\* With one user, the store is a durable queue until a read of it fails: neither
\* a crash nor a failed write or rename loses a command, leaves a file that does
\* not parse, or drops a command that was not run (saveStore's rename).
ImplementsQueue == Queue!Spec
=============================================================================

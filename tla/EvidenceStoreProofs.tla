------------------------- MODULE EvidenceStoreProofs -------------------------
(***************************************************************************)
(* The evidence file implements the log, for every kind of writer, set of  *)
(* sessions and goroutines, and any number of failing calls, crashes and   *)
(* power losses.  Only the last line of a file is ever torn, the lines     *)
(* before it are those the writer accepts, no two of them are of one run,  *)
(* and what a caller was told is committed is among the synced lines.      *)
(***************************************************************************)
EXTENDS EvidenceStore, SequenceTheorems, TLAPS

Lines == AllReports \cup {Torn}

Whole(f, n) == \A i \in 1..n : f[i] # Torn

\* What the writer may find in a file, whatever happened to it.
Sound(f) ==
  /\ \A i \in 1..Len(f) : f[i] = Torn => i = Len(f)
  /\ \A i \in 1..Len(f) : f[i] # Torn => f[i].kind = kind /\ Acceptable(f[i])
  /\ \A i, j \in 1..Len(f) :
       i # j /\ f[i] # Torn /\ f[j] # Torn => ~SameRun(f[i], f[j])

WholeOf(f) == IF f # <<>> /\ f[Len(f)] = Torn THEN SubSeq(f, 1, Len(f) - 1) ELSE f

Ended(f, n, line) == SubSeq(f, 1, n) \o <<line>>

Entry == [pc: {"idle", "write", "truncate", "sync"}, line: Lines, start: Nat]

StoreTypeOK ==
  /\ kind \in Kinds
  /\ file \in Seq(Lines)
  /\ durable \in 0..Len(file)
  /\ dirty \in BOOLEAN
  /\ lock \in Users \cup {NoUser}
  /\ proc \in [Users -> Entry]
  /\ \A u \in Users :
       /\ proc[u].pc = "idle" => proc[u] = Idle
       /\ proc[u].pc # "idle" <=> lock = u
  /\ clock \in 1..MaxClock
  /\ told \subseteq AllReports

\* What a writer knows of the file from its reading on, being alone.
Appending(u) ==
  LET line == proc[u].line  start == proc[u].start
  IN /\ proc[u].pc # "idle" => line \in AllReports
     /\ proc[u].pc = "write" =>
          /\ start = Len(file) /\ Whole(file, Len(file))
          /\ line.kind = kind /\ Acceptable(line)
          /\ \A i \in 1..Len(file) : ~SameRun(file[i], line)
     /\ proc[u].pc = "truncate" =>
          /\ start \in durable..Len(file) /\ Len(file) <= start + 1
          /\ Whole(file, start)
          /\ Len(file) = start + 1 => file[start + 1] = Torn
     /\ proc[u].pc = "sync" =>
          /\ Len(file) = start + 1 /\ file[start + 1] = line
          /\ Whole(file, Len(file))

\* What was committed is on disk.
ToldIsDurable == \A r \in told : \E i \in 1..durable : file[i] = r

StoreInv ==
  /\ StoreTypeOK
  /\ Sound(file)
  /\ \A u \in Users : Appending(u)
  /\ ToldIsDurable

-----------------------------------------------------------------------------
(* Lines and files                                                         *)

LEMMA ReportKind == \A r \in AllReports : r.kind \in Kinds
BY DEF AllReports, Report

LEMMA ReportIsNotTorn == Torn \notin AllReports
<1>1. Torn.kind = "torn"
  BY DEF Torn
<1>2. "torn" \notin Kinds
  BY EvidenceAssumption
<1>3. QED
  BY <1>1, <1>2, ReportKind

LEMMA TornLine == Torn \in Lines
BY DEF Lines

LEMMA CutFile ==
  ASSUME NEW f \in Seq(Lines), NEW n \in 0..Len(f)
  PROVE  /\ SubSeq(f, 1, n) \in Seq(Lines)
         /\ Len(SubSeq(f, 1, n)) = n
         /\ \A i \in 1..n : SubSeq(f, 1, n)[i] = f[i]
<1>1. \A i \in 1..n : f[i] \in Lines
  BY ElementOfSeq
<1>2. n \in Int /\ 1 \in Int
  OBVIOUS
<1>3. QED
  BY <1>1, <1>2, SubSeqProperties

LEMMA ExtendedFile ==
  ASSUME NEW f \in Seq(Lines), NEW n \in 0..Len(f), NEW line \in Lines
  PROVE  /\ Ended(f, n, line) \in Seq(Lines)
         /\ Len(Ended(f, n, line)) = n + 1
         /\ \A i \in 1..n : Ended(f, n, line)[i] = f[i]
         /\ Ended(f, n, line)[n + 1] = line
<1> DEFINE cut == SubSeq(f, 1, n)
<1>1. cut \in Seq(Lines) /\ Len(cut) = n /\ \A i \in 1..n : cut[i] = f[i]
  BY CutFile
<1> HIDE DEF cut
<1>2. Ended(f, n, line) = Append(cut, line)
  BY <1>1, AppendIsConcat DEF cut, Ended
<1>3. QED
  BY <1>1, <1>2, AppendProperties

LEMMA WrittenEnds == \A line, n : Written(line, n) = Ended(file, n, line)
BY DEF Written, Ended

LEMMA WholeCut ==
  ASSUME NEW f \in Seq(Lines)
  PROVE  SubSeq(f, 1, Len(f)) = f
<1>1. Len(f) \in 0..Len(f)
  BY LenProperties
<1>2. QED
  BY <1>1, CutFile, SeqEqual

LEMMA WholeOfCut ==
  ASSUME NEW f \in Seq(Lines), NEW n \in 0..Len(f), Whole(f, n)
  PROVE  WholeOf(SubSeq(f, 1, n)) = SubSeq(f, 1, n)
<1> DEFINE g == SubSeq(f, 1, n)
<1>1. g \in Seq(Lines) /\ Len(g) = n /\ \A i \in 1..n : g[i] = f[i]
  BY CutFile
<1> HIDE DEF g
<1>2. g # <<>> => Len(g) \in 1..n
  BY <1>1, EmptySeq
<1>3. QED
  BY <1>1, <1>2 DEF WholeOf, Whole, g

LEMMA WholeOfTorn ==
  ASSUME NEW f \in Seq(Lines), NEW n \in 0..Len(f)
  PROVE  WholeOf(Ended(f, n, Torn)) = SubSeq(f, 1, n)
<1> DEFINE g == Ended(f, n, Torn)
           cut == SubSeq(f, 1, n)
<1>1. g \in Seq(Lines) /\ Len(g) = n + 1 /\ g[n + 1] = Torn
      /\ \A i \in 1..n : g[i] = f[i]
  BY ExtendedFile, TornLine
<1>2. cut \in Seq(Lines) /\ Len(cut) = n /\ \A i \in 1..n : cut[i] = f[i]
  BY CutFile
<1> HIDE DEF g, cut
<1>3. g # <<>> /\ Len(g) - 1 = n /\ n \in 0..Len(g)
  BY <1>1, EmptySeq
<1>4. SubSeq(g, 1, n) \in Seq(Lines) /\ Len(SubSeq(g, 1, n)) = n
      /\ \A i \in 1..n : SubSeq(g, 1, n)[i] = g[i]
  BY <1>1, <1>3, CutFile
<1>5. SubSeq(g, 1, n) = cut
  BY <1>1, <1>2, <1>4, SeqEqual
<1>6. QED
  BY <1>1, <1>3, <1>5 DEF WholeOf, g, cut

\* The whole lines of a sound file, as a beginning of it.
LEMMA WholeBeginning ==
  ASSUME NEW f \in Seq(Lines), \A i \in 1..Len(f) : f[i] = Torn => i = Len(f)
  PROVE  \E n \in 0..Len(f) :
           /\ Whole(f, n) /\ WholeOf(f) = SubSeq(f, 1, n)
           /\ n = Len(f) \/ (n + 1 = Len(f) /\ f[n + 1] = Torn)
<1>1. CASE f # <<>> /\ f[Len(f)] = Torn
  <2> DEFINE n == Len(f) - 1
  <2>1. n \in 0..Len(f) /\ n + 1 = Len(f) /\ f[n + 1] = Torn
    BY <1>1, EmptySeq
  <2>2. WholeOf(f) = SubSeq(f, 1, n)
    BY <1>1 DEF WholeOf
  <2> HIDE DEF n
  <2>3. Whole(f, n)
    BY <2>1 DEF Whole
  <2>4. QED
    BY <2>1, <2>2, <2>3
<1>2. CASE ~(f # <<>> /\ f[Len(f)] = Torn)
  <2>1. Len(f) \in 0..Len(f) /\ (f = <<>> => Len(f) = 0)
    BY LenProperties, EmptySeq
  <2>2. Whole(f, Len(f))
    BY <1>2, <2>1 DEF Whole
  <2>3. QED
    BY <1>2, <2>1, <2>2, WholeCut DEF WholeOf
<1>3. QED
  BY <1>1, <1>2

LEMMA SameRunSymmetric ==
  ASSUME NEW a, NEW b, a.kind = b.kind, SameRun(a, b)
  PROVE  SameRun(b, a)
BY DEF SameRun

LEMMA SoundCut ==
  ASSUME NEW f \in Seq(Lines), Sound(f), NEW n \in 0..Len(f)
  PROVE  Sound(SubSeq(f, 1, n))
<1> DEFINE g == SubSeq(f, 1, n)
<1>1. g \in Seq(Lines) /\ Len(g) = n /\ \A i \in 1..n : g[i] = f[i]
  BY CutFile
<1> HIDE DEF g
<1>2. \A i \in 1..n : i \in 1..Len(f) /\ (i = Len(f) => i = n)
  BY LenProperties
<1>3. Sound(g)
  BY <1>1, <1>2 DEF Sound
<1>4. QED
  BY <1>3 DEF g

LEMMA SoundTorn ==
  ASSUME NEW f \in Seq(Lines), Sound(f), NEW n \in 0..Len(f), Whole(f, n)
  PROVE  Sound(Ended(f, n, Torn))
<1> DEFINE g == Ended(f, n, Torn)
<1>1. g \in Seq(Lines) /\ Len(g) = n + 1 /\ g[n + 1] = Torn
      /\ \A i \in 1..n : g[i] = f[i]
  BY ExtendedFile, TornLine
<1> HIDE DEF g
<1>2. \A i \in 1..(n + 1) : i = n + 1 \/ (i \in 1..n /\ i \in 1..Len(f))
  BY LenProperties
<1>3. Sound(g)
  BY <1>1, <1>2 DEF Sound, Whole
<1>4. QED
  BY <1>3 DEF g

LEMMA SoundLine ==
  ASSUME NEW f \in Seq(Lines), Sound(f), Whole(f, Len(f)),
         NEW line \in AllReports, line.kind = kind, Acceptable(line),
         \A i \in 1..Len(f) : ~SameRun(f[i], line),
         NEW g \in Seq(Lines), Len(g) = Len(f) + 1,
         \A i \in 1..Len(f) : g[i] = f[i], g[Len(f) + 1] = line
  PROVE  Sound(g) /\ Whole(g, Len(g))
<1>1. \A i \in 1..Len(g) : i = Len(f) + 1 \/ i \in 1..Len(f)
  BY LenProperties
<1>2. line # Torn
  BY ReportIsNotTorn
<1>3. Whole(g, Len(g))
  BY <1>1, <1>2 DEF Whole
<1>4. \A i \in 1..Len(g) : g[i].kind = kind /\ Acceptable(g[i])
  BY <1>1 DEF Sound, Whole
<1>5. \A i \in 1..Len(f) : ~SameRun(line, f[i])
  BY SameRunSymmetric DEF Sound, Whole
<1>6. ASSUME NEW i \in 1..Len(g), NEW j \in 1..Len(g), i # j
      PROVE  ~SameRun(g[i], g[j])
  BY <1>1, <1>5, <1>6 DEF Sound, Whole
<1>7. QED
  BY <1>3, <1>4, <1>6 DEF Sound, Whole

-----------------------------------------------------------------------------
(* The invariant                                                           *)

LEMMA StoreInit == Init => StoreInv
<1> SUFFICES ASSUME Init PROVE StoreInv
  OBVIOUS
<1>1. file \in Seq(Lines) /\ Len(file) = 0
  BY EmptySeq DEF Init
<1>2. Idle \in Entry /\ Idle.pc = "idle"
  BY DEF Idle, Entry, Lines
<1>3. StoreTypeOK
  <2>1. durable \in 0..Len(file) /\ clock \in 1..MaxClock
    BY <1>1, EvidenceAssumption DEF Init
  <2>2. proc \in [Users -> Entry] /\ \A u \in Users : proc[u] = Idle /\ lock # u
    BY <1>2, EvidenceAssumption DEF Init
  <2>3. QED
    BY <1>1, <1>2, <2>1, <2>2 DEF Init, StoreTypeOK
<1>4. Sound(file) /\ ToldIsDurable
  BY <1>1 DEF Init, Sound, ToldIsDurable
<1>5. \A u \in Users : Appending(u)
  BY <1>2 DEF Init, Appending
<1>6. QED
  BY <1>3, <1>4, <1>5 DEF StoreInv

\* The lock is one: all others are idle.
LEMMA OthersIdle ==
  ASSUME StoreTypeOK, NEW u \in Users, proc[u].pc # "idle"
  PROVE  lock = u /\ \A v \in Users : v # u => proc[v] = Idle
BY EvidenceAssumption DEF StoreTypeOK

LEMMA AllIdle ==
  ASSUME \A v \in Users : proc'[v] = Idle
  PROVE  \A v \in Users : Appending(v)'
BY DEF Appending, Idle

LEMMA Returns ==
  ASSUME StoreTypeOK, NEW u \in Users, proc[u].pc # "idle", Return(u)
  PROVE  /\ lock' = NoUser /\ proc' \in [Users -> Entry]
         /\ \A v \in Users : proc'[v] = Idle /\ proc'[v].pc = "idle" /\ lock' # v
         /\ \A v \in Users : Appending(v)'
<1>1. Idle \in Entry /\ Idle.pc = "idle"
  BY DEF Idle, Entry, Lines
<1>2. \A v \in Users : v # u => proc[v] = Idle
  BY OthersIdle
<1>3. proc' = [proc EXCEPT ![u] = Idle] /\ lock' = NoUser
  BY DEF Return
<1>4. proc' \in [Users -> Entry] /\ \A v \in Users : proc'[v] = Idle
  BY <1>1, <1>2, <1>3 DEF StoreTypeOK
<1>5. QED
  BY <1>1, <1>3, <1>4, AllIdle, EvidenceAssumption

LEMMA Goes ==
  ASSUME StoreTypeOK, NEW u \in Users, proc[u].pc # "idle",
         NEW pc \in {"truncate", "sync"}, Goto(u, pc)
  PROVE  /\ proc' \in [Users -> Entry]
         /\ proc'[u].pc = pc /\ proc'[u].line = proc[u].line
         /\ proc'[u].start = proc[u].start
         /\ \A v \in Users : v # u => proc'[v] = Idle /\ proc'[v].pc = "idle"
<1>1. Idle.pc = "idle"
  BY DEF Idle
<1>2. \A v \in Users : v # u => proc[v] = Idle
  BY OthersIdle
<1>3. QED
  BY <1>1, <1>2 DEF Goto, StoreTypeOK, Entry

\* The types after a step that ends the call, and after one within it.
LEMMA ReturnTypes ==
  ASSUME StoreTypeOK, NEW u \in Users, proc[u].pc # "idle", Return(u),
         file' \in Seq(Lines), durable' \in 0..Len(file'), dirty' \in BOOLEAN,
         kind' = kind, clock' = clock, told' \subseteq AllReports
  PROVE  StoreTypeOK'
BY Returns DEF StoreTypeOK

LEMMA GotoTypes ==
  ASSUME StoreTypeOK, NEW u \in Users, proc[u].pc # "idle",
         NEW pc \in {"truncate", "sync"}, Goto(u, pc),
         file' \in Seq(Lines), durable' \in 0..Len(file'), dirty' \in BOOLEAN,
         kind' = kind, clock' = clock, lock' = lock, told' = told
  PROVE  StoreTypeOK'
<1>1. lock = u /\ \A v \in Users : v # u => lock # v
  BY OthersIdle
<1>2. QED
  BY <1>1, Goes DEF StoreTypeOK

-----------------------------------------------------------------------------
(* Each step                                                               *)

LEMMA BeginKeeps ==
  ASSUME StoreInv, NEW u \in Users, NEW s \in Sessions, Begin(u, s)
  PROVE  StoreInv'
<1> DEFINE line == Report(kind, s, clock)
<1>1. line \in AllReports /\ line.kind = kind
  BY DEF Begin, StoreInv, StoreTypeOK, AllReports, Report
<1>2. proc' = [proc EXCEPT ![u] = [pc |-> "write", line |-> line, start |-> Len(file)]]
      /\ Acceptable(line) /\ (\A i \in DOMAIN file : ~SameRun(file[i], line))
      /\ lock = NoUser /\ lock' = u /\ Readable
  BY DEF Begin, Enter
<1>3. UNCHANGED <<kind, file, durable, dirty, clock, told>>
  BY DEF Begin, disk, env
<1> HIDE DEF line
<1>4. file \in Seq(Lines) /\ Len(file) \in Nat /\ DOMAIN file = 1..Len(file)
  BY LenProperties DEF StoreInv, StoreTypeOK
<1>5. Whole(file, Len(file))
  BY <1>2, <1>4 DEF Readable, validatePaperLifecycleEvidence, Whole
<1>6. \A v \in Users : proc[v] = Idle /\ proc[v].pc = "idle"
  BY <1>2, EvidenceAssumption DEF StoreInv, StoreTypeOK
<1>7. /\ proc' \in [Users -> Entry]
      /\ proc'[u] = [pc |-> "write", line |-> line, start |-> Len(file)]
      /\ \A v \in Users : v # u => proc'[v] = Idle /\ proc'[v].pc = "idle"
  BY <1>1, <1>2, <1>4, <1>6 DEF StoreInv, StoreTypeOK, Entry, Lines
<1>8. StoreTypeOK'
  BY <1>2, <1>3, <1>7 DEF StoreInv, StoreTypeOK
<1>9. Appending(u)'
  BY <1>1, <1>2, <1>3, <1>4, <1>5, <1>7 DEF Appending
<1>10. \A v \in Users : Appending(v)'
  BY <1>7, <1>9 DEF Appending
<1>11. Sound(file)' /\ ToldIsDurable'
  BY <1>3 DEF StoreInv, Sound, ToldIsDurable
<1>12. QED
  BY <1>8, <1>10, <1>11 DEF StoreInv

\* A file that keeps its first lines keeps what was committed.
LEMMA KeptLines ==
  ASSUME StoreInv, NEW n \in durable..Len(file),
         \A i \in 1..n : file'[i] = file[i], durable' \in durable..n, told' = told
  PROVE  ToldIsDurable'
<1>1. \A i \in 1..durable : i \in 1..durable' /\ file'[i] = file[i]
  BY DEF StoreInv, StoreTypeOK
<1>2. QED
  BY <1>1 DEF StoreInv, ToldIsDurable

LEMMA WriteKeeps ==
  ASSUME StoreInv, NEW u \in Users, Write(u)
  PROVE  StoreInv'
<1> DEFINE line == proc[u].line
<1>1. /\ line \in AllReports /\ line.kind = kind /\ Acceptable(line)
      /\ proc[u].start = Len(file) /\ Whole(file, Len(file))
      /\ \A i \in 1..Len(file) : ~SameRun(file[i], line)
  BY DEF StoreInv, Appending, Write
<1>2. file' = Ended(file, Len(file), line) /\ Goto(u, "sync")
      /\ proc[u].pc # "idle"
      /\ UNCHANGED <<kind, durable, dirty, lock, clock, told>>
  BY <1>1, WrittenEnds DEF Write, env
<1> HIDE DEF line
<1>3. file \in Seq(Lines) /\ Len(file) \in 0..Len(file) /\ durable \in 0..Len(file)
  BY LenProperties DEF StoreInv, StoreTypeOK
<1>4. file' \in Seq(Lines) /\ Len(file') = Len(file) + 1
      /\ (\A i \in 1..Len(file) : file'[i] = file[i]) /\ file'[Len(file) + 1] = line
  <2>1. line \in Lines
    BY <1>1 DEF Lines
  <2>2. QED
    BY <1>2, <1>3, <2>1, ExtendedFile
<1>5. Sound(file') /\ Whole(file', Len(file'))
  BY <1>1, <1>3, <1>4, SoundLine DEF StoreInv
<1>6. StoreTypeOK'
  <2>1. durable' \in 0..Len(file')
    BY <1>2, <1>3, <1>4
  <2>2. QED
    BY <1>2, <1>4, <2>1, GotoTypes DEF StoreInv, StoreTypeOK
<1>7. Appending(u)'
  BY <1>1, <1>2, <1>4, <1>5, Goes DEF StoreInv, Appending, line
<1>8. \A v \in Users : Appending(v)'
  BY <1>2, <1>7, Goes DEF StoreInv, Appending
<1>9. ToldIsDurable'
  BY <1>2, <1>3, <1>4, KeptLines
<1>10. Sound(file)'
  BY <1>2, <1>5 DEF Sound
<1>11. QED
  BY <1>6, <1>8, <1>9, <1>10 DEF StoreInv

LEMMA WriteFailsKeeps ==
  ASSUME StoreInv, NEW u \in Users, WriteFails(u)
  PROVE  StoreInv'
<1>1. proc[u].start = Len(file) /\ Whole(file, Len(file)) /\ proc[u].line \in AllReports
  BY DEF StoreInv, Appending, WriteFails
<1>2. /\ file' = file \/ file' = Ended(file, Len(file), Torn)
      /\ Goto(u, "truncate") /\ proc[u].pc # "idle" /\ dirty' = TRUE
      /\ UNCHANGED <<kind, durable, lock, clock, told>>
  BY <1>1, WrittenEnds DEF WriteFails, env
<1>3. file \in Seq(Lines) /\ Len(file) \in 0..Len(file) /\ durable \in 0..Len(file)
  BY LenProperties DEF StoreInv, StoreTypeOK
<1>4. /\ file' \in Seq(Lines) /\ \A i \in 1..Len(file) : file'[i] = file[i]
      /\ Len(file') = Len(file) \/ (Len(file') = Len(file) + 1 /\ file'[Len(file) + 1] = Torn)
  <2>1. CASE file' = file
    BY <1>3, <2>1
  <2>2. CASE file' = Ended(file, Len(file), Torn)
    BY <1>3, <2>2, ExtendedFile, TornLine
  <2>3. QED
    BY <1>2, <2>1, <2>2
<1>5. Sound(file')
  BY <1>1, <1>2, <1>3, SoundTorn DEF StoreInv
<1>6. StoreTypeOK'
  <2>1. durable' \in 0..Len(file')
    BY <1>2, <1>3, <1>4
  <2>2. QED
    BY <1>2, <1>4, <2>1, GotoTypes DEF StoreInv, StoreTypeOK
<1>7. Appending(u)'
  <2>1. Whole(file', Len(file))
    BY <1>1, <1>4 DEF Whole
  <2>2. Len(file) \in durable'..Len(file') /\ Len(file') <= Len(file) + 1
    BY <1>2, <1>3, <1>4
  <2>3. Len(file') = Len(file) + 1 => file'[Len(file) + 1] = Torn
    BY <1>3, <1>4
  <2>4. QED
    BY <1>1, <1>2, <2>1, <2>2, <2>3, Goes DEF StoreInv, Appending
<1>8. \A v \in Users : Appending(v)'
  BY <1>2, <1>7, Goes DEF StoreInv, Appending
<1>9. ToldIsDurable'
  BY <1>2, <1>3, <1>4, KeptLines
<1>10. Sound(file)'
  BY <1>2, <1>5 DEF Sound
<1>11. QED
  BY <1>6, <1>8, <1>9, <1>10 DEF StoreInv

LEMMA TruncateKeeps ==
  ASSUME StoreInv, NEW u \in Users, Truncate(u)
  PROVE  StoreInv'
<1> DEFINE n == proc[u].start
<1>1. n \in durable..Len(file) /\ Whole(file, n) /\ proc[u].pc # "idle"
  BY DEF StoreInv, Appending, Truncate
<1>2. file' = SubSeq(file, 1, n) /\ Return(u)
      /\ UNCHANGED <<kind, durable, dirty, clock, told>>
  BY DEF Truncate, Truncated, env
<1> HIDE DEF n
<1>3. file \in Seq(Lines) /\ n \in 0..Len(file) /\ durable \in 0..n
  BY <1>1, LenProperties DEF StoreInv, StoreTypeOK
<1>4. file' \in Seq(Lines) /\ Len(file') = n /\ \A i \in 1..n : file'[i] = file[i]
  BY <1>2, <1>3, CutFile
<1>5. StoreTypeOK'
  BY <1>1, <1>2, <1>3, <1>4, ReturnTypes DEF StoreInv, StoreTypeOK
<1>6. Sound(file)'
  <2>1. Sound(file')
    BY <1>2, <1>3, SoundCut DEF StoreInv
  <2>2. QED
    BY <1>2, <2>1 DEF Sound
<1>7. ToldIsDurable'
  BY <1>1, <1>2, <1>3, <1>4, KeptLines
<1>8. QED
  BY <1>1, <1>2, <1>5, <1>6, <1>7, Returns DEF StoreInv

LEMMA FailedReturnKeeps ==
  ASSUME StoreInv, NEW u \in Users, TruncateFails(u) \/ SyncFails(u)
  PROVE  StoreInv'
<1>1. proc[u].pc # "idle" /\ Return(u) /\ UNCHANGED <<kind, file, durable, dirty, clock, told>>
  BY DEF TruncateFails, SyncFails, disk, env
<1>2. StoreTypeOK'
  BY <1>1, ReturnTypes DEF StoreInv, StoreTypeOK
<1>3. Sound(file)' /\ ToldIsDurable'
  BY <1>1 DEF StoreInv, Sound, ToldIsDurable
<1>4. QED
  BY <1>1, <1>2, <1>3, Returns DEF StoreInv

LEMMA SyncKeeps ==
  ASSUME StoreInv, NEW u \in Users, Sync(u)
  PROVE  StoreInv'
<1> DEFINE line == proc[u].line
<1>1. line \in AllReports /\ Len(file) \in 1..Len(file) /\ file[Len(file)] = line
  <2>1. proc[u] \in Entry /\ proc[u].pc = "sync"
    BY DEF StoreInv, StoreTypeOK, Sync
  <2>2. line \in AllReports /\ Len(file) = proc[u].start + 1 /\ file[proc[u].start + 1] = line
    BY <2>1 DEF StoreInv, Appending
  <2>3. proc[u].start \in Nat
    BY <2>1 DEF Entry
  <2>4. QED
    BY <2>2, <2>3
<1>2. proc[u].pc # "idle" /\ Return(u) /\ durable' = Len(file) /\ dirty' = FALSE
      /\ told' = told \cup {line} /\ UNCHANGED <<kind, file, clock>>
  BY DEF Sync, Synced, env
<1> HIDE DEF line
<1>3. StoreTypeOK'
  <2>1. file' \in Seq(Lines) /\ told' \subseteq AllReports
    BY <1>1, <1>2 DEF StoreInv, StoreTypeOK
  <2>2. durable' \in 0..Len(file')
    BY <1>1, <1>2
  <2>3. dirty' \in BOOLEAN /\ kind' = kind /\ clock' = clock
    BY <1>2
  <2>4. QED
    BY <1>2, <2>1, <2>2, <2>3, ReturnTypes DEF StoreInv
<1>4. ToldIsDurable'
  <2>1. \A i \in 1..durable : i \in 1..durable'
    BY <1>1, <1>2 DEF StoreInv, StoreTypeOK
  <2>2. \A r \in told : \E i \in 1..durable' : file'[i] = r
    BY <1>2, <2>1 DEF StoreInv, ToldIsDurable
  <2>3. Len(file) \in 1..durable' /\ file'[Len(file)] = line
    BY <1>1, <1>2
  <2>4. QED
    BY <1>2, <2>2, <2>3 DEF ToldIsDurable
<1>5. Sound(file)'
  BY <1>2 DEF StoreInv, Sound
<1>6. QED
  BY <1>2, <1>3, <1>4, <1>5, Returns DEF StoreInv

\* The process that starts again knows nothing of appends it had begun.
LEMMA Restarts ==
  ASSUME StoreInv, Restart, file' \in Seq(Lines), durable' \in 0..Len(file'),
         dirty' \in BOOLEAN, Sound(file'), ToldIsDurable'
  PROVE  StoreInv'
<1>1. lock' = NoUser /\ UNCHANGED <<kind, clock, told>> /\ proc' = [u \in Users |-> Idle]
  BY DEF Restart
<1>2. Idle \in Entry /\ Idle.pc = "idle"
  BY DEF Idle, Entry, Lines
<1>3. proc' \in [Users -> Entry]
      /\ \A v \in Users : proc'[v] = Idle /\ proc'[v].pc = "idle" /\ lock' # v
  BY <1>1, <1>2, EvidenceAssumption
<1>4. StoreTypeOK'
  BY <1>1, <1>3 DEF StoreInv, StoreTypeOK
<1>5. Sound(file)'
  BY <1>1 DEF Sound
<1>6. QED
  BY <1>3, <1>4, <1>5, AllIdle DEF StoreInv

\* A file with a torn line added to it.
LEMMA TornEnd ==
  ASSUME StoreInv, NEW n \in durable..Len(file), Whole(file, n),
         file' = Ended(file, n, Torn)
  PROVE  /\ file' \in Seq(Lines) /\ Len(file') = n + 1 /\ Sound(file')
         /\ \A i \in 1..n : file'[i] = file[i]
<1>1. file \in Seq(Lines) /\ n \in 0..Len(file)
  BY LenProperties DEF StoreInv, StoreTypeOK
<1>2. QED
  BY <1>1, ExtendedFile, SoundTorn, TornLine DEF StoreInv

LEMMA CrashKeeps ==
  ASSUME StoreInv, Crash
  PROVE  StoreInv'
<1>1. Restart /\ UNCHANGED <<durable, dirty, told>>
  BY DEF Crash, Restart
<1>2. CASE file' = file
  BY <1>1, <1>2, Restarts DEF StoreInv, StoreTypeOK, ToldIsDurable
<1>3. CASE \E u \in Writing : file' = Written(Torn, proc[u].start)
  <2>1. PICK u \in Users : proc[u].pc = "write" /\ file' = Written(Torn, proc[u].start)
    BY <1>3 DEF Writing
  <2>2. file' = Ended(file, Len(file), Torn) /\ Whole(file, Len(file))
    BY <2>1, WrittenEnds DEF StoreInv, Appending
  <2>3. Len(file) \in durable..Len(file)
    BY LenProperties DEF StoreInv, StoreTypeOK
  <2>4. file' \in Seq(Lines) /\ Len(file') = Len(file) + 1 /\ Sound(file')
        /\ \A i \in 1..Len(file) : file'[i] = file[i]
    BY <2>2, <2>3, TornEnd
  <2>5. durable' \in 0..Len(file') /\ ToldIsDurable'
    BY <1>1, <2>3, <2>4, KeptLines DEF StoreInv, StoreTypeOK
  <2>6. QED
    BY <1>1, <2>4, <2>5, Restarts DEF StoreInv, StoreTypeOK
<1>4. QED
  BY <1>2, <1>3 DEF Crash

\* What is left of a file after a loss of power.
LEMMA PowerLeaves ==
  ASSUME StoreInv, PowerLoss
  PROVE  \E n \in durable..Len(file) :
           \/ file' = SubSeq(file, 1, n)
           \/ Whole(file, n) /\ file' = Ended(file, n, Torn)
<1>1. PICK n \in durable..Len(file) :
        \/ file' = SubSeq(file, 1, n)
        \/ (n > 0 => file[n] # Torn) /\ file' = Ended(file, n, Torn)
  BY WrittenEnds DEF PowerLoss
<1>2. n > 0 /\ file[n] # Torn => Whole(file, n)
  <2>1. Len(file) \in Nat /\ durable \in Nat
    BY LenProperties DEF StoreInv, StoreTypeOK
  <2>2. QED
    BY <2>1 DEF StoreInv, Sound, Whole
<1>3. ~(n > 0) => Whole(file, n)
  BY LenProperties DEF StoreInv, StoreTypeOK, Whole
<1>4. QED
  BY <1>1, <1>2, <1>3

LEMMA PowerLossKeeps ==
  ASSUME StoreInv, PowerLoss
  PROVE  StoreInv'
<1>1. Restart /\ durable' = Len(file') /\ dirty' = FALSE /\ told' = told
  BY DEF PowerLoss, Restart
<1>2. PICK n \in durable..Len(file) :
           \/ file' = SubSeq(file, 1, n)
           \/ Whole(file, n) /\ file' = Ended(file, n, Torn)
  BY PowerLeaves
<1>3. file \in Seq(Lines) /\ n \in 0..Len(file) /\ durable \in 0..n
  BY LenProperties DEF StoreInv, StoreTypeOK
<1>4. /\ file' \in Seq(Lines) /\ Len(file') \in n..n + 1 /\ Sound(file')
      /\ \A i \in 1..n : file'[i] = file[i]
  <2>1. CASE file' = SubSeq(file, 1, n)
    BY <1>3, <2>1, CutFile, SoundCut DEF StoreInv
  <2>2. CASE Whole(file, n) /\ file' = Ended(file, n, Torn)
    BY <1>3, <2>2, TornEnd
  <2>3. QED
    BY <1>2, <2>1, <2>2
<1>5. durable' \in 0..Len(file')
  BY <1>1, <1>3, <1>4
<1>6. ToldIsDurable'
  <2>1. \A i \in 1..durable : i \in 1..durable' /\ file'[i] = file[i]
    BY <1>1, <1>3, <1>4
  <2>2. QED
    BY <1>1, <2>1 DEF StoreInv, ToldIsDurable
<1>7. QED
  BY <1>1, <1>4, <1>5, <1>6, Restarts

LEMMA RepairKeeps ==
  ASSUME StoreInv, Repair
  PROVE  StoreInv'
<1> DEFINE n == Len(file) - 1
<1>1. /\ lock' = NoUser /\ proc' = proc /\ file # <<>>
      /\ file' = SubSeq(file, 1, n) /\ lock = NoUser
      /\ durable' = IF durable < Len(file) THEN durable ELSE Len(file')
      /\ UNCHANGED <<kind, dirty, clock, told>> /\ file[Len(file)] = Torn
  BY DEF Repair, env
<1>2. file \in Seq(Lines) /\ n \in 0..Len(file) /\ n + 1 = Len(file)
      /\ durable \in 0..Len(file)
  BY <1>1, EmptySeq DEF StoreInv, StoreTypeOK
<1> HIDE DEF n
<1>3. file' \in Seq(Lines) /\ Len(file') = n /\ \A i \in 1..n : file'[i] = file[i]
  BY <1>1, <1>2, CutFile
<1>4. durable' \in 0..Len(file')
  BY <1>1, <1>2, <1>3
<1>5. \A u \in Users : proc[u].pc = "idle" /\ proc'[u].pc = "idle"
  BY <1>1, EvidenceAssumption DEF StoreInv, StoreTypeOK
<1>6. StoreTypeOK'
  BY <1>1, <1>3, <1>4 DEF StoreInv, StoreTypeOK
<1>7. Sound(file)'
  <2>1. Sound(file')
    BY <1>1, <1>2, SoundCut DEF StoreInv
  <2>2. QED
    BY <1>1, <2>1 DEF Sound
<1>8. ToldIsDurable'
  <2> SUFFICES ASSUME NEW r \in told PROVE \E i \in 1..durable' : file'[i] = r
    BY <1>1 DEF ToldIsDurable
  <2>1. PICK i \in 1..durable : file[i] = r
    BY DEF StoreInv, ToldIsDurable
  <2>2. r # Torn
    BY ReportIsNotTorn DEF StoreInv, StoreTypeOK
  <2>3. i # n + 1
    BY <1>1, <1>2, <2>1, <2>2
  <2>4. i \in 1..durable' /\ i \in 1..n
    BY <1>1, <1>2, <1>3, <2>1, <2>3
  <2>5. QED
    BY <1>3, <2>1, <2>4
<1>9. \A u \in Users : Appending(u)'
  BY <1>5 DEF Appending
<1>10. QED
  BY <1>6, <1>7, <1>8, <1>9 DEF StoreInv

LEMMA TickKeeps ==
  ASSUME StoreInv, Tick
  PROVE  StoreInv'
<1>1. clock' \in 1..MaxClock
  BY EvidenceAssumption DEF StoreInv, StoreTypeOK, Tick
<1>2. UNCHANGED <<kind, file, durable, dirty, lock, proc, told>>
  BY DEF Tick, disk
<1>3. StoreTypeOK'
  BY <1>1, <1>2 DEF StoreInv, StoreTypeOK
<1>4. Sound(file)' /\ ToldIsDurable' /\ \A u \in Users : Appending(u)'
  BY <1>2 DEF StoreInv, Sound, ToldIsDurable, Appending
<1>5. QED
  BY <1>3, <1>4 DEF StoreInv

LEMMA StoreStep == StoreInv /\ [Next]_vars => StoreInv'
<1> SUFFICES ASSUME StoreInv, [Next]_vars PROVE StoreInv'
  OBVIOUS
<1>1. CASE UNCHANGED vars
  BY <1>1 DEF vars, StoreInv, StoreTypeOK, Sound, ToldIsDurable, Appending
<1>2. CASE Next
  BY <1>2, BeginKeeps, WriteKeeps, WriteFailsKeeps, TruncateKeeps, FailedReturnKeeps,
     SyncKeeps, CrashKeeps, PowerLossKeeps, RepairKeeps, TickKeeps DEF Next
<1>3. QED
  BY <1>1, <1>2

\* The invariant holds always: only the last line is ever torn, no run is in
\* the file twice, a writer alone knows how the file ends, and what a caller
\* was told is among the synced lines (Append, Record, appendPaperEvidence).
THEOREM StoreCorrect == Spec => []StoreInv
BY StoreInit, StoreStep, PTL DEF Spec

\* The type invariant of the file, its durable part and the appends to it.
THEOREM StoreTypes == Spec => []TypeOK
<1>1. StoreInv => TypeOK
  <2> SUFFICES ASSUME StoreInv PROVE TypeOK
    OBVIOUS
  <2>1. ASSUME NEW u \in Users, proc[u] # Idle
        PROVE  /\ proc[u].pc \in {"write", "truncate", "sync"}
               /\ proc[u].line \in AllReports /\ proc[u].start \in Nat
    <3>1. proc[u] \in Entry /\ proc[u].pc # "idle"
      BY <2>1 DEF StoreInv, StoreTypeOK
    <3>2. QED
      BY <3>1 DEF StoreInv, Appending, Entry
  <2>2. ASSUME NEW u \in Users PROVE proc[u] # Idle <=> lock = u
    BY <2>1, <2>2 DEF StoreInv, StoreTypeOK, Idle
  <2>3. QED
    BY <2>1, <2>2 DEF StoreInv, StoreTypeOK, TypeOK, Lines
<1>2. QED
  BY <1>1, StoreCorrect, PTL

LEMMA SoundIsReadable ==
  ASSUME StoreInv
  PROVE  RecorderStaysReadable
<1>1. file \in Seq(Lines) /\ DOMAIN file = 1..Len(file)
  BY LenProperties DEF StoreInv, StoreTypeOK
<1>2. \A i \in DOMAIN file : file[i] = Torn => i = Len(file)
  BY <1>1 DEF StoreInv, Sound
<1>3. ASSUME kind = "recorder", \A i \in DOMAIN file : file[i] # Torn
      PROVE  Readable
  <2>1. \A i \in DOMAIN file : validatePaperLifecycleEvidence(file[i])
    BY <1>1, <1>3 DEF StoreInv, Sound, Acceptable, validatePaperLifecycleEvidence
  <2>2. \A i, j \in DOMAIN file : SameRun(file[i], file[j]) => file[i] = file[j]
    BY <1>1, <1>3 DEF StoreInv, Sound
  <2>3. QED
    BY <2>1, <2>2 DEF Readable, Equivalent
<1>4. QED
  BY <1>2, <1>3 DEF RecorderStaysReadable

\* No errors, crashes and retries make the recorder refuse a file it wrote,
\* unless for a torn last line (Record, readRunsLocked).
THEOREM FileStaysReadable == Spec => []RecorderStaysReadable
BY StoreCorrect, SoundIsReadable, PTL

-----------------------------------------------------------------------------
(* The refinement                                                          *)

LEMMA LogIsWhole == WholeLines = WholeOf(file) /\ WholeLines' = WholeOf(file')
BY DEF WholeLines, WholeOf

\* The log's steps, said of the file before and after.
LEMMA LogStays ==
  ASSUME WholeOf(file') = WholeOf(file), told' = told
  PROVE  [Log!Next]_Log!logVars
BY LogIsWhole DEF Log!logVars

LEMMA LogLoses ==
  ASSUME StoreInv, NEW n \in durable..Len(file),
         WholeOf(file') = SubSeq(file, 1, n), Whole(file, n), told' = told
  PROVE  [Log!Next]_Log!logVars
<1>1. file \in Seq(Lines) /\ n \in 0..Len(file) /\ durable \in 0..n /\ Len(file) \in Nat
  BY LenProperties DEF StoreInv, StoreTypeOK
<1>2. PICK m \in 0..Len(file) :
        /\ Whole(file, m) /\ WholeOf(file) = SubSeq(file, 1, m)
        /\ m = Len(file) \/ (m + 1 = Len(file) /\ file[m + 1] = Torn)
  BY <1>1, WholeBeginning DEF StoreInv, Sound
<1>3. n <= m
  BY <1>1, <1>2 DEF Whole
<1> DEFINE log == SubSeq(file, 1, m)
<1>4. log \in Seq(Lines) /\ Len(log) = m /\ \A i \in 1..m : log[i] = file[i]
  BY <1>1, <1>2, CutFile
<1>5. SubSeq(file, 1, n) \in Seq(Lines) /\ Len(SubSeq(file, 1, n)) = n
      /\ \A i \in 1..n : SubSeq(file, 1, n)[i] = file[i]
  BY <1>1, CutFile
<1>6. log = WholeOf(file)
  BY <1>2
<1> HIDE DEF log
<1>7. n \in 0..Len(log) /\ \A i \in 1..n : i \in 1..m
  BY <1>1, <1>2, <1>3, <1>4
<1>8. SubSeq(log, 1, n) \in Seq(Lines) /\ Len(SubSeq(log, 1, n)) = n
      /\ \A i \in 1..n : SubSeq(log, 1, n)[i] = log[i]
  BY <1>4, <1>7, CutFile
<1>9. SubSeq(file, 1, n) = SubSeq(log, 1, n)
  BY <1>4, <1>5, <1>7, <1>8, SeqEqual
<1>10. CASE n = Len(log)
  <2>1. SubSeq(log, 1, n) = log
    BY <1>4, <1>10, WholeCut
  <2>2. QED
    BY <1>6, <1>9, <2>1, LogStays
<1>11. CASE n # Len(log)
  <2>1. n < Len(log)
    BY <1>4, <1>7, <1>11
  <2>2. ASSUME NEW i \in n + 1 .. Len(log) PROVE log[i] \notin told
    <3>1. i \in 1..Len(file) /\ i \in 1..m /\ log[i] = file[i] /\ file[i] # Torn
      BY <1>1, <1>2, <1>4 DEF Whole
    <3>2. ASSUME log[i] \in told PROVE FALSE
      <4>1. PICK j \in 1..durable : file[j] = file[i]
        BY <3>1, <3>2 DEF StoreInv, ToldIsDurable
      <4>2. j \in 1..Len(file) /\ i # j
        BY <1>1
      <4>3. ~SameRun(file[i], file[j])
        BY <3>1, <4>1, <4>2 DEF StoreInv, Sound
      <4>4. QED
        BY <4>1, <4>3 DEF SameRun
    <3>3. QED
      BY <3>2
  <2>3. Log!Lose(n)
    BY <1>6, <1>9, <2>1, <2>2, LogIsWhole DEF Log!Lose
  <2>4. QED
    BY <1>6, <1>7, <2>3, LogIsWhole DEF Log!Next
<1>12. QED
  BY <1>10, <1>11

LEMMA LogAdds ==
  ASSUME StoreInv, NEW u \in Users, Write(u)
  PROVE  [Log!Next]_Log!logVars
<1> DEFINE line == proc[u].line
<1>1. /\ line \in AllReports /\ Whole(file, Len(file))
      /\ \A i \in 1..Len(file) : ~SameRun(file[i], line)
      /\ file' = Ended(file, Len(file), line) /\ told' = told
  BY WrittenEnds DEF StoreInv, Appending, Write
<1>2. line \in Lines /\ line # Torn
  BY <1>1, ReportIsNotTorn DEF Lines
<1> HIDE DEF line
<1>3. file \in Seq(Lines) /\ Len(file) \in 0..Len(file) /\ DOMAIN file = 1..Len(file)
  BY LenProperties DEF StoreInv, StoreTypeOK
<1>4. WholeOf(file) = file
  BY <1>1, <1>3, WholeOfCut, WholeCut
<1>5. file' = Append(file, line)
  <2>1. Ended(file, Len(file), line) = file \o <<line>>
    BY <1>3, WholeCut DEF Ended
  <2>2. QED
    BY <1>1, <1>2, <1>3, <2>1, AppendIsConcat
<1>6. WholeOf(file') = file'
  <2>1. file'[Len(file')] = line
    BY <1>2, <1>3, <1>5, AppendProperties
  <2>2. QED
    BY <1>2, <2>1 DEF WholeOf
<1>7. Log!Add(line)
  BY <1>1, <1>3, <1>4, <1>5, <1>6, LogIsWhole DEF Log!Add
<1>8. QED
  BY <1>1, <1>7 DEF Log!Next

LEMMA LogConfirms ==
  ASSUME StoreInv, NEW u \in Users, Sync(u)
  PROVE  [Log!Next]_Log!logVars
<1> DEFINE line == proc[u].line
<1>1. proc[u] \in Entry /\ proc[u].pc = "sync"
  BY DEF StoreInv, StoreTypeOK, Sync
<1>2. /\ line \in AllReports /\ Len(file) = proc[u].start + 1
      /\ file[Len(file)] = line /\ Whole(file, Len(file))
  BY <1>1 DEF StoreInv, Appending
<1>3. file' = file /\ told' = told \cup {line}
  BY DEF Sync
<1>4. file \in Seq(Lines) /\ DOMAIN file = 1..Len(file) /\ Len(file) \in 1..Len(file)
  <2>1. proc[u].start \in Nat
    BY <1>1 DEF Entry
  <2>2. QED
    BY <1>2, <2>1, LenProperties DEF StoreInv, StoreTypeOK
<1> HIDE DEF line
<1>5. WholeOf(file) = file
  BY <1>2, ReportIsNotTorn DEF WholeOf
<1>6. Log!Confirm(line)
  BY <1>2, <1>3, <1>4, <1>5, LogIsWhole DEF Log!Confirm, Log!Logged
<1>7. QED
  BY <1>2, <1>6 DEF Log!Next

\* A torn line more at the end is no loss.
LEMMA LogIgnoresTorn ==
  ASSUME StoreInv, Whole(file, Len(file)), told' = told,
         file' = file \/ file' = Ended(file, Len(file), Torn)
  PROVE  [Log!Next]_Log!logVars
<1>1. file \in Seq(Lines) /\ Len(file) \in durable..Len(file) /\ Len(file) \in 0..Len(file)
  BY LenProperties DEF StoreInv, StoreTypeOK
<1>2. CASE file' = file
  BY <1>2, LogStays
<1>3. CASE file' = Ended(file, Len(file), Torn)
  <2>1. WholeOf(file') = SubSeq(file, 1, Len(file))
    BY <1>1, <1>3, WholeOfTorn
  <2>2. QED
    BY <1>1, <2>1, LogLoses
<1>4. QED
  BY <1>2, <1>3

LEMMA LogOfPowerLoss ==
  ASSUME StoreInv, PowerLoss
  PROVE  [Log!Next]_Log!logVars
<1>1. PICK n \in durable..Len(file) :
           \/ file' = SubSeq(file, 1, n)
           \/ Whole(file, n) /\ file' = Ended(file, n, Torn)
  BY PowerLeaves
<1>2. file \in Seq(Lines) /\ n \in 0..Len(file) /\ Len(file) \in Nat
  BY LenProperties DEF StoreInv, StoreTypeOK
<1>3. told' = told
  BY DEF PowerLoss, Restart
<1>4. CASE Whole(file, n)
  <2>1. WholeOf(file') = SubSeq(file, 1, n)
    BY <1>1, <1>2, <1>4, WholeOfCut, WholeOfTorn
  <2>2. QED
    BY <1>3, <1>4, <2>1, LogLoses
<1>5. CASE ~Whole(file, n)
  <2>1. n = Len(file)
    BY <1>2, <1>5 DEF StoreInv, Sound, Whole
  <2>2. file' = SubSeq(file, 1, n)
    BY <1>1, <1>5
  <2>3. file' = file
    BY <1>2, <2>1, <2>2, WholeCut
  <2>4. QED
    BY <1>3, <2>3, LogStays
<1>6. QED
  BY <1>4, <1>5

LEMMA LogOfRepair ==
  ASSUME StoreInv, Repair
  PROVE  [Log!Next]_Log!logVars
<1> DEFINE n == Len(file) - 1
<1>1. file # <<>> /\ file[Len(file)] = Torn /\ file' = SubSeq(file, 1, n) /\ told' = told
  BY DEF Repair
<1>2. file \in Seq(Lines) /\ n \in 0..Len(file) /\ n + 1 = Len(file)
  BY <1>1, EmptySeq DEF StoreInv, StoreTypeOK
<1>3. WholeOf(file) = file'
  BY <1>1 DEF WholeOf
<1> HIDE DEF n
<1>4. Whole(file, n)
  BY <1>2 DEF StoreInv, Sound, Whole
<1>5. WholeOf(file') = file'
  BY <1>1, <1>2, <1>4, WholeOfCut
<1>6. QED
  BY <1>1, <1>3, <1>5, LogStays

LEMMA LogStep == StoreInv /\ [Next]_vars => [Log!Next]_Log!logVars
<1> SUFFICES ASSUME StoreInv, [Next]_vars PROVE [Log!Next]_Log!logVars
  OBVIOUS
<1>1. CASE file' = file /\ told' = told
  BY <1>1, LogStays
<1>2. ASSUME NEW u \in Users, Write(u) \/ WriteFails(u) \/ Truncate(u) \/ Sync(u)
      PROVE  [Log!Next]_Log!logVars
  <2>1. CASE Write(u)
    BY <2>1, LogAdds
  <2>2. CASE WriteFails(u)
    BY <2>2, WrittenEnds, LogIgnoresTorn DEF StoreInv, Appending, WriteFails
  <2>3. CASE Truncate(u)
    <3> DEFINE n == proc[u].start
    <3>1. n \in durable..Len(file) /\ Whole(file, n)
      BY <2>3 DEF StoreInv, Appending, Truncate
    <3>2. file' = SubSeq(file, 1, n) /\ told' = told
      BY <2>3 DEF Truncate, Truncated
    <3> HIDE DEF n
    <3>3. file \in Seq(Lines) /\ n \in 0..Len(file)
      BY <3>1, LenProperties DEF StoreInv, StoreTypeOK
    <3>4. WholeOf(file') = SubSeq(file, 1, n)
      BY <3>1, <3>2, <3>3, WholeOfCut
    <3>5. QED
      BY <3>1, <3>2, <3>4, LogLoses
  <2>4. CASE Sync(u)
    BY <2>4, LogConfirms
  <2>5. QED
    BY <1>2, <2>1, <2>2, <2>3, <2>4
<1>3. CASE Crash
  <2>1. told' = told
    BY <1>3 DEF Crash, Restart
  <2>2. CASE file' = file
    BY <2>1, <2>2, LogStays
  <2>3. ASSUME NEW u \in Writing, file' = Written(Torn, proc[u].start)
        PROVE  [Log!Next]_Log!logVars
    BY <2>1, <2>3, WrittenEnds, LogIgnoresTorn DEF StoreInv, Appending, Writing
  <2>4. QED
    BY <1>3, <2>2, <2>3 DEF Crash
<1>4. CASE UNCHANGED vars
  BY <1>1, <1>4 DEF vars
<1>5. ASSUME NEW u \in Users,
             (\E s \in Sessions : Begin(u, s)) \/ TruncateFails(u) \/ SyncFails(u)
      PROVE  file' = file /\ told' = told
  BY <1>5 DEF Begin, TruncateFails, SyncFails, disk
<1>6. Tick => file' = file /\ told' = told
  BY DEF Tick, disk
<1>7. QED
  BY <1>1, <1>2, <1>3, <1>4, <1>5, <1>6, LogOfPowerLoss, LogOfRepair DEF Next

\* The evidence file implements the log: each run once and in order, and what
\* a caller was told is committed is never lost, however many calls fail and
\* however often the process or the machine ends.
THEOREM StoreImplementsLog == Spec => ImplementsLog
<1>1. Init => Log!Init
  <2> SUFFICES ASSUME Init PROVE Log!Init
    OBVIOUS
  <2>1. file = <<>> /\ told = {}
    BY DEF Init
  <2>2. WholeLines = file
    BY <2>1 DEF WholeLines
  <2>3. QED
    BY <2>1, <2>2 DEF Log!Init
<1>2. QED
  BY <1>1, LogStep, StoreCorrect, PTL DEF Spec, ImplementsLog, Log!Spec
=============================================================================

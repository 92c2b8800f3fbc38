------------------------- MODULE CommandStoreProofs -------------------------
(***************************************************************************)
(* Proofs about CommandStore.  The types hold for any goroutines that use  *)
(* the file.  What the file promises, that a command is in one of its      *)
(* lists and leaves the queue only after it was run, holds when the event  *)
(* loop alone uses it: between a save's read and its rename nobody else    *)
(* may write.                                                              *)
(***************************************************************************)
EXTENDS CommandStore, FoldTheorems

\* What a command may be when it is scheduled, while it waits in the file, and
\* when it was run.
Fresh == {c \in Commands : c.status = "pending" /\ c.retries = 0}
Waiting == {c \in Commands : c.status # "completed" /\ c.retries < MaxRetries}
Settled == {c \in Commands : c.status # "pending"}
Filable == Fresh \cup Settled

\* A command with no run left.
Finished(c) == c.status = "completed" \/ (c.status = "failed" /\ c.retries >= MaxRetries)

Books == [kind: {"store"}, pending: Seq(Waiting), completed: Seq(Commands), failed: Seq(Commands)]

-----------------------------------------------------------------------------
(* Lists of commands                                                       *)

LEMMA CommandKinds ==
  /\ Fresh \subseteq Waiting /\ Waiting \subseteq Commands /\ Filable \subseteq Commands
  /\ \A c \in Filable : c \in Fresh \/ Finished(c) \/ (c \in Waiting /\ c.status = "failed")
  /\ \A c \in Waiting : Retryable(c)
BY StoreAssumption DEF Fresh, Waiting, Settled, Filable, Commands, Finished, Retryable

LEMMA ListSet ==
  ASSUME NEW S, NEW cmds \in Seq(S)
  PROVE  /\ Len(cmds) \in Nat /\ DOMAIN cmds = 1..Len(cmds)
         /\ \A i \in 1..Len(cmds) : cmds[i] \in S /\ cmds[i] \in ToSet(cmds)
         /\ ToSet(cmds) = {cmds[i] : i \in 1..Len(cmds)}
         /\ ToSet(cmds) \subseteq S
         /\ \A c \in ToSet(cmds) : \E i \in 1..Len(cmds) : c = cmds[i]
<1>1. Len(cmds) \in Nat /\ DOMAIN cmds = 1..Len(cmds)
  BY LenProperties
<1>2. \A i \in 1..Len(cmds) : cmds[i] \in S
  BY ElementOfSeq
<1>3. QED
  BY <1>1, <1>2 DEF ToSet

\* No two commands of a list have the same id.
Apart(cmds) == \A i, j \in DOMAIN cmds : cmds[i].id = cmds[j].id => i = j

LEMMA RemovedAt ==
  ASSUME NEW S, NEW s \in Seq(S), NEW i \in 1..Len(s)
  PROVE  LET r == RemoveAt(s, i)
         IN /\ r \in Seq(S) /\ Len(r) = Len(s) - 1
            /\ \A j \in 1..Len(r) : r[j] = IF j < i THEN s[j] ELSE s[j + 1]
<1> DEFINE a == SubSeq(s, 1, i - 1)
           b == SubSeq(s, i + 1, Len(s))
<1>1. Len(s) \in Nat /\ \A j \in 1..Len(s) : s[j] \in S
  BY ListSet
<1>2. a \in Seq(S) /\ Len(a) = i - 1 /\ \A j \in 1..(i - 1) : a[j] = s[j]
  <2>1. 1 \in Int /\ i - 1 \in Int /\ \A j \in 1..(i - 1) : s[j] \in S
    BY <1>1
  <2>2. /\ a \in Seq(S) /\ Len(a) = (IF 1 <= i - 1 THEN (i - 1) - 1 + 1 ELSE 0)
        /\ \A j \in 1..((i - 1) - 1 + 1) : a[j] = s[1 + j - 1]
    BY <2>1, SubSeqProperties
  <2> HIDE DEF a
  <2>3. Len(a) = i - 1
    BY <1>1, <2>2
  <2>4. \A j \in 1..(i - 1) : a[j] = s[j]
    BY <2>2
  <2>5. QED
    BY <2>2, <2>3, <2>4
<1>3. b \in Seq(S) /\ Len(b) = Len(s) - i /\ \A j \in 1..(Len(s) - i) : b[j] = s[i + j]
  <2>1. i + 1 \in Int /\ Len(s) \in Int /\ \A j \in (i + 1)..Len(s) : s[j] \in S
    BY <1>1
  <2>2. /\ b \in Seq(S) /\ Len(b) = (IF i + 1 <= Len(s) THEN Len(s) - (i + 1) + 1 ELSE 0)
        /\ \A j \in 1..(Len(s) - (i + 1) + 1) : b[j] = s[(i + 1) + j - 1]
    BY <2>1, SubSeqProperties
  <2> HIDE DEF b
  <2>3. Len(b) = Len(s) - i
    BY <1>1, <2>2
  <2>4. \A j \in 1..(Len(s) - i) : b[j] = s[i + j]
    <3> SUFFICES ASSUME NEW j \in 1..(Len(s) - i) PROVE b[j] = s[i + j]
      OBVIOUS
    <3>1. j \in 1..(Len(s) - (i + 1) + 1) /\ (i + 1) + j - 1 = i + j
      BY <1>1
    <3>2. QED
      BY <2>2, <3>1
  <2>5. QED
    BY <2>2, <2>3, <2>4
<1>4. RemoveAt(s, i) = a \o b
  BY DEF RemoveAt
<1> HIDE DEF a, b
<1>5. /\ a \o b \in Seq(S) /\ Len(a \o b) = Len(a) + Len(b)
      /\ \A j \in 1..(Len(a) + Len(b)) :
           (a \o b)[j] = IF j <= Len(a) THEN a[j] ELSE b[j - Len(a)]
  BY <1>2, <1>3, ConcatProperties
<1>6. Len(a) + Len(b) = Len(s) - 1
  BY <1>1, <1>2, <1>3
<1>7. ASSUME NEW j \in 1..(Len(s) - 1)
      PROVE  (a \o b)[j] = IF j < i THEN s[j] ELSE s[j + 1]
  <2>1. CASE j < i
    <3>1. j <= Len(a) /\ j \in 1..(i - 1)
      BY <1>1, <1>2, <2>1
    <3>2. QED
      BY <1>2, <1>5, <1>6, <2>1, <3>1
  <2>2. CASE ~(j < i)
    <3>1. ~(j <= Len(a)) /\ j - Len(a) \in 1..(Len(s) - i) /\ i + (j - Len(a)) = j + 1
      BY <1>1, <1>2, <2>2
    <3>2. (a \o b)[j] = b[j - Len(a)]
      BY <1>5, <1>6, <3>1
    <3>3. b[j - Len(a)] = s[j + 1]
      BY <1>3, <3>1
    <3>4. QED
      BY <2>2, <3>2, <3>3
  <2>3. QED
    BY <2>1, <2>2
<1>8. QED
  BY <1>4, <1>5, <1>6, <1>7

\* The first command with the id leaves the list, if there is one.
LEMMA WithoutTakesFirst ==
  ASSUME NEW S, NEW cmds \in Seq(S), NEW id
  PROVE  \/ /\ \A i \in DOMAIN cmds : cmds[i].id # id
            /\ Without(cmds, id) = cmds
         \/ \E k \in 1..Len(cmds) :
              cmds[k].id = id /\ Without(cmds, id) = RemoveAt(cmds, k)
<1> DEFINE I == {i \in 1..Len(cmds) : cmds[i].id = id}
<1>1. Len(cmds) \in Nat /\ DOMAIN cmds = 1..Len(cmds)
  BY ListSet
<1>2. CASE I = {}
  BY <1>1, <1>2 DEF Without, RemoveFirstMatch
<1>3. CASE I # {}
  <2>1. PICK k \in I : \A y \in I : k <= y
    <3>1. I \in SUBSET Nat
      OBVIOUS
    <3> HIDE DEF I
    <3>2. QED
      BY <1>3, <3>1, LeastOf
  <2>2. Min(I) \in I
    BY <2>1 DEF Min
  <2>3. Without(cmds, id) = RemoveAt(cmds, Min(I))
    BY <1>3 DEF Without, RemoveFirstMatch, SelectInSeq
  <2>4. QED
    BY <2>2, <2>3
<1>4. QED
  BY <1>2, <1>3

LEMMA WithoutKeeps ==
  ASSUME NEW S, NEW cmds \in Seq(S), NEW id
  PROVE  /\ Without(cmds, id) \in Seq(S)
         /\ Apart(cmds) =>
              /\ Apart(Without(cmds, id))
              /\ ToSet(Without(cmds, id)) = {c \in ToSet(cmds) : c.id # id}
<1> DEFINE r == Without(cmds, id)
<1>1. /\ Len(cmds) \in Nat /\ DOMAIN cmds = 1..Len(cmds)
      /\ ToSet(cmds) = {cmds[i] : i \in 1..Len(cmds)}
  BY ListSet
<1>2. CASE (\A i \in DOMAIN cmds : cmds[i].id # id) /\ r = cmds
  BY <1>1, <1>2
<1>3. ASSUME NEW k \in 1..Len(cmds), cmds[k].id = id, r = RemoveAt(cmds, k)
      PROVE  /\ r \in Seq(S)
             /\ Apart(cmds) =>
                  /\ Apart(r)
                  /\ ToSet(r) = {c \in ToSet(cmds) : c.id # id}
  <2> HIDE DEF r
  <2>1. /\ r \in Seq(S) /\ Len(r) = Len(cmds) - 1
        /\ \A j \in 1..Len(r) : r[j] = IF j < k THEN cmds[j] ELSE cmds[j + 1]
    BY <1>3, RemovedAt
  <2>2. DOMAIN r = 1..Len(r) /\ ToSet(r) = {r[j] : j \in 1..Len(r)}
    BY <2>1, ListSet
  <2> DEFINE from(j) == IF j < k THEN j ELSE j + 1
  <2>3. \A j \in 1..Len(r) : from(j) \in 1..Len(cmds) /\ from(j) # k /\ r[j] = cmds[from(j)]
    BY <1>1, <2>1
  <2>4. \A i, j \in 1..Len(r) : from(i) = from(j) => i = j
    OBVIOUS
  <2>5. \A i \in 1..Len(cmds) : i # k => \E j \in 1..Len(r) : from(j) = i
    <3> SUFFICES ASSUME NEW i \in 1..Len(cmds), i # k PROVE \E j \in 1..Len(r) : from(j) = i
      OBVIOUS
    <3>1. CASE i < k
      BY <1>1, <2>1, <3>1
    <3>2. CASE ~(i < k)
      <4>1. i - 1 \in 1..Len(r) /\ from(i - 1) = i
        BY <1>1, <2>1, <3>2
      <4>2. QED
        BY <4>1
    <3>3. QED
      BY <3>1, <3>2
  <2> HIDE DEF from
  <2>6. ASSUME Apart(cmds) PROVE Apart(r)
    BY <1>1, <2>2, <2>3, <2>4, <2>6 DEF Apart
  <2>7. ASSUME Apart(cmds) PROVE ToSet(r) = {c \in ToSet(cmds) : c.id # id}
    <3>1. ASSUME NEW c \in ToSet(r) PROVE c \in ToSet(cmds) /\ c.id # id
      <4>1. PICK j \in 1..Len(r) : c = r[j]
        BY <2>2
      <4>2. from(j) \in 1..Len(cmds) /\ from(j) # k /\ c = cmds[from(j)]
        BY <2>3, <4>1
      <4>3. QED
        BY <1>1, <1>3, <2>7, <4>2 DEF Apart
    <3>2. ASSUME NEW c \in ToSet(cmds), c.id # id PROVE c \in ToSet(r)
      <4>1. PICK i \in 1..Len(cmds) : c = cmds[i]
        BY <1>1
      <4>2. PICK j \in 1..Len(r) : from(j) = i
        BY <1>3, <2>5, <3>2, <4>1
      <4>3. r[j] = c
        BY <2>3, <4>1, <4>2
      <4>4. QED
        BY <2>2, <4>3
    <3>3. QED
      BY <3>1, <3>2
  <2>8. QED
    BY <2>1, <2>6, <2>7
<1>4. QED
  BY <1>2, <1>3, WithoutTakesFirst

LEMMA ReplacedKeeps ==
  ASSUME NEW S, NEW cmds \in Seq(S), NEW cmd \in S
  PROVE  /\ Replaced(cmds, cmd) \in Seq(S)
         /\ IdsOf(Replaced(cmds, cmd)) = IdsOf(cmds)
         /\ Apart(cmds) => Apart(Replaced(cmds, cmd))
         /\ ToSet(Replaced(cmds, cmd)) \subseteq {c \in ToSet(cmds) : c.id # cmd.id} \cup {cmd}
<1> DEFINE r == Replaced(cmds, cmd)
<1>1. /\ Len(cmds) \in Nat /\ DOMAIN cmds = 1..Len(cmds)
      /\ \A i \in 1..Len(cmds) : cmds[i] \in S
      /\ ToSet(cmds) = {cmds[i] : i \in 1..Len(cmds)}
  BY ListSet
<1>2. r = [i \in 1..Len(cmds) |-> IF cmds[i].id = cmd.id THEN cmd ELSE cmds[i]]
  BY <1>1 DEF Replaced
<1>3. r \in Seq(S) /\ DOMAIN r = 1..Len(cmds) /\ \A i \in 1..Len(cmds) : r[i].id = cmds[i].id
  <2>1. r \in [1..Len(cmds) -> S]
    BY <1>1, <1>2
  <2>2. QED
    BY <1>1, <1>2, <2>1
<1>4. \A i \in 1..Len(cmds) : r[i] = IF cmds[i].id = cmd.id THEN cmd ELSE cmds[i]
  BY <1>2
<1> HIDE DEF r
<1>5. ToSet(r) = {r[i] : i \in 1..Len(cmds)}
  BY <1>3 DEF ToSet
<1>6. IdsOf(r) = IdsOf(cmds)
  BY <1>1, <1>3, <1>5 DEF IdsOf
<1>7. Apart(cmds) => Apart(r)
  BY <1>1, <1>3 DEF Apart
<1>8. ToSet(r) \subseteq {c \in ToSet(cmds) : c.id # cmd.id} \cup {cmd}
  BY <1>1, <1>4, <1>5
<1>9. QED
  BY <1>3, <1>6, <1>7, <1>8 DEF r

LEMMA AppendKeeps ==
  ASSUME NEW S, NEW cmds \in Seq(S), NEW cmd \in S
  PROVE  /\ Append(cmds, cmd) \in Seq(S)
         /\ ToSet(Append(cmds, cmd)) = ToSet(cmds) \cup {cmd}
         /\ IdsOf(Append(cmds, cmd)) = IdsOf(cmds) \cup {cmd.id}
         /\ Apart(cmds) /\ cmd.id \notin IdsOf(cmds) => Apart(Append(cmds, cmd))
<1>1. /\ Len(cmds) \in Nat /\ DOMAIN cmds = 1..Len(cmds)
      /\ \A i \in 1..Len(cmds) : cmds[i] \in ToSet(cmds)
  BY ListSet
<1> DEFINE r == Append(cmds, cmd)
<1>2. /\ r \in Seq(S) /\ Len(r) = Len(cmds) + 1
      /\ \A i \in 1..Len(cmds) : r[i] = cmds[i]
      /\ r[Len(cmds) + 1] = cmd
  BY AppendProperties
<1>3. ToSet(r) = ToSet(cmds) \cup {cmd}
  BY AppendedRange
<1> HIDE DEF r
<1>4. DOMAIN r = 1..(Len(cmds) + 1)
  BY <1>2, ListSet
<1>5. IdsOf(r) = IdsOf(cmds) \cup {cmd.id}
  BY <1>3 DEF IdsOf
<1>6. ASSUME Apart(cmds), cmd.id \notin IdsOf(cmds) PROVE Apart(r)
  <2>1. \A i \in 1..Len(cmds) : r[i].id # cmd.id
    BY <1>1, <1>2, <1>6 DEF IdsOf
  <2>2. ASSUME NEW i \in 1..(Len(cmds) + 1), NEW j \in 1..(Len(cmds) + 1), r[i].id = r[j].id
        PROVE  i = j
    <3>1. (i \in 1..Len(cmds) \/ i = Len(cmds) + 1) /\ (j \in 1..Len(cmds) \/ j = Len(cmds) + 1)
      BY <1>1
    <3>2. QED
      BY <1>1, <1>2, <1>6, <2>1, <2>2, <3>1 DEF Apart
  <2>3. QED
    BY <1>4, <2>2 DEF Apart
<1>7. QED
  BY <1>2, <1>3, <1>5, <1>6 DEF r

-----------------------------------------------------------------------------
(* Filing commands                                                         *)

DoneIds(s) == IdsOf(s.completed) \cup IdsOf(s.failed)

\* No id is in two places of the store.
Distinct(s) ==
  /\ Apart(s.pending) /\ Apart(s.completed) /\ Apart(s.failed)
  /\ IdsOf(s.pending) \cap DoneIds(s) = {}
  /\ IdsOf(s.completed) \cap IdsOf(s.failed) = {}

LEMMA BookFields ==
  ASSUME NEW s \in Books
  PROVE  /\ s.pending \in Seq(Waiting) /\ s.completed \in Seq(Commands)
         /\ s.failed \in Seq(Commands)
         /\ DOMAIN s = {"kind", "pending", "completed", "failed"}
         /\ s.kind = "store"
BY DEF Books

LEMMA PlaceTypes ==
  ASSUME NEW s \in Books, NEW cmd \in Filable
  PROVE  Place(s, cmd) \in Books
<1>1. /\ s.pending \in Seq(Waiting) /\ s.completed \in Seq(Commands)
      /\ s.failed \in Seq(Commands)
  BY BookFields
<1>2. cmd \in Commands /\ cmd.status \in {"pending", "completed", "failed"}
  BY CommandKinds DEF Commands
<1>3. CASE cmd.status = "pending"
  <2>1. cmd \in Waiting
    BY <1>3, CommandKinds DEF Finished, Waiting
  <2> DEFINE list == IF Has(s.pending, cmd.id) THEN Replaced(s.pending, cmd)
                     ELSE Append(s.pending, cmd)
  <2>2. list \in Seq(Waiting)
    BY <1>1, <2>1, ReplacedKeeps, AppendKeeps
  <2>3. Place(s, cmd) = [s EXCEPT !.pending = list]
    BY <1>3 DEF Place
  <2> HIDE DEF list
  <2>4. QED
    BY <2>2, <2>3 DEF Books
<1>4. CASE cmd.status = "completed"
  <2> DEFINE list == Without(s.pending, cmd.id)
             done == Append(s.completed, cmd)
  <2>1. list \in Seq(Waiting) /\ done \in Seq(Commands)
    BY <1>1, <1>2, WithoutKeeps, AppendKeeps
  <2>2. Place(s, cmd) = [s EXCEPT !.pending = list, !.completed = done]
    BY <1>4 DEF Place
  <2> HIDE DEF list, done
  <2>3. QED
    BY <2>1, <2>2 DEF Books
<1>5. CASE cmd.status = "failed" /\ cmd.retries >= MaxRetries
  <2> DEFINE list == Without(s.pending, cmd.id)
             done == Append(s.failed, cmd)
  <2>1. list \in Seq(Waiting) /\ done \in Seq(Commands)
    BY <1>1, <1>2, WithoutKeeps, AppendKeeps
  <2>2. Place(s, cmd) = [s EXCEPT !.pending = list, !.failed = done]
    BY <1>5 DEF Place
  <2> HIDE DEF list, done
  <2>3. QED
    BY <2>1, <2>2 DEF Books
<1>6. CASE cmd.status = "failed" /\ ~(cmd.retries >= MaxRetries)
  <2>1. cmd \in Waiting
    BY <1>2, <1>6, CommandKinds DEF Finished, Fresh
  <2> DEFINE list == Replaced(s.pending, cmd)
  <2>2. list \in Seq(Waiting)
    BY <1>1, <2>1, ReplacedKeeps
  <2>3. Place(s, cmd) = [s EXCEPT !.pending = list]
    BY <1>6 DEF Place
  <2> HIDE DEF list
  <2>4. QED
    BY <2>2, <2>3 DEF Books
<1>7. QED
  BY <1>2, <1>3, <1>4, <1>5, <1>6

\* What filing cmd makes of s: the command waits, or it is finished and gone
\* from the queue, or, tried in vain and not waiting, it is forgotten.
Files(s, cmd, t) ==
  /\ t \in Books /\ Distinct(t)
  /\ IdsOf(t.pending) = (IF cmd \in Fresh THEN IdsOf(s.pending) \cup {cmd.id}
                         ELSE IF Finished(cmd) THEN IdsOf(s.pending) \ {cmd.id}
                         ELSE IdsOf(s.pending))
  /\ DoneIds(t) \subseteq DoneIds(s) \cup {cmd.id}
  /\ ToSet(t.pending) \subseteq {c \in ToSet(s.pending) : c.id # cmd.id} \cup {cmd}

LEMMA HasId == \A cmds, id : Has(cmds, id) <=> id \in IdsOf(cmds)
BY DEF Has, IdsOf, ToSet

LEMMA PlaceFiles ==
  ASSUME NEW s \in Books, NEW cmd \in Filable, Distinct(s), cmd.id \notin DoneIds(s)
  PROVE  Files(s, cmd, Place(s, cmd))
<1> DEFINE t == Place(s, cmd)
<1>1. /\ s.pending \in Seq(Waiting) /\ s.completed \in Seq(Commands)
      /\ s.failed \in Seq(Commands)
      /\ DOMAIN s = {"kind", "pending", "completed", "failed"}
  BY BookFields
<1>2. cmd \in Commands /\ cmd.status \in {"pending", "completed", "failed"}
  BY CommandKinds DEF Commands
<1>3. t \in Books
  BY PlaceTypes
<1>4. CASE cmd.status = "pending"
  <2>1. cmd \in Waiting /\ cmd \in Fresh /\ ~Finished(cmd)
    BY <1>4, CommandKinds DEF Finished, Waiting
  <2> DEFINE list == IF Has(s.pending, cmd.id) THEN Replaced(s.pending, cmd)
                     ELSE Append(s.pending, cmd)
  <2>2. /\ IdsOf(list) = IdsOf(s.pending) \cup {cmd.id}
        /\ Apart(list)
        /\ ToSet(list) \subseteq {c \in ToSet(s.pending) : c.id # cmd.id} \cup {cmd}
    <3>1. CASE Has(s.pending, cmd.id)
      <4>1. list = Replaced(s.pending, cmd)
        BY <3>1
      <4> HIDE DEF list
      <4>2. QED
        BY <1>1, <2>1, <3>1, <4>1, HasId, ReplacedKeeps DEF Distinct
    <3>2. CASE ~Has(s.pending, cmd.id)
      <4>1. list = Append(s.pending, cmd) /\ cmd.id \notin IdsOf(s.pending)
        BY <3>2, HasId
      <4>2. \A c \in ToSet(s.pending) : c.id # cmd.id
        BY <4>1 DEF IdsOf
      <4> HIDE DEF list
      <4>3. QED
        BY <1>1, <2>1, <4>1, <4>2, AppendKeeps DEF Distinct
    <3>3. QED
      BY <3>1, <3>2
  <2>3. t = [s EXCEPT !.pending = list]
    BY <1>4 DEF Place
  <2> HIDE DEF list, t
  <2>4. t.pending = list /\ t.completed = s.completed /\ t.failed = s.failed
    BY <1>1, <2>3
  <2>5. DoneIds(t) = DoneIds(s)
    BY <2>4 DEF DoneIds
  <2>6. Distinct(t)
    BY <2>2, <2>4, <2>5 DEF Distinct
  <2>7. QED
    BY <1>3, <2>1, <2>2, <2>4, <2>5, <2>6 DEF Files, t
<1>5. ASSUME Finished(cmd)
      PROVE  LET list == Without(s.pending, cmd.id)
             IN /\ Apart(list) /\ IdsOf(list) = IdsOf(s.pending) \ {cmd.id}
                /\ ToSet(list) \subseteq {c \in ToSet(s.pending) : c.id # cmd.id} \cup {cmd}
                /\ cmd \notin Fresh
  <2>1. /\ Apart(Without(s.pending, cmd.id))
        /\ ToSet(Without(s.pending, cmd.id)) = {c \in ToSet(s.pending) : c.id # cmd.id}
    BY <1>1, WithoutKeeps DEF Distinct
  <2>2. IdsOf(Without(s.pending, cmd.id)) = IdsOf(s.pending) \ {cmd.id}
    BY <2>1 DEF IdsOf
  <2>3. cmd \notin Fresh
    BY <1>5 DEF Finished, Fresh
  <2>4. QED
    BY <2>1, <2>2, <2>3
<1>6. CASE cmd.status = "completed"
  <2> DEFINE list == Without(s.pending, cmd.id)
             done == Append(s.completed, cmd)
  <2>0. Finished(cmd)
    BY <1>6 DEF Finished
  <2>1. /\ Apart(list) /\ IdsOf(list) = IdsOf(s.pending) \ {cmd.id}
        /\ ToSet(list) \subseteq {c \in ToSet(s.pending) : c.id # cmd.id} \cup {cmd}
        /\ cmd \notin Fresh
    BY <1>5, <2>0
  <2>2. IdsOf(done) = IdsOf(s.completed) \cup {cmd.id} /\ Apart(done)
    BY <1>1, <1>2, AppendKeeps DEF Distinct, DoneIds
  <2>3. t = [s EXCEPT !.pending = list, !.completed = done]
    BY <1>6 DEF Place
  <2> HIDE DEF list, done, t
  <2>4. t.pending = list /\ t.completed = done /\ t.failed = s.failed
    BY <1>1, <2>3
  <2>5. DoneIds(t) = DoneIds(s) \cup {cmd.id}
    BY <2>2, <2>4 DEF DoneIds
  <2>6. Distinct(t)
    BY <2>1, <2>2, <2>4, <2>5 DEF Distinct, DoneIds
  <2>7. QED
    BY <1>3, <2>0, <2>1, <2>4, <2>5, <2>6 DEF Files, t
<1>7. CASE cmd.status = "failed" /\ cmd.retries >= MaxRetries
  <2> DEFINE list == Without(s.pending, cmd.id)
             done == Append(s.failed, cmd)
  <2>0. Finished(cmd)
    BY <1>7 DEF Finished
  <2>1. /\ Apart(list) /\ IdsOf(list) = IdsOf(s.pending) \ {cmd.id}
        /\ ToSet(list) \subseteq {c \in ToSet(s.pending) : c.id # cmd.id} \cup {cmd}
        /\ cmd \notin Fresh
    BY <1>5, <2>0
  <2>2. IdsOf(done) = IdsOf(s.failed) \cup {cmd.id} /\ Apart(done)
    BY <1>1, <1>2, AppendKeeps DEF Distinct, DoneIds
  <2>3. t = [s EXCEPT !.pending = list, !.failed = done]
    BY <1>7 DEF Place
  <2> HIDE DEF list, done, t
  <2>4. t.pending = list /\ t.completed = s.completed /\ t.failed = done
    BY <1>1, <2>3
  <2>5. DoneIds(t) = DoneIds(s) \cup {cmd.id}
    BY <2>2, <2>4 DEF DoneIds
  <2>6. Distinct(t)
    BY <2>1, <2>2, <2>4, <2>5 DEF Distinct, DoneIds
  <2>7. QED
    BY <1>3, <2>0, <2>1, <2>4, <2>5, <2>6 DEF Files, t
<1>8. CASE cmd.status = "failed" /\ ~(cmd.retries >= MaxRetries)
  <2>1. cmd \in Waiting /\ cmd \notin Fresh /\ ~Finished(cmd)
    BY <1>2, <1>8, CommandKinds DEF Finished, Fresh
  <2> DEFINE list == Replaced(s.pending, cmd)
  <2>2. /\ IdsOf(list) = IdsOf(s.pending) /\ Apart(list)
        /\ ToSet(list) \subseteq {c \in ToSet(s.pending) : c.id # cmd.id} \cup {cmd}
    BY <1>1, <2>1, ReplacedKeeps DEF Distinct
  <2>3. t = [s EXCEPT !.pending = list]
    BY <1>8 DEF Place
  <2> HIDE DEF list, t
  <2>4. t.pending = list /\ t.completed = s.completed /\ t.failed = s.failed
    BY <1>1, <2>3
  <2>5. DoneIds(t) = DoneIds(s)
    BY <2>4 DEF DoneIds
  <2>6. Distinct(t)
    BY <2>2, <2>4, <2>5 DEF Distinct
  <2>7. QED
    BY <1>3, <2>1, <2>2, <2>4, <2>5, <2>6 DEF Files, t
<1>9. QED
  BY <1>2, <1>4, <1>6, <1>7, <1>8

-----------------------------------------------------------------------------
(* The recursion behind PlaceAll                                           *)

PlaceStep(base, cmds, s, iter) ==
  IF s = {} THEN base ELSE Place(iter[s \ {Max(s)}], cmds[Max(s)])

PlaceIter(base, cmds) ==
  CHOOSE iter : iter = [s \in SUBSET DOMAIN cmds |-> PlaceStep(base, cmds, s, iter)]

LEMMA PlaceAllIsIter ==
  \A base, cmds : PlaceAll(base, cmds) = PlaceIter(base, cmds)[DOMAIN cmds]
BY DEF PlaceAll, FoldLeft, MapThenFoldSet, PlaceIter, PlaceStep

LEMMA PlaceIterExists ==
  ASSUME NEW base \in Books, NEW cmds \in Seq(Filable)
  PROVE  \E iter : iter = [s \in SUBSET DOMAIN cmds |-> PlaceStep(base, cmds, s, iter)]
<1> DEFINE N == DOMAIN cmds
           next == [i \in N |-> [v \in Books |-> Place(v, cmds[i])]]
<1>1. N = 1..Len(cmds) /\ Len(cmds) \in Nat
  BY LenProperties
<1>2. N \in SUBSET Int /\ IsFiniteSet(N)
  BY <1>1, FS_Interval
<1>3. next \in [N -> [Books -> Books]]
  <2>1. \A i \in N : cmds[i] \in Filable
    BY <1>1, ElementOfSeq
  <2> HIDE DEF N
  <2>2. \A i \in N : \A v \in Books : Place(v, cmds[i]) \in Books
    BY <2>1, PlaceTypes
  <2>3. QED
    BY <2>2
<1> HIDE DEF next, N
<1>4. PICK iter : IsFoldIter(N, Books, next, base, iter)
  BY <1>2, <1>3, FoldIterExists
<1>5. ASSUME NEW s \in SUBSET N PROVE iter[s] = PlaceStep(base, cmds, s, iter)
  <2>1. CASE s = {}
    BY <1>4, <2>1 DEF IsFoldIter, FoldStep, PlaceStep
  <2>2. CASE s # {}
    <3>1. Max(s) \in N
      <4>1. s \in SUBSET Int /\ IsFiniteSet(s)
        BY <1>2, FS_Subset
      <4>2. QED
        BY <2>2, <4>1, MaxIsMember
    <3>2. iter[s \ {Max(s)}] \in Books
      BY <1>4 DEF IsFoldIter
    <3>3. next[Max(s)][iter[s \ {Max(s)}]] = Place(iter[s \ {Max(s)}], cmds[Max(s)])
      BY <3>1, <3>2 DEF next
    <3>4. QED
      BY <1>4, <2>2, <3>3 DEF IsFoldIter, FoldStep, PlaceStep
  <2>3. QED
    BY <2>1, <2>2
<1>6. iter = [s \in SUBSET N |-> PlaceStep(base, cmds, s, iter)]
  BY <1>4, <1>5 DEF IsFoldIter
<1>7. QED
  BY <1>6 DEF N

\* PlaceAll, one command at a time: upTo[k] is the store with the first k filed.
Places(base, cmds, upTo) ==
  /\ upTo[0] = base
  /\ \A k \in 1..Len(cmds) : upTo[k] = Place(upTo[k - 1], cmds[k])
  /\ PlaceAll(base, cmds) = upTo[Len(cmds)]

LEMMA PlaceOneByOne ==
  ASSUME NEW base \in Books, NEW cmds \in Seq(Filable)
  PROVE  \E upTo : Places(base, cmds, upTo)
<1> DEFINE N == DOMAIN cmds
           iter == PlaceIter(base, cmds)
           upTo == [k \in 0..Len(cmds) |-> iter[1..k]]
<1>1. Len(cmds) \in Nat /\ N = 1..Len(cmds)
  BY LenProperties
<1>2. iter = [s \in SUBSET N |-> PlaceStep(base, cmds, s, iter)]
  BY PlaceIterExists DEF PlaceIter
<1> HIDE DEF iter
<1>3. \A s \in SUBSET N : iter[s] = PlaceStep(base, cmds, s, iter)
  <2> HIDE DEF N
  <2>1. QED
    BY <1>2
<1>4. upTo[0] = base
  <2>1. 1..0 = {} /\ {} \in SUBSET N
    OBVIOUS
  <2>2. iter[{}] = base
    BY <1>3, <2>1 DEF PlaceStep
  <2>3. QED
    BY <1>1, <2>1, <2>2
<1>5. ASSUME NEW k \in 1..Len(cmds)
      PROVE  upTo[k] = Place(upTo[k - 1], cmds[k])
  <2>1. k \in 0..Len(cmds) /\ k - 1 \in 0..Len(cmds)
    BY <1>1
  <2>2. /\ 1..k \in SUBSET N /\ 1..k # {} /\ Max(1..k) = k
        /\ (1..k) \ {k} = 1..(k - 1)
    BY <1>1, FirstIndexes
  <2>3. iter[1..k] = Place(iter[1..(k - 1)], cmds[k])
    <3> HIDE DEF N
    <3>1. iter[1..k] = PlaceStep(base, cmds, 1..k, iter)
      BY <1>3, <2>2
    <3>2. QED
      BY <3>1, <2>2 DEF PlaceStep
  <2>4. QED
    BY <2>1, <2>3
<1>6. PlaceAll(base, cmds) = upTo[Len(cmds)]
  BY <1>1, PlaceAllIsIter DEF iter
<1>7. Places(base, cmds, upTo)
  <2> HIDE DEF upTo
  <2>1. QED
    BY <1>4, <1>5, <1>6 DEF Places
<1>8. QED
  BY <1>7

LEMMA PlaceAllTypes ==
  ASSUME NEW base \in Books, NEW cmds \in Seq(Filable)
  PROVE  PlaceAll(base, cmds) \in Books
<1>1. PICK upTo : Places(base, cmds, upTo)
  BY PlaceOneByOne
<1>2. Len(cmds) \in Nat /\ \A i \in 1..Len(cmds) : cmds[i] \in Filable
  BY ListSet
<1> DEFINE C == {k \in Nat : k <= Len(cmds) => upTo[k] \in Books}
<1>3. 0 \in C
  BY <1>1 DEF Places
<1>4. \A n \in Nat : n \in C => n + 1 \in C
  <2> SUFFICES ASSUME NEW n \in Nat, n \in C, n + 1 <= Len(cmds)
               PROVE  upTo[n + 1] \in Books
    OBVIOUS
  <2>1. n <= Len(cmds) /\ n + 1 \in 1..Len(cmds) /\ (n + 1) - 1 = n
    BY <1>2
  <2>2. upTo[n] \in Books /\ upTo[n + 1] = Place(upTo[n], cmds[n + 1])
    BY <1>1, <2>1 DEF Places
  <2>3. QED
    BY <1>2, <2>1, <2>2, PlaceTypes
<1>5. Len(cmds) \in C
  <2> HIDE DEF C
  <2>1. QED
    BY <1>2, <1>3, <1>4, CountingUp
<1>6. QED
  BY <1>1, <1>2, <1>5 DEF Places

IdsIn(S) == {c.id : c \in S}

\* What filing the commands of S makes of base.
FilesAll(base, S, t) ==
  /\ t \in Books /\ Distinct(t)
  /\ IdsOf(t.pending) = (IdsOf(base.pending) \ IdsIn({c \in S : Finished(c)}))
                        \cup IdsIn(S \cap Fresh)
  /\ DoneIds(t) \subseteq DoneIds(base) \cup IdsIn(S)
  /\ ToSet(t.pending) \subseteq {c \in ToSet(base.pending) : c.id \notin IdsIn(S)} \cup S

LEMMA FilesMore ==
  ASSUME NEW base, NEW S, NEW s, FilesAll(base, S, s),
         NEW cmd, cmd.id \notin IdsIn(S), NEW t, Files(s, cmd, t)
  PROVE  FilesAll(base, S \cup {cmd}, t)
<1>1. IdsIn(S \cup {cmd}) = IdsIn(S) \cup {cmd.id}
  BY DEF IdsIn
<1>2. DoneIds(t) \subseteq DoneIds(base) \cup IdsIn(S \cup {cmd})
  BY <1>1 DEF FilesAll, Files
<1>3. ASSUME NEW c \in ToSet(t.pending)
      PROVE  \/ c \in ToSet(base.pending) /\ c.id \notin IdsIn(S \cup {cmd})
             \/ c \in S \cup {cmd}
  BY <1>1, <1>3 DEF FilesAll, Files
<1>4. IdsOf(t.pending) = (IdsOf(base.pending) \ IdsIn({c \in S \cup {cmd} : Finished(c)}))
                         \cup IdsIn((S \cup {cmd}) \cap Fresh)
  <2> DEFINE pending == IdsOf(base.pending)
             old == IdsIn({c \in S : Finished(c)})
             new == IdsIn(S \cap Fresh)
  <2>0. IdsOf(s.pending) = (pending \ old) \cup new
    BY DEF FilesAll
  <2>1. cmd.id \notin new
    BY DEF IdsIn
  <2>2. CASE cmd \in Fresh
    <3>1. ~Finished(cmd)
      BY <2>2 DEF Finished, Fresh
    <3>2. IdsIn({c \in S \cup {cmd} : Finished(c)}) = old
      BY <3>1 DEF IdsIn
    <3>3. IdsIn((S \cup {cmd}) \cap Fresh) = new \cup {cmd.id}
      BY <2>2 DEF IdsIn
    <3>4. IdsOf(t.pending) = IdsOf(s.pending) \cup {cmd.id}
      BY <2>2 DEF Files
    <3> HIDE DEF pending, old, new
    <3>5. QED
      BY <2>0, <3>2, <3>3, <3>4 DEF pending
  <2>3. CASE cmd \notin Fresh /\ Finished(cmd)
    <3>1. IdsIn({c \in S \cup {cmd} : Finished(c)}) = old \cup {cmd.id}
      BY <2>3 DEF IdsIn
    <3>2. IdsIn((S \cup {cmd}) \cap Fresh) = new
      BY <2>3 DEF IdsIn
    <3>3. IdsOf(t.pending) = IdsOf(s.pending) \ {cmd.id}
      BY <2>3 DEF Files
    <3> HIDE DEF pending, old, new
    <3>4. QED
      BY <2>0, <2>1, <3>1, <3>2, <3>3 DEF pending
  <2>4. CASE cmd \notin Fresh /\ ~Finished(cmd)
    <3>1. IdsIn({c \in S \cup {cmd} : Finished(c)}) = old
      BY <2>4 DEF IdsIn
    <3>2. IdsIn((S \cup {cmd}) \cap Fresh) = new
      BY <2>4 DEF IdsIn
    <3>3. IdsOf(t.pending) = IdsOf(s.pending)
      BY <2>4 DEF Files
    <3> HIDE DEF pending, old, new
    <3>4. QED
      BY <2>0, <3>1, <3>2, <3>3 DEF pending
  <2>5. QED
    BY <2>2, <2>3, <2>4
<1>5. t \in Books /\ Distinct(t)
  BY DEF Files
<1>6. QED
  BY <1>2, <1>3, <1>4, <1>5 DEF FilesAll

\* Filing commands that no list of finished ones has yet.
LEMMA PlaceAllFiles ==
  ASSUME NEW base \in Books, Distinct(base), NEW cmds \in Seq(Filable), Apart(cmds),
         IdsOf(cmds) \cap DoneIds(base) = {}
  PROVE  FilesAll(base, ToSet(cmds), PlaceAll(base, cmds))
<1>1. PICK upTo : Places(base, cmds, upTo)
  BY PlaceOneByOne
<1>2. /\ Len(cmds) \in Nat /\ DOMAIN cmds = 1..Len(cmds)
      /\ \A i \in 1..Len(cmds) : cmds[i] \in Filable /\ cmds[i] \in ToSet(cmds)
      /\ ToSet(cmds) = {cmds[i] : i \in 1..Len(cmds)}
  BY ListSet
<1> DEFINE first(k) == {cmds[i] : i \in 1..k}
           C == {k \in Nat : k <= Len(cmds) => FilesAll(base, first(k), upTo[k])}
<1>3. 0 \in C
  <2>1. first(0) = {}
    OBVIOUS
  <2>2. IdsIn({}) = {} /\ {c \in {} : Finished(c)} = {} /\ {} \cap Fresh = {}
    BY DEF IdsIn
  <2>3. upTo[0] = base
    BY <1>1 DEF Places
  <2> HIDE DEF first
  <2>4. QED
    BY <2>1, <2>2, <2>3 DEF FilesAll
<1> HIDE DEF C
<1>4. ASSUME NEW n \in Nat, n + 1 <= Len(cmds), FilesAll(base, first(n), upTo[n])
      PROVE  FilesAll(base, first(n + 1), upTo[n + 1])
  <2>1. n + 1 \in 1..Len(cmds) /\ (n + 1) - 1 = n
    BY <1>2, <1>4
  <2> DEFINE cmd == cmds[n + 1]
             s == upTo[n]
  <2>2. FilesAll(base, first(n), s) /\ upTo[n + 1] = Place(s, cmd)
    BY <1>1, <1>4, <2>1 DEF Places
  <2>3. cmd \in Filable /\ cmd.id \in IdsOf(cmds)
    BY <1>2, <2>1 DEF IdsOf
  <2>4. cmd.id \notin IdsIn(first(n))
    <3>1. \A i \in 1..n : i \in 1..Len(cmds) /\ i # n + 1
      BY <1>2, <2>1
    <3>2. \A i \in 1..n : cmds[i].id # cmd.id
      BY <1>2, <2>1, <3>1 DEF Apart
    <3>3. QED
      BY <3>2 DEF IdsIn
  <2>5. first(n + 1) = first(n) \cup {cmd}
    <3>1. 1..(n + 1) = (1..n) \cup {n + 1}
      OBVIOUS
    <3>2. QED
      BY <3>1
  <2> HIDE DEF first, cmd, s
  <2>6. s \in Books /\ Distinct(s) /\ cmd.id \notin DoneIds(s)
    BY <2>2, <2>3, <2>4 DEF FilesAll
  <2>7. Files(s, cmd, Place(s, cmd))
    BY <2>3, <2>6, PlaceFiles
  <2>8. QED
    BY <2>2, <2>4, <2>5, <2>7, FilesMore
<1>5. FilesAll(base, first(Len(cmds)), upTo[Len(cmds)])
  <2> HIDE DEF first
  <2>1. \A n \in Nat : n \in C => n + 1 \in C
    <3> SUFFICES ASSUME NEW n \in Nat, n \in C PROVE n + 1 \in C
      OBVIOUS
    <3>1. n + 1 <= Len(cmds) => n <= Len(cmds)
      BY <1>2
    <3>2. QED
      BY <1>4, <3>1 DEF C
  <2>2. Len(cmds) \in C
    BY <1>2, <1>3, <2>1, CountingUp
  <2>3. QED
    BY <1>2, <2>2 DEF C
<1>6. first(Len(cmds)) = ToSet(cmds)
  BY <1>2
<1> HIDE DEF first
<1>7. QED
  BY <1>1, <1>5, <1>6 DEF Places

-----------------------------------------------------------------------------
(* The type invariant, for any goroutines                                  *)

Fields == {"pc", "op", "cmds", "at", "data", "fd"}

\* A cycle has run the commands before the one it is at; a save files what was
\* scheduled or has run.
ProcTypeOK(k) ==
  /\ DOMAIN k = Fields
  /\ k.pc \in {"idle", "run", "save", "archive", "open", "write", "rename"}
  /\ k.cmds \in Seq(Commands)
  /\ k.at \in 1..(Len(k.cmds) + 1)
  /\ k.data \in Books
  /\ k.fd \in {"none", "tmp", "file", "gone"}
  /\ k.pc = "run" =>
       /\ k.op = "status"
       /\ \A i \in DOMAIN k.cmds : k.cmds[i] \in (IF i < k.at THEN Settled ELSE Waiting)
  /\ k.pc = "save" => k.cmds \in Seq(Filable)

StoreTypes ==
  /\ file \in Books \cup {None, Torn}
  /\ tmp \in Books \cup {None, Torn}
  /\ DOMAIN proc = Procs
  /\ \A p \in Procs : ProcTypeOK(proc[p])
  /\ nextId \in Nat \ {0}
  /\ saved \subseteq Ids
  /\ ran \in [Ids -> Nat]
  /\ faults \in [crashes: Nat, reads: Nat, writes: Nat]

LEMMA EmptyTypes ==
  /\ EmptyStore \in Books /\ Distinct(EmptyStore)
  /\ IdsOf(EmptyStore.pending) = {} /\ ToSet(EmptyStore.pending) = {}
  /\ DoneIds(EmptyStore) = {}
<1>1. <<>> \in Seq(Waiting) /\ <<>> \in Seq(Commands) /\ ToSet(<<>>) = {}
  BY DEF ToSet
<1>2. /\ EmptyStore.pending = <<>> /\ EmptyStore.completed = <<>> /\ EmptyStore.failed = <<>>
      /\ EmptyStore \in Books
  BY <1>1 DEF EmptyStore, Store, Books
<1>3. IdsOf(<<>>) = {} /\ Apart(<<>>)
  BY <1>1 DEF IdsOf, Apart
<1>4. QED
  BY <1>1, <1>2, <1>3 DEF Distinct, DoneIds

LEMMA IdleTypes ==
  /\ ProcTypeOK(Idle)
  /\ \A p \in Procs : /\ ProcTypeOK(AfterSave(p))
                      /\ AfterSave(p).pc \in {"idle", "archive"}
<1>1. <<>> \in Seq(Commands) /\ Len(<<>>) = 0
  OBVIOUS
<1>2. ProcTypeOK(Idle)
  BY <1>1, EmptyTypes DEF ProcTypeOK, Idle, Fields
<1>3. ProcTypeOK([Idle EXCEPT !.pc = "archive"]) /\ [Idle EXCEPT !.pc = "archive"].pc = "archive"
  BY <1>1, EmptyTypes DEF ProcTypeOK, Idle, Fields
<1>4. Idle.pc = "idle"
  BY DEF Idle
<1>5. QED
  BY <1>2, <1>3, <1>4 DEF AfterSave

\* All that waits in the file is loaded: what has no retry left is not there.
LEMMA LoadsPending ==
  ASSUME file \in Books \cup {None, Torn}, Readable
  PROVE  loadStore \in Books /\ LoadPendingCommands = loadStore.pending
<1>1. loadStore \in Books
  BY EmptyTypes DEF Readable, Torn, None, loadStore
<1>2. loadStore.pending \in Seq(Waiting)
  BY <1>1, BookFields
<1> DEFINE list == loadStore.pending
           wanted == {c \in ToSet(list) : Retryable(c)}
<1>3. \A i \in DOMAIN list : list[i] \in wanted
  <2> HIDE DEF list
  <2>1. QED
    BY <1>2, ListSet, CommandKinds DEF list
<1>4. Keep(list, wanted) = list
  <2> HIDE DEF list, wanted
  <2>1. QED
    BY <1>2, <1>3, KeepAll DEF list
<1>5. QED
  BY <1>1, <1>4 DEF LoadPendingCommands

LEMMA RunSettles ==
  ASSUME NEW cmd \in Waiting, NEW ok \in BOOLEAN
  PROVE  /\ AfterRun(cmd, ok) \in Settled /\ AfterRun(cmd, ok).id = cmd.id
         /\ AfterRun(cmd, ok).retries = IF ok THEN cmd.retries ELSE cmd.retries + 1
         /\ AfterRun(cmd, ok).status = IF ok THEN "completed" ELSE "failed"
<1>1. /\ DOMAIN cmd = {"id", "status", "retries"} /\ cmd.id \in Ids
      /\ cmd.retries \in 0..MaxRetries /\ cmd.retries < MaxRetries /\ MaxRetries \in Nat
  BY StoreAssumption DEF Waiting, Commands
<1> DEFINE c == AfterRun(cmd, ok)
<1>2. c = [cmd EXCEPT !.status = IF ok THEN "completed" ELSE "failed",
                      !.retries = IF ok THEN @ ELSE @ + 1]
  BY <1>1 DEF AfterRun
<1> HIDE DEF c
<1>3. /\ c = [id |-> c.id, status |-> c.status, retries |-> c.retries]
      /\ c.id = cmd.id /\ c.status = (IF ok THEN "completed" ELSE "failed")
      /\ c.retries = (IF ok THEN cmd.retries ELSE cmd.retries + 1)
  BY <1>1, <1>2
<1>4. c.retries \in 0..MaxRetries /\ c.status \in {"completed", "failed"}
  BY <1>1, <1>3
<1>5. c \in Settled
  BY <1>1, <1>3, <1>4 DEF Settled, Commands
<1>6. QED
  BY <1>3, <1>5 DEF c

LEMMA NewCommands ==
  ASSUME nextId \in Nat \ {0}, NEW n \in Ids, nextId + n - 1 \in Ids
  PROVE  LET cmds == [i \in 1..n |-> Command(nextId + i - 1)]
         IN /\ cmds \in Seq(Fresh) /\ Apart(cmds)
            /\ IdsOf(cmds) = nextId..(nextId + n - 1)
<1> DEFINE cmds == [i \in 1..n |-> Command(nextId + i - 1)]
<1>1. n \in Nat /\ MaxCommands \in Nat
  BY StoreAssumption DEF Ids
<1>2. ASSUME NEW i \in 1..n
      PROVE  cmds[i] \in Fresh /\ cmds[i].id = nextId + i - 1
  BY <1>1, StoreAssumption DEF Command, Fresh, Commands, Ids
<1>3. cmds \in Seq(Fresh)
  <2>1. cmds \in [1..n -> Fresh]
    BY <1>2
  <2> HIDE DEF cmds
  <2>2. QED
    BY <1>1, <2>1
<1>4. Apart(cmds)
  <2> SUFFICES ASSUME NEW i \in 1..n, NEW j \in 1..n, cmds[i].id = cmds[j].id PROVE i = j
    BY DEF Apart
  <2>1. nextId + i - 1 = nextId + j - 1
    BY <1>2
  <2>2. QED
    BY <2>1
<1>5. IdsOf(cmds) = {nextId + i - 1 : i \in 1..n}
  <2>1. ToSet(cmds) = {cmds[i] : i \in 1..n}
    BY DEF ToSet
  <2> HIDE DEF cmds
  <2>2. QED
    BY <1>2, <2>1 DEF IdsOf
<1>6. {nextId + i - 1 : i \in 1..n} = nextId..(nextId + n - 1)
  <2>1. ASSUME NEW id \in nextId..(nextId + n - 1)
        PROVE  \E i \in 1..n : id = nextId + i - 1
    <3>1. id - nextId + 1 \in 1..n /\ id = nextId + (id - nextId + 1) - 1
      BY <1>1
    <3>2. QED
      BY <3>1
  <2>2. \A i \in 1..n : nextId + i - 1 \in nextId..(nextId + n - 1)
    BY <1>1
  <2>3. QED
    BY <2>1, <2>2
<1>7. QED
  BY <1>3, <1>4, <1>5, <1>6

\* The last of a list.
LEMMA NewestKeeps ==
  ASSUME NEW cmds \in Seq(Commands)
  PROVE  /\ Newest(cmds) \in Seq(Commands)
         /\ ToSet(Newest(cmds)) \subseteq ToSet(cmds)
         /\ Apart(cmds) => Apart(Newest(cmds))
<1> DEFINE n == IF Len(cmds) > MaxKept THEN MaxKept ELSE Len(cmds)
           m == 1 + Len(cmds) - n
           r == Newest(cmds)
<1>1. /\ Len(cmds) \in Nat /\ DOMAIN cmds = 1..Len(cmds)
      /\ \A i \in 1..Len(cmds) : cmds[i] \in Commands /\ cmds[i] \in ToSet(cmds)
  BY ListSet
<1>2. m \in Int /\ n \in Nat /\ m >= 1 /\ m + n - 1 = Len(cmds)
  BY <1>1, StoreAssumption, SMTT(30)
<1>3. r = SubSeq(cmds, m, Len(cmds))
  BY DEF Newest
<1> HIDE DEF n, m, r
<1>4. /\ r \in Seq(Commands)
      /\ Len(r) = (IF m <= Len(cmds) THEN Len(cmds) - m + 1 ELSE 0)
      /\ \A i \in 1..(Len(cmds) - m + 1) : r[i] = cmds[m + i - 1]
  <2>1. \A i \in m..Len(cmds) : cmds[i] \in Commands
    BY <1>1, <1>2
  <2>2. m \in Int /\ Len(cmds) \in Int
    BY <1>1, <1>2
  <2>3. QED
    BY <1>3, <2>1, <2>2, SubSeqProperties
<1>5. Len(r) = n
  BY <1>1, <1>2, <1>4
<1>6. ASSUME NEW i \in 1..n
      PROVE  m + i - 1 \in 1..Len(cmds) /\ r[i] = cmds[m + i - 1]
  BY <1>1, <1>2, <1>4
<1>7. DOMAIN r = 1..n /\ ToSet(r) = {r[i] : i \in 1..n}
  BY <1>4, <1>5, ListSet
<1>8. ToSet(r) \subseteq ToSet(cmds)
  BY <1>1, <1>6, <1>7
<1>9. ASSUME Apart(cmds) PROVE Apart(r)
  <2> SUFFICES ASSUME NEW i \in 1..n, NEW j \in 1..n, r[i].id = r[j].id PROVE i = j
    BY <1>7 DEF Apart
  <2>1. m + i - 1 = m + j - 1
    BY <1>1, <1>6, <1>9 DEF Apart
  <2>2. QED
    BY <1>2, <2>1
<1>10. QED
  BY <1>4, <1>8, <1>9 DEF r

LEMMA ArchivedKeeps ==
  ASSUME NEW s \in Books
  PROVE  /\ Archived(s) \in Books /\ Archived(s).pending = s.pending
         /\ DoneIds(Archived(s)) \subseteq DoneIds(s)
         /\ Distinct(s) => Distinct(Archived(s))
<1>1. /\ s.pending \in Seq(Waiting) /\ s.completed \in Seq(Commands)
      /\ s.failed \in Seq(Commands)
      /\ DOMAIN s = {"kind", "pending", "completed", "failed"} /\ s.kind = "store"
  BY BookFields
<1> DEFINE completed == Newest(s.completed)
           dead == Newest(s.failed)
           t == Archived(s)
<1>2. t = [s EXCEPT !.completed = completed, !.failed = dead]
  BY DEF Archived
<1>3. /\ completed \in Seq(Commands) /\ ToSet(completed) \subseteq ToSet(s.completed)
      /\ Apart(s.completed) => Apart(completed)
      /\ dead \in Seq(Commands) /\ ToSet(dead) \subseteq ToSet(s.failed)
      /\ Apart(s.failed) => Apart(dead)
  BY <1>1, NewestKeeps
<1> HIDE DEF completed, dead, t
<1>4. t.pending = s.pending /\ t.completed = completed /\ t.failed = dead
  BY <1>1, <1>2
<1>5. t \in Books
  BY <1>1, <1>2, <1>3 DEF Books
<1>6. IdsOf(completed) \subseteq IdsOf(s.completed) /\ IdsOf(dead) \subseteq IdsOf(s.failed)
  BY <1>3 DEF IdsOf
<1>7. DoneIds(t) \subseteq DoneIds(s)
  BY <1>4, <1>6 DEF DoneIds
<1>8. Distinct(s) => Distinct(t)
  BY <1>3, <1>4, <1>6, <1>7 DEF Distinct
<1>9. QED
  BY <1>4, <1>5, <1>7, <1>8 DEF t

\* Only the goroutine p moves.
Moves(p) == DOMAIN proc' = Procs /\ \A q \in Procs \ {p} : proc'[q] = proc[q]

LEMMA ProcsTyped ==
  ASSUME StoreTypes, NEW p \in Procs, Moves(p), ProcTypeOK(proc'[p])
  PROVE  DOMAIN proc' = Procs /\ \A q \in Procs : ProcTypeOK(proc'[q])
BY DEF StoreTypes, Moves

\* What the steps that leave the files alone change.
LEMMA QuietTypes ==
  ASSUME StoreTypes, NEW p \in Procs, Moves(p), ProcTypeOK(proc'[p]),
         file' = file, tmp' \in {tmp, Torn}, saved' = saved, nextId' \in Nat \ {0},
         ran' \in [Ids -> Nat], faults' \in [crashes: Nat, reads: Nat, writes: Nat]
  PROVE  StoreTypes'
BY ProcsTyped DEF StoreTypes, ProcTypeOK

LEMMA FaultCounts ==
  ASSUME faults \in [crashes: Nat, reads: Nat, writes: Nat]
  PROVE  /\ [faults EXCEPT !.crashes = @ + 1] \in [crashes: Nat, reads: Nat, writes: Nat]
         /\ [faults EXCEPT !.reads = @ + 1] \in [crashes: Nat, reads: Nat, writes: Nat]
         /\ [faults EXCEPT !.writes = @ + 1] \in [crashes: Nat, reads: Nat, writes: Nat]
OBVIOUS

\* What each step makes of the goroutine's own state.
LEMMA ScheduleTells ==
  ASSUME StoreTypes, NEW p \in Procs, NEW n \in Ids, ScheduleCommands(p, n)
  PROVE  /\ Moves(p) /\ ProcTypeOK(proc'[p])
         /\ proc'[p].pc = "save" /\ proc'[p].op = "schedule"
         /\ proc'[p].cmds = [i \in 1..n |-> Command(nextId + i - 1)]
         /\ nextId' = nextId + n /\ nextId' \in Nat \ {0}
<1> DEFINE cmds == [i \in 1..n |-> Command(nextId + i - 1)]
           k == [Idle EXCEPT !.pc = "save", !.op = "schedule", !.cmds = cmds]
<1>1. proc' = [proc EXCEPT ![p] = k]
  BY DEF ScheduleCommands
<1>2. cmds \in Seq(Fresh)
  BY NewCommands DEF StoreTypes, ScheduleCommands
<1>3. cmds \in Seq(Commands) /\ cmds \in Seq(Filable)
  <2>1. Fresh \subseteq Commands /\ Fresh \subseteq Filable
    BY DEF Fresh, Filable
  <2> HIDE DEF cmds
  <2>2. QED
    BY <1>2, <2>1
<1>4. nextId + n \in Nat \ {0}
  BY StoreAssumption DEF StoreTypes, Ids
<1>5. k.at = 1 /\ k.data = EmptyStore /\ k.fd = "none" /\ DOMAIN k = Fields
  BY DEF Idle, Fields
<1>6. k.pc = "save" /\ k.op = "schedule" /\ k.cmds = cmds
  BY DEF Idle
<1> HIDE DEF cmds, k
<1>7. Len(cmds) \in Nat
  BY <1>2, ListSet
<1>8. ProcTypeOK(k)
  BY <1>3, <1>5, <1>6, <1>7, EmptyTypes DEF ProcTypeOK
<1>9. Moves(p) /\ proc'[p] = k
  BY <1>1 DEF StoreTypes, Moves
<1>10. QED
  BY <1>4, <1>6, <1>8, <1>9 DEF ScheduleCommands, cmds

LEMMA StartTells ==
  ASSUME StoreTypes, NEW p \in Procs, StartCycle(p)
  PROVE  /\ Moves(p) /\ ProcTypeOK(proc'[p])
         /\ proc'[p].pc = "run" /\ proc'[p].op = "status" /\ proc'[p].at = 1
         /\ proc'[p].cmds = loadStore.pending
<1> DEFINE k == [Idle EXCEPT !.pc = "run", !.op = "status", !.cmds = LoadPendingCommands]
<1>1. proc' = [proc EXCEPT ![p] = k]
  BY DEF StartCycle
<1>2. LoadPendingCommands = loadStore.pending /\ loadStore.pending \in Seq(Waiting)
  BY LoadsPending, BookFields DEF StoreTypes, StartCycle
<1>3. /\ k.at = 1 /\ k.data = EmptyStore /\ k.fd = "none" /\ DOMAIN k = Fields
      /\ k.pc = "run" /\ k.op = "status" /\ k.cmds = loadStore.pending
  BY <1>2 DEF Idle, Fields
<1> HIDE DEF k
<1>4. /\ k.cmds \in Seq(Commands) /\ Len(k.cmds) \in Nat
      /\ \A i \in DOMAIN k.cmds : k.cmds[i] \in Waiting /\ ~(i < 1)
  BY <1>2, <1>3, ListSet, CommandKinds
<1>5. ProcTypeOK(k)
  BY <1>3, <1>4, EmptyTypes DEF ProcTypeOK
<1>6. Moves(p) /\ proc'[p] = k
  BY <1>1 DEF StoreTypes, Moves
<1>7. QED
  BY <1>3, <1>5, <1>6

\* The command at turn is run once more and is settled.
LEMMA RunTells ==
  ASSUME StoreTypes, NEW p \in Procs, NEW ok \in BOOLEAN, RunCommand(p, ok)
  PROVE  LET me == proc[p]
             cmd == me.cmds[me.at]
         IN /\ Moves(p) /\ ProcTypeOK(proc'[p])
            /\ me.pc = "run" /\ me.at \in 1..Len(me.cmds) /\ cmd \in Waiting
            /\ proc'[p].pc = "run" /\ proc'[p].at = me.at + 1
            /\ proc'[p].op = me.op
            /\ proc'[p].cmds = [me.cmds EXCEPT ![me.at] = AfterRun(cmd, ok)]
            /\ ran' = [ran EXCEPT ![cmd.id] = @ + 1] /\ ran' \in [Ids -> Nat]
<1> DEFINE me == proc[p]
           cmd == me.cmds[me.at]
           cmds == [me.cmds EXCEPT ![me.at] = AfterRun(cmd, ok)]
           k == proc'[p]
<1>1. ProcTypeOK(me) /\ me.pc = "run" /\ me.at <= Len(me.cmds)
  BY DEF StoreTypes, RunCommand, Ready
<1>2. /\ me.cmds \in Seq(Commands) /\ Len(me.cmds) \in Nat /\ me.at \in Nat
      /\ DOMAIN me.cmds = 1..Len(me.cmds) /\ DOMAIN me = Fields
  BY <1>1, ListSet DEF ProcTypeOK
<1>3. me.at \in 1..Len(me.cmds) /\ cmd \in Waiting
  BY <1>1, <1>2 DEF ProcTypeOK
<1>4. AfterRun(cmd, ok) \in Settled /\ AfterRun(cmd, ok) \in Commands
  BY <1>3, RunSettles DEF Settled
<1>5. proc' = [proc EXCEPT ![p].cmds[me.at] = AfterRun(cmd, ok), ![p].at = me.at + 1]
  BY DEF RunCommand
<1>6. Moves(p)
  BY <1>5 DEF StoreTypes, Moves
<1>7. k = [me EXCEPT !.cmds = cmds, !.at = me.at + 1]
  BY <1>2, <1>5 DEF StoreTypes, Fields
<1>8. /\ cmds \in Seq(Commands) /\ Len(cmds) = Len(me.cmds)
      /\ \A i \in 1..Len(me.cmds) : cmds[i] = IF i = me.at THEN AfterRun(cmd, ok) ELSE me.cmds[i]
  BY <1>2, <1>3, <1>4, ExceptSeq
<1>9. /\ ran' = [ran EXCEPT ![cmd.id] = @ + 1]
      /\ ran' \in [Ids -> Nat]
  <2>1. cmd.id \in Ids
    BY <1>3 DEF Waiting, Commands
  <2>2. QED
    BY <2>1, SMTT(30) DEF RunCommand, StoreTypes
<1> HIDE DEF cmds, cmd, k
<1>10. /\ k.pc = "run" /\ k.op = me.op /\ k.at = me.at + 1 /\ k.cmds = cmds
       /\ k.data = me.data /\ k.fd = me.fd /\ DOMAIN k = Fields
  BY <1>1, <1>2, <1>7 DEF Fields
<1>11. \A i \in DOMAIN cmds : cmds[i] \in (IF i < k.at THEN Settled ELSE Waiting)
  <2> SUFFICES ASSUME NEW i \in 1..Len(me.cmds)
               PROVE  cmds[i] \in (IF i < me.at + 1 THEN Settled ELSE Waiting)
    BY <1>8, <1>10, ListSet
  <2>1. CASE i = me.at
    BY <1>2, <1>4, <1>8, <2>1
  <2>2. CASE i # me.at
    <3>1. i < me.at + 1 <=> i < me.at
      BY <1>2, <2>2
    <3>2. me.cmds[i] \in (IF i < me.at THEN Settled ELSE Waiting)
      BY <1>1, <1>2 DEF ProcTypeOK
    <3>3. QED
      BY <1>8, <2>2, <3>1, <3>2
  <2>3. QED
    BY <2>1, <2>2
<1>12. k.at \in 1..(Len(cmds) + 1)
  BY <1>2, <1>3, <1>8, <1>10
<1>13. ProcTypeOK(k)
  BY <1>1, <1>8, <1>10, <1>11, <1>12 DEF ProcTypeOK
<1>14. QED
  BY <1>1, <1>3, <1>6, <1>9, <1>10, <1>13 DEF cmds, cmd, k

LEMMA EndTells ==
  ASSUME StoreTypes, NEW p \in Procs, EndCycle(p)
  PROVE  LET me == proc[p]
         IN /\ Moves(p) /\ ProcTypeOK(proc'[p])
            /\ me.pc = "run" /\ me.op = "status"
            /\ proc'[p].pc = "save" /\ proc'[p].op = me.op /\ proc'[p].cmds = me.cmds
            /\ me.at > Len(me.cmds)
            /\ \A i \in DOMAIN me.cmds : me.cmds[i] \in Settled
<1> DEFINE me == proc[p]
           k == proc'[p]
<1>1. ProcTypeOK(me) /\ me.pc = "run" /\ me.at > Len(me.cmds)
  BY DEF StoreTypes, EndCycle, Ready
<1>2. /\ me.cmds \in Seq(Commands) /\ Len(me.cmds) \in Nat /\ me.at \in Nat
      /\ DOMAIN me.cmds = 1..Len(me.cmds) /\ DOMAIN me = Fields
  BY <1>1, ListSet DEF ProcTypeOK
<1>3. proc' = [proc EXCEPT ![p].pc = "save"]
  BY DEF EndCycle
<1>4. Moves(p) /\ k = [me EXCEPT !.pc = "save"]
  BY <1>3 DEF StoreTypes, Moves
<1> HIDE DEF k
<1>5. /\ k.pc = "save" /\ k.op = me.op /\ k.at = me.at /\ k.cmds = me.cmds
      /\ k.data = me.data /\ k.fd = me.fd /\ DOMAIN k = Fields
  BY <1>2, <1>4 DEF Fields
<1>6. ASSUME NEW i \in DOMAIN me.cmds PROVE me.cmds[i] \in Settled
  <2>1. i < me.at
    BY <1>1, <1>2
  <2>2. QED
    BY <1>1, <2>1 DEF ProcTypeOK
<1>7. me.cmds \in Seq(Filable)
  <2>1. \A i \in 1..Len(me.cmds) : me.cmds[i] \in Filable
    BY <1>2, <1>6 DEF Filable
  <2>2. QED
    BY <1>2, <2>1
<1>8. ProcTypeOK(k)
  BY <1>1, <1>5, <1>7 DEF ProcTypeOK
<1>9. QED
  BY <1>1, <1>4, <1>5, <1>6, <1>8 DEF ProcTypeOK, k

\* A save files its commands into what it read, or into an empty store.
LEMMA LoadTells ==
  ASSUME StoreTypes, NEW p \in Procs, LoadForSave(p) \/ LoadFails(p)
  PROVE  LET me == proc[p]
         IN /\ Moves(p) /\ ProcTypeOK(proc'[p]) /\ me.pc = "save"
            /\ proc'[p] = [me EXCEPT !.pc = "open", !.data = proc'[p].data]
            /\ proc'[p].pc = "open" /\ proc'[p].op = me.op /\ proc'[p].cmds = me.cmds
            /\ \/ /\ LoadForSave(p) /\ Readable
                  /\ proc'[p].data = PlaceAll(loadStore, me.cmds)
               \/ /\ LoadForSave(p) /\ ~Readable
                  /\ proc'[p].data = PlaceAll(EmptyStore, me.cmds)
               \/ /\ LoadFails(p)
                  /\ proc'[p].data = PlaceAll(EmptyStore, me.cmds)
<1> DEFINE me == proc[p]
           b == IF LoadForSave(p) /\ Readable THEN loadStore ELSE EmptyStore
           d == PlaceAll(b, me.cmds)
           k == proc'[p]
<1>1. ProcTypeOK(me) /\ me.pc = "save" /\ me.cmds \in Seq(Filable)
  BY DEF StoreTypes, LoadForSave, LoadFails, Ready, ProcTypeOK
<1>2. b \in Books
  BY LoadsPending, EmptyTypes DEF StoreTypes
<1>3. d \in Books
  <2> HIDE DEF b
  <2>1. QED
    BY <1>1, <1>2, PlaceAllTypes
<1>5. PICK e \in Books :
        /\ proc' = [proc EXCEPT ![p].pc = "open", ![p].data = e]
        /\ \/ LoadForSave(p) /\ Readable /\ e = PlaceAll(loadStore, me.cmds)
           \/ LoadForSave(p) /\ ~Readable /\ e = PlaceAll(EmptyStore, me.cmds)
           \/ LoadFails(p) /\ e = PlaceAll(EmptyStore, me.cmds)
  <2>1. PlaceAll(EmptyStore, me.cmds) \in Books
    BY <1>1, PlaceAllTypes, EmptyTypes
  <2>2. CASE LoadForSave(p)
    <3>1. proc' = [proc EXCEPT ![p].pc = "open", ![p].data = d]
      BY <2>2 DEF LoadForSave, Updated
    <3>2. \/ Readable /\ d = PlaceAll(loadStore, me.cmds)
          \/ ~Readable /\ d = PlaceAll(EmptyStore, me.cmds)
      BY <2>2
    <3> HIDE DEF d
    <3>3. QED
      BY <1>3, <2>2, <3>1, <3>2
  <2>3. CASE LoadFails(p)
    BY <2>1, <2>3 DEF LoadFails
  <2>4. QED
    BY <2>2, <2>3
<1>6. Moves(p) /\ k = [me EXCEPT !.pc = "open", !.data = e]
  BY <1>5 DEF StoreTypes, Moves
<1> HIDE DEF k
<1>7. DOMAIN me = Fields
  BY <1>1 DEF ProcTypeOK
<1>8. /\ k.pc = "open" /\ k.op = me.op /\ k.at = me.at /\ k.cmds = me.cmds
      /\ k.data = e /\ k.fd = me.fd /\ DOMAIN k = Fields
  BY <1>6, <1>7 DEF Fields
<1>9. ProcTypeOK(k)
  BY <1>1, <1>8 DEF ProcTypeOK
<1>10. QED
  BY <1>1, <1>5, <1>6, <1>8, <1>9 DEF k

LEMMA ArchiveTells ==
  ASSUME StoreTypes, NEW p \in Procs, LoadForArchive(p)
  PROVE  /\ Moves(p) /\ ProcTypeOK(proc'[p]) /\ proc[p].pc = "archive"
         /\ \/ ~Readable /\ proc'[p].pc = "idle"
            \/ /\ Readable
               /\ proc'[p].pc = "open" /\ proc'[p].op = "archive"
               /\ proc'[p].data = Archived(loadStore)
<1> DEFINE k == [Idle EXCEPT !.pc = "open", !.op = "archive", !.data = Archived(loadStore)]
<1>1. proc' = [proc EXCEPT ![p] = IF Readable THEN k ELSE Idle]
  BY DEF LoadForArchive
<1>2. Moves(p) /\ proc'[p] = (IF Readable THEN k ELSE Idle) /\ proc[p].pc = "archive"
  BY <1>1 DEF StoreTypes, Moves, LoadForArchive, Ready
<1>3. CASE Readable
  <2>1. Archived(loadStore) \in Books
    BY <1>3, LoadsPending, ArchivedKeeps DEF StoreTypes
  <2>2. /\ k.pc = "open" /\ k.op = "archive" /\ k.data = Archived(loadStore)
        /\ k.cmds = <<>> /\ k.at = 1 /\ k.fd = "none" /\ DOMAIN k = Fields
    BY DEF Idle, Fields
  <2> HIDE DEF k
  <2>3. <<>> \in Seq(Commands) /\ Len(<<>>) = 0
    OBVIOUS
  <2>4. ProcTypeOK(k)
    BY <2>1, <2>2, <2>3 DEF ProcTypeOK
  <2>5. QED
    BY <1>2, <1>3, <2>2, <2>4
<1>4. CASE ~Readable
  BY <1>2, <1>4, IdleTypes DEF Idle
<1>5. QED
  BY <1>3, <1>4

LEMMA OpenTells ==
  ASSUME StoreTypes, NEW p \in Procs, OpenTemp(p)
  PROVE  LET me == proc[p]
         IN /\ Moves(p) /\ ProcTypeOK(proc'[p])
            /\ me.pc = "open" /\ proc'[p].pc = "write" /\ proc'[p].op = me.op
            /\ proc'[p].cmds = me.cmds /\ proc'[p].data = me.data /\ proc'[p].fd = "tmp"
            /\ tmp' = Torn
<1> DEFINE me == proc[p]
           k == proc'[p]
<1>1. ProcTypeOK(me) /\ DOMAIN me = Fields /\ me.pc = "open"
  BY DEF StoreTypes, ProcTypeOK, OpenTemp, Ready
<1>2. Moves(p) /\ k = [me EXCEPT !.pc = "write", !.fd = "tmp"] /\ tmp' = Torn
  BY DEF StoreTypes, Moves, OpenTemp
<1> HIDE DEF k
<1>3. /\ k.pc = "write" /\ k.op = me.op /\ k.at = me.at /\ k.cmds = me.cmds
      /\ k.data = me.data /\ k.fd = "tmp" /\ DOMAIN k = Fields
  BY <1>1, <1>2 DEF Fields
<1>4. ProcTypeOK(k)
  BY <1>1, <1>3 DEF ProcTypeOK
<1>5. QED
  BY <1>1, <1>2, <1>3, <1>4 DEF k

LEMMA WriteTells ==
  ASSUME StoreTypes, NEW p \in Procs, WriteTemp(p)
  PROVE  LET me == proc[p]
         IN /\ Moves(p) /\ ProcTypeOK(proc'[p])
            /\ me.pc = "write" /\ proc'[p].pc = "rename" /\ proc'[p].op = me.op
            /\ proc'[p].cmds = me.cmds /\ proc'[p].data = me.data /\ proc'[p].fd = me.fd
            /\ file' \in {file, me.data, Torn} /\ tmp' \in {tmp, me.data, Torn}
            /\ me.fd = "tmp" /\ tmp = Torn => file' = file /\ tmp' = me.data
<1> DEFINE me == proc[p]
           k == proc'[p]
<1>1. ProcTypeOK(me) /\ DOMAIN me = Fields /\ me.pc = "write"
  BY DEF StoreTypes, ProcTypeOK, WriteTemp, Ready
<1>2. Moves(p) /\ k = [me EXCEPT !.pc = "rename"]
  BY DEF StoreTypes, Moves, WriteTemp
<1>3. /\ file' \in {file, me.data, Torn} /\ tmp' \in {tmp, me.data, Torn}
      /\ me.fd = "tmp" /\ tmp = Torn => file' = file /\ tmp' = me.data
  BY DEF WriteTemp, Written
<1> HIDE DEF k
<1>4. /\ k.pc = "rename" /\ k.op = me.op /\ k.at = me.at /\ k.cmds = me.cmds
      /\ k.data = me.data /\ k.fd = me.fd /\ DOMAIN k = Fields
  BY <1>1, <1>2 DEF Fields
<1>5. ProcTypeOK(k)
  BY <1>1, <1>4 DEF ProcTypeOK
<1>6. QED
  BY <1>1, <1>2, <1>3, <1>4, <1>5 DEF k

\* A rename is followed by every goroutine that has the file open.
LEMMA FollowTells ==
  ASSUME NEW k, ProcTypeOK(k), NEW fd \in {"none", "tmp", "file", "gone"}
  PROVE  ProcTypeOK([k EXCEPT !.fd = fd])
<1> DEFINE m == [k EXCEPT !.fd = fd]
<1>1. DOMAIN k = Fields
  BY DEF ProcTypeOK
<1>2. /\ m.pc = k.pc /\ m.op = k.op /\ m.at = k.at /\ m.cmds = k.cmds
      /\ m.data = k.data /\ m.fd = fd /\ DOMAIN m = Fields
  BY <1>1 DEF Fields
<1> HIDE DEF m
<1>3. ProcTypeOK(m)
  BY <1>2 DEF ProcTypeOK
<1>4. QED
  BY <1>3 DEF m

LEMMA RenameTells ==
  ASSUME StoreTypes, NEW p \in Procs, Rename(p) \/ RenameFails(p)
  PROVE  /\ DOMAIN proc' = Procs /\ proc'[p] = AfterSave(p)
         /\ \A q \in Procs : ProcTypeOK(proc'[q])
<1>1. DOMAIN proc' = Procs /\ proc'[p] = AfterSave(p)
  BY DEF Rename, RenameFails
<1>2. ASSUME NEW q \in Procs \ {p} PROVE ProcTypeOK(proc'[q])
  <2>1. ProcTypeOK(proc[q]) /\ proc[q].fd \in {"none", "tmp", "file", "gone"}
    BY DEF StoreTypes, ProcTypeOK
  <2>2. Moved(proc[q].fd) \in {"none", "tmp", "file", "gone"}
    BY <2>1 DEF Moved
  <2>3. \/ proc'[q] = [proc[q] EXCEPT !.fd = Moved(proc[q].fd)]
        \/ proc'[q] = [proc[q] EXCEPT !.fd = "gone"]
        \/ proc'[q] = proc[q]
    BY DEF Rename, RenameFails
  <2>4. ASSUME NEW fd \in {"none", "tmp", "file", "gone"}
        PROVE  ProcTypeOK([proc[q] EXCEPT !.fd = fd])
    BY <2>1, FollowTells
  <2>5. /\ ProcTypeOK([proc[q] EXCEPT !.fd = Moved(proc[q].fd)])
        /\ ProcTypeOK([proc[q] EXCEPT !.fd = "gone"])
    BY <2>2, <2>4
  <2>6. QED
    BY <2>1, <2>3, <2>5
<1>3. QED
  BY <1>1, <1>2, IdleTypes

LEMMA WriteFailsTells ==
  ASSUME StoreTypes, NEW p \in Procs, WriteFails(p)
  PROVE  /\ Moves(p) /\ ProcTypeOK(proc'[p])
         /\ proc[p].pc = "write" /\ proc'[p] = AfterSave(p)
BY IdleTypes DEF StoreTypes, Moves, WriteFails, Ready

LEMMA InitTypes == Init => StoreTypes
<1> SUFFICES ASSUME Init PROVE StoreTypes
  OBVIOUS
<1>1. \A p \in Procs : ProcTypeOK(proc[p])
  BY IdleTypes DEF Init
<1>2. QED
  BY <1>1 DEF Init, StoreTypes

LEMMA TypesKept ==
  ASSUME StoreTypes, [Next]_vars
  PROVE  StoreTypes'
<1> USE FaultCounts
<1>1. ASSUME NEW p \in Procs, NEW n \in Ids, ScheduleCommands(p, n) PROVE StoreTypes'
  BY <1>1, ScheduleTells, QuietTypes DEF ScheduleCommands, StoreTypes
<1>2. ASSUME NEW p \in Procs, StartCycle(p) PROVE StoreTypes'
  BY <1>2, StartTells, QuietTypes DEF StartCycle, StoreTypes
<1>3. ASSUME NEW p \in Procs, NEW ok \in BOOLEAN, RunCommand(p, ok) PROVE StoreTypes'
  <2>1. Moves(p) /\ ProcTypeOK(proc'[p]) /\ ran' \in [Ids -> Nat]
    BY <1>3, RunTells
  <2>2. QED
    BY <1>3, <2>1, QuietTypes DEF RunCommand, StoreTypes
<1>4. ASSUME NEW p \in Procs, EndCycle(p) PROVE StoreTypes'
  <2>1. Moves(p) /\ ProcTypeOK(proc'[p])
    BY <1>4, EndTells
  <2>2. QED
    BY <1>4, <2>1, QuietTypes DEF EndCycle, StoreTypes
<1>5. ASSUME NEW p \in Procs, LoadForSave(p) \/ LoadFails(p) PROVE StoreTypes'
  <2>1. Moves(p) /\ ProcTypeOK(proc'[p])
    BY <1>5, LoadTells
  <2>2. QED
    BY <1>5, <2>1, QuietTypes DEF LoadForSave, LoadFails, StoreTypes
<1>6. ASSUME NEW p \in Procs, LoadForArchive(p) PROVE StoreTypes'
  BY <1>6, ArchiveTells, QuietTypes DEF LoadForArchive, StoreTypes
<1>7. ASSUME NEW p \in Procs, OpenTemp(p) PROVE StoreTypes'
  <2>1. Moves(p) /\ ProcTypeOK(proc'[p]) /\ tmp' = Torn
    BY <1>7, OpenTells
  <2>2. QED
    BY <1>7, <2>1, QuietTypes DEF OpenTemp, StoreTypes
<1>8. ASSUME NEW p \in Procs, WriteTemp(p) PROVE StoreTypes'
  <2>1. /\ Moves(p) /\ ProcTypeOK(proc'[p])
        /\ file' \in {file, proc[p].data, Torn} /\ tmp' \in {tmp, proc[p].data, Torn}
    BY <1>8, WriteTells
  <2>2. proc[p].data \in Books
    BY DEF StoreTypes, ProcTypeOK
  <2>3. DOMAIN proc' = Procs /\ \A q \in Procs : ProcTypeOK(proc'[q])
    BY <2>1, ProcsTyped
  <2>4. QED
    BY <1>8, <2>1, <2>2, <2>3, SMTT(30) DEF WriteTemp, StoreTypes, ProcTypeOK
<1>9. ASSUME NEW p \in Procs, WriteFails(p) PROVE StoreTypes'
  BY <1>9, WriteFailsTells, QuietTypes DEF WriteFails, StoreTypes
<1>10. ASSUME NEW p \in Procs, Rename(p) PROVE StoreTypes'
  <2>1. DOMAIN proc' = Procs /\ \A q \in Procs : ProcTypeOK(proc'[q])
    BY <1>10, RenameTells
  <2>2. file' \in Books \cup {None, Torn} /\ tmp' \in Books \cup {None, Torn}
    BY <1>10 DEF Rename, StoreTypes
  <2>3. saved' \subseteq Ids
    <3>1. {c.id : c \in ToSet(proc[p].cmds)} \subseteq Ids
      <4>1. ToSet(proc[p].cmds) \subseteq Commands
        BY ListSet DEF StoreTypes, ProcTypeOK
      <4>2. QED
        BY <4>1 DEF Commands
    <3>2. saved' \in {saved, saved \cup {c.id : c \in ToSet(proc[p].cmds)}}
      BY <1>10 DEF Rename
    <3>3. QED
      BY <3>1, <3>2 DEF StoreTypes
  <2>4. QED
    BY <1>10, <2>1, <2>2, <2>3 DEF Rename, StoreTypes, ProcTypeOK
<1>11. ASSUME NEW p \in Procs, RenameFails(p) PROVE StoreTypes'
  <2>1. DOMAIN proc' = Procs /\ \A q \in Procs : ProcTypeOK(proc'[q])
    BY <1>11, RenameTells
  <2>2. tmp' = None /\ faults' \in [crashes: Nat, reads: Nat, writes: Nat]
    BY <1>11 DEF RenameFails, StoreTypes
  <2>3. QED
    BY <1>11, <2>1, <2>2 DEF RenameFails, StoreTypes, ProcTypeOK
<1>12. ASSUME Crash PROVE StoreTypes'
  <2>1. DOMAIN proc' = Procs /\ \A q \in Procs : ProcTypeOK(proc'[q])
    BY <1>12, IdleTypes DEF Crash
  <2>2. QED
    BY <1>12, <2>1 DEF Crash, StoreTypes, ProcTypeOK
<1>13. ASSUME UNCHANGED vars PROVE StoreTypes'
  BY <1>13 DEF vars, StoreTypes, ProcTypeOK
<1>14. QED
  BY <1>1, <1>2, <1>3, <1>4, <1>5, <1>6, <1>7, <1>8, <1>9, <1>10, <1>11, <1>12, <1>13
  DEF Next, Cycle, Save

\* TypeOK (SaveCommands and saveStore, command_memory.go:63-187): whatever the
\* interleaving of the goroutines, the file is a store that parses or a torn
\* write of one, no command was tried more often than MaxRetries, and a cycle is
\* never beyond the commands it loaded.  What waits in the file has a retry left,
\* because SaveCommands files the others away; without that a cycle's count of
\* retries would not be bounded.
THEOREM CommandTypes == Spec => []TypeOK
<1>1. StoreTypes => TypeOK
  <2> SUFFICES ASSUME StoreTypes PROVE TypeOK
    OBVIOUS
  <2>1. Books \subseteq Stores
    <3>1. ASSUME NEW s \in Books PROVE s \in Stores
      <4>1. s.pending \in Seq(Commands)
        <5>1. Waiting \subseteq Commands
          BY CommandKinds
        <5>2. QED
          BY <5>1, BookFields
      <4>2. QED
        BY <4>1 DEF Books, Stores
    <3>2. QED
      BY <3>1
  <2>2. QED
    BY <2>1 DEF StoreTypes, TypeOK, ProcTypeOK
<1>2. QED
  BY <1>1, InitTypes, TypesKept, PTL DEF Spec

-----------------------------------------------------------------------------
(* The file used by the event loop alone                                   *)

Alone == Procs = {Executor}

\* Each crash or failed write may let a command run once more.
Mishaps == faults.crashes + faults.writes
Me == proc[Executor]
Attempted == {id \in Ids : ran[id] > 0}
Scheduled == {id \in Ids : id < nextId}
AllIds(s) == IdsOf(s.pending) \cup DoneIds(s)

\* What the retries a command has counted leave to be explained by mishaps: one
\* run more while its cycle's statuses are not saved.
Explained(c, unsaved) == ran[c.id] <= c.retries + Mishaps + unsaved

FileOK ==
  /\ Readable
  /\ Distinct(loadStore)
  /\ AllIds(loadStore) \subseteq Scheduled

RunsOK ==
  /\ Attempted \subseteq Scheduled
  /\ \A id \in Ids : ran[id] <= MaxRetries + Mishaps

PendingOK ==
  \A c \in ToSet(loadStore.pending) : Explained(c, IF Me.op = "status" THEN 1 ELSE 0)

\* The commands a cycle holds are those of the file, in order; only those it is
\* beyond differ.
RunOK ==
  /\ Len(Me.cmds) = Len(loadStore.pending)
  /\ \A i \in DOMAIN Me.cmds :
       /\ Me.cmds[i].id = loadStore.pending[i].id
       /\ i >= Me.at => Me.cmds[i] = loadStore.pending[i]
       /\ i < Me.at => Me.cmds[i].id \in Attempted
       /\ Me.cmds[i].status # "completed" => Explained(Me.cmds[i], 0)

\* What is to be saved: new commands, or those of the file, each of which was run.
SaveOK ==
  /\ Apart(Me.cmds)
  /\ IdsOf(Me.cmds) \subseteq Scheduled
  /\ IdsOf(Me.cmds) \cap DoneIds(loadStore) = {}
  /\ \A c \in ToSet(Me.cmds) : c.status # "completed" => Explained(c, 0)
  /\ \/ /\ Me.op = "schedule"
        /\ ToSet(Me.cmds) \subseteq Fresh
        /\ IdsOf(Me.cmds) \cap (IdsOf(loadStore.pending) \cup Attempted) = {}
     \/ /\ Me.op = "status"
        /\ ToSet(Me.cmds) \subseteq Settled
        /\ IdsOf(Me.cmds) = IdsOf(loadStore.pending)
        /\ IdsOf(Me.cmds) \subseteq Attempted

\* New commands enter the queue; commands that were run leave it.
QueueAdds(now, next) == \E S \in SUBSET Ids : S \cap (now \cup Attempted) = {} /\ next = now \cup S
QueueSettles(now, next) == \E S \in SUBSET Ids : S \subseteq now \cap Attempted /\ next = now \ S

\* What a save makes of the queue, if no read has failed.
QueueStep ==
  LET now == IdsOf(loadStore.pending)
      next == IdsOf(Me.data.pending)
  IN \/ faults.reads > 0
     \/ Me.op = "archive" /\ next = now
     \/ Me.op = "schedule" /\ QueueAdds(now, next)
     \/ Me.op = "status" /\ QueueSettles(now, next)

\* The store about to replace the file.
ChangeOK ==
  /\ Me.op \in {"schedule", "status", "archive"}
  /\ Distinct(Me.data)
  /\ AllIds(Me.data) \subseteq Scheduled
  /\ \A c \in ToSet(Me.data.pending) : Explained(c, 0)
  /\ QueueStep

PhaseOK ==
  /\ Me.pc \in {"idle", "archive"} => Me.op = "none"
  /\ Me.pc = "run" => RunOK
  /\ Me.pc = "save" => SaveOK
  /\ Me.pc \in {"open", "write", "rename"} => ChangeOK
  /\ Me.pc = "write" => tmp = Torn /\ Me.fd = "tmp"
  /\ Me.pc = "rename" => tmp = Me.data

SoleUser ==
  /\ FileOK
  /\ RunsOK
  /\ PendingOK
  /\ PhaseOK

\* Everything but the goroutine's own state stays.
Still == UNCHANGED <<file, nextId, ran>> /\ Mishaps' = Mishaps

LEMMA StillKeeps ==
  ASSUME Still
  PROVE  /\ loadStore' = loadStore /\ Scheduled' = Scheduled /\ Attempted' = Attempted
         /\ FileOK' = FileOK
         /\ RunsOK' = RunsOK
         /\ \A c, u : Explained(c, u)' = Explained(c, u)
<1>1. loadStore' = loadStore /\ Readable' = Readable
  BY DEF Still, loadStore, Readable
<1>2. Scheduled' = Scheduled /\ Attempted' = Attempted
  BY DEF Still, Scheduled, Attempted
<1>3. FileOK' = FileOK
  BY <1>1, <1>2 DEF FileOK
<1>4. RunsOK' = RunsOK
  BY <1>2 DEF RunsOK, Still
<1>5. \A c, u : Explained(c, u)' = Explained(c, u)
  BY DEF Explained, Still
<1>6. QED
  BY <1>1, <1>2, <1>3, <1>4, <1>5

LEMMA OfExecutor ==
  ASSUME StoreTypes
  PROVE  /\ Executor \in Procs /\ ProcTypeOK(Me) /\ Mishaps \in Nat
         /\ MaxRetries \in Nat /\ nextId \in Nat \ {0} /\ nextId \in Int
         /\ \A id \in Ids : ran[id] \in Nat /\ id \in Nat
BY StoreAssumption DEF StoreTypes, Mishaps, Ids, Me

\* Commands and the ids of their list.
LEMMA IdsOfList ==
  ASSUME NEW S, NEW cmds \in Seq(S)
  PROVE  /\ \A c \in ToSet(cmds) : c.id \in IdsOf(cmds)
         /\ \A i \in DOMAIN cmds : cmds[i].id \in IdsOf(cmds)
         /\ \A id \in IdsOf(cmds) : \E i \in DOMAIN cmds : id = cmds[i].id
<1>1. ToSet(cmds) = {cmds[i] : i \in DOMAIN cmds}
  BY ListSet
<1>2. QED
  BY <1>1 DEF IdsOf

LEMMA SoleSchedule ==
  ASSUME StoreTypes, SoleUser, NEW n \in Ids, ScheduleCommands(Executor, n)
  PROVE  SoleUser'
<1> DEFINE cmds == [i \in 1..n |-> Command(nextId + i - 1)]
<1>1. /\ Me'.pc = "save" /\ Me'.op = "schedule" /\ Me'.cmds = cmds
      /\ nextId' = nextId + n /\ n \in Nat \ {0}
  BY OfExecutor, ScheduleTells, StoreAssumption DEF Ids, Me
<1>2. file' = file /\ ran' = ran /\ faults' = faults /\ tmp' = tmp
  BY DEF ScheduleCommands
<1>3. /\ cmds \in Seq(Fresh) /\ Apart(cmds)
      /\ IdsOf(cmds) = nextId..(nextId + n - 1)
      /\ nextId + n - 1 \in Ids
  BY NewCommands DEF StoreTypes, ScheduleCommands
<1> HIDE DEF cmds
<1>4. loadStore' = loadStore /\ Attempted' = Attempted /\ Mishaps' = Mishaps /\ Readable' = Readable
  BY <1>2 DEF loadStore, Attempted, Mishaps, Readable
<1>5. Scheduled \subseteq Scheduled' /\ IdsOf(cmds) \subseteq Scheduled'
  <2>1. \A id \in Ids : id \in Nat /\ (id < nextId => id < nextId')
    BY <1>1, OfExecutor
  <2>2. \A id \in nextId..(nextId + n - 1) : id \in Ids /\ id < nextId'
    BY <1>1, <1>3, OfExecutor, StoreAssumption, SMTT(30) DEF Ids
  <2>3. QED
    BY <1>3, <2>1, <2>2 DEF Scheduled
<1>6. IdsOf(cmds) \cap Scheduled = {}
  <2>1. \A id \in nextId..(nextId + n - 1) : ~(id < nextId)
    BY <1>1, OfExecutor
  <2>2. QED
    BY <1>3, <2>1 DEF Scheduled
<1>7. FileOK'
  BY <1>4, <1>5 DEF SoleUser, FileOK
<1>8. RunsOK'
  BY <1>2, <1>4, <1>5 DEF SoleUser, RunsOK
<1>9. Me.op # "status"
  BY DEF SoleUser, PhaseOK, ScheduleCommands, Ready, Me
<1>10. PendingOK'
  BY <1>1, <1>2, <1>4, <1>9 DEF SoleUser, PendingOK, Explained
<1>11. ASSUME NEW c \in ToSet(cmds) PROVE Explained(c, 0)'
  <2>1. c \in Fresh /\ c.id \in IdsOf(cmds)
    BY <1>3, ListSet, IdsOfList
  <2>2. c.id \in Ids /\ c.retries = 0 /\ c.id \notin Scheduled
    BY <1>6, <2>1 DEF Fresh, Commands
  <2>3. c.id \notin Attempted
    BY <2>2 DEF SoleUser, RunsOK
  <2>4. ran[c.id] = 0
    BY <2>2, <2>3, OfExecutor DEF Attempted
  <2>5. QED
    BY <1>2, <1>4, <2>2, <2>4, OfExecutor DEF Explained
<1>12. SaveOK'
  <2>1. IdsOf(cmds) \cap (AllIds(loadStore) \cup Attempted) = {}
    BY <1>6 DEF SoleUser, FileOK, RunsOK
  <2>2. ToSet(cmds) \subseteq Fresh
    BY <1>3, ListSet
  <2>3. QED
    BY <1>1, <1>3, <1>4, <1>5, <1>11, <2>1, <2>2 DEF SaveOK, AllIds
<1>13. PhaseOK'
  BY <1>1, <1>12 DEF PhaseOK
<1>14. QED
  BY <1>7, <1>8, <1>10, <1>13 DEF SoleUser

LEMMA SoleStart ==
  ASSUME StoreTypes, SoleUser, StartCycle(Executor)
  PROVE  SoleUser'
<1>1. Me'.pc = "run" /\ Me'.op = "status" /\ Me'.at = 1 /\ Me'.cmds = loadStore.pending
  BY OfExecutor, StartTells DEF Me
<1>2. Still
  BY DEF StartCycle, Still, Mishaps
<1>3. Me.op # "status"
  BY DEF SoleUser, PhaseOK, StartCycle, Ready, Me
<1>4. loadStore.pending \in Seq(Waiting)
  BY LoadsPending, BookFields DEF StoreTypes, StartCycle
<1>5. ASSUME NEW c \in ToSet(loadStore.pending) PROVE Explained(c, 0) /\ Explained(c, 1)
  <2>1. c.id \in Ids /\ c.retries \in Nat
    BY <1>4, ListSet, StoreAssumption DEF Waiting, Commands
  <2>2. QED
    BY <1>3, <2>1, OfExecutor DEF SoleUser, PendingOK, Explained
<1>6. RunOK'
  <2>1. \A i \in DOMAIN Me'.cmds : i \in Nat /\ ~(i < 1) /\ Me'.cmds[i] \in ToSet(loadStore.pending)
    BY <1>1, <1>4, ListSet
  <2>2. \A i \in DOMAIN Me'.cmds : ran'[Me'.cmds[i].id] <= Me'.cmds[i].retries + Mishaps' + 0
    BY <1>2, <1>5, <2>1 DEF Explained, Still
  <2>3. loadStore' = loadStore
    BY <1>2, StillKeeps
  <2>4. QED
    BY <1>1, <2>1, <2>2, <2>3 DEF RunOK, Explained
<1>7. PendingOK'
  <2>1. \A c \in ToSet(loadStore.pending) : Explained(c, 1)'
    BY <1>2, <1>5, StillKeeps
  <2>2. loadStore' = loadStore
    BY <1>2, StillKeeps
  <2>3. QED
    BY <1>1, <2>1, <2>2 DEF PendingOK
<1>8. PhaseOK'
  BY <1>1, <1>6 DEF PhaseOK
<1>9. QED
  BY <1>2, <1>7, <1>8, StillKeeps DEF SoleUser

\* Running the command at turn.
LEMMA SoleRun ==
  ASSUME StoreTypes, SoleUser, NEW ok \in BOOLEAN, RunCommand(Executor, ok)
  PROVE  /\ SoleUser'
         /\ \E id \in Ids : id \in IdsOf(loadStore.pending) /\ Attempted' = Attempted \cup {id}
         /\ loadStore' = loadStore
<1> DEFINE i0 == Me.at
           cmd == Me.cmds[i0]
           list == loadStore.pending
<1>1. /\ Me.pc = "run" /\ i0 \in 1..Len(Me.cmds) /\ cmd \in Waiting
      /\ Me'.pc = "run" /\ Me'.at = i0 + 1 /\ Me'.op = Me.op
      /\ Me'.cmds = [Me.cmds EXCEPT ![i0] = AfterRun(cmd, ok)]
      /\ ran' = [ran EXCEPT ![cmd.id] = @ + 1]
  BY OfExecutor, RunTells DEF Me
<1>2. file' = file /\ faults' = faults /\ nextId' = nextId
  BY DEF RunCommand
<1>3. /\ Me.cmds \in Seq(Commands) /\ DOMAIN Me.cmds = 1..Len(Me.cmds)
      /\ Len(Me.cmds) \in Nat /\ i0 \in Nat /\ Me.op = "status"
  BY <1>1, OfExecutor, ListSet DEF ProcTypeOK
<1>4. /\ loadStore' = loadStore /\ Mishaps' = Mishaps /\ Scheduled' = Scheduled
      /\ FileOK'
  BY <1>2 DEF loadStore, Mishaps, Scheduled, SoleUser, FileOK, Readable
<1>5. list \in Seq(Waiting) /\ Apart(list) /\ IdsOf(list) \subseteq Scheduled
  BY LoadsPending, BookFields DEF StoreTypes, SoleUser, FileOK, Distinct, AllIds
<1> HIDE DEF list
<1>6. /\ RunOK /\ Len(list) = Len(Me.cmds) /\ DOMAIN list = 1..Len(Me.cmds)
      /\ \A i \in 1..Len(Me.cmds) : Me.cmds[i].id = list[i].id
      /\ cmd = list[i0]
  <2>1. RunOK
    BY <1>1 DEF SoleUser, PhaseOK
  <2>2. i0 >= i0
    BY <1>3
  <2>3. Len(list) = Len(Me.cmds)
    BY <2>1 DEF RunOK, list
  <2>4. DOMAIN list = 1..Len(Me.cmds)
    BY <1>5, <2>3, ListSet
  <2>5. \A i \in 1..Len(Me.cmds) : Me.cmds[i].id = list[i].id
    BY <1>3, <2>1 DEF RunOK, list
  <2>6. Me.cmds[i0] = list[i0]
    BY <1>1, <1>3, <2>1, <2>2 DEF RunOK, list
  <2>7. QED
    BY <2>1, <2>3, <2>4, <2>5, <2>6
<1>7. \A i \in 1..Len(Me.cmds) : Me.cmds[i].id = cmd.id => i = i0
  BY <1>1, <1>5, <1>6 DEF Apart
<1>8. /\ cmd.id \in Ids /\ cmd.retries \in Nat /\ cmd.retries < MaxRetries
      /\ cmd.status # "completed" /\ cmd.id \in IdsOf(list)
  <2>1. cmd.id \in IdsOf(list)
    BY <1>1, <1>5, <1>6, IdsOfList
  <2>2. QED
    BY <1>1, <2>1, StoreAssumption DEF Waiting, Commands
<1>9. ran[cmd.id] <= cmd.retries + Mishaps
  <2>1. Explained(cmd, 0)
    BY <1>1, <1>3, <1>6, <1>8 DEF RunOK
  <2>2. QED
    BY <1>8, <2>1, OfExecutor DEF Explained
<1>10. /\ AfterRun(cmd, ok).id = cmd.id
       /\ AfterRun(cmd, ok).status # "completed" => AfterRun(cmd, ok).retries = cmd.retries + 1
  BY <1>1, RunSettles
<1>11. \A id \in Ids : ran'[id] = IF id = cmd.id THEN ran[id] + 1 ELSE ran[id]
  BY <1>1 DEF StoreTypes
<1> HIDE DEF cmd, i0
<1>12. Attempted' = Attempted \cup {cmd.id}
  BY <1>8, <1>11, OfExecutor DEF Attempted
<1>13. RunsOK'
  <2>1. Attempted' \subseteq Scheduled'
    BY <1>4, <1>5, <1>8, <1>12 DEF SoleUser, RunsOK
  <2>2. ASSUME NEW id \in Ids PROVE ran'[id] <= MaxRetries + Mishaps'
    <3>1. CASE id = cmd.id
      BY <1>4, <1>8, <1>9, <1>11, <3>1, OfExecutor
    <3>2. CASE id # cmd.id
      BY <1>4, <1>11, <3>2 DEF SoleUser, RunsOK
    <3>3. QED
      BY <3>1, <3>2
  <2>3. QED
    BY <2>1, <2>2 DEF RunsOK
<1>14. PendingOK'
  <2>1. ASSUME NEW c \in ToSet(list) PROVE ran'[c.id] <= c.retries + Mishaps' + 1
    <3>1. c.id \in Ids /\ c.retries \in Nat
      BY <1>5, ListSet, StoreAssumption DEF Waiting, Commands
    <3>2. CASE c.id = cmd.id
      <4>1. c = cmd
        <5>1. PICK j \in 1..Len(Me.cmds) : c = list[j]
          BY <1>5, <1>6, ListSet
        <5>2. j = i0
          BY <1>6, <1>7, <3>2, <5>1
        <5>3. QED
          BY <1>6, <5>1, <5>2
      <4>2. QED
        BY <1>4, <1>8, <1>9, <1>11, <4>1, OfExecutor
    <3>3. CASE c.id # cmd.id
      <4>1. Explained(c, 1)
        BY <1>3 DEF SoleUser, PendingOK, list
      <4>2. QED
        BY <1>4, <1>11, <3>1, <3>3, <4>1 DEF Explained
    <3>4. QED
      BY <3>2, <3>3
  <2>2. QED
    BY <1>1, <1>3, <1>4, <2>1 DEF PendingOK, Explained, list
<1>15. /\ Len(Me'.cmds) = Len(Me.cmds) /\ DOMAIN Me'.cmds = 1..Len(Me.cmds)
       /\ \A i \in 1..Len(Me.cmds) :
            Me'.cmds[i] = IF i = i0 THEN AfterRun(cmd, ok) ELSE Me.cmds[i]
  <2>1. Len(Me'.cmds) = Len(Me.cmds)
    BY <1>1, <1>3
  <2>2. QED
    BY <1>1, <1>3, <2>1
<1>16. RunOK'
  <2>1. ASSUME NEW i \in 1..Len(Me.cmds)
        PROVE  /\ Me'.cmds[i].id = list[i].id
               /\ i >= i0 + 1 => Me'.cmds[i] = list[i]
               /\ i < i0 + 1 => Me'.cmds[i].id \in Attempted'
               /\ Me'.cmds[i].status # "completed" =>
                    ran'[Me'.cmds[i].id] <= Me'.cmds[i].retries + Mishaps' + 0
    <3>1. CASE i = i0
      <4>1. Me'.cmds[i] = AfterRun(cmd, ok) /\ ~(i >= i0 + 1)
        BY <1>3, <1>15, <3>1
      <4>2. Me'.cmds[i].id = cmd.id /\ cmd = list[i]
        BY <1>6, <1>10, <3>1, <4>1
      <4>3. ran[cmd.id] + 1 <= cmd.retries + 1 + Mishaps + 0
        BY <1>8, <1>9, OfExecutor
      <4>4. Me'.cmds[i].status # "completed" => Me'.cmds[i].retries = cmd.retries + 1
        BY <1>10, <4>1
      <4>5. ran'[cmd.id] = ran[cmd.id] + 1
        BY <1>8, <1>11
      <4>6. QED
        BY <1>4, <1>12, <4>1, <4>2, <4>3, <4>4, <4>5
    <3>2. CASE i # i0
      <4>1. Me'.cmds[i] = Me.cmds[i] /\ Me.cmds[i].id # cmd.id
        BY <1>7, <1>15, <3>2
      <4>2. (i >= i0 + 1 => i >= i0) /\ (i < i0 + 1 => i < i0)
        BY <1>3, <3>2
      <4>3. Me.cmds[i].id \in Ids
        <5>1. Me.cmds[i] \in Commands
          BY <1>3, ListSet
        <5>2. QED
          BY <5>1 DEF Commands
      <4>4. ran'[Me.cmds[i].id] = ran[Me.cmds[i].id]
        BY <1>11, <4>1, <4>3
      <4>5. /\ i >= i0 => Me.cmds[i] = list[i]
            /\ i < i0 => Me.cmds[i].id \in Attempted
            /\ Me.cmds[i].status # "completed" => Explained(Me.cmds[i], 0)
        BY <1>3, <1>6 DEF RunOK, i0, list
      <4>6. QED
        BY <1>4, <1>6, <1>12, <4>1, <4>2, <4>4, <4>5 DEF Explained
    <3>3. QED
      BY <3>1, <3>2
  <2>2. Me'.at = i0 + 1 /\ loadStore'.pending = list
    BY <1>1, <1>4 DEF list, i0
  <2> HIDE DEF i0
  <2>3. QED
    BY <1>6, <1>15, <2>1, <2>2 DEF RunOK, Explained
<1>17. PhaseOK'
  BY <1>1, <1>16 DEF PhaseOK
<1>18. QED
  BY <1>4, <1>8, <1>12, <1>13, <1>14, <1>17 DEF SoleUser, list

LEMMA SoleEnd ==
  ASSUME StoreTypes, SoleUser, EndCycle(Executor)
  PROVE  SoleUser'
<1> DEFINE list == loadStore.pending
<1>1. /\ Me.pc = "run" /\ Me.op = "status" /\ Me.at > Len(Me.cmds)
      /\ Me'.pc = "save" /\ Me'.op = Me.op /\ Me'.cmds = Me.cmds
      /\ \A i \in DOMAIN Me.cmds : Me.cmds[i] \in Settled
  BY OfExecutor, EndTells DEF Me
<1>2. Still
  BY DEF EndCycle, Still, Mishaps
<1>3. /\ Me.cmds \in Seq(Commands) /\ DOMAIN Me.cmds = 1..Len(Me.cmds)
      /\ Len(Me.cmds) \in Nat /\ Me.at \in Nat
  BY OfExecutor, ListSet DEF ProcTypeOK
<1>4. /\ list \in Seq(Waiting) /\ Apart(list) /\ IdsOf(list) \subseteq Scheduled
      /\ IdsOf(list) \cap DoneIds(loadStore) = {}
  BY LoadsPending, BookFields DEF StoreTypes, SoleUser, FileOK, Distinct, AllIds
<1>5. RunOK /\ Len(list) = Len(Me.cmds)
  BY <1>1 DEF SoleUser, PhaseOK, RunOK
<1>6. ASSUME NEW i \in DOMAIN Me.cmds
      PROVE  Me.cmds[i].id = list[i].id /\ Me.cmds[i].id \in Attempted
  <2>1. i < Me.at
    BY <1>1, <1>3
  <2>2. QED
    BY <1>5, <2>1 DEF RunOK
<1> HIDE DEF list
<1>7. DOMAIN list = DOMAIN Me.cmds
  BY <1>3, <1>4, <1>5, ListSet
<1>8. Apart(Me.cmds)
  BY <1>4, <1>6, <1>7 DEF Apart
<1>9. IdsOf(Me.cmds) = IdsOf(list) /\ IdsOf(Me.cmds) \subseteq Attempted
  <2>1. \A id \in IdsOf(Me.cmds) : \E i \in DOMAIN Me.cmds : id = Me.cmds[i].id
    BY <1>3, IdsOfList
  <2>2. \A id \in IdsOf(list) : \E i \in DOMAIN list : id = list[i].id
    BY <1>4, IdsOfList
  <2>3. \A i \in DOMAIN Me.cmds : Me.cmds[i].id \in IdsOf(Me.cmds) /\ list[i].id \in IdsOf(list)
    BY <1>3, <1>4, <1>7, IdsOfList
  <2>4. ASSUME NEW id \in IdsOf(Me.cmds) PROVE id \in IdsOf(list) /\ id \in Attempted
    BY <1>6, <2>1, <2>3
  <2>5. ASSUME NEW id \in IdsOf(list) PROVE id \in IdsOf(Me.cmds)
    BY <1>6, <1>7, <2>2, <2>3
  <2>6. QED
    BY <2>4, <2>5
<1>10. ASSUME NEW c \in ToSet(Me.cmds)
       PROVE  c \in Settled /\ (c.status # "completed" => Explained(c, 0))
  <2>1. PICK i \in DOMAIN Me.cmds : c = Me.cmds[i]
    BY <1>3, ListSet
  <2>2. QED
    BY <1>1, <1>5, <2>1 DEF RunOK
<1>11. SaveOK
  BY <1>1, <1>4, <1>8, <1>9, <1>10 DEF SaveOK, list
<1>12. SaveOK'
  BY <1>1, <1>2, <1>11, StillKeeps DEF SaveOK
<1>13. PendingOK'
  BY <1>1, <1>2, StillKeeps DEF SoleUser, PendingOK
<1>14. PhaseOK'
  BY <1>1, <1>12 DEF PhaseOK
<1>15. QED
  BY <1>2, <1>13, <1>14, StillKeeps DEF SoleUser

\* What a save makes of the store it read, or of an empty one.
LEMMA Filed ==
  ASSUME StoreTypes, SoleUser, Me.pc = "save",
         NEW b \in {loadStore, EmptyStore}, NEW d, d = PlaceAll(b, Me.cmds)
  PROVE  /\ d \in Books /\ Distinct(d)
         /\ AllIds(d) \subseteq Scheduled
         /\ \A c \in ToSet(d.pending) : Explained(c, 0)
         /\ Me.op \in {"schedule", "status"}
         /\ b = loadStore =>
              LET now == IdsOf(loadStore.pending)
                  next == IdsOf(d.pending)
              IN \/ Me.op = "schedule" /\ QueueAdds(now, next)
                 \/ Me.op = "status" /\ QueueSettles(now, next)
<1> DEFINE cmds == Me.cmds
           now == IdsOf(loadStore.pending)
           next == IdsOf(d.pending)
<1>1. SaveOK
  BY DEF SoleUser, PhaseOK
<1>2. cmds \in Seq(Filable)
  BY OfExecutor DEF ProcTypeOK
<1>3. loadStore \in Books /\ Distinct(loadStore) /\ AllIds(loadStore) \subseteq Scheduled
  BY LoadsPending DEF StoreTypes, SoleUser, FileOK
<1>4. /\ b \in Books /\ Distinct(b) /\ AllIds(b) \subseteq Scheduled
      /\ IdsOf(cmds) \cap DoneIds(b) = {}
  <2>1. CASE b = loadStore
    BY <1>1, <1>3, <2>1 DEF SaveOK
  <2>2. CASE b = EmptyStore
    BY <2>2, EmptyTypes DEF AllIds
  <2>3. QED
    BY <2>1, <2>2
<1>5. FilesAll(b, ToSet(cmds), d)
  <2>1. Apart(cmds)
    BY <1>1 DEF SaveOK
  <2> HIDE DEF cmds
  <2>2. FilesAll(b, ToSet(cmds), PlaceAll(b, cmds))
    BY <1>2, <1>4, <2>1, PlaceAllFiles
  <2>3. QED
    BY <2>2 DEF cmds
<1>6. IdsIn(ToSet(cmds)) = IdsOf(cmds) /\ IdsOf(cmds) \subseteq Scheduled
  BY <1>1 DEF IdsIn, IdsOf, SaveOK
<1>7. ToSet(cmds) \subseteq Filable
  BY <1>2, ListSet
<1> HIDE DEF cmds, next, now
<1>8. d \in Books /\ Distinct(d)
  BY <1>5 DEF FilesAll
<1>9. AllIds(d) \subseteq Scheduled
  <2>1. IdsIn(ToSet(cmds) \cap Fresh) \subseteq IdsIn(ToSet(cmds))
    BY DEF IdsIn
  <2>2. QED
    BY <1>4, <1>5, <1>6, <2>1 DEF FilesAll, AllIds
<1>10. ASSUME NEW c \in ToSet(d.pending) PROVE Explained(c, 0)
  <2>1. c \in Waiting
    BY <1>8, BookFields, ListSet
  <2>2. c.status # "completed"
    BY <2>1 DEF Waiting
  <2>3. CASE c \in ToSet(cmds)
    BY <1>1, <2>2, <2>3 DEF SaveOK, cmds
  <2>4. CASE c \notin ToSet(cmds)
    <3>1. c \in ToSet(b.pending) /\ c.id \notin IdsOf(cmds)
      BY <1>5, <1>6, <2>4 DEF FilesAll
    <3>2. b = loadStore
      BY <3>1, EmptyTypes
    <3>3. c.id \in now
      BY <3>1, <3>2 DEF IdsOf, now
    <3>4. Me.op = "schedule"
      BY <1>1, <3>1, <3>3 DEF SaveOK, cmds, now
    <3>5. QED
      BY <3>1, <3>2, <3>4 DEF SoleUser, PendingOK
  <2>5. QED
    BY <2>3, <2>4
<1>11. /\ Me.op \in {"schedule", "status"}
       /\ \/ /\ Me.op = "schedule" /\ ToSet(cmds) \subseteq Fresh
             /\ IdsOf(cmds) \cap (now \cup Attempted) = {}
          \/ /\ Me.op = "status" /\ ToSet(cmds) \subseteq Settled
             /\ IdsOf(cmds) = now /\ now \subseteq Attempted
  BY <1>1 DEF SaveOK, cmds, now
<1>12. IdsOf(cmds) \in SUBSET Ids
  BY <1>6 DEF Scheduled
<1>13. ASSUME b = loadStore
       PROVE  next = (now \ IdsIn({c \in ToSet(cmds) : Finished(c)})) \cup IdsIn(ToSet(cmds) \cap Fresh)
  BY <1>5, <1>13 DEF FilesAll, now, next
<1>14. ASSUME b = loadStore, Me.op = "schedule"
       PROVE  QueueAdds(now, next)
  <2>1. ToSet(cmds) \subseteq Fresh /\ IdsOf(cmds) \cap (now \cup Attempted) = {}
    BY <1>11, <1>14
  <2>2. {c \in ToSet(cmds) : Finished(c)} = {} /\ ToSet(cmds) \cap Fresh = ToSet(cmds)
    BY <2>1 DEF Fresh, Finished
  <2>3. IdsIn({}) = {}
    BY DEF IdsIn
  <2>4. next = now \cup IdsOf(cmds)
    BY <1>6, <1>13, <1>14, <2>2, <2>3
  <2>5. QED
    BY <1>12, <2>1, <2>4 DEF QueueAdds
<1>15. ASSUME b = loadStore, Me.op = "status"
       PROVE  QueueSettles(now, next)
  <2> DEFINE S == IdsIn({c \in ToSet(cmds) : Finished(c)})
  <2>1. ToSet(cmds) \subseteq Settled /\ IdsOf(cmds) = now /\ now \subseteq Attempted
    BY <1>11, <1>15
  <2>2. ToSet(cmds) \cap Fresh = {}
    BY <2>1 DEF Fresh, Settled
  <2>3. IdsIn({}) = {} /\ S \subseteq IdsIn(ToSet(cmds))
    BY DEF IdsIn
  <2>4. next = now \ S
    BY <1>13, <1>15, <2>2, <2>3
  <2> HIDE DEF S
  <2>5. S \in SUBSET Ids /\ S \subseteq now \cap Attempted
    BY <1>6, <1>12, <2>1, <2>3
  <2>6. QED
    BY <2>4, <2>5 DEF QueueSettles
<1>16. QED
  BY <1>8, <1>9, <1>10, <1>11, <1>14, <1>15 DEF now, next

LEMMA SoleLoad ==
  ASSUME StoreTypes, SoleUser, LoadForSave(Executor) \/ LoadFails(Executor)
  PROVE  SoleUser'
<1> DEFINE d == Me'.data
<1>1. /\ Me.pc = "save" /\ Me'.pc = "open" /\ Me'.op = Me.op
      /\ \/ /\ LoadForSave(Executor) /\ Readable
            /\ d = PlaceAll(loadStore, Me.cmds)
         \/ /\ LoadForSave(Executor) /\ ~Readable
            /\ d = PlaceAll(EmptyStore, Me.cmds)
         \/ /\ LoadFails(Executor)
            /\ d = PlaceAll(EmptyStore, Me.cmds)
  BY OfExecutor, LoadTells DEF Me
<1>2. Still
  <2>1. faults' = faults \/ faults' = [faults EXCEPT !.reads = @ + 1]
    BY DEF LoadForSave, LoadFails
  <2>2. Mishaps' = Mishaps
    BY <2>1 DEF StoreTypes, Mishaps
  <2>3. QED
    BY <2>2 DEF LoadForSave, LoadFails, Still
<1>3. Readable
  BY DEF SoleUser, FileOK
<1>4. PICK b \in {loadStore, EmptyStore} :
        d = PlaceAll(b, Me.cmds) /\ (b = loadStore \/ faults'.reads > 0)
  <2>1. CASE LoadForSave(Executor) /\ d = PlaceAll(loadStore, Me.cmds)
    BY <2>1
  <2>2. CASE LoadFails(Executor) /\ d = PlaceAll(EmptyStore, Me.cmds)
    <3>1. faults'.reads > 0
      BY <2>2 DEF LoadFails, StoreTypes
    <3>2. QED
      BY <2>2, <3>1
  <2>3. QED
    BY <1>1, <1>3, <2>1, <2>2
<1> HIDE DEF d
<1>5. /\ d \in Books /\ Distinct(d) /\ AllIds(d) \subseteq Scheduled
      /\ \A c \in ToSet(d.pending) : Explained(c, 0)
      /\ Me.op \in {"schedule", "status"}
      /\ b = loadStore =>
           LET now == IdsOf(loadStore.pending)
               next == IdsOf(d.pending)
           IN \/ Me.op = "schedule" /\ QueueAdds(now, next)
              \/ Me.op = "status" /\ QueueSettles(now, next)
  BY <1>1, <1>4, Filed
<1>6. QueueStep'
  <2>1. CASE b = loadStore
    BY <1>1, <1>2, <1>5, <2>1, StillKeeps DEF QueueStep, QueueAdds, QueueSettles, d
  <2>2. CASE faults'.reads > 0
    BY <2>2 DEF QueueStep
  <2>3. QED
    BY <1>4, <2>1, <2>2
<1>7. \A c \in ToSet(d.pending) : Explained(c, 0)'
  BY <1>2, <1>5, StillKeeps
<1>8. Scheduled' = Scheduled
  BY <1>2, StillKeeps
<1>9. ChangeOK'
  BY <1>1, <1>5, <1>6, <1>7, <1>8 DEF ChangeOK, d
<1>10. PendingOK'
  BY <1>1, <1>2, StillKeeps DEF SoleUser, PendingOK
<1>11. PhaseOK'
  BY <1>1, <1>9 DEF PhaseOK
<1>12. QED
  BY <1>2, <1>10, <1>11, StillKeeps DEF SoleUser

LEMMA SoleArchive ==
  ASSUME StoreTypes, SoleUser, LoadForArchive(Executor)
  PROVE  SoleUser'
<1>1. /\ Me.pc = "archive"
      /\ Me'.pc = "open" /\ Me'.op = "archive" /\ Me'.data = Archived(loadStore)
  BY OfExecutor, ArchiveTells DEF Me, SoleUser, FileOK
<1>2. Still /\ faults' = faults
  BY DEF LoadForArchive, Still, Mishaps
<1>3. Me.op # "status"
  BY <1>1 DEF SoleUser, PhaseOK
<1>4. loadStore \in Books /\ Distinct(loadStore) /\ AllIds(loadStore) \subseteq Scheduled
  BY LoadsPending DEF StoreTypes, SoleUser, FileOK
<1>5. /\ Archived(loadStore).pending = loadStore.pending
      /\ DoneIds(Archived(loadStore)) \subseteq DoneIds(loadStore)
      /\ Distinct(Archived(loadStore))
  BY <1>4, ArchivedKeeps
<1>6. AllIds(Archived(loadStore)) \subseteq Scheduled
  BY <1>4, <1>5 DEF AllIds
<1>7. \A c \in ToSet(loadStore.pending) : Explained(c, 0)'
  BY <1>2, <1>3, StillKeeps DEF SoleUser, PendingOK
<1>8. Scheduled' = Scheduled /\ loadStore' = loadStore
  BY <1>2, StillKeeps
<1>9. QueueStep'
  BY <1>1, <1>5, <1>8 DEF QueueStep
<1>10. ChangeOK'
  BY <1>1, <1>5, <1>6, <1>7, <1>8, <1>9 DEF ChangeOK
<1>11. PendingOK'
  BY <1>1, <1>7, <1>8 DEF PendingOK
<1>12. PhaseOK'
  BY <1>1, <1>10 DEF PhaseOK
<1>13. QED
  BY <1>2, <1>11, <1>12, StillKeeps DEF SoleUser

\* What was prepared stays as it is while it is written.
LEMMA ChangeStays ==
  ASSUME Still, faults' = faults, ChangeOK, Me'.op = Me.op, Me'.data = Me.data
  PROVE  ChangeOK'
<1>1. loadStore' = loadStore /\ Scheduled' = Scheduled /\ Attempted' = Attempted
  BY StillKeeps
<1>2. QueueStep'
  BY <1>1 DEF ChangeOK, QueueStep, QueueAdds, QueueSettles
<1>3. \A c \in ToSet(Me.data.pending) : Explained(c, 0)'
  BY StillKeeps DEF ChangeOK
<1>4. QED
  BY <1>1, <1>2, <1>3 DEF ChangeOK

LEMMA SoleOpen ==
  ASSUME StoreTypes, SoleUser, OpenTemp(Executor)
  PROVE  SoleUser'
<1>1. /\ Me.pc = "open" /\ Me'.pc = "write" /\ Me'.op = Me.op
      /\ Me'.data = Me.data /\ Me'.fd = "tmp" /\ tmp' = Torn
  BY OfExecutor, OpenTells DEF Me
<1>2. Still /\ faults' = faults
  BY DEF OpenTemp, Still, Mishaps
<1>3. ChangeOK'
  BY <1>1, <1>2, ChangeStays DEF SoleUser, PhaseOK
<1>4. PendingOK'
  BY <1>1, <1>2, StillKeeps DEF SoleUser, PendingOK
<1>5. PhaseOK'
  BY <1>1, <1>3 DEF PhaseOK
<1>6. QED
  BY <1>2, <1>4, <1>5, StillKeeps DEF SoleUser

LEMMA SoleWrite ==
  ASSUME StoreTypes, SoleUser, WriteTemp(Executor)
  PROVE  SoleUser'
<1>1. /\ Me.pc = "write" /\ Me'.pc = "rename" /\ Me'.op = Me.op
      /\ Me'.data = Me.data
      /\ Me.fd = "tmp" /\ tmp = Torn => file' = file /\ tmp' = Me.data
  BY OfExecutor, WriteTells DEF Me
<1>2. file' = file /\ tmp' = Me.data
  BY <1>1 DEF SoleUser, PhaseOK
<1>3. Still /\ faults' = faults
  BY <1>2 DEF WriteTemp, Still, Mishaps
<1>4. ChangeOK'
  BY <1>1, <1>3, ChangeStays DEF SoleUser, PhaseOK
<1>5. PendingOK'
  BY <1>1, <1>3, StillKeeps DEF SoleUser, PendingOK
<1>6. PhaseOK'
  BY <1>1, <1>2, <1>4 DEF PhaseOK
<1>7. QED
  BY <1>3, <1>5, <1>6, StillKeeps DEF SoleUser

\* After a mishap the file may be one run behind, whatever was under way.
LEMMA SoleMishap ==
  ASSUME StoreTypes, SoleUser, UNCHANGED <<file, nextId, ran>>,
         Mishaps' = Mishaps + 1, Me'.pc \in {"idle", "archive"}, Me'.op = "none"
  PROVE  SoleUser'
<1>1. loadStore' = loadStore /\ Attempted' = Attempted /\ Scheduled' = Scheduled
  BY DEF loadStore, Attempted, Scheduled
<1>2. FileOK'
  BY <1>1 DEF SoleUser, FileOK, Readable
<1>3. RunsOK'
  <2>1. \A id \in Ids : ran[id] <= MaxRetries + Mishaps => ran[id] <= MaxRetries + (Mishaps + 1)
    BY OfExecutor
  <2>2. QED
    BY <1>1, <2>1 DEF SoleUser, RunsOK
<1>4. ASSUME NEW c \in ToSet(loadStore.pending)
      PROVE  ran[c.id] <= c.retries + (Mishaps + 1) + 0
  <2>1. c \in Waiting
    BY LoadsPending, BookFields, ListSet DEF StoreTypes, SoleUser, FileOK
  <2>2. c.id \in Ids /\ c.retries \in Nat
    BY <2>1, StoreAssumption DEF Waiting, Commands
  <2>3. Explained(c, 0) \/ Explained(c, 1)
    BY DEF SoleUser, PendingOK
  <2>4. QED
    BY <2>2, <2>3, OfExecutor DEF Explained
<1>5. PendingOK'
  BY <1>1, <1>4 DEF PendingOK, Explained
<1>6. PhaseOK'
  BY DEF PhaseOK
<1>7. QED
  BY <1>2, <1>3, <1>5, <1>6 DEF SoleUser

LEMMA SavedQuietly ==
  ASSUME StoreTypes, proc'[Executor] = AfterSave(Executor)
  PROVE  Me'.pc \in {"idle", "archive"} /\ Me'.op = "none"
BY DEF Me, AfterSave, Idle

LEMMA SoleFails ==
  ASSUME StoreTypes, SoleUser, WriteFails(Executor) \/ RenameFails(Executor)
  PROVE  SoleUser'
<1>1. proc'[Executor] = AfterSave(Executor)
  BY OfExecutor, WriteFailsTells, RenameTells
<1>2. UNCHANGED <<file, nextId, ran>>
  BY DEF WriteFails, RenameFails
<1>3. faults' = [faults EXCEPT !.writes = @ + 1]
  <2>1. CASE RenameFails(Executor)
    <3>1. tmp = Me.data
      BY <2>1 DEF RenameFails, Ready, Me, SoleUser, PhaseOK
    <3>2. Me.data \in Books
      BY OfExecutor DEF ProcTypeOK
    <3>3. tmp # None
      BY <3>1, <3>2 DEF Books, None
    <3>4. QED
      BY <2>1, <3>3 DEF RenameFails
  <2>2. QED
    BY <2>1 DEF WriteFails
<1>4. Mishaps' = Mishaps + 1
  BY <1>3 DEF Mishaps, StoreTypes
<1>5. QED
  BY <1>1, <1>2, <1>4, SavedQuietly, SoleMishap

LEMMA SoleCrash ==
  ASSUME StoreTypes, SoleUser, Crash
  PROVE  SoleUser'
<1>1. Me'.pc = "idle" /\ Me'.op = "none"
  BY OfExecutor DEF Crash, Me, Idle
<1>2. Mishaps' = Mishaps + 1
  BY DEF Crash, Mishaps, StoreTypes
<1>3. QED
  BY <1>1, <1>2, SoleMishap DEF Crash

\* The rename puts in place what was prepared.
LEMMA SoleRename ==
  ASSUME StoreTypes, SoleUser, Rename(Executor)
  PROVE  /\ SoleUser' /\ ChangeOK
         /\ loadStore' = Me.data /\ ran' = ran /\ faults' = faults
<1>1. /\ proc'[Executor] = AfterSave(Executor)
      /\ Me.pc = "rename" /\ file' = tmp /\ ran' = ran /\ faults' = faults /\ nextId' = nextId
  BY OfExecutor, RenameTells DEF Rename, Ready, Me
<1>2. ChangeOK /\ tmp = Me.data /\ Me.data \in Books
  BY <1>1, OfExecutor DEF SoleUser, PhaseOK, ProcTypeOK
<1>3. loadStore' = Me.data /\ Readable'
  <2>1. Me.data.kind = "store"
    BY <1>2, BookFields
  <2>2. QED
    BY <1>1, <1>2, <2>1 DEF loadStore, Readable, None
<1>4. Attempted' = Attempted /\ Scheduled' = Scheduled /\ Mishaps' = Mishaps
  BY <1>1 DEF Attempted, Scheduled, Mishaps
<1>5. FileOK'
  BY <1>2, <1>3, <1>4 DEF FileOK, ChangeOK
<1>6. RunsOK'
  BY <1>1, <1>4 DEF SoleUser, RunsOK
<1>7. Me'.pc \in {"idle", "archive"} /\ Me'.op = "none"
  BY <1>1, SavedQuietly
<1>8. PendingOK'
  BY <1>1, <1>2, <1>3, <1>4, <1>7 DEF PendingOK, ChangeOK, Explained
<1>9. PhaseOK'
  BY <1>7 DEF PhaseOK
<1>10. QED
  BY <1>1, <1>2, <1>3, <1>5, <1>6, <1>8, <1>9 DEF SoleUser

LEMMA SoleInit == Alone /\ Init => SoleUser
<1> SUFFICES ASSUME Init PROVE SoleUser
  OBVIOUS
<1>1. loadStore = EmptyStore /\ Readable
  BY DEF Init, loadStore, Readable, None
<1>2. Me.pc = "idle" /\ Me.op = "none"
  BY StoreAssumption DEF Init, Me, Idle
<1>3. Attempted = {} /\ Mishaps = 0
  BY DEF Init, Attempted, Mishaps
<1>4. FileOK
  BY <1>1, EmptyTypes DEF FileOK, AllIds
<1>5. RunsOK
  BY <1>3, StoreAssumption DEF RunsOK, Init
<1>6. PendingOK
  BY <1>1, EmptyTypes DEF PendingOK
<1>7. PhaseOK
  BY <1>2 DEF PhaseOK
<1>8. QED
  BY <1>4, <1>5, <1>6, <1>7 DEF SoleUser

LEMMA SoleKept ==
  ASSUME StoreTypes, SoleUser, Alone, [Next]_vars
  PROVE  SoleUser'
<1>1. CASE UNCHANGED vars
  <2>1. Still /\ UNCHANGED <<Me, tmp, faults>>
    BY <1>1 DEF vars, Still, Mishaps, Me
  <2>2. PendingOK'
    BY <2>1, StillKeeps DEF SoleUser, PendingOK
  <2>3. RunOK => RunOK'
    <3>1. \A i \in DOMAIN Me.cmds : Explained(Me.cmds[i], 0) =>
            ran'[Me'.cmds[i].id] <= Me'.cmds[i].retries + Mishaps' + 0
      BY <2>1 DEF Explained, Still
    <3>2. QED
      BY <2>1, <3>1, StillKeeps DEF RunOK, Explained
  <2>4. SaveOK => SaveOK'
    BY <2>1, StillKeeps DEF SaveOK
  <2>5. ChangeOK => ChangeOK'
    BY <2>1, ChangeStays
  <2>6. PhaseOK'
    BY <2>1, <2>3, <2>4, <2>5 DEF SoleUser, PhaseOK
  <2>7. QED
    BY <2>1, <2>2, <2>6, StillKeeps DEF SoleUser
<1>2. CASE Cycle(Executor)
  BY <1>2, SoleStart, SoleRun, SoleEnd DEF Cycle
<1>3. CASE Save(Executor)
  BY <1>3, SoleLoad, SoleArchive, SoleOpen, SoleWrite, SoleFails, SoleRename DEF Save
<1>4. CASE \E n \in Ids : ScheduleCommands(Executor, n)
  BY <1>4, SoleSchedule
<1>5. CASE Crash
  BY <1>5, SoleCrash
<1>6. QED
  BY <1>1, <1>2, <1>3, <1>4, <1>5 DEF Alone, Next

LEMMA SoleUserHolds ==
  ASSUME Alone
  PROVE  Spec => [](StoreTypes /\ SoleUser)
BY Alone, InitTypes, TypesKept, SoleInit, SoleKept, PTL DEF Spec

\* Lists of different commands follow one another.
LEMMA ApartConcat ==
  ASSUME NEW a \in Seq(Commands), NEW b \in Seq(Commands), Apart(a), Apart(b),
         IdsOf(a) \cap IdsOf(b) = {}
  PROVE  /\ a \o b \in Seq(Commands) /\ Apart(a \o b)
         /\ IdsOf(a \o b) = IdsOf(a) \cup IdsOf(b)
<1> DEFINE ab == a \o b
           m == Len(a)
           n == Len(b)
<1>1. m \in Nat /\ n \in Nat /\ DOMAIN a = 1..m /\ DOMAIN b = 1..n
  BY ListSet
<1>2. /\ ab \in Seq(Commands) /\ Len(ab) = m + n
      /\ \A i \in 1..(m + n) : ab[i] = IF i <= m THEN a[i] ELSE b[i - m]
  BY ConcatProperties
<1> HIDE DEF ab
<1>3. DOMAIN ab = 1..(m + n)
  BY <1>2, ListSet
<1>4. (\A i \in 1..m : a[i].id \in IdsOf(a)) /\ (\A i \in 1..n : b[i].id \in IdsOf(b))
  BY <1>1, IdsOfList
<1>5. ASSUME NEW i \in 1..(m + n)
      PROVE  \/ i \in 1..m /\ ab[i] = a[i]
             \/ i - m \in 1..n /\ ab[i] = b[i - m]
  BY <1>1, <1>2
<1>6. Apart(ab)
  <2> SUFFICES ASSUME NEW i \in 1..(m + n), NEW j \in 1..(m + n), ab[i].id = ab[j].id
               PROVE  i = j
    BY <1>3 DEF Apart
  <2>1. CASE i \in 1..m /\ ab[i] = a[i] /\ j \in 1..m /\ ab[j] = a[j]
    BY <1>1, <2>1 DEF Apart
  <2>2. CASE i - m \in 1..n /\ ab[i] = b[i - m] /\ j - m \in 1..n /\ ab[j] = b[j - m]
    <3>1. i - m = j - m
      BY <1>1, <2>2 DEF Apart
    <3>2. QED
      BY <1>1, <3>1
  <2>3. CASE \/ i \in 1..m /\ ab[i] = a[i] /\ j - m \in 1..n /\ ab[j] = b[j - m]
             \/ j \in 1..m /\ ab[j] = a[j] /\ i - m \in 1..n /\ ab[i] = b[i - m]
    BY <1>4, <2>3
  <2>4. QED
    BY <1>5, <2>1, <2>2, <2>3
<1>7. IdsOf(ab) = IdsOf(a) \cup IdsOf(b)
  <2>1. ASSUME NEW id \in IdsOf(ab) PROVE id \in IdsOf(a) \cup IdsOf(b)
    <3>1. PICK i \in 1..(m + n) : id = ab[i].id
      BY <1>2, <1>3, IdsOfList
    <3>2. QED
      BY <1>4, <1>5, <3>1
  <2>2. ASSUME NEW id \in IdsOf(a) PROVE id \in IdsOf(ab)
    <3>1. PICK i \in 1..m : id = a[i].id
      BY <1>1, IdsOfList
    <3>2. i \in 1..(m + n) /\ ab[i] = a[i]
      BY <1>1, <1>2
    <3>3. QED
      BY <1>2, <1>3, <3>1, <3>2, IdsOfList
  <2>3. ASSUME NEW id \in IdsOf(b) PROVE id \in IdsOf(ab)
    <3>1. PICK i \in 1..n : id = b[i].id
      BY <1>1, IdsOfList
    <3>2. i + m \in 1..(m + n) /\ ~(i + m <= m) /\ (i + m) - m = i
      BY <1>1
    <3>3. ab[i + m] = b[i]
      BY <1>2, <3>2
    <3>4. QED
      BY <1>2, <1>3, <3>1, <3>2, <3>3, IdsOfList
  <2>4. QED
    BY <2>1, <2>2, <2>3
<1>8. QED
  BY <1>2, <1>6, <1>7 DEF ab

LEMMA ApartCounts ==
  ASSUME NEW cmds \in Seq(Commands), Apart(cmds)
  PROVE  Cardinality(IdsOf(cmds)) = Len(cmds)
<1> DEFINE n == Len(cmds)
           m == [i \in 1..n |-> cmds[i].id]
<1>1. n \in Nat /\ DOMAIN cmds = 1..n
  BY ListSet
<1>2. IsFiniteSet(1..n) /\ Cardinality(1..n) = n
  BY <1>1, FS_Interval, SMTT(30)
<1>3. \A i, j \in 1..n : m[i] = m[j] => i = j
  BY <1>1 DEF Apart
<1>4. (\A i \in 1..n : m[i] \in IdsOf(cmds)) /\ (\A id \in IdsOf(cmds) : \E i \in 1..n : m[i] = id)
  BY <1>1, IdsOfList
<1> HIDE DEF m
<1>5. QED
  BY <1>2, <1>3, <1>4, SameNumber

\* EachCommandInOneList (SaveCommands, command_memory.go:63-110): with one user a
\* command is in one list of the file and once, whatever was saved in part or
\* read as missing.
THEOREM CommandsInOneList ==
  ASSUME Alone
  PROVE  Spec => []EachCommandInOneList
<1>1. StoreTypes /\ SoleUser => EachCommandInOneList
  <2> SUFFICES ASSUME StoreTypes, SoleUser, file.kind = "store"
               PROVE  LET all == file.pending \o file.completed \o file.failed
                      IN Cardinality(IdsOf(all)) = Len(all)
    BY DEF EachCommandInOneList
  <2>1. loadStore = file
    BY DEF loadStore, None
  <2>2. file \in Books /\ Distinct(file)
    BY <2>1, LoadsPending DEF StoreTypes, SoleUser, FileOK
  <2>3. /\ file.pending \in Seq(Commands) /\ file.completed \in Seq(Commands)
        /\ file.failed \in Seq(Commands)
    <3>1. Waiting \subseteq Commands
      BY CommandKinds
    <3>2. QED
      BY <2>2, <3>1, BookFields
  <2> DEFINE front == file.pending \o file.completed
             all == front \o file.failed
  <2>4. /\ front \in Seq(Commands) /\ Apart(front)
        /\ IdsOf(front) = IdsOf(file.pending) \cup IdsOf(file.completed)
    BY <2>2, <2>3, ApartConcat DEF Distinct, DoneIds
  <2> HIDE DEF front
  <2>5. all \in Seq(Commands) /\ Apart(all)
    <3>1. IdsOf(front) \cap IdsOf(file.failed) = {}
      BY <2>2, <2>4 DEF Distinct, DoneIds
    <3>2. Apart(file.failed)
      BY <2>2 DEF Distinct
    <3>3. QED
      BY <2>3, <2>4, <3>1, <3>2, ApartConcat
  <2> HIDE DEF all
  <2>6. Cardinality(IdsOf(all)) = Len(all)
    BY <2>5, ApartCounts
  <2>7. QED
    BY <2>6 DEF all, front
<1>2. QED
  BY <1>1, SoleUserHolds, PTL

\* RunsAreAccountedFor (executeNextCycleCommands, jarvis.go:927-983): with one user
\* a command runs at most MaxRetries times and once more for each crash and each
\* failed write.
THEOREM RunsExplained ==
  ASSUME Alone
  PROVE  Spec => []RunsAreAccountedFor
<1>1. StoreTypes /\ SoleUser => RunsAreAccountedFor
  <2> SUFFICES ASSUME StoreTypes, SoleUser, NEW id \in Ids
               PROVE  ran[id] <= MaxRetries + faults.crashes + faults.writes
    BY DEF RunsAreAccountedFor
  <2>1. ran[id] <= MaxRetries + (faults.crashes + faults.writes)
    BY DEF SoleUser, RunsOK, Mishaps
  <2>2. faults.crashes \in Nat /\ faults.writes \in Nat /\ ran[id] \in Nat
    BY DEF StoreTypes
  <2>3. QED
    BY <2>1, <2>2, StoreAssumption
<1>2. QED
  BY <1>1, SoleUserHolds, PTL

-----------------------------------------------------------------------------
(* The file implements a durable queue                                     *)

LEMMA QueuedIs ==
  ASSUME StoreTypes, Readable
  PROVE  Queued = IdsOf(loadStore.pending)
<1>1. CASE file = None
  BY <1>1, EmptyTypes DEF Queued, loadStore, None
<1>2. CASE file # None
  BY <1>2, BookFields DEF StoreTypes, Readable, Torn, None, Queued, loadStore
<1>3. QED
  BY <1>1, <1>2

LEMMA QueueStays ==
  ASSUME UNCHANGED <<file, ran>>, (faults.reads > 0)' = (faults.reads > 0)
  PROVE  UNCHANGED Queue!queueVars
BY DEF Queued, Queue!queueVars

LEMMA ReadsKept ==
  ASSUME StoreTypes,
         \/ faults' = faults
         \/ faults' = [faults EXCEPT !.writes = @ + 1]
         \/ faults' = [faults EXCEPT !.crashes = @ + 1]
  PROVE  (faults.reads > 0)' = (faults.reads > 0)
BY DEF StoreTypes

LEMMA QueueRuns ==
  ASSUME StoreTypes, SoleUser, NEW ok \in BOOLEAN, RunCommand(Executor, ok)
  PROVE  Queue!Next
<1>1. PICK id \in Ids :
        id \in IdsOf(loadStore.pending) /\ Attempted' = Attempted \cup {id}
  BY SoleRun
<1>2. Queued = IdsOf(loadStore.pending)
  BY QueuedIs DEF SoleUser, FileOK
<1>3. Queued' = Queued /\ (faults.reads > 0)' = (faults.reads > 0)
  BY DEF RunCommand, Queued
<1>4. Queue!Attempt(id)
  BY <1>1, <1>2, <1>3 DEF Queue!Attempt, Attempted
<1>5. QED
  BY <1>4 DEF Queue!Next

LEMMA QueueDamaged ==
  ASSUME StoreTypes, SoleUser, LoadFails(Executor)
  PROVE  Queue!Next
<1>1. (faults.reads > 0)' = TRUE
  BY DEF LoadFails, StoreTypes
<1>2. Queued' = Queued /\ ran' = ran
  BY DEF LoadFails, Queued
<1>3. Queue!Damage
  BY <1>1, <1>2 DEF Queue!Damage
<1>4. QED
  BY <1>3 DEF Queue!Next

LEMMA QueueRenames ==
  ASSUME StoreTypes, StoreTypes', SoleUser, Rename(Executor)
  PROVE  Queue!Next
<1> DEFINE now == IdsOf(loadStore.pending)
           next == IdsOf(Me.data.pending)
<1>1. SoleUser' /\ ChangeOK /\ loadStore' = Me.data /\ ran' = ran /\ faults' = faults
  BY SoleRename
<1>2. Queued = now
  BY QueuedIs DEF SoleUser, FileOK
<1>3. Queued' = next
  <2>1. Readable'
    BY <1>1 DEF SoleUser, FileOK
  <2>2. Queued' = IdsOf(loadStore'.pending)
    <3>1. CASE file' = None
      BY <3>1, EmptyTypes DEF Queued, loadStore, None
    <3>2. CASE file' # None
      BY <2>1, <3>2, BookFields DEF StoreTypes, Readable, Torn, None, Queued, loadStore
    <3>3. QED
      BY <3>1, <3>2
  <2>3. QED
    BY <1>1, <2>2
<1>4. now \subseteq Ids /\ next \subseteq Ids
  BY <1>1 DEF SoleUser, FileOK, ChangeOK, AllIds, Scheduled
<1>5. \/ faults.reads > 0
      \/ next = now
      \/ QueueAdds(now, next)
      \/ QueueSettles(now, next)
  BY <1>1 DEF ChangeOK, QueueStep
<1> HIDE DEF now, next
<1>6. CASE faults.reads > 0
  <2>1. Queue!Forget(now, next)
    BY <1>1, <1>2, <1>3, <1>6 DEF Queue!Forget
  <2>2. QED
    BY <1>4, <2>1 DEF Queue!Next
<1>7. ASSUME NEW S \in SUBSET Ids, S \cap (now \cup Attempted) = {}, next = now \cup S
      PROVE  Queue!Next
  <2>1. Queue!Add(S)
    BY <1>1, <1>2, <1>3, <1>7 DEF Queue!Add, Attempted
  <2>2. QED
    BY <2>1 DEF Queue!Next
<1>8. ASSUME NEW S \in SUBSET Ids, S \subseteq now \cap Attempted, next = now \ S
      PROVE  Queue!Next
  <2>1. Queue!Settle(S)
    BY <1>1, <1>2, <1>3, <1>8 DEF Queue!Settle, Attempted
  <2>2. QED
    BY <2>1 DEF Queue!Next
<1>9. CASE next = now
  <2>1. {} \in SUBSET Ids /\ {} \subseteq now \cap Attempted /\ next = now \ {}
    BY <1>9
  <2>2. QED
    BY <1>8, <2>1
<1>10. QED
  BY <1>5, <1>6, <1>7, <1>8, <1>9 DEF QueueAdds, QueueSettles

LEMMA QueueSteps ==
  ASSUME StoreTypes, SoleUser, Alone, [Next]_vars
  PROVE  [Queue!Next]_Queue!queueVars
<1>1. CASE UNCHANGED vars
  BY <1>1, QueueStays, ReadsKept DEF vars
<1>2. CASE Cycle(Executor)
  <2>1. CASE StartCycle(Executor) \/ EndCycle(Executor)
    <3>1. UNCHANGED <<file, ran, faults>>
      BY <2>1 DEF StartCycle, EndCycle
    <3>2. QED
      BY <3>1, QueueStays
  <2>2. QED
    BY <1>2, <2>1, QueueRuns DEF Cycle
<1>3. CASE Save(Executor)
  <2>1. CASE LoadForSave(Executor) \/ LoadForArchive(Executor) \/ OpenTemp(Executor)
    <3>1. UNCHANGED <<file, ran, faults>>
      BY <2>1 DEF LoadForSave, LoadForArchive, OpenTemp
    <3>2. QED
      BY <3>1, QueueStays
  <2>2. CASE WriteTemp(Executor)
    <3>1. Me.pc = "write" /\ (Me.fd = "tmp" /\ tmp = Torn => file' = file)
      BY <2>2, OfExecutor, WriteTells DEF Me
    <3>2. file' = file
      BY <3>1 DEF SoleUser, PhaseOK
    <3>3. UNCHANGED <<file, ran, faults>>
      BY <2>2, <3>2 DEF WriteTemp
    <3>4. QED
      BY <3>3, QueueStays
  <2>3. CASE WriteFails(Executor) \/ RenameFails(Executor)
    <3>1. UNCHANGED <<file, ran>>
      BY <2>3 DEF WriteFails, RenameFails
    <3>2. faults' = faults \/ faults' = [faults EXCEPT !.writes = @ + 1]
      BY <2>3 DEF WriteFails, RenameFails
    <3>3. QED
      BY <3>1, <3>2, QueueStays, ReadsKept
  <2>4. StoreTypes'
    BY TypesKept
  <2>5. QED
    BY <1>3, <2>1, <2>2, <2>3, <2>4, QueueDamaged, QueueRenames DEF Save
<1>4. CASE \E n \in Ids : ScheduleCommands(Executor, n)
  <2>1. UNCHANGED <<file, ran, faults>>
    BY <1>4 DEF ScheduleCommands
  <2>2. QED
    BY <2>1, QueueStays
<1>5. CASE Crash
  <2>1. UNCHANGED <<file, ran>> /\ faults' = [faults EXCEPT !.crashes = @ + 1]
    BY <1>5 DEF Crash
  <2>2. QED
    BY <2>1, QueueStays, ReadsKept
<1>6. QED
  BY <1>1, <1>2, <1>3, <1>4, <1>5 DEF Alone, Next

\* ImplementsQueue (saveStore, command_memory.go:162-187): used by the event loop
\* alone the file is a durable queue until a read of it fails.  A command enters
\* it once, is run only while it is there, and leaves it only after a run,
\* whatever crashes and failed writes come between.
THEOREM StoreImplementsQueue ==
  ASSUME Alone
  PROVE  Spec => ImplementsQueue
<1>1. Init => Queue!Init
  <2> SUFFICES ASSUME Init PROVE Queue!Init
    OBVIOUS
  <2>1. Queued = {} /\ {id \in Ids : ran[id] > 0} = {} /\ (faults.reads > 0) = FALSE
    BY DEF Init, Queued, None
  <2>2. QED
    BY <2>1 DEF Queue!Init
<1>2. QED
  BY Alone, <1>1, QueueSteps, SoleUserHolds, PTL DEF Spec, ImplementsQueue, Queue!Spec
=============================================================================

---------------------------- MODULE FoldTheorems ----------------------------
(***************************************************************************)
(* The folds of the models: sums of integers over finite sets of indices,  *)
(* SumFunctionOnSet(f, S), with what a proof about money or quantities     *)
(* needs of them, and the elements kept of a sequence, Keep(seq, wanted).  *)
(* The library's induction theorems are stated for an operator; the        *)
(* versions proved first are about a set of cases, so that any prover can  *)
(* apply them.                                                             *)
(***************************************************************************)
EXTENDS Integers, Functions, Selection, FiniteSetTheorems, SequenceTheorems,
        WellFoundedInduction, TLAPS

-----------------------------------------------------------------------------
(* Induction and correspondence                                            *)

Below == {pair \in Nat \X Nat : pair[1] < pair[2]}

LEMMA BelowIsWellFounded == IsWellFoundedOn(Below, Nat)
BY NatLessThanWellFounded DEF OpToRel, Below

\* Induction over the naturals, for a set of cases.
LEMMA CountingUp ==
  ASSUME NEW C, 0 \in C, \A n \in Nat : n \in C => n + 1 \in C
  PROVE  Nat \subseteq C
<1> DEFINE T == Nat \ C
<1> SUFFICES ASSUME T # {} PROVE FALSE
  OBVIOUS
<1>1. PICK least \in T : \A y \in T : ~(<<y, least>> \in Below)
  <2>1. T \subseteq Nat
    OBVIOUS
  <2> HIDE DEF T
  <2>2. QED
    BY <2>1, BelowIsWellFounded, WFMin
<1>2. least \in Nat /\ least # 0 /\ least - 1 \in Nat
  OBVIOUS
<1>3. least - 1 \notin C
  <2>1. (least - 1) + 1 = least
    BY <1>2
  <2>2. QED
    BY <1>2, <2>1
<1>4. <<least - 1, least>> \in Below
  BY <1>2 DEF Below
<1>5. QED
  BY <1>1, <1>2, <1>3, <1>4

\* A set of naturals that is not empty has a least element.
LEMMA LeastOf ==
  ASSUME NEW T, T \subseteq Nat, T # {}
  PROVE  \E least \in T : \A y \in T : least <= y
<1>1. PICK least \in T : \A y \in T : ~(<<y, least>> \in Below)
  BY BelowIsWellFounded, WFMin
<1>2. ASSUME NEW y \in T PROVE least <= y
  <2>1. least \in Nat /\ y \in Nat /\ ~(<<y, least>> \in Below)
    BY <1>1
  <2>2. y < least => <<y, least>> \in Below
    BY <2>1 DEF Below
  <2>3. QED
    BY <2>1, <2>2
<1>3. QED
  BY <1>2

\* Induction over the subsets of a finite set: what passes from all the
\* proper subsets to a set holds of all of it.
LEMMA SubsetInduction ==
  ASSUME NEW S, IsFiniteSet(S), NEW C,
         \A T \in SUBSET S : (\A U \in SUBSET T : U # T => U \in C) => T \in C
  PROVE  \A T \in SUBSET S : T \in C
<1> DEFINE rest == {T \in SUBSET S : T \notin C}
<1> SUFFICES ASSUME rest # {} PROVE FALSE
  OBVIOUS
<1>1. rest \subseteq FiniteSubsetsOf(S)
  BY FS_Subset DEF FiniteSubsetsOf
<1>2. PICK T \in rest : \A U \in rest : ~(<<U, T>> \in StrictSubsetOrdering(S))
  <2> HIDE DEF rest
  <2>1. QED
    BY <1>1, FS_StrictSubsetOrderingWellFounded, WFMin
<1>3. \A U \in SUBSET T : U # T => U \in C
  <2> SUFFICES ASSUME NEW U \in SUBSET T, U # T, U \notin C PROVE FALSE
    OBVIOUS
  <2>1. <<U, T>> \in StrictSubsetOrdering(S)
    BY DEF StrictSubsetOrdering
  <2>2. QED
    BY <2>1, <1>2
<1>4. QED
  BY <1>3

\* Induction over a finite set, one element at a time.
LEMMA SetInduction ==
  ASSUME NEW S, IsFiniteSet(S), NEW C, {} \in C,
         \A T \in SUBSET S : \A x \in S \ T : T \in C => T \cup {x} \in C
  PROVE  S \in C
<1>1. \A T \in SUBSET S : (\A U \in SUBSET T : U # T => U \in C) => T \in C
  <2> SUFFICES ASSUME NEW T \in SUBSET S, T # {},
                      \A U \in SUBSET T : U # T => U \in C
               PROVE  T \in C
    OBVIOUS
  <2>1. PICK x \in T : TRUE
    OBVIOUS
  <2>2. T \ {x} \in C
    OBVIOUS
  <2>3. T = (T \ {x}) \cup {x}
    OBVIOUS
  <2>4. T \ {x} \in SUBSET S /\ x \in S \ (T \ {x})
    OBVIOUS
  <2>5. QED
    BY <2>2, <2>3, <2>4
<1>2. QED
  BY <1>1, SubsetInduction

\* A one-to-one correspondence keeps the number of elements.
LEMMA SameNumber ==
  ASSUME NEW S, IsFiniteSet(S), NEW T, NEW m, \A x, y \in S : m[x] = m[y] => x = y,
         \A x \in S : m[x] \in T, \A y \in T : \E x \in S : m[x] = y
  PROVE  IsFiniteSet(T) /\ Cardinality(T) = Cardinality(S)
<1> DEFINE f == [x \in S |-> m[x]]
<1>1. f \in Bijection(S, T)
  BY DEF Bijection, Injection, Surjection, IsInjective
<1>2. ExistsBijection(S, T)
  BY <1>1 DEF ExistsBijection
<1>3. QED
  BY <1>2, FS_Bijection

-----------------------------------------------------------------------------
(* The recursion behind SumFunctionOnSet                                   *)

AnyOf(s) == CHOOSE x \in s : TRUE

\* One step of the sum: an element, and what iter says of the rest.
SumStep(f, s, iter) == IF s = {} THEN 0 ELSE f[AnyOf(s)] + iter[s \ {AnyOf(s)}]

SumIter(f, S) == CHOOSE iter : iter = [s \in SUBSET S |-> SumStep(f, s, iter)]

LEMMA SumIsIter == \A f, S : SumFunctionOnSet(f, S) = SumIter(f, S)[S]
BY DEF SumFunctionOnSet, FoldFunctionOnSet, MapThenFoldSet, SumIter, SumStep, AnyOf

\* The recursion is defined on every finite set.
LEMMA IterExists ==
  ASSUME NEW f, NEW S, IsFiniteSet(S)
  PROVE  \E iter : iter = [s \in SUBSET S |-> SumStep(f, s, iter)]
<1> DEFINE small(n) == {s \in SUBSET S : Cardinality(s) <= n}
           C == {n \in Nat : \E iter : iter = [s \in small(n) |-> SumStep(f, s, iter)]}
<1>0. \A s \in SUBSET S : IsFiniteSet(s) /\ Cardinality(s) \in Nat
  BY FS_Subset, FS_CardinalityType
<1>1. 0 \in C
  <2>1. \A s \in small(0) : s = {}
    BY <1>0, FS_EmptySet
  <2>2. [s \in small(0) |-> 0] = [s \in small(0) |-> SumStep(f, s, [r \in small(0) |-> 0])]
    <3> HIDE DEF small
    <3>1. QED
      BY <2>1 DEF SumStep
  <2>3. QED
    BY <2>2
<1>2. \A n \in Nat : n \in C => n + 1 \in C
  <2> SUFFICES ASSUME NEW n \in Nat, n \in C PROVE n + 1 \in C
    OBVIOUS
  <2>1. PICK iter : iter = [s \in small(n) |-> SumStep(f, s, iter)]
    OBVIOUS
  <2> DEFINE next == [s \in small(n + 1) |-> SumStep(f, s, iter)]
  <2>2. \A s \in small(n + 1) : s # {} => s \ {AnyOf(s)} \in small(n)
    <3> SUFFICES ASSUME NEW s \in small(n + 1), s # {} PROVE s \ {AnyOf(s)} \in small(n)
      OBVIOUS
    <3>1. AnyOf(s) \in s
      BY DEF AnyOf
    <3>2. Cardinality(s \ {AnyOf(s)}) = Cardinality(s) - 1
      BY <3>1, <1>0, FS_RemoveElement
    <3>3. QED
      BY <3>2, <1>0
  <2>3. \A s \in small(n) : s \in small(n + 1) /\ next[s] = iter[s]
    <3>1. \A s \in small(n) : s \in small(n + 1)
      BY <1>0
    <3> HIDE DEF small
    <3>2. QED
      BY <3>1, <2>1
  <2>4. \A s \in small(n + 1) : SumStep(f, s, iter) = SumStep(f, s, next)
    <3> HIDE DEF next, small
    <3>1. QED
      BY <2>2, <2>3 DEF SumStep
  <2>5. next = [s \in small(n + 1) |-> SumStep(f, s, next)]
    <3> SUFFICES [s \in small(n + 1) |-> SumStep(f, s, iter)]
                 = [s \in small(n + 1) |-> SumStep(f, s, next)]
      OBVIOUS
    <3> HIDE DEF next, small
    <3>1. QED
      BY <2>4
  <2>6. QED
    <3> HIDE DEF next, small
    <3>1. QED
      BY <2>5
<1>3. Cardinality(S) \in C
  <2> HIDE DEF C
  <2>1. QED
    BY <1>0, <1>1, <1>2, CountingUp
<1>4. small(Cardinality(S)) = SUBSET S
  BY <1>0, FS_Subset
<1>5. QED
  <2> HIDE DEF small
  <2>1. QED
    BY <1>3, <1>4

LEMMA IterUnfolds ==
  ASSUME NEW f, NEW S, IsFiniteSet(S)
  PROVE  \A s \in SUBSET S : SumIter(f, S)[s] = SumStep(f, s, SumIter(f, S))
<1>1. SumIter(f, S) = [s \in SUBSET S |-> SumStep(f, s, SumIter(f, S))]
  BY IterExists DEF SumIter
<1>2. QED
  BY <1>1

\* It says the same of a set whatever larger set it started from.
LEMMA IterIsUnique ==
  ASSUME NEW f, NEW S, IsFiniteSet(S), NEW R \in SUBSET S
  PROVE  \A s \in SUBSET R : SumIter(f, S)[s] = SumIter(f, R)[s]
<1> DEFINE C == {s \in SUBSET R : SumIter(f, S)[s] = SumIter(f, R)[s]}
<1>0. IsFiniteSet(R)
  BY FS_Subset
<1>1. \A T \in SUBSET R : (\A U \in SUBSET T : U # T => U \in C) => T \in C
  <2> SUFFICES ASSUME NEW T \in SUBSET R, \A U \in SUBSET T : U # T => U \in C
               PROVE  SumIter(f, S)[T] = SumIter(f, R)[T]
    OBVIOUS
  <2>1. SumIter(f, S)[T] = SumStep(f, T, SumIter(f, S))
    BY IterUnfolds
  <2>2. SumIter(f, R)[T] = SumStep(f, T, SumIter(f, R))
    BY <1>0, IterUnfolds
  <2>3. T # {} => T \ {AnyOf(T)} \in C
    BY DEF AnyOf
  <2>4. QED
    BY <2>1, <2>2, <2>3 DEF SumStep
<1>2. QED
  <2> HIDE DEF C
  <2>1. \A T \in SUBSET R : T \in C
    BY <1>0, <1>1, SubsetInduction
  <2>2. QED
    BY <2>1 DEF C

LEMMA SumUnfolds ==
  ASSUME NEW f, NEW S, IsFiniteSet(S), S # {}
  PROVE  /\ AnyOf(S) \in S
         /\ SumFunctionOnSet(f, S) = f[AnyOf(S)] + SumFunctionOnSet(f, S \ {AnyOf(S)})
<1>1. AnyOf(S) \in S
  BY DEF AnyOf
<1>2. SumIter(f, S)[S] = f[AnyOf(S)] + SumIter(f, S)[S \ {AnyOf(S)}]
  BY IterUnfolds DEF SumStep
<1>3. SumIter(f, S)[S \ {AnyOf(S)}] = SumIter(f, S \ {AnyOf(S)})[S \ {AnyOf(S)}]
  BY IterIsUnique
<1>4. QED
  BY <1>1, <1>2, <1>3, SumIsIter

-----------------------------------------------------------------------------
(* Sums                                                                    *)

LEMMA SumEmpty == ASSUME NEW f PROVE SumFunctionOnSet(f, {}) = 0
<1>1. SumIter(f, {})[{}] = SumStep(f, {}, SumIter(f, {}))
  BY IterUnfolds, FS_EmptySet
<1>2. QED
  BY <1>1, SumIsIter DEF SumStep

LEMMA SumIsInteger ==
  ASSUME NEW f, NEW S, IsFiniteSet(S), \A x \in S : f[x] \in Int
  PROVE  SumFunctionOnSet(f, S) \in Int
<1> DEFINE C == {T \in SUBSET S : SumFunctionOnSet(f, T) \in Int}
<1>1. \A T \in SUBSET S : (\A U \in SUBSET T : U # T => U \in C) => T \in C
  <2> SUFFICES ASSUME NEW T \in SUBSET S, \A U \in SUBSET T : U # T => U \in C
               PROVE  SumFunctionOnSet(f, T) \in Int
    OBVIOUS
  <2>1. CASE T = {}
    BY <2>1, SumEmpty
  <2>2. CASE T # {}
    <3>1. IsFiniteSet(T)
      BY FS_Subset
    <3>2. AnyOf(T) \in T /\ SumFunctionOnSet(f, T) = f[AnyOf(T)] + SumFunctionOnSet(f, T \ {AnyOf(T)})
      BY <3>1, <2>2, SumUnfolds
    <3>3. T \ {AnyOf(T)} \in C
      BY <3>2
    <3>4. QED
      BY <3>2, <3>3
  <2>3. QED
    BY <2>1, <2>2
<1>2. S \in C
  <2> HIDE DEF C
  <2>1. QED
    BY <1>1, SubsetInduction
<1>3. QED
  BY <1>2

\* Any element can be taken out of a sum.
LEMMA SumTakesOut ==
  ASSUME NEW f, NEW S, IsFiniteSet(S), \A x \in S : f[x] \in Int, NEW y \in S
  PROVE  SumFunctionOnSet(f, S) = f[y] + SumFunctionOnSet(f, S \ {y})
<1> DEFINE Sum(T) == SumFunctionOnSet(f, T)
           C == {T \in SUBSET S : \A x \in T : Sum(T) = f[x] + Sum(T \ {x})}
<1>1. \A T \in SUBSET S : (\A U \in SUBSET T : U # T => U \in C) => T \in C
  <2> SUFFICES ASSUME NEW T \in SUBSET S, \A U \in SUBSET T : U # T => U \in C,
                      NEW x \in T
               PROVE  Sum(T) = f[x] + Sum(T \ {x})
    OBVIOUS
  <2> DEFINE c == AnyOf(T)
  <2>1. IsFiniteSet(T) /\ IsFiniteSet(T \ {x}) /\ IsFiniteSet((T \ {x}) \ {c})
    BY FS_Subset
  <2>2. c \in T /\ Sum(T) = f[c] + Sum(T \ {c})
    BY <2>1, SumUnfolds
  <2>3. CASE x = c
    BY <2>2, <2>3
  <2>4. CASE x # c
    <3> HIDE DEF c
    <3>1. Sum(T \ {c}) = f[x] + Sum((T \ {c}) \ {x})
      BY <2>2, <2>4
    <3>2. Sum(T \ {x}) = f[c] + Sum((T \ {x}) \ {c})
      BY <2>2, <2>4
    <3>3. (T \ {c}) \ {x} = (T \ {x}) \ {c}
      OBVIOUS
    <3>4. Sum((T \ {x}) \ {c}) \in Int
      BY <2>1, SumIsInteger
    <3>5. f[x] \in Int /\ f[c] \in Int
      BY <2>2
    <3>6. f[c] + (f[x] + Sum((T \ {x}) \ {c})) = f[x] + (f[c] + Sum((T \ {x}) \ {c}))
      BY <3>4, <3>5
    <3>7. QED
      <4> HIDE DEF Sum
      <4>1. QED
        BY <2>2, <3>1, <3>2, <3>3, <3>6
  <2>5. QED
    BY <2>3, <2>4
<1>2. S \in C
  <2> HIDE DEF C
  <2>1. QED
    BY <1>1, SubsetInduction
<1>3. QED
  BY <1>2

LEMMA SumAdds ==
  ASSUME NEW f, NEW S, IsFiniteSet(S), NEW y, y \notin S,
         \A x \in S \cup {y} : f[x] \in Int
  PROVE  SumFunctionOnSet(f, S \cup {y}) = f[y] + SumFunctionOnSet(f, S)
<1>1. IsFiniteSet(S \cup {y}) /\ (S \cup {y}) \ {y} = S
  BY FS_AddElement
<1>2. QED
  BY <1>1, SumTakesOut

LEMMA SumAgrees ==
  ASSUME NEW S, IsFiniteSet(S), NEW f, NEW g, \A x \in S : f[x] = g[x]
  PROVE  SumFunctionOnSet(f, S) = SumFunctionOnSet(g, S)
<1> DEFINE C == {T \in SUBSET S : SumFunctionOnSet(f, T) = SumFunctionOnSet(g, T)}
<1>1. \A T \in SUBSET S : (\A U \in SUBSET T : U # T => U \in C) => T \in C
  <2> SUFFICES ASSUME NEW T \in SUBSET S, \A U \in SUBSET T : U # T => U \in C
               PROVE  SumFunctionOnSet(f, T) = SumFunctionOnSet(g, T)
    OBVIOUS
  <2>1. CASE T = {}
    BY <2>1, SumEmpty
  <2>2. CASE T # {}
    <3>1. IsFiniteSet(T)
      BY FS_Subset
    <3>2. /\ AnyOf(T) \in T
          /\ SumFunctionOnSet(f, T) = f[AnyOf(T)] + SumFunctionOnSet(f, T \ {AnyOf(T)})
          /\ SumFunctionOnSet(g, T) = g[AnyOf(T)] + SumFunctionOnSet(g, T \ {AnyOf(T)})
      BY <3>1, <2>2, SumUnfolds
    <3>3. T \ {AnyOf(T)} \in C
      BY <3>2
    <3>4. QED
      BY <3>2, <3>3
  <2>3. QED
    BY <2>1, <2>2
<1>2. S \in C
  <2> HIDE DEF C
  <2>1. QED
    BY <1>1, SubsetInduction
<1>3. QED
  BY <1>2

\* A sum over one element more, of a function that agrees on the others.
LEMMA SumGrows ==
  ASSUME NEW S, IsFiniteSet(S), NEW y, y \notin S, NEW f, NEW g,
         \A x \in S : f[x] \in Int /\ g[x] = f[x], g[y] \in Int
  PROVE  /\ SumFunctionOnSet(f, S) \in Int
         /\ SumFunctionOnSet(g, S \cup {y}) = SumFunctionOnSet(f, S) + g[y]
<1>1. SumFunctionOnSet(f, S) \in Int
  BY SumIsInteger
<1>2. SumFunctionOnSet(g, S) = SumFunctionOnSet(f, S)
  BY SumAgrees
<1>3. \A x \in S \cup {y} : g[x] \in Int
  OBVIOUS
<1>4. SumFunctionOnSet(g, S \cup {y}) = g[y] + SumFunctionOnSet(g, S)
  BY <1>3, SumAdds
<1>5. QED
  BY <1>1, <1>2, <1>4

\* Two functions that differ at one index only.
LEMMA SumChanges ==
  ASSUME NEW S, IsFiniteSet(S), NEW f, NEW g, NEW y \in S,
         \A x \in S : f[x] \in Int, g[y] \in Int,
         \A x \in S \ {y} : g[x] = f[x]
  PROVE  SumFunctionOnSet(g, S) = SumFunctionOnSet(f, S) - f[y] + g[y]
<1> DEFINE Sum(h, T) == SumFunctionOnSet(h, T)
<1>1. IsFiniteSet(S \ {y})
  BY FS_RemoveElement
<1>2. Sum(f, S) = f[y] + Sum(f, S \ {y})
  BY SumTakesOut
<1>3. Sum(g, S) = g[y] + Sum(g, S \ {y})
  BY SumTakesOut
<1>4. Sum(f, S \ {y}) = Sum(g, S \ {y})
  BY <1>1, SumAgrees
<1>5. Sum(f, S \ {y}) \in Int
  BY <1>1, SumIsInteger
<1> HIDE DEF Sum
<1>6. Sum(g, S) = Sum(f, S) - f[y] + g[y]
  BY <1>2, <1>3, <1>4, <1>5
<1>7. QED
  BY <1>6 DEF Sum

LEMMA SumPlus ==
  ASSUME NEW S, IsFiniteSet(S), NEW f, NEW g, NEW h,
         \A x \in S : f[x] \in Int /\ g[x] \in Int /\ h[x] = f[x] + g[x]
  PROVE  SumFunctionOnSet(h, S) = SumFunctionOnSet(f, S) + SumFunctionOnSet(g, S)
<1> DEFINE Sum(k, T) == SumFunctionOnSet(k, T)
           C == {T \in SUBSET S : Sum(h, T) = Sum(f, T) + Sum(g, T)}
<1>1. {} \in C
  BY SumEmpty
<1>2. \A T \in SUBSET S : \A x \in S \ T : T \in C => T \cup {x} \in C
  <2> SUFFICES ASSUME NEW T \in SUBSET S, NEW x \in S \ T, T \in C
               PROVE  Sum(h, T \cup {x}) = Sum(f, T \cup {x}) + Sum(g, T \cup {x})
    OBVIOUS
  <2>1. IsFiniteSet(T)
    BY FS_Subset
  <2>2. Sum(h, T \cup {x}) = h[x] + Sum(h, T)
    BY <2>1, SumAdds
  <2>3. Sum(f, T \cup {x}) = f[x] + Sum(f, T)
    BY <2>1, SumAdds
  <2>4. Sum(g, T \cup {x}) = g[x] + Sum(g, T)
    BY <2>1, SumAdds
  <2>5. Sum(h, T) = Sum(f, T) + Sum(g, T)
    OBVIOUS
  <2>6. Sum(f, T) \in Int /\ Sum(g, T) \in Int
    BY <2>1, SumIsInteger
  <2> HIDE DEF Sum
  <2>7. QED
    BY <2>2, <2>3, <2>4, <2>5, <2>6
<1>3. S \in C
  <2> HIDE DEF C
  <2>1. QED
    BY <1>1, <1>2, SetInduction
<1>4. QED
  BY <1>3

LEMMA SumOfZeros ==
  ASSUME NEW S, IsFiniteSet(S), NEW f, \A x \in S : f[x] = 0
  PROVE  SumFunctionOnSet(f, S) = 0
<1> DEFINE C == {T \in SUBSET S : SumFunctionOnSet(f, T) = 0}
<1>1. {} \in C
  BY SumEmpty
<1>2. \A T \in SUBSET S : \A x \in S \ T : T \in C => T \cup {x} \in C
  <2> SUFFICES ASSUME NEW T \in SUBSET S, NEW x \in S \ T, T \in C
               PROVE  SumFunctionOnSet(f, T \cup {x}) = 0
    OBVIOUS
  <2>1. SumFunctionOnSet(f, T \cup {x}) = f[x] + SumFunctionOnSet(f, T)
    BY FS_Subset, SumAdds
  <2>2. QED
    BY <2>1
<1>3. S \in C
  <2> HIDE DEF C
  <2>1. QED
    BY <1>1, <1>2, SetInduction
<1>4. QED
  BY <1>3

LEMMA SumIsMonotonic ==
  ASSUME NEW S, IsFiniteSet(S), NEW f, NEW g,
         \A x \in S : f[x] \in Int /\ g[x] \in Int /\ f[x] <= g[x]
  PROVE  SumFunctionOnSet(f, S) <= SumFunctionOnSet(g, S)
<1> DEFINE Sum(k, T) == SumFunctionOnSet(k, T)
           C == {T \in SUBSET S : Sum(f, T) <= Sum(g, T)}
<1>1. {} \in C
  BY SumEmpty
<1>2. \A T \in SUBSET S : \A x \in S \ T : T \in C => T \cup {x} \in C
  <2> SUFFICES ASSUME NEW T \in SUBSET S, NEW x \in S \ T, T \in C
               PROVE  Sum(f, T \cup {x}) <= Sum(g, T \cup {x})
    OBVIOUS
  <2>1. IsFiniteSet(T)
    BY FS_Subset
  <2>2. Sum(f, T \cup {x}) = f[x] + Sum(f, T)
    BY <2>1, SumAdds
  <2>3. Sum(g, T \cup {x}) = g[x] + Sum(g, T)
    BY <2>1, SumAdds
  <2>4. Sum(f, T) <= Sum(g, T)
    OBVIOUS
  <2>5. Sum(f, T) \in Int /\ Sum(g, T) \in Int
    BY <2>1, SumIsInteger
  <2> HIDE DEF Sum
  <2>6. QED
    BY <2>2, <2>3, <2>4, <2>5
<1>3. S \in C
  <2> HIDE DEF C
  <2>1. QED
    BY <1>1, <1>2, SetInduction
<1>4. QED
  BY <1>3

LEMMA SumIsNatural ==
  ASSUME NEW S, IsFiniteSet(S), NEW f, \A x \in S : f[x] \in Nat
  PROVE  SumFunctionOnSet(f, S) \in Nat
<1> DEFINE zero == [x \in S |-> 0]
<1>1. SumFunctionOnSet(zero, S) = 0
  BY SumOfZeros
<1>2. SumFunctionOnSet(zero, S) <= SumFunctionOnSet(f, S)
  BY SumIsMonotonic
<1>3. SumFunctionOnSet(f, S) \in Int
  BY SumIsInteger
<1> HIDE DEF zero
<1>4. QED
  BY <1>1, <1>2, <1>3

\* One amount of many is no more than all of them.
LEMMA SumBoundsElement ==
  ASSUME NEW S, IsFiniteSet(S), NEW f, \A x \in S : f[x] \in Nat, NEW y \in S
  PROVE  f[y] <= SumFunctionOnSet(f, S)
<1>1. SumFunctionOnSet(f, S) = f[y] + SumFunctionOnSet(f, S \ {y})
  BY SumTakesOut
<1>2. SumFunctionOnSet(f, S \ {y}) \in Nat
  BY FS_RemoveElement, SumIsNatural
<1>3. QED
  BY <1>1, <1>2

LEMMA SumSplits ==
  ASSUME NEW S, IsFiniteSet(S), NEW R, IsFiniteSet(R), S \cap R = {}, NEW f,
         \A x \in S \cup R : f[x] \in Int
  PROVE  SumFunctionOnSet(f, S \cup R) = SumFunctionOnSet(f, S) + SumFunctionOnSet(f, R)
<1> DEFINE Sum(T) == SumFunctionOnSet(f, T)
           C == {T \in SUBSET R : Sum(S \cup T) = Sum(S) + Sum(T)}
<1>0. Sum(S) \in Int
  BY SumIsInteger
<1>1. {} \in C
  <2>1. S \cup {} = S /\ Sum({}) = 0
    BY SumEmpty
  <2>2. Sum(S \cup {}) = Sum(S) + Sum({})
    <3> HIDE DEF Sum
    <3>1. QED
      BY <1>0, <2>1
  <2>3. QED
    BY <2>2
<1>2. \A T \in SUBSET R : \A x \in R \ T : T \in C => T \cup {x} \in C
  <2> SUFFICES ASSUME NEW T \in SUBSET R, NEW x \in R \ T, T \in C
               PROVE  Sum(S \cup (T \cup {x})) = Sum(S) + Sum(T \cup {x})
    OBVIOUS
  <2>1. IsFiniteSet(T) /\ IsFiniteSet(S \cup T)
    BY FS_Subset, FS_Union
  <2>2. S \cup (T \cup {x}) = (S \cup T) \cup {x} /\ x \notin S \cup T
    OBVIOUS
  <2>3. Sum((S \cup T) \cup {x}) = f[x] + Sum(S \cup T)
    BY <2>1, <2>2, SumAdds
  <2>4. Sum(T \cup {x}) = f[x] + Sum(T)
    BY <2>1, SumAdds
  <2>5. Sum(S \cup T) = Sum(S) + Sum(T)
    OBVIOUS
  <2>6. Sum(T) \in Int /\ f[x] \in Int
    BY <2>1, SumIsInteger
  <2>7. Sum(S \cup (T \cup {x})) = f[x] + Sum(S \cup T)
    BY <2>2, <2>3
  <2> HIDE DEF Sum, C
  <2>8. f[x] + (Sum(S) + Sum(T)) = Sum(S) + (f[x] + Sum(T))
    BY <1>0, <2>6
  <2>9. QED
    BY <2>4, <2>5, <2>7, <2>8
<1>3. R \in C
  <2> HIDE DEF C
  <2>1. QED
    BY <1>1, <1>2, SetInduction
<1>4. QED
  BY <1>3

\* Two sums that differ only in zeros.
LEMMA SumIgnoresZeros ==
  ASSUME NEW S, IsFiniteSet(S), NEW R, IsFiniteSet(R), NEW f, NEW g,
         \A x \in S \cap R : f[x] \in Int /\ g[x] = f[x],
         \A x \in S \ R : f[x] = 0, \A x \in R \ S : g[x] = 0
  PROVE  SumFunctionOnSet(f, S) = SumFunctionOnSet(g, R)
<1> DEFINE B == S \cap R
<1>1. /\ IsFiniteSet(B) /\ IsFiniteSet(S \ R) /\ IsFiniteSet(R \ S)
  BY FS_Subset
<1>2. SumFunctionOnSet(f, B) = SumFunctionOnSet(g, B) /\ SumFunctionOnSet(f, B) \in Int
  <2>1. \A x \in B : f[x] = g[x] /\ f[x] \in Int
    OBVIOUS
  <2> HIDE DEF B
  <2>2. QED
    BY <1>1, <2>1, SumAgrees, SumIsInteger
<1>3. SumFunctionOnSet(f, S \ R) = 0 /\ SumFunctionOnSet(g, R \ S) = 0
  BY <1>1, SumOfZeros
<1>4. SumFunctionOnSet(f, B \cup (S \ R)) = SumFunctionOnSet(f, B) + SumFunctionOnSet(f, S \ R)
  <2>1. B \cap (S \ R) = {} /\ \A x \in B \cup (S \ R) : f[x] \in Int
    OBVIOUS
  <2> HIDE DEF B
  <2>2. QED
    BY <1>1, <2>1, SumSplits
<1>5. SumFunctionOnSet(g, B \cup (R \ S)) = SumFunctionOnSet(g, B) + SumFunctionOnSet(g, R \ S)
  <2>1. B \cap (R \ S) = {} /\ \A x \in B \cup (R \ S) : g[x] \in Int
    OBVIOUS
  <2> HIDE DEF B
  <2>2. QED
    BY <1>1, <2>1, SumSplits
<1>6. B \cup (S \ R) = S /\ B \cup (R \ S) = R
  OBVIOUS
<1> HIDE DEF B
<1>7. QED
  BY <1>2, <1>3, <1>4, <1>5, <1>6

\* Renaming the indices one to one.
LEMMA SumReindexes ==
  ASSUME NEW S, IsFiniteSet(S), NEW f, NEW g, NEW m,
         \A x, y \in S : m[x] = m[y] => x = y,
         \A x \in S : g[m[x]] \in Int /\ f[x] = g[m[x]]
  PROVE  SumFunctionOnSet(f, S) = SumFunctionOnSet(g, {m[x] : x \in S})
<1> DEFINE image(T) == {m[x] : x \in T}
           C == {T \in SUBSET S : /\ IsFiniteSet(image(T))
                                  /\ SumFunctionOnSet(f, T) = SumFunctionOnSet(g, image(T))}
<1>1. {} \in C
  <2>1. image({}) = {}
    OBVIOUS
  <2>2. QED
    BY <2>1, SumEmpty, FS_EmptySet
<1>2. \A T \in SUBSET S : \A x \in S \ T : T \in C => T \cup {x} \in C
  <2> SUFFICES ASSUME NEW T \in SUBSET S, NEW x \in S \ T, T \in C
               PROVE  T \cup {x} \in C
    OBVIOUS
  <2>1. image(T \cup {x}) = image(T) \cup {m[x]}
    OBVIOUS
  <2>2. m[x] \notin image(T)
    OBVIOUS
  <2>3. IsFiniteSet(T) /\ IsFiniteSet(image(T))
    BY FS_Subset
  <2>4. \A z \in image(T) \cup {m[x]} : g[z] \in Int
    OBVIOUS
  <2>5. SumFunctionOnSet(f, T \cup {x}) = f[x] + SumFunctionOnSet(f, T)
    BY <2>3, SumAdds
  <2>6. SumFunctionOnSet(g, image(T) \cup {m[x]}) = g[m[x]] + SumFunctionOnSet(g, image(T))
    <3> HIDE DEF image
    <3>1. QED
      BY <2>2, <2>3, <2>4, SumAdds
  <2>7. IsFiniteSet(image(T) \cup {m[x]})
    <3> HIDE DEF image
    <3>1. QED
      BY <2>3, FS_AddElement
  <2>8. SumFunctionOnSet(f, T) = SumFunctionOnSet(g, image(T)) /\ f[x] = g[m[x]]
    OBVIOUS
  <2>9. /\ IsFiniteSet(image(T \cup {x}))
        /\ SumFunctionOnSet(f, T \cup {x}) = SumFunctionOnSet(g, image(T \cup {x}))
    <3> HIDE DEF image
    <3>1. QED
      BY <2>1, <2>5, <2>6, <2>7, <2>8
  <2>10. QED
    BY <2>9
<1>3. S \in C
  <2> HIDE DEF C
  <2>1. QED
    BY <1>1, <1>2, SetInduction
<1>4. QED
  BY <1>3

-----------------------------------------------------------------------------
(* Sums over the first numbers                                             *)

LEMMA SumOfConstant ==
  ASSUME NEW n \in Nat, NEW w \in Int
  PROVE  SumFunctionOnSet([i \in 1..n |-> w], 1..n) = n * w
<1> DEFINE f(k) == [i \in 1..k |-> w]
           C == {k \in Nat : SumFunctionOnSet(f(k), 1..k) = k * w}
<1>1. 0 \in C
  <2> DEFINE g == f(0)
  <2>1. 1..0 = {} /\ 0 * w = 0
    OBVIOUS
  <2> HIDE DEF g
  <2>2. SumFunctionOnSet(g, {}) = 0
    BY SumEmpty
  <2>3. QED
    BY <2>1, <2>2 DEF g
<1>2. \A k \in Nat : k \in C => k + 1 \in C
  <2> SUFFICES ASSUME NEW k \in Nat, k \in C
               PROVE  SumFunctionOnSet(f(k + 1), 1..(k + 1)) = (k + 1) * w
    OBVIOUS
  <2> DEFINE y == k + 1
             P == 1..k
             g == f(k)
             h == f(y)
  <2>1. 1..y = P \cup {y} /\ y \notin P
    OBVIOUS
  <2>2. IsFiniteSet(P)
    BY FS_Interval
  <2>3. (\A i \in P : g[i] \in Int /\ h[i] = g[i]) /\ h[y] \in Int /\ h[y] = w
    <3> HIDE DEF y
    <3>1. QED
      BY <2>1
  <2>4. SumFunctionOnSet(g, P) = k * w
    OBVIOUS
  <2> HIDE DEF g, h, y, P, C, f
  <2>5. SumFunctionOnSet(h, P \cup {y}) = SumFunctionOnSet(g, P) + h[y]
    <3>1. \A i \in P : g[i] \in Int /\ h[i] = g[i]
      BY <2>3
    <3>2. h[y] \in Int
      BY <2>3
    <3>3. IsFiniteSet(P) /\ y \notin P
      BY <2>1, <2>2
    <3>4. QED
      BY <3>1, <3>2, <3>3, SumGrows
  <2>6. SumFunctionOnSet(h, P \cup {y}) = k * w + w
    BY <2>3, <2>4, <2>5
  <2>7. k * w + w = (k + 1) * w
    OBVIOUS
  <2>8. QED
    BY <2>1, <2>6, <2>7 DEF h, y, f
<1>3. n \in C
  <2> HIDE DEF C
  <2>1. QED
    BY <1>1, <1>2, CountingUp
<1>4. QED
  BY <1>3

\* Shares rounded down: what n shares miss of p/d of their whole, if each one
\* misses less than w/d.
LEMMA SumOfShares ==
  ASSUME NEW n \in Nat, NEW part, NEW share, NEW p \in Int, NEW d \in Int, NEW w \in Int,
         \A i \in 1..n : /\ part[i] \in Int /\ share[i] \in Int
                         /\ 0 <= p * part[i] - d * share[i]
                         /\ p * part[i] - d * share[i] <= w
  PROVE  /\ SumFunctionOnSet(part, 1..n) \in Int /\ SumFunctionOnSet(share, 1..n) \in Int
         /\ 0 <= p * SumFunctionOnSet(part, 1..n) - d * SumFunctionOnSet(share, 1..n)
         /\ p * SumFunctionOnSet(part, 1..n) - d * SumFunctionOnSet(share, 1..n) <= n * w
<1> DEFINE A(k) == SumFunctionOnSet(part, 1..k)
           B(k) == SumFunctionOnSet(share, 1..k)
           Good(k, a, b) == a \in Int /\ b \in Int /\ 0 <= p * a - d * b /\ p * a - d * b <= k * w
           C == {k \in Nat : k <= n => Good(k, A(k), B(k))}
<1>1. 0 \in C
  <2>1. A(0) = 0 /\ B(0) = 0
    <3>1. 1..0 = {}
      OBVIOUS
    <3>2. QED
      BY <3>1, SumEmpty
  <2> HIDE DEF A, B
  <2>2. Good(0, 0, 0)
    OBVIOUS
  <2>3. QED
    BY <2>1, <2>2
<1>2. \A k \in Nat : k \in C => k + 1 \in C
  <2> SUFFICES ASSUME NEW k \in Nat, k \in C, k + 1 <= n
               PROVE  Good(k + 1, A(k + 1), B(k + 1))
    OBVIOUS
  <2> DEFINE y == k + 1
             P == 1..k
             a == A(k)
             b == B(k)
             x == part[y]
             z == share[y]
  <2>1. 1..y = P \cup {y} /\ y \notin P /\ y \in 1..n /\ P \subseteq 1..n
    OBVIOUS
  <2>2. IsFiniteSet(P)
    BY FS_Interval
  <2>3. /\ x \in Int /\ z \in Int /\ 0 <= p * x - d * z /\ p * x - d * z <= w
    <3> HIDE DEF y
    <3>1. QED
      BY <2>1
  <2>4. Good(k, a, b)
    OBVIOUS
  <2>5. \A i \in P \cup {y} : part[i] \in Int /\ share[i] \in Int
    BY <2>1
  <2> HIDE DEF P, y
  <2>6. /\ SumFunctionOnSet(part, P \cup {y}) = part[y] + SumFunctionOnSet(part, P)
        /\ SumFunctionOnSet(share, P \cup {y}) = share[y] + SumFunctionOnSet(share, P)
    BY <2>1, <2>2, <2>5, SumAdds
  <2>7. A(y) = x + a /\ B(y) = z + b
    BY <2>1, <2>6 DEF P
  <2> HIDE DEF a, b, A, B, x, z
  <2>8. Good(k + 1, x + a, z + b)
    <3>1. /\ p * (x + a) = p * x + p * a /\ d * (z + b) = d * z + d * b
          /\ (k + 1) * w = k * w + w
      BY <2>3, <2>4
    <3> DEFINE px == p * x
               dz == d * z
               pa == p * a
               db == d * b
               kw == k * w
    <3>2. px \in Int /\ dz \in Int /\ pa \in Int /\ db \in Int /\ kw \in Int
      BY <2>3, <2>4
    <3>3. 0 <= px - dz /\ px - dz <= w /\ 0 <= pa - db /\ pa - db <= kw
      BY <2>3, <2>4
    <3>4. p * (x + a) = px + pa /\ d * (z + b) = dz + db /\ (k + 1) * w = kw + w
      BY <3>1
    <3> HIDE DEF px, dz, pa, db, kw
    <3>5. 0 <= (px + pa) - (dz + db) /\ (px + pa) - (dz + db) <= kw + w
      BY <3>2, <3>3
    <3>6. x + a \in Int /\ z + b \in Int
      BY <2>3, <2>4
    <3>7. QED
      BY <3>4, <3>5, <3>6
  <2>9. QED
    BY <2>7, <2>8 DEF y
<1>3. n \in C
  <2> HIDE DEF C
  <2>1. QED
    BY <1>1, <1>2, CountingUp
<1>4. QED
  BY <1>3

\* The sum over what was there and t more.
\* g on R goes on where f on S ends: R adds n+1..n+t, with the values of h.
Continues(n, t, S, R, f, g, h) ==
  /\ n \in Nat /\ t \in Nat
  /\ S \subseteq 1..n /\ R = S \cup ((n + 1)..(n + t))
  /\ \A x \in S : f[x] \in Int /\ g[x] = f[x]
  /\ \A i \in 1..t : h[i] \in Int /\ g[n + i] = h[i]

LEMMA SumAppends ==
  ASSUME NEW n, NEW t, NEW S, NEW R, NEW f, NEW g, NEW h, Continues(n, t, S, R, f, g, h)
  PROVE  /\ SumFunctionOnSet(f, S) \in Int /\ SumFunctionOnSet(h, 1..t) \in Int
         /\ SumFunctionOnSet(g, R) = SumFunctionOnSet(f, S) + SumFunctionOnSet(h, 1..t)
<1> USE DEF Continues
<1> DEFINE I == 1..t
           m == [i \in I |-> n + i]
           T == {m[i] : i \in I}
<1>1. IsFiniteSet(S) /\ IsFiniteSet(I)
  <2>1. IsFiniteSet(1..n) /\ IsFiniteSet(I)
    BY FS_Interval
  <2> HIDE DEF I
  <2>2. QED
    BY <2>1, FS_Subset
<1>2. T = (n + 1)..(n + t) /\ R = S \cup T
  <2>1. \A x \in (n + 1)..(n + t) : x - n \in I /\ x = m[x - n]
    OBVIOUS
  <2>2. \A i \in I : m[i] \in (n + 1)..(n + t)
    OBVIOUS
  <2> HIDE DEF m, I
  <2>3. QED
    BY <2>1, <2>2
<1>3. IsFiniteSet(T) /\ S \cap T = {}
  <2>1. IsFiniteSet((n + 1)..(n + t))
    BY FS_Interval
  <2>2. S \cap ((n + 1)..(n + t)) = {}
    OBVIOUS
  <2> HIDE DEF T
  <2>3. QED
    BY <1>2, <2>1, <2>2
<1>4. (\A x, y \in I : m[x] = m[y] => x = y) /\ (\A i \in I : g[m[i]] \in Int /\ h[i] = g[m[i]])
  OBVIOUS
<1>5. \A i \in I : h[i] \in Int
  OBVIOUS
<1>6. \A x \in T : g[x] \in Int
  BY <1>4
<1> HIDE DEF m, I
<1>7. SumFunctionOnSet(h, I) = SumFunctionOnSet(g, T)
  BY <1>1, <1>4, SumReindexes
<1> HIDE DEF T
<1>8. SumFunctionOnSet(f, S) = SumFunctionOnSet(g, S)
  BY <1>1, SumAgrees
<1>9. \A x \in S \cup T : g[x] \in Int
  BY <1>6
<1>10. SumFunctionOnSet(g, S \cup T) = SumFunctionOnSet(g, S) + SumFunctionOnSet(g, T)
  BY <1>1, <1>3, <1>9, SumSplits
<1>11. SumFunctionOnSet(f, S) \in Int /\ SumFunctionOnSet(h, I) \in Int
  BY <1>1, <1>5, SumIsInteger
<1>12. QED
  BY <1>2, <1>7, <1>8, <1>10, <1>11 DEF I
-----------------------------------------------------------------------------
(* The recursion behind folds over sequences                               *)

LEMMA MaxIsMember ==
  ASSUME NEW S, S \in SUBSET Int, IsFiniteSet(S), S # {}
  PROVE  Max(S) \in S
<1>1. \E x \in S : \A y \in S : x >= y
  <2> DEFINE C == {T \in SUBSET S : T # {} => \E x \in T : \A y \in T : x >= y}
  <2>1. {} \in C
    OBVIOUS
  <2>2. \A T \in SUBSET S : \A x \in S \ T : T \in C => T \cup {x} \in C
    <3> SUFFICES ASSUME NEW T \in SUBSET S, NEW x \in S \ T, T \in C,
                        T # {}
                 PROVE  \E z \in T \cup {x} : \A y \in T \cup {x} : z >= y
      OBVIOUS
    <3>1. PICK z \in T : \A y \in T : z >= y
      OBVIOUS
    <3>2. CASE z >= x
      BY <3>1, <3>2
    <3>3. CASE ~(z >= x)
      <4>1. x \in Int /\ z \in Int /\ \A y \in T : y \in Int
        OBVIOUS
      <4>2. x >= x /\ \A y \in T : x >= y
        BY <3>1, <3>3, <4>1
      <4>3. QED
        BY <4>2
    <3>4. QED
      BY <3>2, <3>3
  <2>3. S \in C
    <3> HIDE DEF C
    <3>1. QED
      BY <2>1, <2>2, SetInduction
  <2>4. QED
    BY <2>3
<1>2. QED
  BY <1>1 DEF Max

\* One step of a fold: the newest index, and what iter says of the rest.
FoldStep(next, base, s, iter) ==
  IF s = {} THEN base ELSE next[Max(s)][iter[s \ {Max(s)}]]

IsFoldIter(N, V, next, base, iter) ==
  /\ iter \in [SUBSET N -> V]
  /\ \A s \in SUBSET N : iter[s] = FoldStep(next, base, s, iter)

\* The recursion is defined on every finite set of indexes.
LEMMA FoldIterExists ==
  ASSUME NEW N \in SUBSET Int, IsFiniteSet(N), NEW V, NEW base \in V,
         NEW next \in [N -> [V -> V]]
  PROVE  \E iter : IsFoldIter(N, V, next, base, iter)
<1> DEFINE small(n) == {s \in SUBSET N : Cardinality(s) <= n}
           Good(n, iter) == /\ iter \in [small(n) -> V]
                            /\ \A s \in small(n) : iter[s] = FoldStep(next, base, s, iter)
           C == {n \in Nat : \E iter : Good(n, iter)}
<1>0. \A s \in SUBSET N : IsFiniteSet(s) /\ Cardinality(s) \in Nat
  BY FS_Subset, FS_CardinalityType
<1>1. 0 \in C
  <2>1. \A s \in small(0) : s = {}
    BY <1>0, FS_EmptySet
  <2> DEFINE iter == [s \in small(0) |-> base]
  <2>2. Good(0, iter)
    <3> HIDE DEF small
    <3>1. QED
      BY <2>1 DEF FoldStep
  <2>3. QED
    BY <2>2
<1>2. \A n \in Nat : n \in C => n + 1 \in C
  <2> SUFFICES ASSUME NEW n \in Nat, n \in C PROVE n + 1 \in C
    OBVIOUS
  <2>1. PICK iter : Good(n, iter)
    OBVIOUS
  <2> DEFINE more == [s \in small(n + 1) |-> FoldStep(next, base, s, iter)]
  <2>2. \A s \in small(n + 1) : s # {} => Max(s) \in N /\ s \ {Max(s)} \in small(n)
    <3> SUFFICES ASSUME NEW s \in small(n + 1), s # {}
                 PROVE  Max(s) \in N /\ s \ {Max(s)} \in small(n)
      OBVIOUS
    <3>1. Max(s) \in s
      <4>1. s \in SUBSET Int /\ IsFiniteSet(s)
        BY <1>0
      <4>2. QED
        BY <4>1, MaxIsMember
    <3>2. Cardinality(s \ {Max(s)}) = Cardinality(s) - 1
      BY <3>1, <1>0, FS_RemoveElement
    <3>3. s \in SUBSET N /\ Cardinality(s) <= n + 1
      OBVIOUS
    <3>4. Cardinality(s \ {Max(s)}) <= n
      BY <1>0, <3>2, <3>3
    <3>5. s \ {Max(s)} \in SUBSET N /\ Max(s) \in N
      BY <3>1, <3>3
    <3>6. QED
      BY <3>4, <3>5
  <2>3. \A s \in small(n) : s \in small(n + 1) /\ more[s] = iter[s]
    <3>1. \A s \in small(n) : s \in small(n + 1)
      BY <1>0
    <3> HIDE DEF small
    <3>2. QED
      BY <3>1, <2>1
  <2>4. \A s \in small(n + 1) : FoldStep(next, base, s, iter) = FoldStep(next, base, s, more)
    <3> HIDE DEF more, small
    <3>1. QED
      BY <2>2, <2>3 DEF FoldStep
  <2>5. \A s \in small(n + 1) : FoldStep(next, base, s, iter) \in V
    <3> SUFFICES ASSUME NEW s \in small(n + 1), s # {}
                 PROVE  next[Max(s)][iter[s \ {Max(s)}]] \in V
      BY DEF FoldStep
    <3>1. Max(s) \in N /\ s \ {Max(s)} \in small(n)
      BY <2>2
    <3> HIDE DEF small
    <3>2. QED
      BY <2>1, <3>1, ZenonT(30)
  <2>6. Good(n + 1, more)
    <3> HIDE DEF small
    <3>1. more \in [small(n + 1) -> V]
      BY <2>5
    <3>2. \A s \in small(n + 1) : more[s] = FoldStep(next, base, s, more)
      BY <2>4
    <3>3. QED
      BY <3>1, <3>2
  <2>7. QED
    <3> HIDE DEF Good, more
    <3>1. QED
      BY <2>6
<1>3. Cardinality(N) \in C
  <2> HIDE DEF C
  <2>1. QED
    BY <1>0, <1>1, <1>2, CountingUp
<1>4. small(Cardinality(N)) = SUBSET N
  BY <1>0, FS_Subset
<1>5. QED
  <2> HIDE DEF small
  <2>1. QED
    BY <1>3, <1>4 DEF IsFoldIter

\* The sets of the first indexes of a sequence.
LEMMA FirstIndexes ==
  ASSUME NEW n \in Nat, NEW k \in 1..n
  PROVE  /\ 1..k \in SUBSET (1..n) /\ 1..k # {} /\ Max(1..k) = k
         /\ (1..k) \ {k} = 1..(k - 1)
<1>1. k \in Nat /\ k # 0 /\ k \in 1..k /\ \A i \in 1..k : i \in 1..n
  OBVIOUS
<1>2. Max(1..k) = k
  <2>1. k \in 1..k /\ \A y \in 1..k : k >= y
    BY <1>1
  <2>2. \A x \in 1..k : (\A y \in 1..k : x >= y) => x = k
    BY <1>1
  <2>3. QED
    BY <2>1, <2>2 DEF Max
<1>3. (1..k) \ {k} = 1..(k - 1)
  BY <1>1
<1>4. QED
  BY <1>1, <1>2, <1>3

-----------------------------------------------------------------------------
(* The recursion behind Keep                                               *)

KeepStep(seq, wanted, s, iter) ==
  IF s = {} THEN <<>>
  ELSE IF seq[Max(s)] \in wanted THEN Append(iter[s \ {Max(s)}], seq[Max(s)])
       ELSE iter[s \ {Max(s)}]

KeepIter(seq, wanted) ==
  CHOOSE iter : iter = [s \in SUBSET DOMAIN seq |-> KeepStep(seq, wanted, s, iter)]

LEMMA KeepIsIter ==
  \A seq, wanted : Keep(seq, wanted) = KeepIter(seq, wanted)[DOMAIN seq]
BY DEF Keep, FoldLeft, MapThenFoldSet, KeepIter, KeepStep

\* The recursion is defined for every sequence.
LEMMA KeepIterExists ==
  ASSUME NEW S, NEW seq \in Seq(S), NEW wanted
  PROVE  \E iter : iter = [s \in SUBSET DOMAIN seq |-> KeepStep(seq, wanted, s, iter)]
<1> DEFINE N == DOMAIN seq
           next == [i \in N |-> [v \in Seq(S) |-> IF seq[i] \in wanted THEN Append(v, seq[i])
                                                   ELSE v]]
<1>1. N = 1..Len(seq) /\ Len(seq) \in Nat
  BY LenProperties
<1>2. N \in SUBSET Int /\ IsFiniteSet(N)
  BY <1>1, FS_Interval
<1>3. next \in [N -> [Seq(S) -> Seq(S)]]
  <2>1. \A i \in N : seq[i] \in S
    BY <1>1, ElementOfSeq
  <2> HIDE DEF N
  <2>2. \A i \in N : \A v \in Seq(S) : Append(v, seq[i]) \in Seq(S)
    BY <2>1
  <2>3. QED
    BY <2>2
<1>4. <<>> \in Seq(S)
  OBVIOUS
<1> HIDE DEF next, N
<1>5. PICK iter : IsFoldIter(N, Seq(S), next, <<>>, iter)
  BY <1>2, <1>3, <1>4, FoldIterExists
<1>6. ASSUME NEW s \in SUBSET N PROVE iter[s] = KeepStep(seq, wanted, s, iter)
  <2>1. CASE s = {}
    BY <1>5, <2>1 DEF IsFoldIter, FoldStep, KeepStep
  <2>2. CASE s # {}
    <3>1. Max(s) \in N
      <4>1. s \in SUBSET Int /\ IsFiniteSet(s)
        BY <1>2, FS_Subset
      <4>2. QED
        BY <2>2, <4>1, MaxIsMember
    <3>2. iter[s \ {Max(s)}] \in Seq(S)
      BY <1>5 DEF IsFoldIter
    <3>3. next[Max(s)][iter[s \ {Max(s)}]]
          = IF seq[Max(s)] \in wanted THEN Append(iter[s \ {Max(s)}], seq[Max(s)])
            ELSE iter[s \ {Max(s)}]
      BY <3>1, <3>2 DEF next
    <3>4. QED
      BY <1>5, <2>2, <3>3 DEF IsFoldIter, FoldStep, KeepStep
  <2>3. QED
    BY <2>1, <2>2
<1>7. iter = [s \in SUBSET N |-> KeepStep(seq, wanted, s, iter)]
  BY <1>5, <1>6 DEF IsFoldIter
<1>8. QED
  BY <1>7 DEF N

\* Keep, one element at a time: upTo[k] is what is kept of the first k.
Keeps(seq, wanted, upTo) ==
  /\ upTo[0] = <<>>
  /\ \A k \in 1..Len(seq) :
       upTo[k] = IF seq[k] \in wanted THEN Append(upTo[k - 1], seq[k]) ELSE upTo[k - 1]
  /\ Keep(seq, wanted) = upTo[Len(seq)]

LEMMA KeepOneByOne ==
  ASSUME NEW S, NEW seq \in Seq(S), NEW wanted
  PROVE  \E upTo : Keeps(seq, wanted, upTo)
<1> DEFINE N == DOMAIN seq
           iter == KeepIter(seq, wanted)
           upTo == [k \in 0..Len(seq) |-> iter[1..k]]
<1>1. Len(seq) \in Nat /\ N = 1..Len(seq)
  BY LenProperties
<1>2. iter = [s \in SUBSET N |-> KeepStep(seq, wanted, s, iter)]
  BY KeepIterExists DEF KeepIter
<1> HIDE DEF iter
<1>3. \A s \in SUBSET N : iter[s] = KeepStep(seq, wanted, s, iter)
  <2> HIDE DEF N
  <2>1. QED
    BY <1>2
<1>4. upTo[0] = <<>>
  <2>1. 1..0 = {} /\ {} \in SUBSET N
    OBVIOUS
  <2>2. iter[{}] = <<>>
    BY <1>3, <2>1 DEF KeepStep
  <2>3. QED
    BY <1>1, <2>1, <2>2
<1>5. ASSUME NEW k \in 1..Len(seq)
      PROVE  upTo[k] = IF seq[k] \in wanted THEN Append(upTo[k - 1], seq[k]) ELSE upTo[k - 1]
  <2>1. k \in 0..Len(seq) /\ k - 1 \in 0..Len(seq)
    BY <1>1
  <2>2. /\ 1..k \in SUBSET N /\ 1..k # {} /\ Max(1..k) = k
        /\ (1..k) \ {k} = 1..(k - 1)
    BY <1>1, FirstIndexes
  <2>3. iter[1..k] = IF seq[k] \in wanted THEN Append(iter[1..(k - 1)], seq[k]) ELSE iter[1..(k - 1)]
    <3> HIDE DEF N
    <3>1. iter[1..k] = KeepStep(seq, wanted, 1..k, iter)
      BY <1>3, <2>2
    <3>2. QED
      BY <3>1, <2>2 DEF KeepStep
  <2>4. QED
    BY <2>1, <2>3
<1>6. Keep(seq, wanted) = upTo[Len(seq)]
  BY <1>1, KeepIsIter DEF iter
<1>7. Keeps(seq, wanted, upTo)
  <2> HIDE DEF upTo
  <2>1. QED
    BY <1>4, <1>5, <1>6 DEF Keeps
<1>8. QED
  BY <1>7

\* Nothing is dropped of a sequence whose elements are all wanted.
LEMMA KeepAll ==
  ASSUME NEW S, NEW seq \in Seq(S), NEW wanted, \A i \in DOMAIN seq : seq[i] \in wanted
  PROVE  Keep(seq, wanted) = seq
<1>1. Len(seq) \in Nat /\ DOMAIN seq = 1..Len(seq)
  BY LenProperties
<1>2. PICK upTo : Keeps(seq, wanted, upTo)
  BY KeepOneByOne
<1> DEFINE C == {k \in Nat : k <= Len(seq) => upTo[k] = SubSeq(seq, 1, k)}
<1>3. 0 \in C
  <2>1. SubSeq(seq, 1, 0) = <<>>
    BY SubSeqEmpty
  <2>2. QED
    BY <1>2, <2>1 DEF Keeps
<1>4. \A n \in Nat : n \in C => n + 1 \in C
  <2> SUFFICES ASSUME NEW n \in Nat, n \in C, n + 1 <= Len(seq)
               PROVE  upTo[n + 1] = SubSeq(seq, 1, n + 1)
    OBVIOUS
  <2>1. n <= Len(seq) /\ n + 1 \in 1..Len(seq) /\ (n + 1) - 1 = n
    BY <1>1
  <2>2. upTo[n] = SubSeq(seq, 1, n)
    BY <2>1
  <2>3. upTo[n + 1] = Append(upTo[n], seq[n + 1])
    BY <1>1, <1>2, <2>1 DEF Keeps
  <2>4. SubSeq(seq, 1, n + 1) = SubSeq(seq, 1, n) \o <<seq[n + 1]>>
    <3>1. 1 \in 1..Len(seq) /\ n + 1 \in 1..Len(seq)
      BY <2>1
    <3>2. QED
      BY <2>1, <3>1, SubSeqRecursiveSecond
  <2>5. seq[n + 1] \in S
    BY <2>1, ElementOfSeq
  <2>6. SubSeq(seq, 1, n) \in Seq(S)
    <3>1. \A i \in 1..n : seq[i] \in S
      BY <1>1, <2>1, ElementOfSeq
    <3>2. QED
      BY <3>1, SubSeqProperties
  <2>7. Append(SubSeq(seq, 1, n), seq[n + 1]) = SubSeq(seq, 1, n) \o <<seq[n + 1]>>
    BY <2>5, <2>6, AppendIsConcat
  <2>8. QED
    BY <2>2, <2>3, <2>4, <2>7
<1>5. Len(seq) \in C
  <2> HIDE DEF C
  <2>1. QED
    BY <1>1, <1>3, <1>4, CountingUp
<1>6. QED
  BY <1>1, <1>2, <1>5, SubSeqFull DEF Keeps

LEMMA AppendedRange ==
  ASSUME NEW S, NEW seq \in Seq(S), NEW x \in S
  PROVE  ToSet(Append(seq, x)) = ToSet(seq) \cup {x}
<1>1. /\ Len(seq) \in Nat /\ DOMAIN seq = 1..Len(seq)
      /\ DOMAIN Append(seq, x) = 1..(Len(seq) + 1)
      /\ \A i \in 1..Len(seq) : Append(seq, x)[i] = seq[i]
      /\ Append(seq, x)[Len(seq) + 1] = x
  BY LenProperties, AppendProperties
<1>2. 1..(Len(seq) + 1) = (1..Len(seq)) \cup {Len(seq) + 1}
  BY <1>1
<1>3. QED
  BY <1>1, <1>2 DEF ToSet

\* What is kept of a sequence is a sequence of its wanted elements.
LEMMA KeepKeeps ==
  ASSUME NEW S, NEW seq \in Seq(S), NEW wanted
  PROVE  /\ Keep(seq, wanted) \in Seq(S)
         /\ ToSet(Keep(seq, wanted)) = ToSet(seq) \cap wanted
<1>0. Len(seq) \in Nat /\ DOMAIN seq = 1..Len(seq) /\ \A i \in 1..Len(seq) : seq[i] \in S
  BY LenProperties, ElementOfSeq
<1>1. PICK upTo : Keeps(seq, wanted, upTo)
  BY KeepOneByOne
<1> DEFINE first(k) == {seq[i] : i \in 1..k}
           C == {k \in Nat : k <= Len(seq) =>
                  upTo[k] \in Seq(S) /\ ToSet(upTo[k]) = first(k) \cap wanted}
<1>2. 0 \in C
  <2>1. upTo[0] = <<>>
    BY <1>1 DEF Keeps
  <2>2. ToSet(<<>>) = {} /\ first(0) = {}
    BY DEF ToSet
  <2>3. <<>> \in Seq(S)
    OBVIOUS
  <2> HIDE DEF first
  <2>4. QED
    BY <2>1, <2>2, <2>3
<1>3. \A n \in Nat : n \in C => n + 1 \in C
  <2> SUFFICES ASSUME NEW n \in Nat, n \in C, n + 1 <= Len(seq)
               PROVE  /\ upTo[n + 1] \in Seq(S)
                      /\ ToSet(upTo[n + 1]) = first(n + 1) \cap wanted
    OBVIOUS
  <2>1. n <= Len(seq) /\ n + 1 \in 1..Len(seq) /\ (n + 1) - 1 = n
    BY <1>0
  <2>2. upTo[n] \in Seq(S) /\ ToSet(upTo[n]) = first(n) \cap wanted
    BY <2>1
  <2>3. first(n + 1) = first(n) \cup {seq[n + 1]}
    <3>1. 1..(n + 1) = (1..n) \cup {n + 1}
      OBVIOUS
    <3>2. QED
      BY <3>1
  <2> HIDE DEF first
  <2>4. upTo[n + 1] = IF seq[n + 1] \in wanted THEN Append(upTo[n], seq[n + 1]) ELSE upTo[n]
    BY <1>1, <2>1 DEF Keeps
  <2>5. CASE seq[n + 1] \in wanted
    <3>1. seq[n + 1] \in S
      BY <1>0, <2>1
    <3>2. Append(upTo[n], seq[n + 1]) \in Seq(S)
      BY <2>2, <3>1
    <3>3. ToSet(Append(upTo[n], seq[n + 1])) = ToSet(upTo[n]) \cup {seq[n + 1]}
      BY <2>2, <3>1, AppendedRange
    <3>4. QED
      BY <2>2, <2>3, <2>4, <2>5, <3>2, <3>3
  <2>6. CASE seq[n + 1] \notin wanted
    BY <2>2, <2>3, <2>4, <2>6
  <2>7. QED
    BY <2>5, <2>6
<1>4. Len(seq) \in C
  <2> HIDE DEF C
  <2>1. QED
    BY <1>0, <1>2, <1>3, CountingUp
<1>5. first(Len(seq)) = ToSet(seq)
  BY <1>0 DEF ToSet
<1> HIDE DEF first
<1>6. QED
  BY <1>0, <1>1, <1>4, <1>5 DEF Keeps
=============================================================================

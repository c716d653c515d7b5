---------------------------- MODULE DataTheorems ----------------------------
(***************************************************************************)
(* Facts about the data the models are built of: sums over finite sets,    *)
(* counts, whole quotients, extremes and slices of ordered sets.  They are *)
(* what the sums, averages and pages of the code come to.                  *)
(*                                                                         *)
(* Induction is said of sets, so that it can be cited: a set of numbers    *)
(* (NatInd) or of subsets (FiniteInd) that is closed under one step is the *)
(* whole.  A fold is a recursive function on the subsets of a set; that    *)
(* there is one (AddsExists) and only one (AddsUnique) is proved first.    *)
(***************************************************************************)
EXTENDS Integers, Sequences, FiniteSets, Functions, NaturalsInduction,
        WellFoundedInduction, FiniteSetTheorems, SequenceTheorems, TLAPS

\* The order of the natural numbers, as a relation.
Below == {p \in Nat \X Nat : p[1] < p[2]}

\* There is no infinite descent among the natural numbers.
LEMMA BelowIsWellFounded == IsWellFoundedOn(Below, Nat)
  BY NatLessThanWellFounded DEF OpToRel, Below

\* Induction, said of a set so that it can be cited for any property.
LEMMA NatInd ==
    ASSUME NEW S \in SUBSET Nat, 0 \in S, \A n \in S : n + 1 \in S
    PROVE  S = Nat
  <1>1. SUFFICES ASSUME Nat \ S # {} PROVE FALSE
    OBVIOUS
  <1>2. PICK x \in Nat \ S : \A y \in Nat \ S : ~(<<y, x>> \in Below)
    BY <1>1, BelowIsWellFounded, WFMin
  <1>3. x \in Nat /\ x # 0 /\ x - 1 \in Nat
    BY <1>2
  <1>4. <<x - 1, x>> \in Below
    BY <1>3 DEF Below
  <1>5. x - 1 \in S
    BY <1>2, <1>3, <1>4
  <1> QED
    BY <1>2, <1>3, <1>5

\* Induction on the subsets of a finite set, said of a set of subsets.
LEMMA FiniteInd ==
    ASSUME NEW S, IsFiniteSet(S), NEW F \in SUBSET SUBSET S,
           \A s \in SUBSET S : (\A x \in s : s \ {x} \in F) => s \in F
    PROVE  \A s \in SUBSET S : s \in F
  <1> DEFINE N == {n \in Nat : \A s \in SUBSET S : Cardinality(s) = n => s \in F}
  <1>1. 0 \in N
    <2> SUFFICES ASSUME NEW s \in SUBSET S, Cardinality(s) = 0 PROVE s \in F
      OBVIOUS
    <2>1. IsFiniteSet(s)
      BY FS_Subset
    <2>2. s = {}
      BY <2>1, FS_EmptySet
    <2> QED
      BY <2>2
  <1>2. ASSUME NEW n \in N PROVE n + 1 \in N
    <2> SUFFICES ASSUME NEW s \in SUBSET S, Cardinality(s) = n + 1 PROVE s \in F
      OBVIOUS
    <2>1. ASSUME NEW x \in s PROVE s \ {x} \in F
      <3>1. IsFiniteSet(s)
        BY FS_Subset
      <3>2. Cardinality(s \ {x}) = Cardinality(s) - 1
        BY <3>1, FS_RemoveElement
      <3>3. Cardinality(s \ {x}) = n
        BY <3>2
      <3> QED
        BY <3>3
    <2> QED
      BY <2>1
  <1>3. N = Nat
    BY <1>1, <1>2, NatInd
  <1> QED
    <2> SUFFICES ASSUME NEW s \in SUBSET S PROVE s \in F
      OBVIOUS
    <2>1. IsFiniteSet(s)
      BY FS_Subset
    <2>2. Cardinality(s) \in N
      BY <1>3, <2>1, FS_CardinalityType
    <2> QED
      BY <2>2
-----------------------------------------------------------------------------
Some(s) == CHOOSE x \in s : TRUE

\* g sums up f over the subsets of S.
Adds(g, f, S) ==
    g = [s \in SUBSET S |-> IF s = {} THEN 0 ELSE f[Some(s)] + g[s \ {Some(s)}]]

\* What SumFunctionOnSet stands for: the value, at S, of a function that adds up
\* the subsets of S.
LEMMA SumUnfolds ==
    ASSUME NEW f, NEW S
    PROVE  SumFunctionOnSet(f, S) = (CHOOSE g : Adds(g, f, S))[S]
  BY DEF SumFunctionOnSet, FoldFunctionOnSet, MapThenFoldSet, Adds, Some

\* The element that is taken off first is one of the set.
LEMMA SomeIsIn == \A s : s # {} => Some(s) \in s
  BY DEF Some

\* The equation of such a function at one subset.
LEMMA AddsAt ==
    ASSUME NEW f, NEW S, NEW g, Adds(g, f, S), NEW s \in SUBSET S
    PROVE  g[s] = IF s = {} THEN 0 ELSE f[Some(s)] + g[s \ {Some(s)}]
  <1> DEFINE h == [t \in SUBSET S |-> IF t = {} THEN 0 ELSE f[Some(t)] + g[t \ {Some(t)}]]
  <1>1. g = h
    BY DEF Adds
  <1>2. h[s] = IF s = {} THEN 0 ELSE f[Some(s)] + g[s \ {Some(s)}]
    OBVIOUS
  <1> QED
    BY <1>1, <1>2

\* There is such a function, because there is one on the subsets of any size.
LEMMA AddsExists ==
    ASSUME NEW S, IsFiniteSet(S), NEW f, \A x \in S : f[x] \in Int
    PROVE  \E g : Adds(g, f, S) /\ \A s \in SUBSET S : g[s] \in Int
  <1> DEFINE Small(n) == {s \in SUBSET S : Cardinality(s) <= n}
             Next(g, s) == IF s = {} THEN 0 ELSE f[Some(s)] + g[s \ {Some(s)}]
             Good(g, n) == \A s \in Small(n) : g[s] \in Int /\ g[s] = Next(g, s)
             N == {n \in Nat : \E g : Good(g, n)}
  <1>0. \A s \in SUBSET S : IsFiniteSet(s) /\ Cardinality(s) \in Nat
    BY FS_Subset, FS_CardinalityType
  <1>1. 0 \in N
    <2> DEFINE g == [s \in Small(0) |-> 0]
    <2>1. \A s \in Small(0) : s = {}
      BY <1>0, FS_EmptySet
    <2>2. Good(g, 0)
      BY <2>1
    <2> QED
      BY <2>2
  <1>2. ASSUME NEW n \in N PROVE n + 1 \in N
    <2>1. PICK g : Good(g, n)
      OBVIOUS
    <2> DEFINE h == [s \in Small(n + 1) |-> Next(g, s)]
    <2>2. ASSUME NEW s \in Small(n + 1), s # {}
          PROVE  s \ {Some(s)} \in Small(n) /\ f[Some(s)] \in Int
      <3>1. Some(s) \in s
        BY <2>2, SomeIsIn
      <3>2. IsFiniteSet(s) /\ Cardinality(s) \in Nat /\ Cardinality(s) <= n + 1
        BY <1>0
      <3>3. Cardinality(s \ {Some(s)}) = Cardinality(s) - 1
        BY <3>1, <3>2, FS_RemoveElement
      <3> QED
        BY <3>1, <3>2, <3>3
    <2>3. ASSUME NEW s \in Small(n + 1) PROVE h[s] \in Int
      <3>1. CASE s = {}
        BY <3>1
      <3>2. CASE s # {}
        <4>1. g[s \ {Some(s)}] \in Int
          BY <2>1, <2>2, <3>2
        <4> QED
          BY <2>2, <3>2, <4>1
      <3> QED
        BY <3>1, <3>2
    <2>4. ASSUME NEW s \in Small(n) PROVE h[s] = g[s]
      <3>1. s \in Small(n + 1)
        BY <1>0
      <3> QED
        BY <2>1, <3>1
    <2>5. ASSUME NEW s \in Small(n + 1) PROVE h[s] = Next(h, s)
      <3>1. CASE s = {}
        BY <3>1
      <3>2. CASE s # {}
        BY <2>2, <2>4, <3>2
      <3> QED
        BY <3>1, <3>2
    <2>6. Good(h, n + 1)
      BY <2>3, <2>5
    <2> HIDE DEF Good, h
    <2>7. n + 1 \in Nat /\ \E g1 : Good(g1, n + 1)
      BY <2>6
    <2> QED
      BY <2>7
  <1>3. N = Nat
    BY <1>1, <1>2, NatInd
  <1>4. Cardinality(S) \in N
    BY <1>3, FS_CardinalityType
  <1>5. PICK g : Good(g, Cardinality(S))
    BY <1>4
  <1>6. Small(Cardinality(S)) = SUBSET S
    BY <1>0, FS_Subset
  <1> DEFINE h == [s \in SUBSET S |-> Next(g, s)]
  <1>7. \A s \in SUBSET S : h[s] = g[s] /\ g[s] \in Int
    BY <1>5, <1>6
  <1>8. \A s \in SUBSET S : Next(h, s) = Next(g, s)
    <2> SUFFICES ASSUME NEW s \in SUBSET S, s # {} PROVE h[s \ {Some(s)}] = g[s \ {Some(s)}]
      OBVIOUS
    <2> QED
      BY <1>7
  <1>9. Adds(h, f, S)
    BY <1>8 DEF Adds
  <1> QED
    BY <1>7, <1>9

\* On a smaller set it takes the same values.
LEMMA AddsUnique ==
    ASSUME NEW S, IsFiniteSet(S), NEW T \in SUBSET S, NEW f,
           NEW g, NEW h, Adds(g, f, S), Adds(h, f, T)
    PROVE  \A s \in SUBSET T : g[s] = h[s]
  <1> DEFINE F == {s \in SUBSET T : g[s] = h[s]}
  <1>1. IsFiniteSet(T)
    BY FS_Subset
  <1>2. ASSUME NEW s \in SUBSET T, \A x \in s : s \ {x} \in F PROVE s \in F
    <2>1. /\ g[s] = IF s = {} THEN 0 ELSE f[Some(s)] + g[s \ {Some(s)}]
          /\ h[s] = IF s = {} THEN 0 ELSE f[Some(s)] + h[s \ {Some(s)}]
      BY AddsAt
    <2>2. CASE s = {}
      BY <2>1, <2>2
    <2>3. CASE s # {}
      <3>1. s \ {Some(s)} \in F
        BY <1>2, <2>3, SomeIsIn
      <3> QED
        BY <2>1, <3>1
    <2> QED
      BY <2>2, <2>3
  <1>3. F \in SUBSET SUBSET T
    OBVIOUS
  <1> HIDE DEF F
  <1>4. \A s \in SUBSET T : s \in F
    BY <1>1, <1>2, <1>3, FiniteInd
  <1> QED
    BY <1>4 DEF F
\* A sum over any subset is the value of one such function.
LEMMA SumIs ==
    ASSUME NEW S, IsFiniteSet(S), NEW f, \A x \in S : f[x] \in Int
    PROVE  \E g : /\ Adds(g, f, S)
                  /\ \A s \in SUBSET S : /\ g[s] \in Int
                                         /\ SumFunctionOnSet(f, s) = g[s]
  <1>1. PICK g : Adds(g, f, S) /\ \A s \in SUBSET S : g[s] \in Int
    BY AddsExists
  <1>2. ASSUME NEW s \in SUBSET S PROVE SumFunctionOnSet(f, s) = g[s]
    <2>1. IsFiniteSet(s)
      BY FS_Subset
    <2>2. \E h : Adds(h, f, s)
      BY <2>1, AddsExists
    <2> DEFINE h == CHOOSE h : Adds(h, f, s)
    <2>3. Adds(h, f, s)
      BY <2>2
    <2>4. SumFunctionOnSet(f, s) = h[s]
      BY SumUnfolds
    <2> HIDE DEF h
    <2>5. g[s] = h[s]
      BY <1>1, <2>3, AddsUnique
    <2> QED
      BY <2>4, <2>5
  <1> QED
    BY <1>1, <1>2

\* The sum of nothing is 0.
THEOREM SumEmpty == \A f : SumFunctionOnSet(f, {}) = 0
  <1> SUFFICES ASSUME NEW f PROVE SumFunctionOnSet(f, {}) = 0
    OBVIOUS
  <1> DEFINE E == {}
  <1>0. IsFiniteSet(E) /\ \A x \in E : f[x] \in Int
    BY FS_EmptySet
  <1> HIDE DEF E
  <1>1. PICK g : /\ Adds(g, f, E)
                 /\ \A s \in SUBSET E : SumFunctionOnSet(f, s) = g[s]
    BY <1>0, SumIs
  <1> USE DEF E
  <1>2. g[{}] = 0
    BY <1>1, AddsAt
  <1> QED
    BY <1>1, <1>2

\* A sum of integers is an integer.
THEOREM SumIsInt ==
    ASSUME NEW S, IsFiniteSet(S), NEW f, \A x \in S : f[x] \in Int
    PROVE  SumFunctionOnSet(f, S) \in Int
  BY SumIs

\* A sum is the element taken off first and the sum of the rest.
LEMMA SumTakes ==
    ASSUME NEW S, IsFiniteSet(S), S # {}, NEW f, \A x \in S : f[x] \in Int
    PROVE  SumFunctionOnSet(f, S) = f[Some(S)] + SumFunctionOnSet(f, S \ {Some(S)})
  <1>1. PICK g : /\ Adds(g, f, S)
                 /\ \A s \in SUBSET S : SumFunctionOnSet(f, s) = g[s]
    BY SumIs
  <1>2. g[S] = f[Some(S)] + g[S \ {Some(S)}]
    BY <1>1, AddsAt
  <1> QED
    BY <1>1, <1>2

\* Whichever element is taken off first.
THEOREM SumRemoves ==
    ASSUME NEW S, IsFiniteSet(S), NEW f, \A x \in S : f[x] \in Int, NEW x \in S
    PROVE  SumFunctionOnSet(f, S) = f[x] + SumFunctionOnSet(f, S \ {x})
  <1> DEFINE Total(s) == SumFunctionOnSet(f, s)
             F == {s \in SUBSET S : \A e \in s : Total(s) = f[e] + Total(s \ {e})}
  <1>1. \A s \in SUBSET S : IsFiniteSet(s) /\ Total(s) \in Int
    BY FS_Subset, SumIsInt
  <1>2. \A s \in SUBSET S : s # {} => Total(s) = f[Some(s)] + Total(s \ {Some(s)})
    BY <1>1, SumTakes
  <1> HIDE DEF Total
  <1>3. ASSUME NEW s \in SUBSET S, \A e \in s : s \ {e} \in F PROVE s \in F
    <2> SUFFICES ASSUME NEW e \in s PROVE Total(s) = f[e] + Total(s \ {e})
      OBVIOUS
    <2> DEFINE c == Some(s)
               r == s \ {c, e}
    <2>1. c \in s
      BY SomeIsIn
    <2>2. Total(s) = f[c] + Total(s \ {c})
      BY <1>2
    <2> HIDE DEF c
    <2>3. CASE c = e
      BY <2>2, <2>3
    <2>4. CASE c # e
      <3>1. (s \ {c}) \ {e} = r /\ (s \ {e}) \ {c} = r
        OBVIOUS
      <3>2. Total(s \ {c}) = f[e] + Total(r)
        BY <1>3, <2>1, <2>4, <3>1
      <3>3. Total(s \ {e}) = f[c] + Total(r)
        BY <1>3, <2>1, <2>4, <3>1
      <3>4. f[c] \in Int /\ f[e] \in Int /\ Total(r) \in Int
        BY <1>1, <2>1
      <3> QED
        BY <2>2, <3>2, <3>3, <3>4
    <2> QED
      BY <2>3, <2>4
  <1>4. F \in SUBSET SUBSET S
    OBVIOUS
  <1> HIDE DEF F
  <1>5. S \in F
    BY <1>3, <1>4, FiniteInd
  <1> QED
    BY <1>5 DEF F, Total

\* Sums are proportional when their terms are.
THEOREM SumIsLinear ==
    ASSUME NEW S, IsFiniteSet(S), NEW f, NEW g, NEW a \in Int, NEW b \in Int,
           \A x \in S : f[x] \in Int /\ g[x] \in Int,
           \A x \in S : a * f[x] = b * g[x]
    PROVE  a * SumFunctionOnSet(f, S) = b * SumFunctionOnSet(g, S)
  <1> DEFINE Tf(s) == SumFunctionOnSet(f, s)
             Tg(s) == SumFunctionOnSet(g, s)
             F == {s \in SUBSET S : a * Tf(s) = b * Tg(s)}
  <1>1. ASSUME NEW s \in SUBSET S, \A x \in s : s \ {x} \in F PROVE s \in F
    <2>1. CASE s = {}
      BY <2>1, SumEmpty
    <2>2. CASE s # {}
      <3>1. PICK x \in s : TRUE
        BY <2>2
      <3>2. IsFiniteSet(s) /\ IsFiniteSet(s \ {x})
        BY FS_Subset
      <3>3. /\ Tf(s) = f[x] + Tf(s \ {x}) /\ Tg(s) = g[x] + Tg(s \ {x})
            /\ Tf(s \ {x}) \in Int /\ Tg(s \ {x}) \in Int
        BY <3>2, SumRemoves, SumIsInt
      <3>4. a * Tf(s \ {x}) = b * Tg(s \ {x})
        BY <1>1
      <3> HIDE DEF Tf, Tg
      <3>5. a * Tf(s) = b * Tg(s)
        <4>1. a * Tf(s) = a * f[x] + a * Tf(s \ {x})
          BY <3>3
        <4>2. b * Tg(s) = b * g[x] + b * Tg(s \ {x})
          BY <3>3
        <4> QED
          BY <3>3, <3>4, <4>1, <4>2
      <3> QED
        BY <3>5
    <2> QED
      BY <2>1, <2>2
  <1>2. F \in SUBSET SUBSET S
    OBVIOUS
  <1> HIDE DEF F
  <1>3. S \in F
    BY <1>1, <1>2, FiniteInd
  <1> QED
    BY <1>3 DEF F

\* Sums are ordered as their terms are.
THEOREM SumOrders ==
    ASSUME NEW S, IsFiniteSet(S), NEW f, NEW g,
           \A x \in S : f[x] \in Int /\ g[x] \in Int /\ f[x] <= g[x]
    PROVE  SumFunctionOnSet(f, S) <= SumFunctionOnSet(g, S)
  <1> DEFINE Tf(s) == SumFunctionOnSet(f, s)
             Tg(s) == SumFunctionOnSet(g, s)
             F == {s \in SUBSET S : Tf(s) <= Tg(s)}
  <1>1. ASSUME NEW s \in SUBSET S, \A x \in s : s \ {x} \in F PROVE s \in F
    <2>1. CASE s = {}
      BY <2>1, SumEmpty
    <2>2. CASE s # {}
      <3>1. PICK x \in s : TRUE
        BY <2>2
      <3>2. IsFiniteSet(s) /\ IsFiniteSet(s \ {x})
        BY FS_Subset
      <3>3. /\ Tf(s) = f[x] + Tf(s \ {x}) /\ Tg(s) = g[x] + Tg(s \ {x})
            /\ Tf(s \ {x}) \in Int /\ Tg(s \ {x}) \in Int
        BY <3>2, SumRemoves, SumIsInt
      <3>4. Tf(s \ {x}) <= Tg(s \ {x})
        BY <1>1
      <3> HIDE DEF Tf, Tg
      <3>5. Tf(s) <= Tg(s)
        BY <3>3, <3>4
      <3> QED
        BY <3>5
    <2> QED
      BY <2>1, <2>2
  <1>2. F \in SUBSET SUBSET S
    OBVIOUS
  <1> HIDE DEF F
  <1>3. S \in F
    BY <1>1, <1>2, FiniteInd
  <1> QED
    BY <1>3 DEF F

\* The sum of a combination is the combination of the sums.
THEOREM SumCombines ==
    ASSUME NEW S, IsFiniteSet(S), NEW f, NEW g, NEW h, NEW a \in Int, NEW b \in Int,
           \A x \in S : f[x] \in Int /\ g[x] \in Int /\ h[x] = a * f[x] + b * g[x]
    PROVE  SumFunctionOnSet(h, S) = a * SumFunctionOnSet(f, S) + b * SumFunctionOnSet(g, S)
  <1> DEFINE Tf(s) == SumFunctionOnSet(f, s)
             Tg(s) == SumFunctionOnSet(g, s)
             Th(s) == SumFunctionOnSet(h, s)
             F == {s \in SUBSET S : Th(s) = a * Tf(s) + b * Tg(s)}
  <1>0. \A x \in S : h[x] \in Int
    BY SMTT(30)
  <1>1. ASSUME NEW s \in SUBSET S, \A x \in s : s \ {x} \in F PROVE s \in F
    <2>1. CASE s = {}
      BY <2>1, SumEmpty
    <2>2. CASE s # {}
      <3>1. PICK x \in s : TRUE
        BY <2>2
      <3>2. IsFiniteSet(s) /\ IsFiniteSet(s \ {x})
        BY FS_Subset
      <3>3. /\ Tf(s) = f[x] + Tf(s \ {x}) /\ Tg(s) = g[x] + Tg(s \ {x})
            /\ Th(s) = h[x] + Th(s \ {x})
            /\ Tf(s \ {x}) \in Int /\ Tg(s \ {x}) \in Int /\ Th(s \ {x}) \in Int
        BY <1>0, <3>2, SumRemoves, SumIsInt
      <3>4. Th(s \ {x}) = a * Tf(s \ {x}) + b * Tg(s \ {x})
        BY <1>1
      <3>5. f[x] \in Int /\ g[x] \in Int /\ h[x] = a * f[x] + b * g[x]
        OBVIOUS
      <3> HIDE DEF Tf, Tg, Th
      <3>6. \A i, j \in Int : a * (i + j) = a * i + a * j
        OBVIOUS
      <3>7. \A i, j \in Int : b * (i + j) = b * i + b * j
        OBVIOUS
      <3>8. /\ a * Tf(s) = a * f[x] + a * Tf(s \ {x})
            /\ b * Tg(s) = b * g[x] + b * Tg(s \ {x})
        BY <3>3, <3>5, <3>6, <3>7
      <3>9. \A i, j, k, l \in Int : (i + k) + (j + l) = (i + j) + (k + l)
        OBVIOUS
      <3>10. /\ a * f[x] \in Int /\ a * Tf(s \ {x}) \in Int
             /\ b * g[x] \in Int /\ b * Tg(s \ {x}) \in Int
        BY <3>3, <3>5
      <3>11. Th(s) = a * Tf(s) + b * Tg(s)
        BY <3>3, <3>4, <3>5, <3>8, <3>9, <3>10
      <3> QED
        BY <3>11
    <2> QED
      BY <2>1, <2>2
  <1>2. F \in SUBSET SUBSET S
    OBVIOUS
  <1> HIDE DEF F
  <1>3. S \in F
    BY <1>1, <1>2, FiniteInd
  <1> QED
    BY <1>3 DEF F

\* A sum of numbers none of which is negative is not; one of negative numbers is.
THEOREM SumSign ==
    ASSUME NEW S, IsFiniteSet(S), NEW f, \A x \in S : f[x] \in Int
    PROVE  /\ (\A x \in S : f[x] >= 0) => SumFunctionOnSet(f, S) >= 0
           /\ S # {} /\ (\A x \in S : f[x] < 0) => SumFunctionOnSet(f, S) < 0
  <1> DEFINE Zero == [x \in S |-> 0]
  <1>1. ASSUME NEW s \in SUBSET S PROVE SumFunctionOnSet(Zero, s) = 0
    <2>1. IsFiniteSet(s) /\ \A x \in s : Zero[x] \in Int /\ 0 * Zero[x] = 1 * Zero[x]
      BY FS_Subset
    <2>2. 0 * SumFunctionOnSet(Zero, s) = 1 * SumFunctionOnSet(Zero, s)
      BY <2>1, SumIsLinear
    <2>3. SumFunctionOnSet(Zero, s) \in Int
      BY <2>1, SumIsInt
    <2> QED
      BY <2>2, <2>3
  <1>2. ASSUME \A x \in S : f[x] >= 0 PROVE SumFunctionOnSet(f, S) >= 0
    <2>1. \A x \in S : Zero[x] \in Int /\ f[x] \in Int /\ Zero[x] <= f[x]
      BY <1>2
    <2>2. SumFunctionOnSet(Zero, S) <= SumFunctionOnSet(f, S)
      BY <2>1, SumOrders
    <2> QED
      BY <1>1, <2>2, SumIsInt
  <1>3. ASSUME S # {}, \A x \in S : f[x] < 0 PROVE SumFunctionOnSet(f, S) < 0
    <2>1. PICK x \in S : TRUE
      BY <1>3
    <2> DEFINE T == S \ {x}
    <2>2. IsFiniteSet(T) /\ \A y \in T : Zero[y] \in Int /\ f[y] \in Int /\ f[y] <= Zero[y]
      BY <1>3, FS_Subset
    <2>3. SumFunctionOnSet(f, T) <= SumFunctionOnSet(Zero, T)
      BY <2>2, SumOrders
    <2>4. SumFunctionOnSet(f, T) \in Int
      BY <2>2, SumIsInt
    <2>5. SumFunctionOnSet(f, S) = f[x] + SumFunctionOnSet(f, T)
      BY SumRemoves
    <2>6. SumFunctionOnSet(Zero, T) = 0
      BY <1>1
    <2> HIDE DEF T, Zero
    <2> QED
      BY <1>3, <2>3, <2>4, <2>5, <2>6
  <1> QED
    BY <1>2, <1>3

\* Equal terms have equal sums.
THEOREM SumSame ==
    ASSUME NEW S, IsFiniteSet(S), NEW f, NEW g,
           \A x \in S : f[x] \in Int /\ f[x] = g[x]
    PROVE  SumFunctionOnSet(f, S) = SumFunctionOnSet(g, S)
  <1>1. SumFunctionOnSet(f, S) \in Int /\ SumFunctionOnSet(g, S) \in Int
    BY SumIsInt
  <1>2. SumFunctionOnSet(f, S) <= SumFunctionOnSet(g, S)
    BY SumOrders
  <1>3. SumFunctionOnSet(g, S) <= SumFunctionOnSet(f, S)
    BY SumOrders
  <1> QED
    BY <1>1, <1>2, <1>3

\* The parts of a set, by any key, add up to the whole.
THEOREM SumOfParts ==
    ASSUME NEW S, IsFiniteSet(S), NEW f, \A x \in S : f[x] \in Int,
           NEW K, IsFiniteSet(K), NEW key, \A x \in S : key[x] \in K
    PROVE  SumFunctionOnSet([k \in K |-> SumFunctionOnSet(f, {x \in S : key[x] = k})], K)
              = SumFunctionOnSet(f, S)
  <1> DEFINE Part(s, k) == {x \in s : key[x] = k}
             Parts(s) == [k \in K |-> SumFunctionOnSet(f, Part(s, k))]
             F == {s \in SUBSET S : SumFunctionOnSet(Parts(s), K) = SumFunctionOnSet(f, s)}
  <1>0. \A s \in SUBSET S : IsFiniteSet(s)
    BY FS_Subset
  <1>1. \A s \in SUBSET S : \A k \in K : Parts(s)[k] \in Int
    <2> SUFFICES ASSUME NEW s \in SUBSET S, NEW k \in K
                 PROVE  SumFunctionOnSet(f, Part(s, k)) \in Int
      OBVIOUS
    <2>1. IsFiniteSet(Part(s, k))
      BY <1>0
    <2> QED
      BY <2>1, SumIsInt
  <1>2. ASSUME NEW s \in SUBSET S, \A x \in s : s \ {x} \in F PROVE s \in F
    <2>1. CASE s = {}
      <3>1. \A k \in K : Part(s, k) = {}
        BY <2>1
      <3>2. \A k \in K : Parts(s)[k] = 0
        BY <3>1, SumEmpty
      <3> DEFINE z == [k \in K |-> 0]
      <3>3. SumFunctionOnSet(Parts(s), K) = SumFunctionOnSet(z, K)
        BY <3>2, SumSame
      <3>4. 0 * SumFunctionOnSet(z, K) = 1 * SumFunctionOnSet(z, K)
        <4>1. \A k \in K : z[k] \in Int /\ 0 * z[k] = 1 * z[k]
          OBVIOUS
        <4> HIDE DEF z
        <4> QED
          BY <4>1, SumIsLinear
      <3>5. SumFunctionOnSet(z, K) \in Int
        BY SumIsInt
      <3> HIDE DEF z, Parts
      <3>6. SumFunctionOnSet(Parts(s), K) = 0
        BY <3>3, <3>4, <3>5
      <3> QED
        BY <2>1, <3>6, SumEmpty
    <2>2. CASE s # {}
      <3>1. PICK x \in s : TRUE
        BY <2>2
      <3> DEFINE t == s \ {x}
                 k0 == key[x]
                 rest == K \ {k0}
      <3>2. k0 \in K /\ t \in SUBSET S /\ IsFiniteSet(rest) /\ f[x] \in Int
        BY FS_Subset
      <3>3. SumFunctionOnSet(f, s) = f[x] + SumFunctionOnSet(f, t)
        BY <1>0, SumRemoves
      <3>4. Parts(s)[k0] = f[x] + Parts(t)[k0]
        <4>1. x \in Part(s, k0) /\ Part(s, k0) \ {x} = Part(t, k0)
          OBVIOUS
        <4>2. IsFiniteSet(Part(s, k0)) /\ \A y \in Part(s, k0) : f[y] \in Int
          BY <1>0
        <4>3. SumFunctionOnSet(f, Part(s, k0)) = f[x] + SumFunctionOnSet(f, Part(t, k0))
          BY <4>1, <4>2, SumRemoves
        <4> QED
          BY <3>2, <4>3
      <3>5. \A k \in rest : Parts(s)[k] = Parts(t)[k]
        <4>1. \A k \in rest : Part(s, k) = Part(t, k)
          OBVIOUS
        <4> QED
          BY <4>1
      <3>6. /\ \A k \in K : Parts(s)[k] \in Int
            /\ \A k \in K : Parts(t)[k] \in Int
        BY <1>1, <3>2
      <3>7. SumFunctionOnSet(Parts(t), K) = SumFunctionOnSet(f, t)
        BY <1>2
      <3> HIDE DEF Parts, t
      <3>8. /\ SumFunctionOnSet(Parts(s), K) = Parts(s)[k0] + SumFunctionOnSet(Parts(s), rest)
            /\ SumFunctionOnSet(Parts(t), K) = Parts(t)[k0] + SumFunctionOnSet(Parts(t), rest)
        BY <3>2, <3>6, SumRemoves
      <3>9. SumFunctionOnSet(Parts(s), rest) = SumFunctionOnSet(Parts(t), rest)
        BY <3>2, <3>5, <3>6, SumSame
      <3>10. Parts(t)[k0] \in Int /\ SumFunctionOnSet(Parts(t), rest) \in Int
        BY <3>2, <3>6, SumIsInt
      <3>11. SumFunctionOnSet(Parts(s), K) = SumFunctionOnSet(f, s)
        BY <3>2, <3>3, <3>4, <3>7, <3>8, <3>9, <3>10
      <3> QED
        BY <3>11 DEF Parts
    <2> QED
      BY <2>1, <2>2
  <1>3. F \in SUBSET SUBSET S
    OBVIOUS
  <1> HIDE DEF F
  <1>4. S \in F
    BY <1>2, <1>3, FiniteInd
  <1> QED
    BY <1>4 DEF F

\* A set has as many elements as its parts together.
THEOREM CountIsSum ==
    ASSUME NEW S, IsFiniteSet(S), NEW f, \A x \in S : f[x] = 1
    PROVE  SumFunctionOnSet(f, S) = Cardinality(S)
  <1> DEFINE F == {s \in SUBSET S : SumFunctionOnSet(f, s) = Cardinality(s)}
  <1>1. ASSUME NEW s \in SUBSET S, \A x \in s : s \ {x} \in F PROVE s \in F
    <2>1. CASE s = {}
      BY <2>1, SumEmpty, FS_EmptySet
    <2>2. CASE s # {}
      <3>1. PICK x \in s : TRUE
        BY <2>2
      <3>2. IsFiniteSet(s) /\ Cardinality(s) \in Nat
        BY FS_Subset, FS_CardinalityType
      <3>3. SumFunctionOnSet(f, s) = f[x] + SumFunctionOnSet(f, s \ {x})
        BY <3>2, SumRemoves
      <3>4. Cardinality(s \ {x}) = Cardinality(s) - 1
        BY <3>2, FS_RemoveElement
      <3>5. SumFunctionOnSet(f, s \ {x}) = Cardinality(s \ {x})
        BY <1>1
      <3> QED
        BY <3>2, <3>3, <3>4, <3>5
    <2> QED
      BY <2>1, <2>2
  <1>2. F \in SUBSET SUBSET S
    OBVIOUS
  <1> HIDE DEF F
  <1>3. S \in F
    BY <1>1, <1>2, FiniteInd
  <1> QED
    BY <1>3 DEF F
-----------------------------------------------------------------------------
\* What the quotient of the code's whole divisions lies between.
THEOREM DivBounds ==
    ASSUME NEW a \in Int, NEW b \in Nat \ {0}
    PROVE  /\ a \div b \in Int
           /\ b * (a \div b) <= a /\ a < b * (a \div b) + b
  OBVIOUS

\* A quotient is at least n exactly when the dividend is at least n times the divisor.
THEOREM DivAtLeast ==
    ASSUME NEW a \in Int, NEW b \in Nat \ {0}, NEW n \in Int
    PROVE  a \div b >= n <=> a >= b * n
  <1> DEFINE q == a \div b
  <1>1. q \in Int /\ b * q <= a /\ a < b * q + b
    BY DivBounds
  <1> HIDE DEF q
  <1>2. CASE q >= n
    <2>1. b * q >= b * n
      BY <1>1, <1>2
    <2> QED
      BY <1>1, <1>2, <2>1 DEF q
  <1>3. CASE ~(q >= n)
    <2>1. q + 1 <= n
      BY <1>1, <1>3
    <2>2. b * (q + 1) <= b * n
      BY <1>1, <2>1
    <2>3. b * (q + 1) = b * q + b
      BY <1>1
    <2> QED
      BY <1>1, <1>3, <2>2, <2>3 DEF q
  <1> QED
    BY <1>2, <1>3

\* A set of natural numbers has a least one.
THEOREM LeastOf ==
    ASSUME NEW S \in SUBSET Nat, S # {}
    PROVE  \E x \in S : \A y \in S : x <= y
  <1>1. PICK x \in S : \A y \in S : ~(<<y, x>> \in Below)
    BY BelowIsWellFounded, WFMin
  <1>2. ASSUME NEW y \in S PROVE x <= y
    <2>1. <<y, x>> \notin Below /\ x \in Nat /\ y \in Nat
      BY <1>1
    <2> QED
      BY <2>1 DEF Below
  <1> QED
    BY <1>2

\* A set of positions has a last one.
THEOREM GreatestOf ==
    ASSUME NEW n \in Nat, NEW S \in SUBSET (1..n), S # {}
    PROVE  \E x \in S : \A y \in S : x >= y
  <1> DEFINE D == {n - i : i \in S}
  <1>1. D \in SUBSET Nat /\ D # {}
    <2>1. \A i \in S : n - i \in Nat
      OBVIOUS
    <2>2. PICK i \in S : TRUE
      OBVIOUS
    <2>3. n - i \in D
      OBVIOUS
    <2> QED
      BY <2>1, <2>3
  <1>2. PICK d \in D : \A e \in D : d <= e
    BY <1>1, LeastOf
  <1>3. PICK x \in S : d = n - x
    BY <1>2
  <1>4. ASSUME NEW y \in S PROVE x >= y
    <2>1. n - y \in D /\ x \in Int /\ y \in Int
      OBVIOUS
    <2>2. n - x <= n - y
      BY <1>2, <1>3, <2>1
    <2> QED
      BY <2>1, <2>2
  <1> QED
    BY <1>4

\* The image of a finite set is finite.
THEOREM ImageIsFinite ==
    ASSUME NEW S, IsFiniteSet(S), NEW f
    PROVE  IsFiniteSet({f[x] : x \in S})
  <1> DEFINE T == {f[x] : x \in S}
             g == [x \in S |-> f[x]]
  <1>1. g \in [S -> T] /\ \A t \in T : \E x \in S : g[x] = t
    OBVIOUS
  <1> HIDE DEF g, T
  <1>2. g \in Surjection(S, T)
    BY <1>1 DEF Surjection
  <1>3. IsFiniteSet(T)
    BY <1>2, FS_Surjection
  <1> QED
    BY <1>3 DEF T

\* A finite set of numbers has a least and a greatest one.
THEOREM ExtremesOf ==
    ASSUME NEW S \in SUBSET Int, IsFiniteSet(S), S # {}
    PROVE  /\ \E x \in S : \A y \in S : x <= y
           /\ \E x \in S : \A y \in S : x >= y
  <1> DEFINE Extremes(s) == s # {} => /\ \E x \in s : \A y \in s : x <= y
                                      /\ \E x \in s : \A y \in s : x >= y
             F == {s \in SUBSET S : Extremes(s)}
  <1>1. ASSUME NEW s \in SUBSET S, \A x \in s : s \ {x} \in F PROVE s \in F
    <2> SUFFICES ASSUME s # {} PROVE Extremes(s)
      OBVIOUS
    <2>1. PICK z \in s : TRUE
      OBVIOUS
    <2> DEFINE t == s \ {z}
    <2>2. CASE t = {}
      <3>1. \A y \in s : y = z
        BY <2>2
      <3> QED
        BY <3>1
    <2>3. CASE t # {}
      <3>1. Extremes(t) /\ t \in SUBSET Int /\ z \in Int
        BY <1>1
      <3>2. s = t \cup {z}
        OBVIOUS
      <3>3. PICK x \in t : \A y \in t : x <= y
        BY <2>3, <3>1
      <3>4. PICK w \in t : \A y \in t : w >= y
        BY <2>3, <3>1
      <3> HIDE DEF t
      <3>5. x \in Int /\ w \in Int /\ \A y \in t : y \in Int
        BY <3>1
      <3>6. \E v \in s : \A y \in s : v <= y
        <4>1. CASE x <= z
          BY <3>1, <3>2, <3>3, <3>5, <4>1
        <4>2. CASE z <= x
          BY <3>1, <3>2, <3>3, <3>5, <4>2
        <4> QED
          BY <3>1, <3>5, <4>1, <4>2
      <3>7. \E v \in s : \A y \in s : v >= y
        <4>1. CASE w >= z
          BY <3>1, <3>2, <3>4, <3>5, <4>1
        <4>2. CASE z >= w
          BY <3>1, <3>2, <3>4, <3>5, <4>2
        <4> QED
          BY <3>1, <3>5, <4>1, <4>2
      <3> QED
        BY <3>6, <3>7
    <2> QED
      BY <2>2, <2>3
  <1>2. F \in SUBSET SUBSET S
    OBVIOUS
  <1>3. S \in F
    <2> HIDE DEF F
    <2> QED
      BY <1>1, <1>2, FiniteInd
  <1> QED
    BY <1>3
-----------------------------------------------------------------------------
\* Of the elements of R in descending order of p: those before c, and n from
\* the o-th on.
Before(R, p, c) == {d \in R : p[d] > p[c]}
Slice(R, p, o, n) == {c \in R : /\ o <= Cardinality(Before(R, p, c))
                               /\ Cardinality(Before(R, p, c)) < o + n}

\* A slice of an ordered set is as long as it may be, or as what is left.
THEOREM PageLength ==
    ASSUME NEW R, IsFiniteSet(R), NEW p, \A c \in R : p[c] \in Nat,
           \A c, d \in R : p[c] = p[d] => c = d,
           NEW o \in Nat, NEW n \in Nat
    PROVE  Cardinality(Slice(R, p, o, n))
              = IF Cardinality(R) <= o THEN 0
                ELSE IF Cardinality(R) >= o + n THEN n ELSE Cardinality(R) - o
  <1> DEFINE After(s, c) == {d \in s : p[d] > p[c]}
             Page(s) == {c \in s : /\ o <= Cardinality(After(s, c))
                                   /\ Cardinality(After(s, c)) < o + n}
             Length(i) == IF i <= o THEN 0 ELSE IF i >= o + n THEN n ELSE i - o
             F == {s \in SUBSET R : Cardinality(Page(s)) = Length(Cardinality(s))}
  <1>1. ASSUME NEW s \in SUBSET R, \A x \in s : s \ {x} \in F PROVE s \in F
    <2>0. IsFiniteSet(s) /\ Cardinality(s) \in Nat
      BY FS_Subset, FS_CardinalityType
    <2>1. CASE s = {}
      BY <2>1, FS_EmptySet
    <2>2. CASE s # {}
      <3> DEFINE P == {p[c] : c \in s}
      <3>1. P \subseteq Nat /\ P # {}
        BY <2>2
      <3> HIDE DEF P
      <3>2. PICK least \in P : \A y \in P : ~(<<y, least>> \in Below)
        BY <3>1, BelowIsWellFounded, WFMin
      <3>3. PICK m \in s : p[m] = least
        BY <3>2 DEF P
      <3>4. ASSUME NEW c \in s PROVE p[m] <= p[c]
        <4>1. p[c] \in P /\ p[m] \in P /\ p[c] \in Nat /\ p[m] \in Nat
          BY DEF P
        <4>2. <<p[c], p[m]>> \notin Below
          BY <3>2, <3>3, <4>1
        <4> QED
          BY <4>1, <4>2 DEF Below
      <3> DEFINE t == s \ {m}
      <3>5. \A c \in t : After(s, c) = After(t, c)
        BY <3>4
      <3>6. After(s, m) = t
        BY <3>4
      <3>7. /\ IsFiniteSet(t) /\ Cardinality(t) = Cardinality(s) - 1 /\ Cardinality(t) \in Nat
        BY <2>0, FS_RemoveElement, FS_CardinalityType
      <3>8. IsFiniteSet(Page(t)) /\ Cardinality(Page(t)) = Length(Cardinality(t))
        BY <1>1, <3>7, FS_Subset
      <3>9. Page(s) = IF o <= Cardinality(t) /\ Cardinality(t) < o + n
                      THEN Page(t) \cup {m} ELSE Page(t)
        BY <3>5, <3>6
      <3>10. m \notin Page(t)
        OBVIOUS
      <3> HIDE DEF Page, t
      <3>11. Cardinality(Page(t) \cup {m}) = Cardinality(Page(t)) + 1
        BY <3>8, <3>10, FS_AddElement
      <3>12. Cardinality(Page(s)) = Length(Cardinality(s))
        BY <2>0, <3>7, <3>8, <3>9, <3>11
      <3> QED
        BY <3>12
    <2> QED
      BY <2>1, <2>2
  <1>2. F \in SUBSET SUBSET R
    OBVIOUS
  <1> HIDE DEF F
  <1>3. R \in F
    BY <1>1, <1>2, FiniteInd
  <1> QED
    BY <1>3 DEF F, Slice, Before
=============================================================================

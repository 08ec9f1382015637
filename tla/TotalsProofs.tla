----------------------------- MODULE TotalsProofs -----------------------------
(****************************************************************************)
(* What the proofs need of sums over finite sets: a sum is a number, it may *)
(* be taken apart at any element, and it grows with its terms.              *)
(*                                                                          *)
(* MapThenSumSet is a recursive function on the subsets of the set.  That   *)
(* such a function exists, and every fact about all of its values, is shown *)
(* by a smallest counterexample: strict inclusion is well-founded on the    *)
(* subsets of a finite set.                                                 *)
(****************************************************************************)
EXTENDS Totals, FiniteSetTheorems, WellFoundedInduction, TLAPS

\* The element a sum takes next, and the recursive equation of its partial sums.
NextOf(s) == CHOOSE x \in s : TRUE
SumStep(g, f, s) == IF s = {} THEN 0 ELSE f[NextOf(s)] + g[s \ {NextOf(s)}]
SumsUp(g, f, S) == g = [s \in SUBSET S |-> SumStep(g, f, s)]
PartialSum(f, S) == CHOOSE g : SumsUp(g, f, S)

\* The sum is the last of the partial sums.
LEMMA TotalIsPartial ==
  ASSUME NEW f, NEW S
  PROVE  Total(f, S) = PartialSum(f, S)[S]
BY DEF Total, MapThenSumSet, MapThenFoldSet, PartialSum, SumsUp, SumStep, NextOf

\* The element taken is one of the set.
LEMMA NextOfIn ==
  ASSUME NEW s, s # {}
  PROVE  NextOf(s) \in s
BY DEF NextOf

\* A nonempty set of subsets of a finite set has a minimal member.
LEMMA SmallestSubset ==
  ASSUME NEW S, IsFiniteSet(S), NEW B, B \subseteq SUBSET S, B # {}
  PROVE  \E s \in B : \A t \in B : ~(t \subseteq s /\ t # s)
<1>1. FiniteSubsetsOf(S) = SUBSET S  BY FS_FiniteSubsetsOfFinite
<1>2. IsWellFoundedOn(StrictSubsetOrdering(S), SUBSET S)
  BY <1>1, FS_StrictSubsetOrderingWellFounded
<1>3. PICK s \in B : \A t \in B : ~(<<t, s>> \in StrictSubsetOrdering(S))
  BY <1>2, WFMin
<1>4. \A t \in B : t \subseteq s /\ t # s => <<t, s>> \in StrictSubsetOrdering(S)
  BY DEF StrictSubsetOrdering
<1>5. \A t \in B : ~(t \subseteq s /\ t # s)  BY <1>3, <1>4
<1> QED  BY <1>5

\* Two solutions agree wherever both are defined.
LEMMA SolutionsAgree ==
  ASSUME NEW f, NEW S, IsFiniteSet(S), NEW T \in SUBSET S,
         NEW g, SumsUp(g, f, S), NEW h, SumsUp(h, f, T)
  PROVE  \A s \in SUBSET T : g[s] = h[s]
<1> DEFINE B == {s \in SUBSET T : g[s] # h[s]}
<1> SUFFICES ASSUME B # {} PROVE FALSE  OBVIOUS
<1>1. IsFiniteSet(T) /\ B \subseteq SUBSET T  BY FS_Subset
<1>2. PICK s \in B : \A t \in B : ~(t \subseteq s /\ t # s)
  <2> HIDE DEF B
  <2> QED  BY <1>1, SmallestSubset
<1>3. g[s] = SumStep(g, f, s) /\ h[s] = SumStep(h, f, s)  BY DEF SumsUp
<1>4. CASE s = {}  BY <1>3, <1>4 DEF SumStep
<1>5. CASE s # {}
  <2>1. NextOf(s) \in s  BY <1>5, NextOfIn
  <2>2. g[s \ {NextOf(s)}] = h[s \ {NextOf(s)}]  BY <1>2, <2>1
  <2> QED  BY <1>3, <1>5, <2>2 DEF SumStep
<1> QED  BY <1>4, <1>5

\* A solution on a set is one on every subset.
LEMMA SolvesSubset ==
  ASSUME NEW f, NEW S, NEW T \in SUBSET S, NEW g, SumsUp(g, f, S)
  PROVE  SumsUp([s \in SUBSET T |-> g[s]], f, T)
<1> DEFINE h == [s \in SUBSET T |-> g[s]]
<1>1. ASSUME NEW s \in SUBSET T  PROVE g[s] = SumStep(h, f, s)
  <2>1. g[s] = SumStep(g, f, s)  BY DEF SumsUp
  <2>2. SumStep(g, f, s) = SumStep(h, f, s)  BY DEF SumStep
  <2> QED  BY <2>1, <2>2
<1> QED  BY <1>1 DEF SumsUp

\* The partial sums exist.
LEMMA PartialSolves ==
  ASSUME NEW f, NEW S, IsFiniteSet(S)
  PROVE  SumsUp(PartialSum(f, S), f, S)
<1> DEFINE B == {T \in SUBSET S : ~\E g : SumsUp(g, f, T)}
<1>1. B = {}
  <2> SUFFICES ASSUME B # {} PROVE FALSE  OBVIOUS
  <2>0. B \subseteq SUBSET S  OBVIOUS
  <2>1. PICK T \in B : \A t \in B : ~(t \subseteq T /\ t # T)
    <3> HIDE DEF B
    <3> QED  BY <2>0, SmallestSubset
  <2> DEFINE last(u) == PartialSum(f, u)[u]
             g == [s \in SUBSET T |-> IF s = {} THEN 0 ELSE f[NextOf(s)] + last(s \ {NextOf(s)})]
  <2>2. ASSUME NEW u \in SUBSET T, u # T  PROVE SumsUp(PartialSum(f, u), f, u)
    <3>1. \E h : SumsUp(h, f, u)  BY <2>1, <2>2
    <3> QED  BY <3>1 DEF PartialSum
  <2>3. ASSUME NEW u \in SUBSET T, u # T, NEW v \in SUBSET u  PROVE PartialSum(f, u)[v] = last(v)
    <3>1. v \in SUBSET T /\ v # T  BY <2>3
    <3>2. SumsUp(PartialSum(f, u), f, u) /\ SumsUp(PartialSum(f, v), f, v)  BY <2>2, <2>3, <3>1
    <3>3. IsFiniteSet(u)  BY <2>3, FS_Subset
    <3>4. \A s \in SUBSET v : PartialSum(f, u)[s] = PartialSum(f, v)[s]
      BY <2>3, <3>2, <3>3, SolutionsAgree
    <3> QED  BY <3>4
  <2>4. ASSUME NEW u \in SUBSET T, u # T  PROVE g[u] = last(u)
    <3>1. last(u) = SumStep(PartialSum(f, u), f, u)  BY <2>2, <2>4 DEF SumsUp
    <3>2. CASE u = {}  BY <3>1, <3>2 DEF SumStep
    <3>3. CASE u # {}
      <4>1. NextOf(u) \in u  BY <3>3, NextOfIn
      <4>2. PartialSum(f, u)[u \ {NextOf(u)}] = last(u \ {NextOf(u)})  BY <2>3, <2>4
      <4> QED  BY <3>1, <3>3, <4>2 DEF SumStep
    <3> QED  BY <3>2, <3>3
  <2>5. ASSUME NEW s \in SUBSET T  PROVE g[s] = SumStep(g, f, s)
    <3>1. CASE s = {}  BY <3>1 DEF SumStep
    <3>2. CASE s # {}
      <4>1. NextOf(s) \in s  BY <3>2, NextOfIn
      <4>2. s \ {NextOf(s)} \in SUBSET T /\ s \ {NextOf(s)} # T  BY <4>1
      <4>3. g[s \ {NextOf(s)}] = last(s \ {NextOf(s)})  BY <2>4, <4>2
      <4>4. g[s] = f[NextOf(s)] + last(s \ {NextOf(s)})  BY <3>2
      <4>5. SumStep(g, f, s) = f[NextOf(s)] + g[s \ {NextOf(s)}]  BY <3>2 DEF SumStep
      <4> QED  BY <4>3, <4>4, <4>5
    <3> QED  BY <3>1, <3>2
  <2>6. g = [s \in SUBSET T |-> g[s]]  OBVIOUS
  <2> HIDE DEF g
  <2>7. SumsUp(g, f, T)  BY <2>5, <2>6 DEF SumsUp
  <2> QED  BY <2>1, <2>7
<1>2. \E g : SumsUp(g, f, S)  BY <1>1
<1> QED  BY <1>2 DEF PartialSum

\* What a partial sum is, in terms of the one before it.
LEMMA PartialStep ==
  ASSUME NEW f, NEW S, IsFiniteSet(S), NEW s \in SUBSET S
  PROVE  /\ s = {} => PartialSum(f, S)[s] = 0
         /\ s # {} => /\ NextOf(s) \in s
                      /\ PartialSum(f, S)[s] = f[NextOf(s)] + PartialSum(f, S)[s \ {NextOf(s)}]
<1> DEFINE p == PartialSum(f, S)
<1>1. SumsUp(p, f, S)  BY PartialSolves
<1> HIDE DEF p
<1>2. p[s] = SumStep(p, f, s)  BY <1>1 DEF SumsUp
<1>3. s # {} => NextOf(s) \in s  BY NextOfIn
<1>4. p[s] = IF s = {} THEN 0 ELSE f[NextOf(s)] + p[s \ {NextOf(s)}]  BY <1>2 DEF SumStep
<1>5. p = PartialSum(f, S)  BY DEF p
<1> QED  BY <1>3, <1>4, <1>5

\* The partial sums of numbers are numbers.
LEMMA PartialInt ==
  ASSUME NEW f, NEW S, IsFiniteSet(S), \A x \in S : f[x] \in Int
  PROVE  \A s \in SUBSET S : PartialSum(f, S)[s] \in Int
<1> DEFINE B == {s \in SUBSET S : PartialSum(f, S)[s] \notin Int}
<1> SUFFICES ASSUME B # {} PROVE FALSE  OBVIOUS
<1>0. B \subseteq SUBSET S  OBVIOUS
<1>1. PICK s \in B : \A t \in B : ~(t \subseteq s /\ t # s)
  <2> HIDE DEF B
  <2> QED  BY <1>0, SmallestSubset
<1>2. s \in SUBSET S /\ PartialSum(f, S)[s] \notin Int  OBVIOUS
<1>7. s # {}
  <2>1. s = {} => PartialSum(f, S)[s] = 0  BY <1>2, PartialStep
  <2> QED  BY <1>2, <2>1
<1>3. NextOf(s) \in s /\ PartialSum(f, S)[s] = f[NextOf(s)] + PartialSum(f, S)[s \ {NextOf(s)}]
  BY <1>2, <1>7, PartialStep
<1>4. s \ {NextOf(s)} \notin B  BY <1>1, <1>3
<1>5. PartialSum(f, S)[s \ {NextOf(s)}] \in Int  BY <1>4
<1>6. f[NextOf(s)] \in Int  BY <1>3
<1> QED  BY <1>3, <1>5, <1>6

\* A partial sum may be taken apart at any element.
LEMMA PartialApart ==
  ASSUME NEW f, NEW S, IsFiniteSet(S), \A x \in S : f[x] \in Int
  PROVE  \A s \in SUBSET S : \A x \in s : PartialSum(f, S)[s] = f[x] + PartialSum(f, S)[s \ {x}]
<1> DEFINE p == PartialSum(f, S)
           B == {s \in SUBSET S : \E x \in s : p[s] # f[x] + p[s \ {x}]}
<1> SUFFICES ASSUME B # {} PROVE FALSE  OBVIOUS
<1>0. B \subseteq SUBSET S  OBVIOUS
<1>1. PICK s \in B : \A t \in B : ~(t \subseteq s /\ t # s)
  <2> HIDE DEF B
  <2> QED  BY <1>0, SmallestSubset
<1>2. PICK x \in s : p[s] # f[x] + p[s \ {x}]  OBVIOUS
<1> DEFINE y == NextOf(s)
<1>3. y \in s /\ p[s] = f[y] + p[s \ {y}]  BY <1>2, PartialStep
<1> HIDE DEF y
<1>4. x # y  BY <1>2, <1>3
<1>5. s \ {x} \notin B /\ s \ {y} \notin B  BY <1>1, <1>2, <1>3
<1> DEFINE u == (s \ {x}) \ {y}
<1>6. p[s \ {x}] = f[y] + p[u]  BY <1>3, <1>4, <1>5
<1>7. p[s \ {y}] = f[x] + p[(s \ {y}) \ {x}] /\ (s \ {y}) \ {x} = u  BY <1>3, <1>4, <1>5
<1>8. p[u] \in Int  BY PartialInt
<1>9. f[x] \in Int /\ f[y] \in Int  BY <1>3
<1> HIDE DEF p, B, u
<1>10. p[s \ {y}] = f[x] + p[u]  BY <1>7
<1> QED  BY <1>2, <1>3, <1>6, <1>8, <1>9, <1>10

\* Partial sums grow with their terms; of equal terms they are equal.
LEMMA PartialOrder ==
  ASSUME NEW f, NEW g, NEW S, IsFiniteSet(S), NEW T \in SUBSET S,
         \A x \in S : f[x] \in Int /\ g[x] \in Int, \A x \in T : f[x] <= g[x]
  PROVE  \A s \in SUBSET T : PartialSum(f, S)[s] <= PartialSum(g, S)[s]
<1> DEFINE p == PartialSum(f, S)
           q == PartialSum(g, S)
           B == {s \in SUBSET T : ~(p[s] <= q[s])}
<1> SUFFICES ASSUME B # {} PROVE FALSE  OBVIOUS
<1>0. B \subseteq SUBSET S  OBVIOUS
<1>1. PICK s \in B : \A t \in B : ~(t \subseteq s /\ t # s)
  <2> HIDE DEF B
  <2> QED  BY <1>0, SmallestSubset
<1>2. s # {}
  <2>1. s \in SUBSET S /\ ~(p[s] <= q[s])  OBVIOUS
  <2>2. s = {} => p[s] = 0 /\ q[s] = 0  BY <2>1, PartialStep
  <2> QED  BY <2>1, <2>2
<1> DEFINE y == NextOf(s)
<1>3. y \in s /\ p[s] = f[y] + p[s \ {y}] /\ q[s] = g[y] + q[s \ {y}]  BY <1>2, PartialStep
<1> HIDE DEF y
<1>4. s \ {y} \notin B  BY <1>1, <1>3
<1>5. p[s \ {y}] <= q[s \ {y}]  BY <1>4
<1>6. p[s \ {y}] \in Int /\ q[s \ {y}] \in Int  BY PartialInt
<1>7. f[y] \in Int /\ g[y] \in Int /\ f[y] <= g[y] /\ ~(p[s] <= q[s])  BY <1>3
<1> HIDE DEF p, q, B
<1> QED  BY <1>3, <1>5, <1>6, <1>7

------------------------------------------------------------------------------
(* What is used of sums elsewhere.                                          *)

\* A sum of integers is an integer.
LEMMA TotalInt ==
  ASSUME NEW f, NEW S, IsFiniteSet(S), \A x \in S : f[x] \in Int
  PROVE  Total(f, S) \in Int
<1>1. S \in SUBSET S  OBVIOUS
<1> QED  BY <1>1, PartialInt, TotalIsPartial

\* A sum grows with its terms.
LEMMA TotalOrder ==
  ASSUME NEW f, NEW g, NEW S, IsFiniteSet(S),
         \A x \in S : f[x] \in Int /\ g[x] \in Int /\ f[x] <= g[x]
  PROVE  Total(f, S) <= Total(g, S)
<1>1. \A s \in SUBSET S : PartialSum(f, S)[s] <= PartialSum(g, S)[s]  BY PartialOrder
<1> QED  BY <1>1, TotalIsPartial

\* Sums of the same terms are the same.
LEMMA TotalSame ==
  ASSUME NEW f, NEW g, NEW S, IsFiniteSet(S), \A x \in S : f[x] \in Int /\ f[x] = g[x]
  PROVE  Total(f, S) = Total(g, S)
<1>1. Total(f, S) <= Total(g, S) /\ Total(g, S) <= Total(f, S)  BY TotalOrder
<1>2. Total(f, S) \in Int /\ Total(g, S) \in Int  BY TotalInt
<1> QED  BY <1>1, <1>2

\* A sum of zeros is zero.
LEMMA TotalZero ==
  ASSUME NEW f, NEW S, IsFiniteSet(S), \A x \in S : f[x] = 0
  PROVE  Total(f, S) = 0
<1> DEFINE p == PartialSum(f, S)
           B == {s \in SUBSET S : p[s] # 0}
<1>1. B = {}
  <2> SUFFICES ASSUME B # {} PROVE FALSE  OBVIOUS
  <2>0. B \subseteq SUBSET S  OBVIOUS
  <2>1. PICK s \in B : \A t \in B : ~(t \subseteq s /\ t # s)
    <3> HIDE DEF B
    <3> QED  BY <2>0, SmallestSubset
  <2>2. s # {}  BY PartialStep
  <2>3. NextOf(s) \in s /\ p[s] = f[NextOf(s)] + p[s \ {NextOf(s)}]  BY <2>2, PartialStep
  <2>4. s \ {NextOf(s)} \notin B  BY <2>1, <2>3
  <2>5. p[s \ {NextOf(s)}] = 0 /\ f[NextOf(s)] = 0 /\ p[s] # 0  BY <2>3, <2>4
  <2> QED  BY <2>3, <2>5
<1>2. S \in SUBSET S  OBVIOUS
<1> QED  BY <1>1, <1>2, TotalIsPartial

\* A term is not more than a sum of natural numbers, and a sum of them is one.
LEMMA TotalNat ==
  ASSUME NEW f, NEW S, IsFiniteSet(S), \A x \in S : f[x] \in Nat
  PROVE  Total(f, S) \in Nat
<1> DEFINE z == [x \in S |-> 0]
<1>1. Total(z, S) = 0  BY TotalZero
<1>2. Total(z, S) <= Total(f, S)  BY TotalOrder
<1>3. Total(f, S) \in Int  BY TotalInt
<1> QED  BY <1>1, <1>2, <1>3

\* One term changes, and the sum changes by as much.
LEMMA TotalChange ==
  ASSUME NEW f, NEW g, NEW S, IsFiniteSet(S), NEW y \in S,
         \A x \in S : f[x] \in Int /\ g[x] \in Int,
         \A x \in S \ {y} : g[x] = f[x]
  PROVE  Total(g, S) = Total(f, S) + (g[y] - f[y])
<1> DEFINE p == PartialSum(f, S)
           q == PartialSum(g, S)
           R == S \ {y}
<1>1. p[S] = f[y] + p[R] /\ q[S] = g[y] + q[R]
  <2>1. S \in SUBSET S  OBVIOUS
  <2> QED  BY <2>1, PartialApart
<1>2. p[R] <= q[R] /\ q[R] <= p[R]
  <2>1. R \in SUBSET S /\ R \in SUBSET R  OBVIOUS
  <2>2. \A x \in R : f[x] <= g[x] /\ g[x] <= f[x]  OBVIOUS
  <2> HIDE DEF R
  <2>3. \A s \in SUBSET R : p[s] <= q[s]  BY <2>1, <2>2, PartialOrder
  <2>4. \A s \in SUBSET R : q[s] <= p[s]  BY <2>1, <2>2, PartialOrder
  <2> QED  BY <2>1, <2>3, <2>4
<1>3. p[R] \in Int /\ q[R] \in Int  BY PartialInt
<1>4. Total(f, S) = p[S] /\ Total(g, S) = q[S]  BY TotalIsPartial
<1>5. f[y] \in Int /\ g[y] \in Int  OBVIOUS
<1> HIDE DEF p, q, R
<1> QED  BY <1>1, <1>2, <1>3, <1>4, <1>5

\* One term may be set apart.
LEMMA TotalApart ==
  ASSUME NEW f, NEW S, IsFiniteSet(S), \A x \in S : f[x] \in Int, NEW y \in S
  PROVE  Total(f, S) = f[y] + Total(f, S \ {y})
<1> DEFINE T == S \ {y}
<1>1. T \in SUBSET S /\ S \in SUBSET S /\ T \in SUBSET T /\ IsFiniteSet(T)  BY FS_Subset
<1>2. PartialSum(f, S)[S] = f[y] + PartialSum(f, S)[T]  BY <1>1, PartialApart
<1>3. SumsUp(PartialSum(f, S), f, S) /\ SumsUp(PartialSum(f, T), f, T)  BY <1>1, PartialSolves
<1>4. \A s \in SUBSET T : PartialSum(f, S)[s] = PartialSum(f, T)[s]
  <2> HIDE DEF T
  <2> QED  BY <1>1, <1>3, SolutionsAgree
<1> QED  BY <1>1, <1>2, <1>4, TotalIsPartial
==============================================================================

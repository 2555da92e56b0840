---------------------------- MODULE NaturalFacts ----------------------------
(***************************************************************************)
(* What the proofs of several modules need of natural numbers and finite   *)
(* sets: least and greatest elements, induction, and functions that are    *)
(* defined step by step or set by set.                                     *)
(***************************************************************************)
EXTENDS Integers, FiniteSetsExt, FiniteSetTheorems, WellFoundedInduction, TLAPS

\* Sets of natural numbers are well founded.
LEMMA Least ==
  ASSUME NEW T \in SUBSET Nat, T # {}
  PROVE  \E x \in T : \A y \in T : x <= y
<1> DEFINE R == OpToRel(<, Nat)
<1>1. \A S : S # {} /\ S \subseteq Nat => \E x \in S : \A y \in S : ~ (<<y, x>> \in R)
  BY WFMin, NatLessThanWellFounded
<1>2. ASSUME NEW x \in Nat, NEW y \in Nat, y < x PROVE <<y, x>> \in R
  BY <1>2 DEF OpToRel
<1> HIDE DEF R
<1>3. PICK x \in T : \A y \in T : ~ (<<y, x>> \in R)
  BY <1>1
<1>4. ASSUME NEW y \in T PROVE x <= y
  <2>1. x \in Nat /\ y \in Nat
    OBVIOUS
  <2>2. ~ (y < x)
    BY <1>2, <1>3, <2>1
  <2> QED BY <2>1, <2>2
<1> QED BY <1>4

LEMMA MinIsLeast ==
  ASSUME NEW T \in SUBSET Nat, T # {}
  PROVE  Min(T) \in T /\ \A y \in T : Min(T) <= y
  BY Least DEF Min

LEMMA MaxIsGreatest ==
  ASSUME NEW T \in SUBSET Nat, T # {}, NEW n \in Nat, \A y \in T : y <= n
  PROVE  Max(T) \in T /\ \A y \in T : Max(T) >= y
<1> DEFINE U == {n - y : y \in T}
<1>1. U \in SUBSET Nat /\ U # {}
  <2>1. \A y \in T : n - y \in Nat
    OBVIOUS
  <2>2. PICK y \in T : TRUE
    OBVIOUS
  <2>3. n - y \in U
    OBVIOUS
  <2>4. U \in SUBSET Nat
    BY <2>1
  <2> QED BY <2>3, <2>4
<1>2. PICK u \in U : \A v \in U : u <= v
  BY <1>1, Least
<1>3. PICK x \in T : u = n - x
  OBVIOUS
<1>4. ASSUME NEW y \in T PROVE x >= y
  <2>1. u <= n - y
    BY <1>2
  <2> QED BY <1>3, <2>1
<1> QED BY <1>4 DEF Max

\* Induction, for a set in the place of a predicate.
LEMMA InductionOverNat ==
  ASSUME NEW S, 0 \in S, \A n \in Nat : n \in S => n + 1 \in S
  PROVE  Nat \subseteq S
<1> DEFINE T == Nat \ S
<1>1. ASSUME T # {} PROVE FALSE
  <2>1. PICK x \in T : \A y \in T : x <= y
    BY <1>1, Least
  <2>2. x \in Nat /\ x # 0 /\ x - 1 \in Nat /\ x - 1 \notin S
    BY <2>1
  <2>3. x - 1 \in T /\ x - 1 < x
    BY <2>2
  <2> QED BY <2>1, <2>3
<1> QED BY <1>1

\* A function on 0, ..., n whose next value is a step from the one before.
Steps(f, e, n, step) == f[0] = e /\ \A k \in 1..n : f[k] = step[<<k, f[k - 1]>>]
StepsLead(V, e, n, step) == \E f \in [0..n -> V] : Steps(f, e, n, step)

LEMMA StepsExist ==
  ASSUME NEW V, NEW e \in V, NEW n \in Nat, NEW step \in [(1..n) \X V -> V]
  PROVE  StepsLead(V, e, n, step)
<1> DEFINE Good(m, f) == f[0] = e /\ \A k \in 1..m : f[k] = step[<<k, f[k - 1]>>]
           S == {m \in Nat : m <= n => \E f \in [0..m -> V] : Good(m, f)}
<1>1. 0 \in S
  <2>1. Good(0, [k \in 0..0 |-> e]) /\ [k \in 0..0 |-> e] \in [0..0 -> V]
    OBVIOUS
  <2> QED BY <2>1
<1>2. ASSUME NEW m \in Nat, m \in S PROVE m + 1 \in S
  <2> SUFFICES ASSUME m + 1 <= n PROVE \E g \in [0..m + 1 -> V] : Good(m + 1, g)
    OBVIOUS
  <2>1. PICK f \in [0..m -> V] : Good(m, f)
    BY <1>2
  <2> DEFINE g == [k \in 0..m + 1 |-> IF k = m + 1 THEN step[<<m + 1, f[m]>>] ELSE f[k]]
  <2>2. f[m] \in V /\ <<m + 1, f[m]>> \in (1..n) \X V
    OBVIOUS
  <2>3. g \in [0..m + 1 -> V]
    BY <2>2
  <2>4. g[0] = e /\ g[m + 1] = step[<<m + 1, g[m]>>]
    <3>1. g[0] = f[0] /\ g[m] = f[m] /\ g[m + 1] = step[<<m + 1, f[m]>>]
      OBVIOUS
    <3> HIDE DEF g
    <3> QED BY <2>1, <3>1
  <2>5. ASSUME NEW k \in 1..m PROVE g[k] = step[<<k, g[k - 1]>>]
    BY <2>1
  <2>6. Good(m + 1, g)
    <3> HIDE DEF g
    <3> QED BY <2>4, <2>5
  <2> QED BY <2>3, <2>6
<1>3. n \in S
  <2> HIDE DEF S
  <2>1. Nat \subseteq S
    BY <1>1, <1>2, InductionOverNat
  <2> QED BY <2>1
<1> QED BY <1>3 DEF StepsLead, Steps

LEMMA StepwiseExists ==
  ASSUME NEW V, NEW e \in V, NEW n \in Nat, NEW step \in [(1..n) \X V -> V]
  PROVE  \E f \in [0..n -> V] : f[0] = e /\ \A k \in 1..n : f[k] = step[<<k, f[k - 1]>>]
<1>1. StepsLead(V, e, n, step)
  BY StepsExist
<1> QED BY <1>1 DEF StepsLead, Steps

\* The greatest element of a set, by a witness.
LEMMA MaxIs ==
  ASSUME NEW S \in SUBSET Nat, NEW x \in S, \A y \in S : y <= x
  PROVE  Max(S) = x
<1>1. Max(S) \in S /\ \A y \in S : Max(S) >= y
  BY DEF Max
<1>2. PICK m \in Nat : m = Max(S)
  BY <1>1
<1>3. m >= x /\ m <= x /\ x \in Nat
  BY <1>1, <1>2
<1> QED BY <1>2, <1>3

\* The value of a membership in a record.
LEMMA MembershipIsBoolean ==
  ASSUME NEW S, NEW c
  PROVE  \E b \in BOOLEAN : b = (c \in S)
<1>1. CASE c \in S
  <2>1. TRUE = (c \in S)
    BY <1>1
  <2> QED BY <2>1
<1>2. CASE ~ (c \in S)
  <2>1. FALSE = (c \in S)
    BY <1>2
  <2> QED BY <2>1
<1> QED BY <1>1, <1>2

LEMMA SubsetsOfRange ==
  ASSUME NEW n \in Nat, NEW s \in SUBSET (1..n)
  PROVE  IsFiniteSet(s) /\ Cardinality(s) \in Nat /\ Cardinality(s) <= n
<1>1. IsFiniteSet(1..n) /\ Cardinality(1..n) = n
  BY FS_Interval
<1>2. IsFiniteSet(s) /\ Cardinality(s) <= Cardinality(1..n)
  BY <1>1, FS_Subset
<1>3. Cardinality(s) \in Nat
  BY <1>2, FS_CardinalityType
<1> QED BY <1>1, <1>2, <1>3

\* A sum over the subsets of 1, ..., n that takes any element first, as the
\* folds of the community modules do.
LEMMA SumExists ==
  ASSUME NEW n \in Nat, NEW size \in [1..n -> Nat]
  PROVE  \E f \in [SUBSET (1..n) -> Nat] : \A s \in SUBSET (1..n) :
           f[s] = IF s = {} THEN 0
                  ELSE f[s \ {CHOOSE x \in s : TRUE}] + size[CHOOSE x \in s : TRUE]
<1> DEFINE D == 1..n
           Sub == SUBSET D
           some(s) == CHOOSE x \in s : TRUE
           value(f, s) == IF s = {} THEN 0 ELSE f[s \ {some(s)}] + size[some(s)]
           Good(f, m) == \A s \in Sub : Cardinality(s) <= m => f[s] = value(f, s)
           S == {m \in Nat : \E f \in [Sub -> Nat] : Good(f, m)}
<1>2. \A s \in Sub : IsFiniteSet(s) /\ Cardinality(s) \in Nat /\ Cardinality(s) <= n
  BY SubsetsOfRange
<1>3. \A s \in Sub : s # {} => /\ some(s) \in D /\ s \ {some(s)} \in Sub
                              /\ Cardinality(s \ {some(s)}) = Cardinality(s) - 1
  <2> SUFFICES ASSUME NEW s \in Sub, s # {}
               PROVE  /\ some(s) \in D /\ s \ {some(s)} \in Sub
                      /\ Cardinality(s \ {some(s)}) = Cardinality(s) - 1
    OBVIOUS
  <2>1. some(s) \in s
    OBVIOUS
  <2> HIDE DEF some
  <2>2. Cardinality(s \ {some(s)}) = Cardinality(s) - 1
    BY <1>2, <2>1, FS_RemoveElement
  <2> QED BY <2>1, <2>2
<1>4. \A f \in [Sub -> Nat] : \A s \in Sub : value(f, s) \in Nat
  <2> SUFFICES ASSUME NEW f \in [Sub -> Nat], NEW s \in Sub PROVE value(f, s) \in Nat
    OBVIOUS
  <2>1. CASE s = {}
    BY <2>1
  <2>2. CASE s # {}
    <3>1. PICK r \in Sub, x \in D : r = s \ {some(s)} /\ x = some(s)
      BY <1>3, <2>2
    <3>2. f[r] + size[x] \in Nat
      OBVIOUS
    <3> HIDE DEF some, Sub
    <3> QED BY <2>2, <3>1, <3>2
  <2> QED BY <2>1, <2>2
<1>5. 0 \in S
  <2> DEFINE f == [s \in Sub |-> 0]
  <2>1. \A s \in Sub : Cardinality(s) <= 0 => s = {}
    <3> SUFFICES ASSUME NEW s \in Sub, Cardinality(s) <= 0 PROVE s = {}
      OBVIOUS
    <3>1. IsFiniteSet(s) /\ Cardinality(s) = 0
      BY <1>2
    <3> QED BY <3>1, FS_EmptySet
  <2>2. Good(f, 0)
    BY <2>1
  <2>3. f \in [Sub -> Nat]
    OBVIOUS
  <2> QED BY <2>2, <2>3
<1>6. ASSUME NEW m \in Nat, m \in S PROVE m + 1 \in S
  <2>1. PICK f \in [Sub -> Nat] : Good(f, m)
    BY <1>6
  <2> DEFINE g == [s \in Sub |-> value(f, s)]
  <2>2. g \in [Sub -> Nat]
    BY <1>4
  <2>3. ASSUME NEW s \in Sub, Cardinality(s) <= m + 1 PROVE g[s] = value(g, s)
    <3>1. g[s] = value(f, s)
      OBVIOUS
    <3>2. CASE s = {}
      BY <3>1, <3>2
    <3>3. CASE s # {}
      <4>1. PICK r \in Sub : r = s \ {some(s)} /\ Cardinality(r) = Cardinality(s) - 1
        BY <1>3, <3>3
      <4>2. Cardinality(r) <= m
        BY <1>2, <2>3, <4>1
      <4>3. g[r] = value(f, r) /\ f[r] = value(f, r)
        BY <2>1, <4>2
      <4>4. g[r] = f[r]
        BY <4>3
      <4> HIDE DEF g, some, Sub
      <4> QED BY <3>1, <3>3, <4>1, <4>4
    <3> QED BY <3>2, <3>3
  <2>4. Good(g, m + 1)
    <3> HIDE DEF g, value
    <3> QED BY <2>3
  <2> HIDE DEF g, Good
  <2> QED BY <2>2, <2>4
<1>7. n \in S
  <2> HIDE DEF S
  <2>1. Nat \subseteq S
    BY <1>5, <1>6, InductionOverNat
  <2> QED BY <2>1
<1>8. PICK f \in [Sub -> Nat] : Good(f, n)
  BY <1>7
<1>9. \A s \in Sub : f[s] = value(f, s)
  BY <1>2, <1>8
<1> QED BY <1>9

\* Whatever function adds like that is a number at the whole set.
LEMMA SumIsNat ==
  ASSUME NEW n \in Nat, NEW size \in [1..n -> Nat], NEW f,
         f[{}] = 0,
         \A s \in SUBSET (1..n) :
           s # {} /\ f[s \ {CHOOSE x \in s : TRUE}] \in Nat =>
             f[s] = f[s \ {CHOOSE x \in s : TRUE}] + size[CHOOSE x \in s : TRUE]
  PROVE  f[1..n] \in Nat
<1> DEFINE Sub == SUBSET (1..n)
           some(s) == CHOOSE x \in s : TRUE
           T == {m \in Nat : \A s \in Sub : Cardinality(s) <= m => f[s] \in Nat}
<1>2. \A s \in Sub : IsFiniteSet(s) /\ Cardinality(s) \in Nat /\ Cardinality(s) <= n
  BY SubsetsOfRange
<1>3. \A s \in Sub : s # {} => some(s) \in s
  OBVIOUS
<1>4. \A s \in Sub : s # {} /\ f[s \ {some(s)}] \in Nat =>
        f[s] = f[s \ {some(s)}] + size[some(s)]
  OBVIOUS
<1> HIDE DEF some
<1>5. 0 \in T
  <2> SUFFICES ASSUME NEW s \in Sub, Cardinality(s) <= 0 PROVE f[s] \in Nat
    OBVIOUS
  <2>1. IsFiniteSet(s) /\ Cardinality(s) = 0
    BY <1>2
  <2>2. s = {}
    BY <2>1, FS_EmptySet
  <2> QED BY <2>2
<1>6. ASSUME NEW m \in Nat, m \in T PROVE m + 1 \in T
  <2> SUFFICES ASSUME NEW s \in Sub, Cardinality(s) <= m + 1 PROVE f[s] \in Nat
    OBVIOUS
  <2>1. CASE s = {}
    BY <2>1
  <2>2. CASE s # {}
    <3>1. some(s) \in s /\ some(s) \in 1..n
      BY <1>3, <2>2
    <3>2. PICK r \in Sub : r = s \ {some(s)}
      OBVIOUS
    <3>3. Cardinality(r) = Cardinality(s) - 1
      BY <1>2, <3>1, <3>2, FS_RemoveElement
    <3>4. Cardinality(r) <= m
      <4>1. PICK c \in Nat : c = Cardinality(s) /\ c <= m + 1
        BY <1>2
      <4> QED BY <3>3, <4>1
    <3>5. f[r] \in Nat
      BY <1>6, <3>4
    <3>6. f[s] = f[r] + size[some(s)] /\ size[some(s)] \in Nat
      BY <1>4, <2>2, <3>1, <3>2, <3>5
    <3> QED BY <3>5, <3>6
  <2> QED BY <2>1, <2>2
<1>7. n \in T
  <2> HIDE DEF T
  <2>1. Nat \subseteq T
    BY <1>5, <1>6, InductionOverNat
  <2> QED BY <2>1
<1>8. 1..n \in Sub
  OBVIOUS
<1>9. Cardinality(1..n) <= n
  BY SubsetsOfRange
<1> QED BY <1>7, <1>8, <1>9

\* A sum does not depend on the element that is taken first.
LEMMA SumTakesAny ==
  ASSUME NEW n \in Nat, NEW size \in [1..n -> Nat], NEW f \in [SUBSET (1..n) -> Nat],
         \A s \in SUBSET (1..n) : s # {} => \E x \in s : f[s] = f[s \ {x}] + size[x]
  PROVE  \A s \in SUBSET (1..n) : \A x \in s : f[s] = f[s \ {x}] + size[x]
<1> DEFINE D == 1..n
           Sub == SUBSET D
           Any(s) == \A x \in s : f[s] = f[s \ {x}] + size[x]
           T == {m \in Nat : \A s \in Sub : Cardinality(s) <= m => Any(s)}
<1>1. \A s \in Sub : IsFiniteSet(s) /\ Cardinality(s) \in Nat /\ Cardinality(s) <= n
  BY SubsetsOfRange
<1>3. 0 \in T
  <2> SUFFICES ASSUME NEW s \in Sub, Cardinality(s) <= 0, NEW x \in s PROVE FALSE
    OBVIOUS
  <2>1. IsFiniteSet(s) /\ Cardinality(s) = 0
    BY <1>1
  <2> QED BY <2>1, FS_EmptySet
<1>4. ASSUME NEW m \in Nat, m \in T PROVE m + 1 \in T
  <2>1. ASSUME NEW s \in Sub, Cardinality(s) <= m + 1, NEW x \in s
        PROVE  f[s] = f[s \ {x}] + size[x]
    <3>1. PICK y \in s : f[s] = f[s \ {y}] + size[y]
      OBVIOUS
    <3>2. CASE x = y
      BY <3>1, <3>2
    <3>3. CASE x # y
      <4>1. PICK r \in Sub, q \in Sub, p \in Sub :
              r = s \ {y} /\ q = s \ {x} /\ p = s \ {x, y}
        OBVIOUS
      <4>2. Cardinality(r) = Cardinality(s) - 1 /\ Cardinality(q) = Cardinality(s) - 1
        BY <1>1, <4>1, FS_RemoveElement
      <4>3. Cardinality(r) <= m /\ Cardinality(q) <= m
        <5>1. PICK c \in Nat : c = Cardinality(s) /\ c <= m + 1
          BY <1>1, <2>1
        <5> QED BY <4>2, <5>1
      <4>4. x \in r /\ r \ {x} = p /\ y \in q /\ q \ {y} = p
        BY <3>3, <4>1
      <4>5. f[r] = f[p] + size[x] /\ f[q] = f[p] + size[y]
        <5>1. f[r] = f[r \ {x}] + size[x]
          BY <1>4, <4>3, <4>4
        <5>2. f[q] = f[q \ {y}] + size[y]
          BY <1>4, <4>3, <4>4
        <5> QED BY <4>4, <5>1, <5>2
      <4>6. PICK a \in Nat, b \in Nat, c \in Nat : a = f[p] /\ b = size[x] /\ c = size[y]
        <5>1. f[p] \in Nat /\ size[x] \in Nat /\ size[y] \in Nat
          OBVIOUS
        <5> QED BY <5>1, Zenon
      <4>7. f[r] = a + b /\ f[q] = a + c
        BY <4>5, <4>6, Zenon
      <4>8. f[s] = (a + b) + c
        BY <3>1, <4>1, <4>6, <4>7, Zenon
      <4>9. (a + b) + c = (a + c) + b
        OBVIOUS
      <4> QED BY <4>1, <4>6, <4>7, <4>8, <4>9, Zenon
    <3> QED BY <3>2, <3>3
  <2>2. \A s \in Sub : Cardinality(s) <= m + 1 => Any(s)
    BY <2>1
  <2> HIDE DEF Any, Sub
  <2> QED BY <2>2
<1>5. n \in T
  <2> HIDE DEF T
  <2>1. Nat \subseteq T
    BY <1>3, <1>4, InductionOverNat
  <2> QED BY <2>1
<1> QED BY <1>1, <1>5

\* The sum of a function on 1, ..., n is the last of the sums of its beginnings.
Sums(n, size, p) ==
  /\ p \in [0..n -> Nat] /\ p[0] = 0
  /\ \A k \in 1..n : p[k] = p[k - 1] + size[k]

LEMMA SumByBeginnings ==
  ASSUME NEW n \in Nat, NEW size \in [1..n -> Nat]
  PROVE  \E p : Sums(n, size, p) /\ SumFunction(size) = p[n]
<1> DEFINE D == 1..n
           some(s) == CHOOSE x \in s : TRUE
           value(f, s) == IF s = {} THEN 0 ELSE size[some(s)] + f[s \ {some(s)}]
           Is(f) == f = [s \in SUBSET D |-> value(f, s)]
           iter == CHOOSE f : Is(f)
<1>1. SumFunction(size) = iter[D]
  BY DEF SumFunction, SumFunctionOnSet, FoldFunctionOnSet, MapThenFoldSet
<1>2. PICK f \in [SUBSET D -> Nat] : \A s \in SUBSET D :
        f[s] = IF s = {} THEN 0 ELSE f[s \ {some(s)}] + size[some(s)]
  BY SumExists
<1>3. \A s \in SUBSET D : s # {} => some(s) \in D /\ s \ {some(s)} \in SUBSET D
  OBVIOUS
<1>4. \A g : \A s \in SUBSET D : s # {} /\ g[s \ {some(s)}] \in Nat =>
        value(g, s) = g[s \ {some(s)}] + size[some(s)]
  <2> SUFFICES ASSUME NEW g, NEW s \in SUBSET D, s # {}, g[s \ {some(s)}] \in Nat
               PROVE  value(g, s) = g[s \ {some(s)}] + size[some(s)]
    OBVIOUS
  <2>1. some(s) \in D
    BY <1>3
  <2>2. PICK i \in D : i = some(s)
    BY <2>1
  <2>3. PICK m \in Nat, k \in Nat : m = g[s \ {some(s)}] /\ k = size[i]
    BY <2>2
  <2>4. k + m = m + k
    OBVIOUS
  <2> QED BY <2>2, <2>3, <2>4
<1> HIDE DEF some
<1>5. \E g : Is(g)
  <2>1. \A s \in SUBSET D : f[s] = value(f, s)
    <3> SUFFICES ASSUME NEW s \in SUBSET D PROVE f[s] = value(f, s)
      OBVIOUS
    <3>1. CASE s = {}
      BY <1>2, <3>1
    <3>2. CASE s # {}
      BY <1>2, <1>3, <1>4, <3>2
    <3> QED BY <3>1, <3>2
  <2> HIDE DEF value
  <2>2. Is(f)
    BY <2>1
  <2> QED BY <2>2
<1>6. Is(iter)
  <2> HIDE DEF value
  <2> QED BY <1>5
<1> HIDE DEF iter
<1>7. PICK g : g = iter /\ \A s \in SUBSET D : g[s] = value(g, s)
  <2> HIDE DEF value
  <2>1. PICK g : g = iter
    OBVIOUS
  <2>2. g = [s \in SUBSET D |-> value(g, s)]
    BY <1>6, <2>1
  <2>3. \A s \in SUBSET D : g[s] = value(g, s)
    BY <2>2
  <2> QED BY <2>1, <2>3
<1> DEFINE T == {m \in Nat : \A s \in SUBSET D : Cardinality(s) <= m => g[s] = f[s]}
<1>8. \A s \in SUBSET D : IsFiniteSet(s) /\ Cardinality(s) \in Nat /\ Cardinality(s) <= n
  BY SubsetsOfRange
<1>9. g[{}] = f[{}] /\ f[{}] = 0
  BY <1>2, <1>7
<1>10. 0 \in T
  <2> SUFFICES ASSUME NEW s \in SUBSET D, Cardinality(s) <= 0 PROVE g[s] = f[s]
    OBVIOUS
  <2>1. IsFiniteSet(s) /\ Cardinality(s) = 0
    BY <1>8
  <2>2. s = {}
    BY <2>1, FS_EmptySet
  <2> QED BY <1>9, <2>2
<1>11. ASSUME NEW m \in Nat, m \in T PROVE m + 1 \in T
  <2> SUFFICES ASSUME NEW s \in SUBSET D, Cardinality(s) <= m + 1 PROVE g[s] = f[s]
    OBVIOUS
  <2>1. CASE s = {}
    BY <1>9, <2>1
  <2>2. CASE s # {}
    <3>1. some(s) \in s
      BY <2>2 DEF some
    <3>2. PICK r \in SUBSET D : r = s \ {some(s)}
      OBVIOUS
    <3>3. Cardinality(r) = Cardinality(s) - 1
      BY <1>8, <3>1, <3>2, FS_RemoveElement
    <3>4. Cardinality(r) <= m
      <4>1. PICK c \in Nat : c = Cardinality(s) /\ c <= m + 1
        BY <1>8
      <4> QED BY <3>3, <4>1
    <3>5. g[r] = f[r] /\ f[r] \in Nat
      BY <1>11, <3>4
    <3>6. value(g, s) = g[r] + size[some(s)]
      <4> HIDE DEF value
      <4> QED BY <1>4, <2>2, <3>2, <3>5
    <3>7. f[s] = f[r] + size[some(s)]
      BY <1>2, <2>2, <3>2
    <3> HIDE DEF value
    <3> QED BY <1>7, <3>5, <3>6, <3>7
  <2> QED BY <2>1, <2>2
<1>12. n \in T
  <2> HIDE DEF T
  <2>1. Nat \subseteq T
    BY <1>10, <1>11, InductionOverNat
  <2> QED BY <2>1
<1>13. SumFunction(size) = f[D]
  BY <1>1, <1>7, <1>8, <1>12
<1> DEFINE p == [k \in 0..n |-> f[1..k]]
<1>14. p \in [0..n -> Nat]
  OBVIOUS
<1>15. p[0] = 0
  <2>1. p[0] = f[1..0] /\ 1..0 = {}
    OBVIOUS
  <2> QED BY <1>9, <2>1, Zenon
<1>16. ASSUME NEW k \in 1..n PROVE p[k] = p[k - 1] + size[k]
  <2>1. (1..k) \ {k} = 1..k - 1 /\ k \in 1..k /\ 1..k \in SUBSET D
    OBVIOUS
  <2>2. \A s \in SUBSET D : \A x \in s : f[s] = f[s \ {x}] + size[x]
    <3>1. \A s \in SUBSET D : s # {} => \E x \in s : f[s] = f[s \ {x}] + size[x]
      <4>1. \A s \in SUBSET D : s # {} => some(s) \in s
        BY DEF some
      <4> QED BY <1>2, <4>1
    <3> QED BY <3>1, SumTakesAny
  <2>3. f[1..k] = f[1..k - 1] + size[k]
    BY <2>1, <2>2
  <2>4. k \in 0..n /\ k - 1 \in 0..n
    OBVIOUS
  <2> QED BY <2>3, <2>4
<1>17. p[n] = f[D]
  OBVIOUS
<1> HIDE DEF p
<1> QED BY <1>13, <1>14, <1>15, <1>16, <1>17 DEF Sums

\* Induction up to a number.
LEMMA InductionUpTo ==
  ASSUME NEW n \in Nat, NEW S, 0 \in S, \A k \in 1..n : k - 1 \in S => k \in S
  PROVE  \A k \in 0..n : k \in S
<1> DEFINE T == {k \in Nat : k <= n => k \in S}
<1>1. 0 \in T
  OBVIOUS
<1>2. ASSUME NEW k \in Nat, k \in T PROVE k + 1 \in T
  <2>1. CASE k + 1 <= n
    <3>1. k + 1 \in 1..n /\ (k + 1) - 1 = k /\ k <= n
      BY <2>1
    <3>2. k \in S
      BY <1>2, <3>1
    <3>3. k + 1 \in S
      BY <3>1, <3>2
    <3> QED BY <3>3
  <2>2. CASE ~ (k + 1 <= n)
    BY <2>2
  <2> QED BY <2>1, <2>2
<1>3. Nat \subseteq T
  <2> HIDE DEF T
  <2> QED BY <1>1, <1>2, InductionOverNat
<1> QED BY <1>3

\* What is added first does not depend on what is added later.
LEMMA SumsAgree ==
  ASSUME NEW m \in Nat, NEW n \in Nat, m <= n, NEW f, NEW h, NEW p, NEW q,
         Sums(m, f, p), Sums(n, h, q), \A k \in 1..m : h[k] = f[k]
  PROVE  \A k \in 0..m : q[k] = p[k]
<1> DEFINE S == {k \in 0..m : q[k] = p[k]}
<1>1. 0 \in S
  BY DEF Sums
<1>2. ASSUME NEW k \in 1..m, k - 1 \in S PROVE k \in S
  <2>1. k \in 1..n /\ k \in 0..m
    OBVIOUS
  <2>2. q[k] = q[k - 1] + h[k] /\ p[k] = p[k - 1] + f[k]
    BY <2>1 DEF Sums
  <2> QED BY <1>2, <2>1, <2>2
<1>3. \A k \in 0..m : k \in S
  <2> HIDE DEF S
  <2> QED BY <1>1, <1>2, InductionUpTo
<1> QED BY <1>3

LEMMA SumIsNumber ==
  ASSUME NEW n \in Nat, NEW f \in [1..n -> Nat]
  PROVE  SumFunction(f) \in Nat
<1>1. PICK p : Sums(n, f, p) /\ SumFunction(f) = p[n]
  BY SumByBeginnings
<1> QED BY <1>1 DEF Sums

LEMMA SumOfNone ==
  ASSUME NEW f \in [1..0 -> Nat]
  PROVE  SumFunction(f) = 0
<1>1. PICK p : Sums(0, f, p) /\ SumFunction(f) = p[0]
  BY SumByBeginnings
<1> QED BY <1>1 DEF Sums

LEMMA SumGoesOn ==
  ASSUME NEW n \in Nat, NEW f \in [1..n -> Nat], NEW h \in [1..n + 1 -> Nat],
         \A k \in 1..n : h[k] = f[k]
  PROVE  SumFunction(h) = SumFunction(f) + h[n + 1]
<1>1. PICK p : Sums(n, f, p) /\ SumFunction(f) = p[n]
  BY SumByBeginnings
<1>2. n + 1 \in Nat /\ n <= n + 1 /\ n \in 0..n /\ n + 1 \in 1..n + 1 /\ (n + 1) - 1 = n
  OBVIOUS
<1>3. PICK q : Sums(n + 1, h, q) /\ SumFunction(h) = q[n + 1]
  BY <1>2, SumByBeginnings
<1>4. q[n] = p[n]
  BY <1>1, <1>2, <1>3, SumsAgree
<1>5. q[n + 1] = q[n] + h[n + 1]
  BY <1>2, <1>3 DEF Sums
<1> QED BY <1>1, <1>3, <1>4, <1>5

LEMMA SumsAdd ==
  ASSUME NEW n \in Nat, NEW f \in [1..n -> Nat], NEW g \in [1..n -> Nat],
         NEW h \in [1..n -> Nat], \A k \in 1..n : h[k] = f[k] + g[k]
  PROVE  SumFunction(h) = SumFunction(f) + SumFunction(g)
<1>1. PICK p : Sums(n, f, p) /\ SumFunction(f) = p[n]
  BY SumByBeginnings
<1>2. PICK q : Sums(n, g, q) /\ SumFunction(g) = q[n]
  BY SumByBeginnings
<1>3. PICK r : Sums(n, h, r) /\ SumFunction(h) = r[n]
  BY SumByBeginnings
<1> DEFINE S == {k \in 0..n : r[k] = p[k] + q[k]}
<1>4. 0 \in S
  BY <1>1, <1>2, <1>3 DEF Sums
<1>5. ASSUME NEW k \in 1..n, k - 1 \in S PROVE k \in S
  <2>1. k \in 0..n /\ k - 1 \in 0..n
    OBVIOUS
  <2>2. PICK a \in Nat, b \in Nat, x \in Nat, y \in Nat :
          a = p[k - 1] /\ b = q[k - 1] /\ x = f[k] /\ y = g[k]
    BY <1>1, <1>2, <2>1 DEF Sums
  <2>3. p[k] = a + x /\ q[k] = b + y /\ r[k] = r[k - 1] + h[k]
    BY <1>1, <1>2, <1>3, <2>2 DEF Sums
  <2>4. r[k - 1] = a + b /\ h[k] = x + y
    BY <1>5, <2>2
  <2>5. (a + b) + (x + y) = (a + x) + (b + y)
    OBVIOUS
  <2> QED BY <2>1, <2>3, <2>4, <2>5
<1>6. \A k \in 0..n : k \in S
  <2> HIDE DEF S
  <2> QED BY <1>4, <1>5, InductionUpTo
<1>7. n \in 0..n
  OBVIOUS
<1> QED BY <1>1, <1>2, <1>3, <1>6, <1>7

LEMMA SumsCompare ==
  ASSUME NEW n \in Nat, NEW f \in [1..n -> Nat], NEW g \in [1..n -> Nat],
         \A k \in 1..n : f[k] <= g[k]
  PROVE  SumFunction(f) <= SumFunction(g)
<1> DEFINE d == [k \in 1..n |-> g[k] - f[k]]
<1>1. \A k \in 1..n : d[k] \in Nat /\ g[k] = f[k] + d[k]
  <2> SUFFICES ASSUME NEW k \in 1..n PROVE d[k] \in Nat /\ g[k] = f[k] + d[k]
    OBVIOUS
  <2>1. PICK a \in Nat, b \in Nat : a = f[k] /\ b = g[k] /\ a <= b
    OBVIOUS
  <2>2. d[k] = b - a
    BY <2>1
  <2> QED BY <2>1, <2>2
<1>2. d \in [1..n -> Nat]
  BY <1>1
<1> HIDE DEF d
<1>3. SumFunction(g) = SumFunction(f) + SumFunction(d)
  BY <1>1, <1>2, SumsAdd
<1>4. SumFunction(f) \in Nat /\ SumFunction(d) \in Nat
  BY <1>2, SumIsNumber
<1> QED BY <1>3, <1>4

LEMMA SumOfOnes ==
  ASSUME NEW n \in Nat, NEW f \in [1..n -> Nat], \A k \in 1..n : f[k] = 1
  PROVE  SumFunction(f) = n
<1>1. PICK p : Sums(n, f, p) /\ SumFunction(f) = p[n]
  BY SumByBeginnings
<1> DEFINE S == {k \in 0..n : p[k] = k}
<1>2. 0 \in S
  BY <1>1 DEF Sums
<1>3. ASSUME NEW k \in 1..n, k - 1 \in S PROVE k \in S
  <2>1. p[k] = p[k - 1] + 1
    BY <1>1 DEF Sums
  <2> QED BY <1>3, <2>1
<1>4. \A k \in 0..n : k \in S
  <2> HIDE DEF S
  <2> QED BY <1>2, <1>3, InductionUpTo
<1>5. n \in 0..n
  OBVIOUS
<1> QED BY <1>1, <1>4, <1>5
=============================================================================

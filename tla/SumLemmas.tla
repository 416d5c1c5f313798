----------------------------- MODULE SumLemmas -----------------------------
(***************************************************************************)
(* Lemmas about sums with the fold of the community modules: the fold is   *)
(* well defined on every finite set, its value does not depend on the      *)
(* order in which the elements are taken, and it lies between the bounds   *)
(* of its summands.  LatencyStats sums its samples with it.                *)
(*                                                                         *)
(* The library's induction theorems quantify over operators; here a set of *)
(* counterexamples is a set, and its minimal elements are found with the   *)
(* theorem that strict inclusion is well founded on finite sets.           *)
(***************************************************************************)
EXTENDS Integers, Functions, FiniteSets, FiniteSetTheorems, TLAPS

IsMinimal(m, D) == \A d \in D : ~(d \subseteq m /\ d # m)

LEMMA MinimalCounterexample ==
  ASSUME NEW S, IsFiniteSet(S), NEW D, D \subseteq SUBSET S, D # {}
  PROVE  \E m \in D : IsMinimal(m, D)
<1>1. IsWellFoundedOn(StrictSubsetOrdering(S), FiniteSubsetsOf(S))
  BY FS_StrictSubsetOrderingWellFounded
<1>2. D \subseteq FiniteSubsetsOf(S)
  BY FS_FiniteSubsetsOfFinite
<1>3. PICK m \in D : \A d \in D : ~(<<d, m>> \in StrictSubsetOrdering(S))
  BY <1>1, <1>2, WFMin
<1>. QED  BY <1>3 DEF StrictSubsetOrdering, IsMinimal

SumOver(f, S) == FoldFunctionOnSet(+, 0, f, S)

Some(s) == CHOOSE x \in s : TRUE

(* iter is the function by which the fold over S is defined.               *)
Iterates(f, S, iter) ==
  iter = [s \in SUBSET S |-> IF s = {} THEN 0 ELSE f[Some(s)] + iter[s \ {Some(s)}]]

LEMMA FoldIterates ==
  ASSUME NEW f, NEW S
  PROVE  SumOver(f, S) = (CHOOSE iter : Iterates(f, S, iter))[S]
  BY DEF SumOver, FoldFunctionOnSet, MapThenFoldSet, Iterates, Some

LEMMA SomeInSet ==
  ASSUME NEW s, s # {}
  PROVE  /\ Some(s) \in s
         /\ s \ {Some(s)} \subseteq s /\ s \ {Some(s)} # s
  BY DEF Some

LEMMA IterateSteps ==
  ASSUME NEW f, NEW S, NEW iter, Iterates(f, S, iter), NEW s \in SUBSET S
  PROVE  /\ s = {} => iter[s] = 0
         /\ s # {} => iter[s] = f[Some(s)] + iter[s \ {Some(s)}]
  BY Zenon DEF Iterates

(* Two such functions agree wherever both are defined.                     *)
LEMMA IteratesAgree ==
  ASSUME NEW f, NEW S, NEW T, NEW g, NEW h, Iterates(f, S, g), Iterates(f, T, h),
         NEW s, s \subseteq S, s \subseteq T, IsFiniteSet(s)
  PROVE  g[s] = h[s]
<1> DEFINE D == {d \in SUBSET s : g[d] # h[d]}
<1>0. D \subseteq SUBSET s /\ \A d \in SUBSET s : d \in D <=> g[d] # h[d]
  OBVIOUS
<1>. HIDE DEF D
<1>1. SUFFICES ASSUME D # {} PROVE FALSE
  BY <1>0
<1>2. PICK m \in D : \A d \in D : ~(d \subseteq m /\ d # m)
  <2>1. \E m \in D : IsMinimal(m, D)
    BY Zenon, <1>0, <1>1, MinimalCounterexample
  <2>. QED  BY Zenon, <2>1 DEF IsMinimal
<1>3. m \in SUBSET S /\ m \in SUBSET T
  BY <1>0
<1>4. m # {}
  <2>1. g[m] # h[m]
    BY <1>0
  <2>2. m = {} => g[m] = 0 /\ h[m] = 0
    BY Zenon, <1>3, IterateSteps
  <2>. QED  BY <2>1, <2>2
<1> DEFINE t == m \ {Some(m)}
<1>5. t \in SUBSET s /\ t \notin D
  BY <1>0, <1>2, <1>4, SomeInSet
<1>6. g[t] = h[t]
  BY Zenon, <1>0, <1>5
<1>7. g[m] = f[Some(m)] + g[t]
  BY <1>3, <1>4, IterateSteps
<1>8. h[m] = f[Some(m)] + h[t]
  BY <1>3, <1>4, IterateSteps
<1>. QED  BY Zenon, <1>0, <1>6, <1>7, <1>8

LEMMA IteratesExist ==
  ASSUME NEW f, NEW S, IsFiniteSet(S)
  PROVE  \E iter : Iterates(f, S, iter)
<1> DEFINE D == {d \in SUBSET S : ~\E iter : Iterates(f, d, iter)}
<1>0. D \subseteq SUBSET S /\ \A d \in SUBSET S : d \in D <=> ~\E iter : Iterates(f, d, iter)
  BY Zenon
<1>. HIDE DEF D
<1>1. SUFFICES ASSUME D # {} PROVE FALSE
  <2>1. S \notin D => \E iter : Iterates(f, S, iter)
    BY Zenon, <1>0
  <2>. QED  BY Zenon, <1>1, <2>1
<1>2. PICK m \in D : \A d \in D : ~(d \subseteq m /\ d # m)
  <2>1. \E m \in D : IsMinimal(m, D)
    BY Zenon, <1>0, <1>1, MinimalCounterexample
  <2>. QED  BY Zenon, <2>1 DEF IsMinimal
<1>3. m \subseteq S /\ IsFiniteSet(m)
  BY <1>0, FS_Subset
<1> DEFINE Below(d) == CHOOSE iter : Iterates(f, d, iter)
           fresh(s) == f[Some(s)] + Below(s \ {Some(s)})[s \ {Some(s)}]
           whole == [s \in SUBSET m |-> IF s = {} THEN 0 ELSE fresh(s)]
<1>4. \A d \in SUBSET m : d # m => Iterates(f, d, Below(d))
  <2>1. ASSUME NEW d \in SUBSET m, d # m PROVE Iterates(f, d, Below(d))
    <3>1. d \in SUBSET S /\ d \notin D
      BY <1>2, <1>3, <2>1
    <3>2. \E iter : Iterates(f, d, iter)
      BY Zenon, <1>0, <3>1
    <3>. QED  BY Zenon, <3>2
  <2>. QED  BY <2>1
<1>. HIDE DEF Below
<1>5. ASSUME NEW s \in SUBSET m, s # m
      PROVE  Below(s)[s] = IF s = {} THEN 0 ELSE fresh(s)
  <2>1. Iterates(f, s, Below(s)) /\ s \in SUBSET s
    BY <1>4, <1>5
  <2>2. CASE s = {}
    <3>1. Below(s)[s] = 0
      BY Zenon, <2>1, <2>2, IterateSteps
    <3>. QED  BY Zenon, <2>2, <3>1
  <2>3. CASE s # {}
    <3> DEFINE t == s \ {Some(s)}
    <3>1. t \subseteq s /\ t \subseteq t /\ t \in SUBSET m /\ t # m
      BY <1>5, <2>3, SomeInSet
    <3>2. Iterates(f, t, Below(t))
      BY Zenon, <1>4, <3>1
    <3>3. IsFiniteSet(t)
      BY <1>3, <3>1, FS_Subset
    <3>. HIDE DEF t
    <3>4. Below(s)[t] = Below(t)[t]
      BY <2>1, <3>1, <3>2, <3>3, IteratesAgree
    <3>5. Below(s)[s] = f[Some(s)] + Below(s)[t]
      BY <2>1, <2>3, IterateSteps DEF t
    <3>. QED  BY Zenon, <2>3, <3>4, <3>5 DEF t
  <2>. QED  BY <2>2, <2>3
<1>6. ASSUME NEW s \in SUBSET m, s # {}
      PROVE  fresh(s) = f[Some(s)] + whole[s \ {Some(s)}]
  <2> DEFINE t == s \ {Some(s)}
  <2>1. t \in SUBSET m /\ t # m
    BY <1>6, SomeInSet
  <2>2. whole[t] = Below(t)[t]
    BY Zenon, <1>5, <2>1
  <2>. QED  BY Zenon, <2>2
<1>. HIDE DEF fresh
<1>7. whole = [s \in SUBSET m |-> IF s = {} THEN 0 ELSE f[Some(s)] + whole[s \ {Some(s)}]]
  <2> DEFINE step(s) == IF s = {} THEN 0 ELSE f[Some(s)] + whole[s \ {Some(s)}]
             made(s) == IF s = {} THEN 0 ELSE fresh(s)
  <2>1. \A s \in SUBSET m : made(s) = step(s)
    <3>1. ASSUME NEW s \in SUBSET m PROVE made(s) = step(s)
      <4>1. CASE s = {}
        BY Zenon, <4>1
      <4>2. CASE s # {}
        BY Zenon, <1>6, <4>2
      <4>. QED  BY <4>1, <4>2
    <3>. QED  BY Zenon, <3>1
  <2>2. whole = [s \in SUBSET m |-> made(s)]
    BY Zenon
  <2>. HIDE DEF step, made, whole
  <2>3. whole = [s \in SUBSET m |-> step(s)]
    BY Zenon, <2>1, <2>2
  <2>. QED  BY Zenon, <2>3 DEF step
<1>8. Iterates(f, m, whole)
  BY Zenon, <1>7 DEF Iterates
<1>. QED  BY Zenon, <1>0, <1>8
-----------------------------------------------------------------------------
LEMMA SumUnfolds ==
  ASSUME NEW f, NEW S, IsFiniteSet(S)
  PROVE  /\ S = {} => SumOver(f, S) = 0
         /\ S # {} => SumOver(f, S) = f[Some(S)] + SumOver(f, S \ {Some(S)})
<1> DEFINE Fold(T) == CHOOSE iter : Iterates(f, T, iter)
<1>1. \A T : IsFiniteSet(T) => Iterates(f, T, Fold(T))
  <2>1. ASSUME NEW T, IsFiniteSet(T) PROVE Iterates(f, T, Fold(T))
    <3>1. \E iter : Iterates(f, T, iter)
      BY Zenon, <2>1, IteratesExist
    <3>. QED  BY Zenon, <3>1
  <2>. QED  BY Zenon, <2>1
<1>2. \A T : SumOver(f, T) = Fold(T)[T]
  BY Zenon, FoldIterates
<1>. HIDE DEF Fold
<1>3. Iterates(f, S, Fold(S)) /\ S \in SUBSET S
  BY <1>1
<1>4. ASSUME S = {} PROVE SumOver(f, S) = 0
  BY <1>2, <1>3, <1>4, IterateSteps
<1>5. ASSUME S # {} PROVE SumOver(f, S) = f[Some(S)] + SumOver(f, S \ {Some(S)})
  <2> DEFINE T == S \ {Some(S)}
  <2>1. T \subseteq S /\ T \subseteq T /\ IsFiniteSet(T)
    BY <1>5, SomeInSet, FS_Subset
  <2>2. Fold(S)[S] = f[Some(S)] + Fold(S)[T]
    BY <1>3, <1>5, IterateSteps
  <2>. HIDE DEF T
  <2>3. Iterates(f, T, Fold(T))
    BY Zenon, <1>1, <2>1
  <2>4. Fold(S)[T] = Fold(T)[T]
    BY <1>3, <2>1, <2>3, IteratesAgree
  <2>. QED  BY Zenon, <1>2, <2>2, <2>4 DEF T
<1>. QED  BY <1>4, <1>5

LEMMA SumEmpty ==
  ASSUME NEW f
  PROVE  SumOver(f, {}) = 0
  BY Zenon, SumUnfolds, FS_EmptySet

IntOn(f, S) == \A x \in S : f[x] \in Int

(* Integers sum up to an integer.                                          *)
LEMMA SumType ==
  ASSUME NEW f, NEW S, IsFiniteSet(S), IntOn(f, S)
  PROVE  SumOver(f, S) \in Int
<1> DEFINE D == {d \in SUBSET S : SumOver(f, d) \notin Int}
<1>0. D \subseteq SUBSET S /\ \A d \in SUBSET S : d \in D <=> SumOver(f, d) \notin Int
  OBVIOUS
<1>. HIDE DEF D
<1>1. SUFFICES ASSUME D # {} PROVE FALSE
  BY <1>0
<1>2. PICK m \in D : \A d \in D : ~(d \subseteq m /\ d # m)
  <2>1. \E m \in D : IsMinimal(m, D)
    BY Zenon, <1>0, <1>1, MinimalCounterexample
  <2>. QED  BY Zenon, <2>1 DEF IsMinimal
<1>3. m \subseteq S /\ IsFiniteSet(m) /\ SumOver(f, m) \notin Int
  BY <1>0, FS_Subset
<1>4. m # {}
  BY <1>3, SumEmpty
<1> DEFINE t == m \ {Some(m)}
<1>5. t \in SUBSET S /\ t \notin D /\ Some(m) \in S
  BY <1>2, <1>3, <1>4, SomeInSet
<1>6. SumOver(f, t) \in Int /\ f[Some(m)] \in Int
  BY <1>0, <1>5 DEF IntOn
<1>7. SumOver(f, m) = f[Some(m)] + SumOver(f, t)
  BY Zenon, <1>3, <1>4, SumUnfolds
<1>. HIDE DEF t
<1>. QED  BY <1>3, <1>6, <1>7

(* Any element may be taken out first.                                     *)
LEMMA SumRemoves ==
  ASSUME NEW f, NEW S, IsFiniteSet(S), IntOn(f, S), NEW x \in S
  PROVE  SumOver(f, S) = f[x] + SumOver(f, S \ {x})
<1> DEFINE Differs(d, y) == SumOver(f, d) # f[y] + SumOver(f, d \ {y})
           D == {d \in SUBSET S : \E y \in d : Differs(d, y)}
<1>0. D \subseteq SUBSET S /\ \A d \in SUBSET S : d \in D <=> \E y \in d : Differs(d, y)
  BY Zenon
<1>. HIDE DEF D
<1>1. SUFFICES ASSUME D # {} PROVE FALSE
  BY Zenon, <1>0
<1>2. PICK m \in D : \A d \in D : ~(d \subseteq m /\ d # m)
  <2>1. \E m \in D : IsMinimal(m, D)
    BY Zenon, <1>0, <1>1, MinimalCounterexample
  <2>. QED  BY Zenon, <2>1 DEF IsMinimal
<1>3. m \subseteq S /\ IsFiniteSet(m)
  BY <1>0, FS_Subset
<1>4. PICK y \in m : Differs(m, y)
  BY Zenon, <1>0, <1>2
<1> DEFINE c == Some(m)
<1>5. m # {} /\ c \in m
  BY SomeInSet
<1>6. SumOver(f, m) = f[c] + SumOver(f, m \ {c})
  BY Zenon, <1>3, <1>5, SumUnfolds
<1>. HIDE DEF c
<1>7. c # y
  BY Zenon, <1>4, <1>6
<1>8. ASSUME NEW z \in m, NEW o \in m \ {z}
      PROVE  /\ SumOver(f, m \ {z}) = f[o] + SumOver(f, (m \ {z}) \ {o})
             /\ SumOver(f, (m \ {z}) \ {o}) \in Int
  <2>1. m \ {z} \in SUBSET S /\ m \ {z} \notin D
    BY <1>2, <1>3
  <2>2. SumOver(f, m \ {z}) = f[o] + SumOver(f, (m \ {z}) \ {o})
    BY Zenon, <1>0, <2>1
  <2>3. IsFiniteSet((m \ {z}) \ {o}) /\ IntOn(f, (m \ {z}) \ {o})
    BY <1>3, FS_Subset DEF IntOn
  <2>. QED  BY Zenon, <2>2, <2>3, SumType
<1> DEFINE rest == (m \ {c}) \ {y}
<1>9. (m \ {y}) \ {c} = rest
  OBVIOUS
<1>. HIDE DEF rest
<1>10. /\ SumOver(f, m \ {c}) = f[y] + SumOver(f, rest)
       /\ SumOver(f, m \ {y}) = f[c] + SumOver(f, rest)
       /\ SumOver(f, rest) \in Int
  <2>1. y \in m \ {c} /\ c \in m \ {y}
    BY <1>5, <1>7
  <2>. QED  BY Zenon, <1>5, <1>8, <1>9, <2>1 DEF rest
<1>11. f[c] \in Int /\ f[y] \in Int
  BY <1>3, <1>5 DEF IntOn
<1>12. f[c] + (f[y] + SumOver(f, rest)) = f[y] + (f[c] + SumOver(f, rest))
  BY <1>10, <1>11
<1>. QED  BY Zenon, <1>4, <1>6, <1>10, <1>12

Between(f, S, lo, hi) == \A x \in S : lo <= f[x] /\ f[x] <= hi

(* A sum of so many integers between two bounds.                           *)
LEMMA SumBounds ==
  ASSUME NEW f, NEW S, IsFiniteSet(S), NEW lo \in Int, NEW hi \in Int,
         IntOn(f, S), Between(f, S, lo, hi)
  PROVE  /\ lo * Cardinality(S) <= SumOver(f, S)
         /\ SumOver(f, S) <= hi * Cardinality(S)
<1> DEFINE Within(d) == /\ lo * Cardinality(d) <= SumOver(f, d)
                        /\ SumOver(f, d) <= hi * Cardinality(d)
           D == {d \in SUBSET S : ~Within(d)}
<1>0. D \subseteq SUBSET S /\ \A d \in SUBSET S : d \in D <=> ~Within(d)
  BY Zenon
<1>. HIDE DEF D
<1>1. SUFFICES ASSUME D # {} PROVE FALSE
  BY Zenon, <1>0
<1>2. PICK m \in D : \A d \in D : ~(d \subseteq m /\ d # m)
  <2>1. \E m \in D : IsMinimal(m, D)
    BY Zenon, <1>0, <1>1, MinimalCounterexample
  <2>. QED  BY Zenon, <2>1 DEF IsMinimal
<1>3. m \subseteq S /\ IsFiniteSet(m)
  BY <1>0, FS_Subset
<1>4. m # {}
  <2>1. Within({})
    <3>1. SumOver(f, {}) = 0 /\ Cardinality({}) = 0
      BY Zenon, SumEmpty, FS_EmptySet
    <3>. QED  BY <3>1
  <2>. QED  BY Zenon, <1>0, <2>1
<1> DEFINE c == Some(m)
           t == m \ {c}
<1>5. c \in m /\ t \in SUBSET S /\ t \notin D /\ IsFiniteSet(t)
  BY <1>2, <1>3, <1>4, SomeInSet, FS_Subset
<1>6. SumOver(f, m) = f[c] + SumOver(f, t)
  BY Zenon, <1>3, <1>4, SumUnfolds
<1>7. Cardinality(m) = Cardinality(t) + 1 /\ Cardinality(t) \in Nat
  BY <1>3, <1>5, FS_RemoveElement, FS_CardinalityType
<1>8. SumOver(f, t) \in Int
  <2>1. IntOn(f, t)
    BY <1>5 DEF IntOn
  <2>. QED  BY Zenon, <1>5, <2>1, SumType
<1>9. Within(t)
  BY Zenon, <1>0, <1>5
<1>10. f[c] \in Int /\ lo <= f[c] /\ f[c] <= hi
  BY <1>3, <1>5 DEF IntOn, Between
<1>. HIDE DEF c, t
<1>11. \A n \in Nat : lo * (n + 1) = lo * n + lo /\ hi * (n + 1) = hi * n + hi
  OBVIOUS
<1>12. \A n \in Nat : lo * n \in Int /\ hi * n \in Int
  OBVIOUS
<1>13. Within(m)
  <2>1. PICK n \in Nat : n = Cardinality(t)
    BY <1>7
  <2>2. PICK a \in Int, b \in Int : a = lo * n /\ b = hi * n
    BY <1>12
  <2>3. /\ lo * Cardinality(m) = a + lo /\ hi * Cardinality(m) = b + hi
    BY Zenon, <1>7, <1>11, <2>1, <2>2
  <2>4. a <= SumOver(f, t) /\ SumOver(f, t) <= b
    BY Zenon, <1>9, <2>1, <2>2
  <2>5. a + lo <= f[c] + SumOver(f, t) /\ f[c] + SumOver(f, t) <= b + hi
    BY <1>8, <1>10, <2>4
  <2>. QED  BY Zenon, <1>6, <2>3, <2>5
<1>. QED  BY Zenon, <1>0, <1>13
-----------------------------------------------------------------------------
(* Every non-empty set of natural numbers has a least element.             *)
LEMMA LeastElement ==
  ASSUME NEW S, S \subseteq Nat, S # {}
  PROVE  \E n \in S : \A k \in S : n <= k
<1>1. PICK s \in S : TRUE
  OBVIOUS
<1> DEFINE D == {1..n : n \in {k \in S : k <= s}}
<1>2. D \subseteq SUBSET (1..s) /\ D # {} /\ IsFiniteSet(1..s)
  <2>1. IsFiniteSet(1..s)
    BY FS_Interval
  <2>2. 1..s \in D
    OBVIOUS
  <2>. QED  BY <2>1, <2>2
<1>3. PICK m \in D : IsMinimal(m, D)
  <2>. HIDE DEF D
  <2>. QED  BY Zenon, <1>2, MinimalCounterexample
<1>4. PICK n \in S : n <= s /\ m = 1..n
  OBVIOUS
<1>5. ASSUME NEW k \in S
      PROVE  n <= k
  <2>1. SUFFICES ASSUME k < n PROVE FALSE
    BY <1>4
  <2>2. 1..k \in D
    BY <1>4, <2>1
  <2>3. 1..k \subseteq 1..n /\ n \in 1..n /\ n \notin 1..k
    BY <1>4, <2>1
  <2>. QED  BY <1>3, <1>4, <2>2, <2>3 DEF IsMinimal
<1>. QED  BY <1>5

(* Induction over the natural numbers up to a bound, for the set of the    *)
(* numbers that satisfy what is to be shown.                               *)
LEMMA InductionUpTo ==
  ASSUME NEW n \in Nat, NEW S, 0 \in S, \A k \in 0..n - 1 : k \in S => k + 1 \in S
  PROVE  0..n \subseteq S
<1> DEFINE D == {k \in 0..n : k \notin S}
<1>1. SUFFICES ASSUME D # {} PROVE FALSE
  OBVIOUS
<1>2. PICK m \in D : \A k \in D : m <= k
  <2>1. D \subseteq Nat
    OBVIOUS
  <2>. HIDE DEF D
  <2>. QED  BY Zenon, <1>1, <2>1, LeastElement
<1>3. m # 0 /\ m - 1 \in 0..n - 1 /\ m - 1 \notin D
  BY <1>2
<1>. QED  BY <1>2, <1>3

(* A sum from left to right.                                               *)
LEMMA SumOfPrefix ==
  ASSUME NEW f, NEW n \in Nat, IntOn(f, 1..n)
  PROVE  /\ SumOver(f, 1..0) = 0
         /\ n > 0 => SumOver(f, 1..n) = f[n] + SumOver(f, 1..n - 1)
         /\ SumOver(f, 1..n) \in Int
<1>1. IsFiniteSet(1..n)
  BY FS_Interval
<1>2. 1..0 = {} /\ (n > 0 => n \in 1..n /\ (1..n) \ {n} = 1..n - 1)
  OBVIOUS
<1>3. SumOver(f, 1..0) = 0
  BY Zenon, <1>2, SumEmpty
<1>4. ASSUME n > 0 PROVE SumOver(f, 1..n) = f[n] + SumOver(f, (1..n) \ {n})
  <2> DEFINE T == 1..n
  <2>1. IsFiniteSet(T) /\ IntOn(f, T) /\ n \in T
    BY <1>1, <1>4
  <2>. HIDE DEF T
  <2>2. SumOver(f, T) = f[n] + SumOver(f, T \ {n})
    BY <2>1, SumRemoves
  <2>. QED  BY Zenon, <2>2 DEF T
<1>. QED  BY Zenon, <1>1, <1>2, <1>3, <1>4, SumType
=============================================================================

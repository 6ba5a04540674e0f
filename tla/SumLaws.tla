--------------------------------- MODULE SumLaws ---------------------------------
(***************************************************************************)
(* What MapThenSumSet returns, whatever order it takes the elements in:    *)
(* the sum of a finite set is that of the set without an element and the   *)
(* element.                                                                *)
(*                                                                         *)
(* Induction over numbers is stated for sets of numbers, because the       *)
(* provers cannot instantiate a theorem that has an operator among its     *)
(* assumptions. For the same reason the terms of a sum are a function.     *)
(***************************************************************************)
EXTENDS Integers, FiniteSetsExt, FiniteSetTheorems, WellFoundedInduction, TLAPS

-------------------------------------------------------------------------------
(* Numbers *)

\* Every set of naturals has a least one.
LEMMA LeastNat ==
  ASSUME NEW T, T \subseteq Nat, T # {}
  PROVE  \E n \in T : \A m \in T : n <= m
<1> DEFINE R == OpToRel(<, Nat)
<1>1. IsWellFoundedOn(R, Nat)
  BY NatLessThanWellFounded
<1>2. \A x, y \in Nat : x < y => <<x, y>> \in R
  BY DEF OpToRel
<1> HIDE DEF R
<1>3. PICK n \in T : \A m \in T : <<m, n>> \notin R
  BY <1>1, WFMin
<1>4. \A m \in T : ~(m < n)
  BY <1>2, <1>3
<1>5. QED
  BY <1>4

\* Induction: a set that holds 0 and with each number the next one holds all.
LEMMA NatIsInductive ==
  ASSUME NEW T, 0 \in T, \A n \in Nat : n \in T => n + 1 \in T
  PROVE  \A n \in Nat : n \in T
<1> DEFINE Bad == {n \in Nat : n \notin T}
<1>1. SUFFICES ASSUME Bad # {} PROVE FALSE
  OBVIOUS
<1>2. PICK n \in Bad : \A m \in Bad : n <= m
  BY <1>1, LeastNat
<1>3. n # 0 /\ n - 1 \in Nat
  OBVIOUS
<1>4. n - 1 \in T
  BY <1>2, <1>3
<1>5. n \in T
  BY <1>3, <1>4
<1>6. QED
  BY <1>5

-------------------------------------------------------------------------------
(* The function behind a sum *)

One(s) == CHOOSE x \in s : TRUE

SumFrom(f, g, s) == IF s = {} THEN 0 ELSE f[One(s)] + g[s \ {One(s)}]

IsSum(g, f, S) == g = [s \in SUBSET S |-> SumFrom(f, g, s)]

SumOf(f, S) == MapThenSumSet(LAMBDA x : f[x], S)

\* One element is taken, and the rest is smaller.
LEMMA OneIsTaken ==
  ASSUME NEW s, s # {}
  PROVE  /\ One(s) \in s
         /\ IsFiniteSet(s) => /\ IsFiniteSet(s \ {One(s)})
                              /\ Cardinality(s) \in Nat
                              /\ Cardinality(s) = Cardinality(s \ {One(s)}) + 1
                              /\ Cardinality(s \ {One(s)}) \in Nat
<1>1. One(s) \in s
  BY DEF One
<1>2. ASSUME IsFiniteSet(s)
      PROVE  /\ IsFiniteSet(s \ {One(s)}) /\ Cardinality(s) \in Nat
             /\ Cardinality(s) = Cardinality(s \ {One(s)}) + 1
             /\ Cardinality(s \ {One(s)}) \in Nat
  <2>1. IsFiniteSet(s \ {One(s)}) /\ Cardinality(s \ {One(s)}) = Cardinality(s) - 1
    BY <1>1, <1>2, FS_RemoveElement
  <2>2. Cardinality(s) \in Nat /\ Cardinality(s \ {One(s)}) \in Nat
    BY <1>2, <2>1, FS_CardinalityType
  <2>3. QED
    BY <2>1, <2>2
<1>3. QED
  BY <1>1, <1>2

\* The sum of a set depends on its terms alone.
LEMMA SumsAgree ==
  ASSUME NEW f, NEW e, NEW g, NEW h, NEW S, NEW R, IsSum(g, f, S), IsSum(h, e, R),
         NEW s, s \subseteq S, s \subseteq R, IsFiniteSet(s), \A x \in s : f[x] = e[x]
  PROVE  g[s] = h[s]
<1> DEFINE T == {n \in Nat : \A t \in SUBSET s : Cardinality(t) = n => g[t] = h[t]}
<1>1. \A t \in SUBSET s : g[t] = SumFrom(f, g, t) /\ h[t] = SumFrom(e, h, t)
  BY DEF IsSum
<1>2. \A t \in SUBSET s : IsFiniteSet(t) /\ Cardinality(t) \in Nat
  BY FS_Subset, FS_CardinalityType
<1>3. 0 \in T
  <2> SUFFICES ASSUME NEW t \in SUBSET s, Cardinality(t) = 0 PROVE g[t] = h[t]
    OBVIOUS
  <2>1. t = {}
    BY <1>2, FS_EmptySet
  <2>2. QED
    BY <1>1, <2>1 DEF SumFrom
<1>4. ASSUME NEW n \in Nat, n \in T
      PROVE  n + 1 \in T
  <2> SUFFICES ASSUME NEW t \in SUBSET s, Cardinality(t) = n + 1 PROVE g[t] = h[t]
    OBVIOUS
  <2>1. t # {}
    BY FS_EmptySet
  <2>2. One(t) \in t /\ Cardinality(t \ {One(t)}) = n
    BY <1>2, <1>4, <2>1, OneIsTaken
  <2>3. g[t \ {One(t)}] = h[t \ {One(t)}]
    BY <1>4, <2>2
  <2>4. QED
    BY <1>1, <2>1, <2>2, <2>3 DEF SumFrom
<1> HIDE DEF T
<1>5. Cardinality(s) \in T
  BY <1>2, <1>3, <1>4, NatIsInductive
<1>6. QED
  BY <1>5 DEF T

\* The recursion defines a function, for every finite set.
LEMMA SumsExist ==
  ASSUME NEW f, NEW S, IsFiniteSet(S)
  PROVE  \E g : IsSum(g, f, S)
<1> DEFINE T == {n \in Nat : \A s \in SUBSET S : Cardinality(s) <= n => \E g : IsSum(g, f, s)}
<1>1. \A s \in SUBSET S : IsFiniteSet(s) /\ Cardinality(s) \in Nat
  BY FS_Subset, FS_CardinalityType
<1>2. 0 \in T
  <2> SUFFICES ASSUME NEW s \in SUBSET S, Cardinality(s) <= 0 PROVE \E g : IsSum(g, f, s)
    OBVIOUS
  <2>1. s = {}
    BY <1>1, FS_EmptySet
  <2> DEFINE g == [t \in SUBSET s |-> 0]
  <2>2. \A t \in SUBSET s : SumFrom(f, g, t) = 0
    BY <2>1 DEF SumFrom
  <2> HIDE DEF g
  <2>3. g = [t \in SUBSET s |-> SumFrom(f, g, t)]
    BY <2>2 DEF g
  <2>4. QED
    BY <2>3 DEF IsSum
<1>3. ASSUME NEW n \in Nat, n \in T
      PROVE  n + 1 \in T
  <2> SUFFICES ASSUME NEW s \in SUBSET S, Cardinality(s) <= n + 1 PROVE \E g : IsSum(g, f, s)
    OBVIOUS
  <2> DEFINE Of(t) == CHOOSE g : IsSum(g, f, t)
             Smaller(t) == t \in SUBSET s /\ Cardinality(t) <= n
             v == [t \in SUBSET s |-> Of(t)[t]]
             g == [t \in SUBSET s |-> SumFrom(f, v, t)]
  <2>1. \A t : Smaller(t) => t \in SUBSET S /\ IsSum(Of(t), f, t)
    BY <1>3
  <2> HIDE DEF Of
  <2>2. \A t : Smaller(t) => g[t] = v[t]
    <3> SUFFICES ASSUME NEW t, Smaller(t) PROVE SumFrom(f, v, t) = Of(t)[t]
      OBVIOUS
    <3>1. Of(t)[t] = SumFrom(f, Of(t), t)
      BY <2>1 DEF IsSum
    <3>2. CASE t = {}
      BY <3>1, <3>2 DEF SumFrom
    <3>3. CASE t # {}
      <4> DEFINE r == t \ {One(t)}
      <4>1. Smaller(r) /\ r \subseteq t
        BY <1>1, <2>1, <3>3, OneIsTaken
      <4>2. Of(t)[r] = Of(r)[r]
        BY <1>1, <2>1, <4>1, SumsAgree
      <4>3. v[r] = Of(r)[r]
        BY <4>1
      <4>4. QED
        BY <3>1, <3>3, <4>2, <4>3 DEF SumFrom
    <3>4. QED
      BY <3>2, <3>3
  <2>3. \A t \in SUBSET s : SumFrom(f, v, t) = SumFrom(f, g, t)
    <3> SUFFICES ASSUME NEW t \in SUBSET s, t # {}
                 PROVE  SumFrom(f, v, t) = SumFrom(f, g, t)
      BY DEF SumFrom
    <3>1. t \in SUBSET S /\ s \in SUBSET S
      OBVIOUS
    <3>2. Cardinality(t) <= Cardinality(s)
      BY <1>1, <3>1, FS_Subset
    <3>3. Smaller(t \ {One(t)})
      BY <1>1, <3>1, <3>2, OneIsTaken
    <3> HIDE DEF v, g
    <3>4. QED
      BY <2>2, <3>3 DEF SumFrom
  <2> HIDE DEF v
  <2>4. g = [t \in SUBSET s |-> SumFrom(f, g, t)]
    BY <2>3
  <2>5. QED
    BY <2>4 DEF IsSum
<1> HIDE DEF T
<1>4. Cardinality(S) \in T
  BY <1>1, <1>2, <1>3, NatIsInductive
<1>5. QED
  BY <1>1, <1>4 DEF T

\* MapThenSumSet takes the value of such a function.
LEMMA SumIsBy ==
  ASSUME NEW f, NEW S, IsFiniteSet(S)
  PROVE  \E g : IsSum(g, f, S) /\ SumOf(f, S) = g[S]
<1> DEFINE g == CHOOSE g : IsSum(g, f, S)
<1>1. IsSum(g, f, S)
  BY SumsExist
<1>2. SumOf(f, S) = g[S]
  BY DEF SumOf, MapThenSumSet, MapThenFoldSet, IsSum, SumFrom, One
<1>3. QED
  BY <1>1, <1>2

-------------------------------------------------------------------------------
(* The laws *)

\* Any function that takes one element after the other adds up to the sum.
LEMMA SumIsUnique ==
  ASSUME NEW f, NEW S, IsFiniteSet(S), NEW g, IsSum(g, f, S)
  PROVE  SumOf(f, S) = g[S]
<1>1. PICK h : IsSum(h, f, S) /\ SumOf(f, S) = h[S]
  BY SumIsBy
<1>2. g[S] = h[S]
  BY <1>1, SumsAgree
<1>3. QED
  BY <1>1, <1>2

\* Equal terms have equal sums.
LEMMA SumOfSame ==
  ASSUME NEW f, NEW e, NEW S, IsFiniteSet(S), \A x \in S : f[x] = e[x]
  PROVE  SumOf(f, S) = SumOf(e, S)
<1>1. PICK g : IsSum(g, f, S) /\ SumOf(f, S) = g[S]
  BY SumIsBy
<1>2. PICK h : IsSum(h, e, S) /\ SumOf(e, S) = h[S]
  BY SumIsBy
<1>3. g[S] = h[S]
  BY <1>1, <1>2, SumsAgree
<1>4. QED
  BY <1>1, <1>2, <1>3

\* Nothing adds up to nothing.
LEMMA SumOfNone == ASSUME NEW f PROVE SumOf(f, {}) = 0
<1>1. IsFiniteSet({})
  BY FS_EmptySet
<1>2. PICK g : IsSum(g, f, {}) /\ SumOf(f, {}) = g[{}]
  BY <1>1, SumIsBy
<1>3. QED
  BY <1>2 DEF IsSum, SumFrom

\* The element taken first and the rest.
LEMMA SumOfTaken ==
  ASSUME NEW f, NEW S, IsFiniteSet(S), S # {}
  PROVE  SumOf(f, S) = f[One(S)] + SumOf(f, S \ {One(S)})
<1>1. PICK g : IsSum(g, f, S) /\ SumOf(f, S) = g[S]
  BY SumIsBy
<1> DEFINE R == S \ {One(S)}
<1>2. IsFiniteSet(R)
  BY OneIsTaken
<1>3. PICK h : IsSum(h, f, R) /\ SumOf(f, R) = h[R]
  BY <1>2, SumIsBy
<1>4. g[R] = h[R]
  BY <1>1, <1>2, <1>3, SumsAgree
<1>5. g[S] = f[One(S)] + g[R]
  BY <1>1 DEF IsSum, SumFrom
<1>6. QED
  BY <1>1, <1>3, <1>4, <1>5

\* Numbers add up to a number, and naturals to a natural.
LEMMA SumIsNumber ==
  ASSUME NEW f, NEW S, IsFiniteSet(S), \A x \in S : f[x] \in Int
  PROVE  SumOf(f, S) \in Int /\ ((\A x \in S : f[x] \in Nat) => SumOf(f, S) \in Nat)
<1> DEFINE Good(s) == /\ SumOf(f, s) \in Int
                      /\ (\A x \in s : f[x] \in Nat) => SumOf(f, s) \in Nat
           T == {n \in Nat : \A s \in SUBSET S : Cardinality(s) = n => Good(s)}
<1>1. \A s \in SUBSET S : IsFiniteSet(s) /\ Cardinality(s) \in Nat
  BY FS_Subset, FS_CardinalityType
<1>2. 0 \in T
  <2> SUFFICES ASSUME NEW s \in SUBSET S, Cardinality(s) = 0 PROVE Good(s)
    OBVIOUS
  <2>1. s = {}
    BY <1>1, FS_EmptySet
  <2>2. QED
    BY <2>1, SumOfNone
<1>3. ASSUME NEW n \in Nat, n \in T
      PROVE  n + 1 \in T
  <2> SUFFICES ASSUME NEW s \in SUBSET S, Cardinality(s) = n + 1 PROVE Good(s)
    OBVIOUS
  <2>1. s # {}
    BY FS_EmptySet
  <2>2. One(s) \in s /\ Cardinality(s \ {One(s)}) = n
    BY <1>1, <1>3, <2>1, OneIsTaken
  <2>3. Good(s \ {One(s)})
    BY <1>3, <2>2
  <2>4. SumOf(f, s) = f[One(s)] + SumOf(f, s \ {One(s)})
    BY <1>1, <2>1, SumOfTaken
  <2>5. QED
    BY <2>2, <2>3, <2>4
<1> HIDE DEF T
<1>4. Cardinality(S) \in T
  BY <1>1, <1>2, <1>3, NatIsInductive
<1>5. QED
  BY <1>4 DEF T

\* Any element and the rest, whichever is taken first.
LEMMA SumWithout ==
  ASSUME NEW f, NEW S, IsFiniteSet(S), \A x \in S : f[x] \in Int, NEW z \in S
  PROVE  SumOf(f, S) = f[z] + SumOf(f, S \ {z})
<1> DEFINE Good(s) == \A x \in s : SumOf(f, s) = f[x] + SumOf(f, s \ {x})
           T == {n \in Nat : \A s \in SUBSET S : Cardinality(s) = n => Good(s)}
<1>1. \A s \in SUBSET S : IsFiniteSet(s) /\ Cardinality(s) \in Nat
  BY FS_Subset, FS_CardinalityType
<1>2. \A s \in SUBSET S : SumOf(f, s) \in Int
  BY <1>1, SumIsNumber
<1>3. 0 \in T
  <2> SUFFICES ASSUME NEW s \in SUBSET S, Cardinality(s) = 0 PROVE Good(s)
    OBVIOUS
  <2>1. s = {}
    BY <1>1, FS_EmptySet
  <2>2. QED
    BY <2>1
<1>4. ASSUME NEW n \in Nat, n \in T
      PROVE  n + 1 \in T
  <2> SUFFICES ASSUME NEW s \in SUBSET S, Cardinality(s) = n + 1, NEW x \in s
               PROVE  SumOf(f, s) = f[x] + SumOf(f, s \ {x})
    OBVIOUS
  <2> DEFINE y == One(s)
  <2>1. y \in s /\ Cardinality(s \ {y}) = n
    BY <1>1, <1>4, OneIsTaken
  <2>2. SumOf(f, s) = f[y] + SumOf(f, s \ {y})
    BY <1>1, SumOfTaken
  <2> HIDE DEF y
  <2>3. CASE x = y
    BY <2>2, <2>3
  <2>4. CASE x # y
    <3>1. Cardinality(s \ {x}) = n
      <4>1. IsFiniteSet(s)
        BY <1>1
      <4>2. Cardinality(s \ {x}) = Cardinality(s) - 1
        BY <4>1, FS_RemoveElement
      <4>3. QED
        BY <4>2
    <3>2. SumOf(f, s \ {y}) = f[x] + SumOf(f, (s \ {y}) \ {x})
      BY <1>4, <2>1, <2>4
    <3>3. SumOf(f, s \ {x}) = f[y] + SumOf(f, (s \ {x}) \ {y})
      BY <1>4, <2>1, <2>4, <3>1
    <3>4. (s \ {y}) \ {x} = (s \ {x}) \ {y}
      OBVIOUS
    <3>5. f[x] \in Int /\ f[y] \in Int /\ SumOf(f, (s \ {y}) \ {x}) \in Int
      BY <1>2, <2>1
    <3> DEFINE r == SumOf(f, (s \ {y}) \ {x})
    <3>6. SumOf(f, s) = f[y] + (f[x] + r) /\ SumOf(f, s \ {x}) = f[y] + r
      BY <2>2, <3>2, <3>3, <3>4
    <3> HIDE DEF r
    <3>7. SumOf(f, s) = f[x] + (f[y] + r)
      BY <3>5, <3>6 DEF r
    <3>8. QED
      BY <3>6, <3>7
  <2>5. QED
    BY <2>3, <2>4
<1> HIDE DEF T
<1>5. Cardinality(S) \in T
  BY <1>1, <1>3, <1>4, NatIsInductive
<1>6. QED
  BY <1>5 DEF T

\* An element more.
LEMMA SumOfMore ==
  ASSUME NEW f, NEW S, IsFiniteSet(S), NEW z, z \notin S, \A x \in S \cup {z} : f[x] \in Int
  PROVE  SumOf(f, S \cup {z}) = SumOf(f, S) + f[z] /\ IsFiniteSet(S \cup {z}) /\ SumOf(f, S) \in Int
<1> DEFINE T == S \cup {z}
<1>1. IsFiniteSet(T) /\ z \in T /\ T \ {z} = S /\ f[z] \in Int /\ \A x \in T : f[x] \in Int
  BY FS_AddElement
<1>2. SumOf(f, S) \in Int
  BY SumIsNumber
<1> HIDE DEF T
<1>3. SumOf(f, T) = f[z] + SumOf(f, T \ {z})
  BY <1>1, SumWithout
<1>4. SumOf(f, T) = f[z] + SumOf(f, S)
  BY <1>1, <1>3
<1>5. SumOf(f, T) = SumOf(f, S) + f[z]
  BY <1>1, <1>2, <1>4
<1>6. QED
  BY <1>1, <1>2, <1>5 DEF T

\* Another term for one element.
LEMMA SumOfChanged ==
  ASSUME NEW f, NEW g, NEW S, IsFiniteSet(S), NEW z \in S,
         \A x \in S : f[x] \in Int /\ g[x] \in Int, \A x \in S \ {z} : g[x] = f[x]
  PROVE  SumOf(g, S) = SumOf(f, S) + (g[z] - f[z])
<1> DEFINE R == S \ {z}
<1>1. IsFiniteSet(R) /\ f[z] \in Int /\ g[z] \in Int /\ \A x \in R : f[x] \in Int
  BY FS_Subset
<1>2. SumOf(f, S) = f[z] + SumOf(f, R) /\ SumOf(g, S) = g[z] + SumOf(g, R)
  BY SumWithout
<1>3. SumOf(g, R) = SumOf(f, R)
  BY <1>1, SumOfSame
<1>4. SumOf(f, R) \in Int
  BY <1>1, SumIsNumber
<1> HIDE DEF R
<1>5. QED
  BY <1>1, <1>2, <1>3, <1>4
================================================================================

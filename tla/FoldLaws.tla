-------------------------------- MODULE FoldLaws --------------------------------
(***************************************************************************)
(* What FoldLeft returns, for one operator. The provers cannot instantiate *)
(* a theorem that has an operator among its assumptions, but a module can  *)
(* be instantiated: whoever folds with an operator and wants to know that  *)
(* the result keeps something takes these laws with INSTANCE FoldLaws WITH *)
(* Op <- the operator, Keeps <- what it keeps.                             *)
(***************************************************************************)
EXTENDS SequencesExt, SequenceTheorems, SumLaws

CONSTANTS
  Op(_, _),
  Keeps(_, _, _)  \* what the fold keeps: of a context, the elements so far and its value

Folded(base, s) == FoldLeft(Op, base, s)

-------------------------------------------------------------------------------
(* The function behind a fold *)

IsFold(g, base, s, n) ==
  g = [t \in SUBSET (1 .. n) |-> IF t = {} THEN base ELSE Op(g[t \ {Max(t)}], s[Max(t)])]

\* The maximum of a set is its largest element.
LEMMA MaxIsLargest ==
  ASSUME NEW t \in SUBSET Int, NEW m \in t, \A x \in t : x <= m
  PROVE  Max(t) = m
<1>1. \A x \in t : m >= x
  OBVIOUS
<1>2. \A x \in t : (\A y \in t : x >= y) => x = m
  OBVIOUS
<1>3. QED
  BY <1>1, <1>2 DEF Max

\* That of the first numbers is the last of them.
LEMMA MaxOfFirst ==
  ASSUME NEW k \in Nat
  PROVE  /\ Max(1 .. k + 1) = k + 1
         /\ 1 .. k + 1 # {} /\ (1 .. k + 1) \ {k + 1} = 1 .. k
<1>1. /\ 1 .. k + 1 \in SUBSET Int /\ k + 1 \in 1 .. k + 1
      /\ \A x \in 1 .. k + 1 : x <= k + 1
  OBVIOUS
<1> DEFINE t == 1 .. k + 1
<1>2. t # {} /\ t \ {k + 1} = 1 .. k
  OBVIOUS
<1> HIDE DEF t
<1>3. Max(t) = k + 1
  BY <1>1, MaxIsLargest DEF t
<1>4. QED
  BY <1>2, <1>3 DEF t

\* The recursion defines a function, for any number of elements.
LEMMA FoldsExist ==
  ASSUME NEW base, NEW s, NEW n \in Nat
  PROVE  \E g : IsFold(g, base, s, n)
<1> DEFINE T == {k \in Nat : \E g : IsFold(g, base, s, k)}
<1>1. 0 \in T
  <2> DEFINE g == [t \in SUBSET (1 .. 0) |-> base]
  <2>1. \A t \in SUBSET (1 .. 0) : t = {}
    OBVIOUS
  <2>2. IsFold(g, base, s, 0)
    BY <2>1 DEF IsFold
  <2>3. QED
    BY <2>2
<1>2. ASSUME NEW k \in Nat, k \in T
      PROVE  k + 1 \in T
  <2>1. PICK h : IsFold(h, base, s, k)
    BY <1>2
  <2> DEFINE g == [t \in SUBSET (1 .. k + 1) |->
                     IF k + 1 \in t THEN Op(h[t \ {k + 1}], s[k + 1]) ELSE h[t]]
  <2>2. ASSUME NEW t \in SUBSET (1 .. k + 1)
        PROVE  g[t] = IF t = {} THEN base ELSE Op(g[t \ {Max(t)}], s[Max(t)])
    <3>1. CASE k + 1 \in t
      <4>1. Max(t) = k + 1
        BY <3>1, MaxIsLargest
      <4>2. t \ {k + 1} \in SUBSET (1 .. k)
        OBVIOUS
      <4>3. g[t \ {k + 1}] = h[t \ {k + 1}]
        BY <4>2
      <4>4. QED
        BY <3>1, <4>1, <4>3
    <3>2. CASE k + 1 \notin t
      <4> DEFINE m == Max(t)
      <4> HIDE DEF m
      <4>1. t \in SUBSET (1 .. k) /\ t \ {m} \in SUBSET (1 .. k)
        <5>1. t \in SUBSET (1 .. k)
          BY <3>2
        <5>2. QED
          BY <5>1
      <4> USE DEF m
      <4>2. h[t] = IF t = {} THEN base ELSE Op(h[t \ {Max(t)}], s[Max(t)])
        BY <2>1, <4>1 DEF IsFold
      <4>3. g[t] = h[t] /\ g[t \ {Max(t)}] = h[t \ {Max(t)}]
        BY <4>1
      <4>4. QED
        BY <4>2, <4>3
    <3>3. QED
      BY <3>1, <3>2
  <2>3. g = [t \in SUBSET (1 .. k + 1) |-> g[t]]
    OBVIOUS
  <2> HIDE DEF g
  <2>4. IsFold(g, base, s, k + 1)
    BY <2>2, <2>3 DEF IsFold
  <2>5. QED
    BY <2>4
<1> HIDE DEF T
<1>3. n \in T
  BY <1>1, <1>2, NatIsInductive
<1>4. QED
  BY <1>3 DEF T

\* What it returns for the first elements depends on them alone.
LEMMA FoldsAgree ==
  ASSUME NEW base, NEW s, NEW r, NEW n \in Nat, NEW m \in Nat, n <= m,
         NEW g, IsFold(g, base, s, n), NEW h, IsFold(h, base, r, m),
         \A i \in 1 .. n : s[i] = r[i]
  PROVE  g[1 .. n] = h[1 .. n]
<1> DEFINE T == {k \in Nat : k <= n => g[1 .. k] = h[1 .. k]}
<1>1. 0 \in T
  <2>1. 1 .. 0 = {} /\ 1 .. 0 \in SUBSET (1 .. n) /\ 1 .. 0 \in SUBSET (1 .. m)
    OBVIOUS
  <2>2. g[1 .. 0] = base /\ h[1 .. 0] = base
    BY <2>1 DEF IsFold
  <2>3. QED
    BY <2>2
<1>2. ASSUME NEW k \in Nat, k \in T
      PROVE  k + 1 \in T
  <2>1. SUFFICES ASSUME k + 1 <= n PROVE g[1 .. k + 1] = h[1 .. k + 1]
    OBVIOUS
  <2> DEFINE t == 1 .. k + 1
  <2>2. Max(t) = k + 1 /\ t # {} /\ t \ {k + 1} = 1 .. k
    BY MaxOfFirst
  <2>3. t \in SUBSET (1 .. n) /\ t \in SUBSET (1 .. m)
    BY <2>1
  <2>4. g[t] = Op(g[1 .. k], s[k + 1]) /\ h[t] = Op(h[1 .. k], r[k + 1])
    BY <2>2, <2>3 DEF IsFold
  <2>5. g[1 .. k] = h[1 .. k] /\ s[k + 1] = r[k + 1]
    BY <1>2, <2>1
  <2>6. QED
    BY <2>4, <2>5
<1> HIDE DEF T
<1>3. n \in T
  BY <1>1, <1>2, NatIsInductive
<1>4. QED
  BY <1>3 DEF T

\* FoldLeft takes the value of such a function.
LEMMA FoldedBy ==
  ASSUME NEW base, NEW S, NEW s \in Seq(S)
  PROVE  \E g : IsFold(g, base, s, Len(s)) /\ Folded(base, s) = g[1 .. Len(s)]
<1>1. DOMAIN s = 1 .. Len(s) /\ Len(s) \in Nat
  BY LenProperties
<1> DEFINE g == CHOOSE g : IsFold(g, base, s, Len(s))
<1>2. IsFold(g, base, s, Len(s))
  BY <1>1, FoldsExist
<1>3. Folded(base, s) = g[1 .. Len(s)]
  BY <1>1 DEF Folded, FoldLeft, MapThenFoldSet, IsFold
<1>4. QED
  BY <1>2, <1>3

-------------------------------------------------------------------------------
(* The laws *)

\* A fold over nothing.
LEMMA FoldOfNone == ASSUME NEW base PROVE Folded(base, <<>>) = base
<1>1. PICK g : IsFold(g, base, <<>>, 0) /\ Folded(base, <<>>) = g[1 .. 0]
  <2>1. <<>> \in Seq({}) /\ Len(<<>>) = 0
    OBVIOUS
  <2>2. QED
    BY <2>1, FoldedBy
<1>2. 1 .. 0 = {} /\ 1 .. 0 \in SUBSET (1 .. 0)
  OBVIOUS
<1>3. QED
  BY <1>1, <1>2 DEF IsFold

\* One element more is one application more.
LEMMA FoldOfMore ==
  ASSUME NEW base, NEW S, NEW s \in Seq(S), NEW x \in S
  PROVE  Folded(base, Append(s, x)) = Op(Folded(base, s), x)
<1> DEFINE r == Append(s, x)
           n == Len(s)
<1>1. /\ r \in Seq(S) /\ Len(r) = n + 1 /\ n \in Nat /\ r[n + 1] = x
      /\ \A i \in 1 .. n : s[i] = r[i]
  BY LenProperties, AppendProperties
<1> HIDE DEF r, n
<1>2. PICK g : IsFold(g, base, s, n) /\ Folded(base, s) = g[1 .. n]
  BY FoldedBy DEF n
<1>3. PICK h : IsFold(h, base, r, n + 1) /\ Folded(base, r) = h[1 .. n + 1]
  BY <1>1, FoldedBy
<1>4. g[1 .. n] = h[1 .. n]
  BY <1>1, <1>2, <1>3, FoldsAgree
<1>5. Max(1 .. n + 1) = n + 1
  BY <1>1, MaxOfFirst
<1>6. (1 .. n + 1) # {} /\ (1 .. n + 1) \ {n + 1} = 1 .. n
  BY <1>1
<1>7. h[1 .. n + 1] = Op(h[1 .. n], r[n + 1])
  BY <1>3, <1>5, <1>6 DEF IsFold
<1>8. QED
  BY <1>1, <1>2, <1>3, <1>4, <1>7 DEF r

\* A fold over a single element.
LEMMA FoldOfOne == ASSUME NEW base, NEW x PROVE Folded(base, <<x>>) = Op(base, x)
<1>1. <<>> \in Seq({x}) /\ x \in {x} /\ Append(<<>>, x) = <<x>>
  OBVIOUS
<1>2. Folded(base, Append(<<>>, x)) = Op(Folded(base, <<>>), x)
  BY <1>1, FoldOfMore
<1>3. QED
  BY <1>1, <1>2, FoldOfNone

\* A fold over two sequences, one after the other, goes on from where the first ended.
LEMMA FoldOfBoth ==
  ASSUME NEW base, NEW S, NEW s \in Seq(S), NEW r \in Seq(S)
  PROVE  Folded(base, s \o r) = Folded(Folded(base, s), r)
<1> DEFINE Same(q) == Folded(base, s \o q) = Folded(Folded(base, s), q)
           T == {n \in Nat : \A q \in Seq(S) : Len(q) = n => Same(q)}
<1>1. 0 \in T
  <2>1. SUFFICES ASSUME NEW q \in Seq(S), Len(q) = 0 PROVE Same(q)
    OBVIOUS
  <2>2. q = <<>> /\ s \o <<>> = s
    BY <2>1, EmptySeq, ConcatEmptySeq
  <2>3. QED
    BY <2>2, FoldOfNone
<1>2. ASSUME NEW n \in Nat, n \in T
      PROVE  n + 1 \in T
  <2>1. SUFFICES ASSUME NEW q \in Seq(S), Len(q) = n + 1 PROVE Same(q)
    OBVIOUS
  <2>2. q # <<>>
    BY <2>1
  <2>3. PICK p \in Seq(S), x \in S : q = Append(p, x)
    BY <2>2, SequenceEmptyOrAppend
  <2>4. Len(p) = n
    BY <2>1, <2>3, LenProperties, AppendProperties
  <2>5. Same(p)
    BY <1>2, <2>4
  <2>6. s \o p \in Seq(S) /\ <<x>> \in Seq(S)
    BY ConcatProperties
  <2>7. s \o q = Append(s \o p, x)
    <3>1. q = p \o <<x>>
      BY <2>3, AppendIsConcat
    <3>2. Append(s \o p, x) = (s \o p) \o <<x>>
      BY <2>6, AppendIsConcat
    <3>3. (s \o p) \o <<x>> = s \o (p \o <<x>>)
      BY <2>6, ConcatAssociative
    <3>4. QED
      BY <3>1, <3>2, <3>3
  <2>8. Folded(base, s \o q) = Op(Folded(base, s \o p), x)
    <3> DEFINE w == s \o p
    <3>1. w \in Seq(S) /\ x \in S
      BY <2>6
    <3> HIDE DEF w
    <3>2. Folded(base, Append(w, x)) = Op(Folded(base, w), x)
      BY <3>1, FoldOfMore
    <3>3. QED
      BY <2>7, <3>2 DEF w
  <2>9. Folded(Folded(base, s), q) = Op(Folded(Folded(base, s), p), x)
    BY <2>3, FoldOfMore
  <2>10. QED
    BY <2>5, <2>8, <2>9
<1> HIDE DEF T
<1>3. Len(r) \in Nat /\ Len(r) \in T
  BY <1>1, <1>2, NatIsInductive, LenProperties
<1>4. QED
  BY <1>3 DEF T

\* A fold over the first elements goes on with the next one.
LEMMA FoldOfFirst ==
  ASSUME NEW base, NEW S, NEW s \in Seq(S), NEW i \in 1 .. Len(s)
  PROVE  Folded(base, SubSeq(s, 1, i)) = Op(Folded(base, SubSeq(s, 1, i - 1)), s[i])
<1> DEFINE p == SubSeq(s, 1, i - 1)
<1>1. Len(s) \in Nat /\ i \in Nat /\ 1 <= i /\ i <= Len(s)
  BY LenProperties
<1>2. s[i] \in S
  BY ElementOfSeq
<1>3. p \in Seq(S)
  <2>1. \A j \in 1 .. i - 1 : s[j] \in S
    BY <1>1, ElementOfSeq
  <2>2. 1 \in Int /\ i - 1 \in Int
    BY <1>1
  <2>3. QED
    BY <1>1, <2>1, <2>2, SubSeqProperties
<1>4. SubSeq(s, 1, i) = p \o <<s[i]>>
  <2>1. 1 \in 1 .. Len(s) /\ i \in 1 .. Len(s)
    BY <1>1
  <2>2. QED
    BY <1>1, <2>1, SubSeqRecursiveSecond
<1> HIDE DEF p
<1>5. p \o <<s[i]>> = Append(p, s[i])
  BY <1>2, <1>3, AppendIsConcat
<1>6. Folded(base, Append(p, s[i])) = Op(Folded(base, p), s[i])
  BY <1>2, <1>3, FoldOfMore
<1>7. QED
  BY <1>4, <1>5, <1>6 DEF p

\* What holds of the base, and after each element if it held before, holds of the
\* fold.
LEMMA FoldKeeps ==
  ASSUME NEW c, NEW base, NEW S, NEW s \in Seq(S), Keeps(c, 0, base),
         \A i \in 1 .. Len(s) : \A y : Keeps(c, i - 1, y) => Keeps(c, i, Op(y, s[i]))
  PROVE  Keeps(c, Len(s), Folded(base, s))
<1>1. Len(s) \in Nat
  BY LenProperties
<1>2. PICK g : IsFold(g, base, s, Len(s)) /\ Folded(base, s) = g[1 .. Len(s)]
  BY FoldedBy
<1> DEFINE n == Len(s)
           T == {k \in Nat : k <= n => Keeps(c, k, g[1 .. k])}
<1>3. 0 \in T
  <2>1. 1 .. 0 = {} /\ 1 .. 0 \in SUBSET (1 .. n)
    OBVIOUS
  <2>2. g[1 .. 0] = base
    BY <1>2, <2>1 DEF IsFold
  <2>3. QED
    BY <2>2
<1>4. ASSUME NEW k \in Nat, k \in T
      PROVE  k + 1 \in T
  <2>1. SUFFICES ASSUME k + 1 <= n PROVE Keeps(c, k + 1, g[1 .. k + 1])
    OBVIOUS
  <2> DEFINE t == 1 .. k + 1
  <2>2. Max(t) = k + 1 /\ t # {} /\ t \ {k + 1} = 1 .. k
    BY MaxOfFirst
  <2>3. t \in SUBSET (1 .. n)
    BY <1>1, <2>1
  <2>4. g[t] = Op(g[1 .. k], s[k + 1])
    BY <1>2, <2>2, <2>3 DEF IsFold
  <2>5. Keeps(c, k, g[1 .. k]) /\ k + 1 \in 1 .. n /\ (k + 1) - 1 = k
    BY <1>1, <1>4, <2>1
  <2>6. Keeps(c, k + 1, Op(g[1 .. k], s[k + 1]))
    BY <2>5
  <2>7. QED
    BY <2>4, <2>6
<1> HIDE DEF T
<1>5. n \in T
  BY <1>1, <1>3, <1>4, NatIsInductive
<1>6. QED
  BY <1>1, <1>2, <1>5 DEF T
================================================================================

------------------------------- MODULE ReplayProofs -------------------------------
(***************************************************************************)
(* What the offline readers and the diagnosis promise for all inputs: the  *)
(* differences of a trace rebuild its projections, a diagnosis claims no   *)
(* more than its numbers show, the directory a command reads and the       *)
(* process a monitor attaches to are the ones that were meant, run times   *)
(* and summary account for what the monitor runs recorded, and find, diff  *)
(* and summary agree on it.                                                *)
(***************************************************************************)
EXTENDS MCReplay, SessionDirs, SequenceTheorems, SumLaws

-------------------------------------------------------------------------------
(* Choosing the largest *)

\* Some number of a bounded set is at least all others.
LEMMA LargestExists ==
  ASSUME NEW S, NEW bound \in Nat, S \subseteq 0 .. bound, S # {}
  PROVE  \E x \in S : \A y \in S : y <= x
PROOF
  <1> DEFINE T == {bound - x : x \in S}
  <1>1. \A x \in S : x \in Nat /\ bound - x \in Nat
    OBVIOUS
  <1>2. T \subseteq Nat
    BY <1>1
  <1>3. T # {}
    OBVIOUS
  <1> HIDE DEF T
  <1>4. PICK n \in T : \A m \in T : n <= m
    BY <1>2, <1>3, LeastNat
  <1> USE DEF T
  <1>5. PICK x \in S : n = bound - x
    OBVIOUS
  <1>6. \A y \in S : n <= bound - y
    BY <1>4
  <1>7. \A y \in S : y <= x
    BY <1>1, <1>5, <1>6
  <1> QED
    BY <1>7

\* Max is the largest where there is one.
LEMMA MaxIsLargest ==
  ASSUME NEW S, NEW bound \in Nat, S \subseteq 0 .. bound, S # {}
  PROVE  Max(S) \in S /\ \A y \in S : y <= Max(S)
PROOF
  <1>1. \E x \in S : \A y \in S : y <= x
    BY LargestExists
  <1>2. \E x \in S : \A y \in S : x >= y
    BY <1>1
  <1> DEFINE m == CHOOSE x \in S : \A y \in S : x >= y
  <1>3. m \in S /\ \A y \in S : m >= y
    BY <1>2
  <1>4. Max(S) = m
    BY DEF Max
  <1> QED
    BY <1>3, <1>4

-------------------------------------------------------------------------------
(* The trace *)

IsFunction(f) == f = [k \in DOMAIN f |-> f[k]]

\* A trace has the fields it starts with.
IsTrace(trace) ==
  /\ IsFunction(trace)
  /\ DOMAIN trace = {"options", "baseline", "prior", "patches", "kept", "skipped"}

\* What a reader of the trace ends up with.
Patched(base, patches) == FoldLeft(ApplyPatch, base, patches)

\* A difference rebuilds what it was made from.
LEMMA PatchRebuilds ==
  ASSUME NEW prior, NEW proj, IsFunction(proj)
  PROVE  ApplyPatch(prior, MakePatch(prior, proj)) = proj
PROOF
  <1> DEFINE patch == MakePatch(prior, proj)
             all == (DOMAIN prior \ patch.removed) \cup DOMAIN patch.values
             new == [k \in all |-> IF k \in DOMAIN patch.values THEN patch.values[k] ELSE prior[k]]
  <1>1. patch.removed = DOMAIN prior \ DOMAIN proj
    BY DEF MakePatch
  <1>2. DOMAIN patch.values = {x \in DOMAIN proj : x \in DOMAIN prior => prior[x] # proj[x]}
    BY DEF MakePatch
  <1>3. \A k \in DOMAIN patch.values : patch.values[k] = proj[k]
    BY <1>2 DEF MakePatch
  <1>4. all = DOMAIN proj
    BY <1>1, <1>2
  <1>5. \A k \in DOMAIN proj : new[k] = proj[k]
    <2> SUFFICES ASSUME NEW k \in DOMAIN proj
                 PROVE  new[k] = proj[k]
      OBVIOUS
    <2>1. CASE k \in DOMAIN patch.values
      BY <2>1, <1>3, <1>4
    <2>2. CASE k \notin DOMAIN patch.values
      <3>1. prior[k] = proj[k]
        BY <2>2, <1>2
      <3> QED
        BY <2>2, <3>1, <1>4
    <2> QED
      BY <2>1, <2>2
  <1>6. new = [k \in DOMAIN proj |-> proj[k]]
    BY <1>4, <1>5
  <1>7. new = proj
    BY <1>6 DEF IsFunction
  <1> QED
    BY <1>7 DEF ApplyPatch

\* A difference without operations says that nothing changed.
LEMMA NoChangeIsSame ==
  ASSUME NEW prior, NEW proj, IsFunction(prior), IsFunction(proj), NoChange(MakePatch(prior, proj))
  PROVE  prior = proj
PROOF
  <1>1. DOMAIN prior \ DOMAIN proj = {}
    BY DEF NoChange, MakePatch
  <1>2. {x \in DOMAIN proj : x \in DOMAIN prior => prior[x] # proj[x]} = {}
    BY DEF NoChange, MakePatch
  <1>3. DOMAIN prior = DOMAIN proj
    BY <1>1, <1>2
  <1>4. \A k \in DOMAIN proj : prior[k] = proj[k]
    BY <1>2
  <1>5. [k \in DOMAIN prior |-> prior[k]] = [k \in DOMAIN proj |-> proj[k]]
    BY <1>3, <1>4
  <1> QED
    BY <1>5 DEF IsFunction

\* Each snapshot adds at most one difference to the trace, and whoever holds the
\* projection before it and applies the difference holds the one after it; nothing
\* is added only if both are the same. The step of TraceReplays, for all
\* projections whatever their ledgers and peers (render_trace).
THEOREM TraceStepRebuilds ==
  ASSUME NEW trace, IsTrace(trace), trace.baseline # <<>>, NEW proj,
         IsFunction(trace.prior), IsFunction(proj)
  PROVE  LET new == Traced(trace, proj)
         IN /\ IsTrace(new) /\ new.options = trace.options /\ new.baseline = trace.baseline
            /\ new.prior = proj
            /\ \/ /\ new.patches = trace.patches /\ trace.prior = proj
                  /\ new.kept = trace.kept /\ new.skipped = trace.skipped + 1
               \/ /\ \E patch : /\ new.patches = Append(trace.patches, patch)
                                 /\ ApplyPatch(trace.prior, patch) = proj
                  /\ new.kept = trace.kept + 1 /\ new.skipped = trace.skipped
PROOF
  <1> DEFINE patch == MakePatch(trace.prior, proj)
             new == Traced(trace, proj)
  <1>1. CASE NoChange(patch)
    <2> DEFINE same == [trace EXCEPT !.prior = proj, !.skipped = @ + 1]
    <2>1. new = same
      BY <1>1 DEF Traced
    <2>6. IsTrace(same)
      BY DEF IsTrace, IsFunction
    <2>2. /\ same.options = trace.options /\ same.baseline = trace.baseline
          /\ same.prior = proj /\ same.patches = trace.patches
          /\ same.kept = trace.kept /\ same.skipped = trace.skipped + 1
      BY DEF IsTrace
    <2>3. trace.prior = proj
      BY <1>1, NoChangeIsSame
    <2> HIDE DEF new, same
    <2>4. QED
      BY <2>1, <2>2, <2>3, <2>6 DEF new
  <1>2. CASE ~NoChange(patch)
    <2> HIDE DEF patch
    <2> DEFINE more == [trace EXCEPT !.prior = proj, !.patches = Append(@, patch), !.kept = @ + 1]
    <2>1. new = more
      BY <1>2 DEF Traced, patch
    <2>6. IsTrace(more)
      BY DEF IsTrace, IsFunction
    <2>2. /\ more.options = trace.options /\ more.baseline = trace.baseline
          /\ more.prior = proj /\ more.patches = Append(trace.patches, patch)
          /\ more.kept = trace.kept + 1 /\ more.skipped = trace.skipped
      BY DEF IsTrace
    <2>3. ApplyPatch(trace.prior, patch) = proj
      BY PatchRebuilds DEF patch
    <2> HIDE DEF new, more
    <2>4. QED
      BY <2>1, <2>2, <2>3, <2>6 DEF new
  <1>3. QED
    BY <1>1, <1>2

\* The snapshots of the first i events that render_trace does not pass over, and
\* what it shows of one.
EligibleOf(c, i) == {j \in 1 .. i : Eligible(c.log[j], c.options)}
Shown(c, j) == FilterProjection(c.log[j].projection, c.options.seq, c.options.view)

\* What holds of the trace after i events: every eligible snapshot has been printed
\* or skipped, and the patches lead from the baseline to the last of them.
TraceOf(c, i, trace) ==
  /\ IsTrace(trace) /\ trace.options = c.options
  /\ trace.kept \in Nat /\ trace.skipped \in Nat
  /\ trace.kept + trace.skipped = Cardinality(EligibleOf(c, i))
  /\ EligibleOf(c, i) = {} => trace.baseline = <<>> /\ trace.patches = <<>>
  /\ EligibleOf(c, i) # {} =>
       /\ trace.baseline # <<>> /\ trace.kept = Len(trace.patches) + 1
       /\ \E S : trace.patches \in Seq(S)
       /\ \E m \in EligibleOf(c, i) :
            /\ \A j \in EligibleOf(c, i) : j <= m
            /\ trace.prior = Shown(c, m)
       /\ Patched(trace.baseline[1], trace.patches) = trace.prior

Tracing == INSTANCE FoldLaws WITH Op <- TracedEvent, Keeps <- TraceOf
Patching == INSTANCE FoldLaws WITH Op <- ApplyPatch, Keeps <- TraceOf

\* render_trace and the replay of its patches are folds as the laws have them.
LEMMA TraceFolds ==
  /\ \A base, s : Patched(base, s) = Patching!Folded(base, s)
  /\ \A log, options : RenderTrace(log, options) = Tracing!Folded(Untraced(options), log)
PROOF
  <1>1. \A base, s : Patched(base, s) = Patching!Folded(base, s)
    BY DEF Patched, Patching!Folded, FoldLeft, Patching!FoldLeft, MapThenFoldSet,
           Patching!MapThenFoldSet, Max, Patching!Max
  <1>2. \A log, options : RenderTrace(log, options) = Tracing!Folded(Untraced(options), log)
    BY DEF RenderTrace, Tracing!Folded, FoldLeft, Tracing!FoldLeft, MapThenFoldSet,
           Tracing!MapThenFoldSet, Max, Tracing!Max
  <1>3. QED
    BY <1>1, <1>2

\* One difference more is applied after the others.
LEMMA PatchedByMore ==
  ASSUME NEW base, NEW S, NEW patches \in Seq(S), NEW patch
  PROVE  /\ Patched(base, Append(patches, patch)) = ApplyPatch(Patched(base, patches), patch)
         /\ Append(patches, patch) \in Seq(S \cup {patch})
         /\ Len(Append(patches, patch)) = Len(patches) + 1
         /\ Len(patches) \in Nat
PROOF
  <1> DEFINE T == S \cup {patch}
  <1>1. S \subseteq T /\ patch \in T
    OBVIOUS
  <1>2. patches \in Seq(T)
    BY <1>1
  <1> HIDE DEF T
  <1>3. Append(patches, patch) \in Seq(T) /\ Len(Append(patches, patch)) = Len(patches) + 1
    BY <1>1, <1>2, AppendProperties
  <1>4. Patching!Folded(base, Append(patches, patch)) = ApplyPatch(Patching!Folded(base, patches), patch)
    BY <1>1, <1>2, Patching!FoldOfMore
  <1>5. QED
    BY <1>3, <1>4, TraceFolds, LenProperties DEF T

\* With one event more, the eligible ones are the same or have it as the last.
LEMMA EligibleOfMore ==
  ASSUME NEW c, NEW i \in Nat
  PROVE  /\ IsFiniteSet(EligibleOf(c, i)) /\ Cardinality(EligibleOf(c, i)) \in Nat
         /\ (i + 1) \notin EligibleOf(c, i)
         /\ \A j \in EligibleOf(c, i) : j \in Nat /\ j <= i
         /\ Eligible(c.log[i + 1], c.options) =>
              /\ EligibleOf(c, i + 1) = EligibleOf(c, i) \cup {i + 1}
              /\ Cardinality(EligibleOf(c, i + 1)) = Cardinality(EligibleOf(c, i)) + 1
         /\ ~Eligible(c.log[i + 1], c.options) => EligibleOf(c, i + 1) = EligibleOf(c, i)
PROOF
  <1>1. EligibleOf(c, i) \subseteq 1 .. i /\ (i + 1) \notin 1 .. i
    BY DEF EligibleOf
  <1>2. \A j \in EligibleOf(c, i) : j \in Nat /\ j <= i
    BY <1>1
  <1>3. IsFiniteSet(EligibleOf(c, i))
    BY <1>1, FS_Interval, FS_Subset
  <1>4. Cardinality(EligibleOf(c, i)) \in Nat
    BY <1>3, FS_CardinalityType
  <1>5. 1 .. i + 1 = (1 .. i) \cup {i + 1}
    OBVIOUS
  <1>6. Eligible(c.log[i + 1], c.options) => EligibleOf(c, i + 1) = EligibleOf(c, i) \cup {i + 1}
    BY <1>5 DEF EligibleOf
  <1>7. ~Eligible(c.log[i + 1], c.options) => EligibleOf(c, i + 1) = EligibleOf(c, i)
    BY <1>5 DEF EligibleOf
  <1>8. (i + 1) \notin EligibleOf(c, i)
    BY <1>1
  <1>9. Cardinality(EligibleOf(c, i) \cup {i + 1}) = Cardinality(EligibleOf(c, i)) + 1
    BY <1>3, <1>8, FS_AddElement
  <1>10. QED
    BY <1>2, <1>3, <1>4, <1>6, <1>7, <1>8, <1>9

\* What is shown of a snapshot is a function.
LEMMA ShownIsFunction == ASSUME NEW c, NEW j PROVE IsFunction(Shown(c, j))
PROOF BY DEF IsFunction, Shown, FilterProjection

\* An eligible event keeps what holds of the trace.
LEMMA EligibleKeeps ==
  ASSUME NEW c, NEW i \in Nat, NEW trace, TraceOf(c, i, trace), Eligible(c.log[i + 1], c.options)
  PROVE  TraceOf(c, i + 1, Traced(trace, Shown(c, i + 1)))
PROOF
  <1> DEFINE el == EligibleOf(c, i)
             proj == Shown(c, i + 1)
             new == Traced(trace, proj)
             last == EligibleOf(c, i + 1)
  <1>1. /\ last = el \cup {i + 1} /\ Cardinality(last) = Cardinality(el) + 1
        /\ \A j \in el : j \in Nat /\ j <= i
        /\ Cardinality(el) \in Nat /\ IsFiniteSet(el)
    BY EligibleOfMore
  <1>2. last # {} /\ i + 1 \in last /\ \A j \in last : j <= i + 1
    BY <1>1
  <1>3. IsFunction(proj)
    BY ShownIsFunction
  <1> HIDE DEF el, proj, new, last
  <1>4. CASE el = {}
    <2> DEFINE base == [trace EXCEPT !.baseline = <<proj>>, !.prior = proj, !.kept = 1]
    <2>1. trace.baseline = <<>> /\ trace.patches = <<>> /\ IsTrace(trace) /\ trace.options = c.options
      BY <1>4 DEF TraceOf, el
    <2>2. Cardinality(el) = 0
      BY <1>4, FS_EmptySet
    <2>3. trace.kept = 0 /\ trace.skipped = 0
      BY <2>2 DEF TraceOf, el
    <2>4. new = base
      BY <2>1 DEF Traced, new
    <2>12. IsTrace(base)
      BY <2>1 DEF IsTrace, IsFunction
    <2>5. /\ IsTrace(base) /\ base.options = c.options /\ base.baseline = <<proj>>
          /\ base.prior = proj /\ base.patches = <<>> /\ base.kept = 1 /\ base.skipped = 0
      BY <2>1, <2>3, <2>12 DEF IsTrace
    <2> HIDE DEF base
    <2>6. base.kept + base.skipped = Cardinality(last) /\ base.kept = Len(base.patches) + 1
      BY <1>1, <2>2, <2>5
    <2>7. Patched(proj, <<>>) = proj
      BY TraceFolds, Patching!FoldOfNone
    <2>8. Patched(base.baseline[1], base.patches) = base.prior
      BY <2>5, <2>7
    <2>9. base.patches \in Seq({}) /\ base.baseline # <<>> /\ base.kept \in Nat /\ base.skipped \in Nat
      BY <2>5
    <2>10. TraceOf(c, i + 1, base)
      BY <1>2, <2>5, <2>6, <2>8, <2>9 DEF TraceOf, last, proj
    <2>11. QED
      BY <2>4, <2>10 DEF new, proj
  <1>5. CASE el # {}
    <2>1. /\ IsTrace(trace) /\ trace.options = c.options /\ trace.baseline # <<>>
          /\ trace.kept = Len(trace.patches) + 1 /\ trace.kept \in Nat /\ trace.skipped \in Nat
          /\ trace.kept + trace.skipped = Cardinality(el)
          /\ Patched(trace.baseline[1], trace.patches) = trace.prior
      BY <1>5 DEF TraceOf, el
    <2>2. PICK S : trace.patches \in Seq(S)
      BY <1>5 DEF TraceOf, el
    <2>3. PICK m \in el : trace.prior = Shown(c, m)
      BY <1>5 DEF TraceOf, el
    <2>4. IsFunction(trace.prior)
      BY <2>3, ShownIsFunction
    <2>5. /\ IsTrace(new) /\ new.options = trace.options /\ new.baseline = trace.baseline
          /\ new.prior = proj
          /\ \/ /\ new.patches = trace.patches /\ trace.prior = proj
                /\ new.kept = trace.kept /\ new.skipped = trace.skipped + 1
             \/ /\ \E patch : /\ new.patches = Append(trace.patches, patch)
                               /\ ApplyPatch(trace.prior, patch) = proj
                /\ new.kept = trace.kept + 1 /\ new.skipped = trace.skipped
      BY <1>3, <2>1, <2>4, TraceStepRebuilds DEF new
    <2>6. /\ Patched(new.baseline[1], new.patches) = new.prior
          /\ new.kept = Len(new.patches) + 1
          /\ \E T : new.patches \in Seq(T)
          /\ new.kept \in Nat /\ new.skipped \in Nat
          /\ new.kept + new.skipped = trace.kept + trace.skipped + 1
      <3>1. CASE /\ new.patches = trace.patches /\ trace.prior = proj
                 /\ new.kept = trace.kept /\ new.skipped = trace.skipped + 1
        <4>1. Patched(new.baseline[1], new.patches) = new.prior
          BY <2>1, <2>5, <3>1
        <4>2. QED
          BY <2>1, <2>2, <3>1, <4>1
      <3>2. CASE /\ \E patch : /\ new.patches = Append(trace.patches, patch)
                                /\ ApplyPatch(trace.prior, patch) = proj
                 /\ new.kept = trace.kept + 1 /\ new.skipped = trace.skipped
        <4>1. PICK patch : /\ new.patches = Append(trace.patches, patch)
                           /\ ApplyPatch(trace.prior, patch) = proj
          BY <3>2
        <4>2. /\ Patched(trace.baseline[1], Append(trace.patches, patch))
                 = ApplyPatch(Patched(trace.baseline[1], trace.patches), patch)
              /\ Append(trace.patches, patch) \in Seq(S \cup {patch})
              /\ Len(Append(trace.patches, patch)) = Len(trace.patches) + 1
              /\ Len(trace.patches) \in Nat
          <5> DEFINE d == trace.patches
                     first == trace.baseline[1]
          <5>1. d \in Seq(S)
            BY <2>2
          <5> HIDE DEF d, first
          <5>2. /\ Patched(first, Append(d, patch)) = ApplyPatch(Patched(first, d), patch)
                /\ Append(d, patch) \in Seq(S \cup {patch})
                /\ Len(Append(d, patch)) = Len(d) + 1
                /\ Len(d) \in Nat
            BY <5>1, PatchedByMore
          <5>3. QED
            BY <5>2 DEF d, first
        <4>3. Patched(new.baseline[1], new.patches) = new.prior
          BY <2>1, <2>5, <4>1, <4>2
        <4>4. new.patches \in Seq(S \cup {patch}) /\ new.kept = Len(new.patches) + 1
          BY <2>1, <3>2, <4>1, <4>2
        <4>5. /\ new.kept \in Nat /\ new.skipped \in Nat
              /\ new.kept + new.skipped = trace.kept + trace.skipped + 1
          BY <2>1, <3>2
        <4>6. QED
          BY <4>3, <4>4, <4>5
      <3>3. QED
        BY <2>5, <3>1, <3>2
    <2>7. new.kept + new.skipped = Cardinality(last)
      BY <1>1, <2>1, <2>6
    <2>8. TraceOf(c, i + 1, new)
      BY <1>2, <2>1, <2>5, <2>6, <2>7 DEF TraceOf, last, proj
    <2>9. QED
      BY <2>8 DEF new, proj
  <1>6. QED
    BY <1>4, <1>5

\* For every log and every choice of options, the baseline and the differences
\* printed rebuild what the options show of the last snapshot they let through, and
\* each snapshot they let through is printed or was as the one before (render_trace).
THEOREM TraceRebuilds == ASSUME NEW S, NEW log \in Seq(S), NEW options PROVE Rebuilds(log, options)
PROOF
  <1> DEFINE c == [log |-> log, options |-> options]
             n == Len(log)
             trace == RenderTrace(log, options)
  <1>1. n \in Nat /\ DOMAIN log = 1 .. n /\ c.log = log /\ c.options = options
    BY LenProperties
  <1> HIDE DEF c, n, trace
  <1>2. TraceOf(c, 0, Untraced(options))
    <2> DEFINE none == Untraced(options)
    <2>1. /\ IsTrace(none) /\ none.options = options /\ none.baseline = <<>>
          /\ none.patches = <<>> /\ none.kept = 0 /\ none.skipped = 0
      BY DEF Untraced, IsTrace, IsFunction
    <2>2. EligibleOf(c, 0) = {}
      BY DEF EligibleOf
    <2>3. Cardinality(EligibleOf(c, 0)) = 0
      BY <2>2, FS_EmptySet
    <2> HIDE DEF none
    <2>4. TraceOf(c, 0, none)
      BY <1>1, <2>1, <2>2, <2>3 DEF TraceOf
    <2>5. QED
      BY <2>4 DEF none
  <1>3. ASSUME NEW i \in 1 .. n, NEW y, TraceOf(c, i - 1, y)
        PROVE  TraceOf(c, i, TracedEvent(y, log[i]))
    <2> DEFINE k == i - 1
    <2>1. k \in Nat /\ k + 1 = i
      BY <1>1
    <2>2. y.options = options
      BY <1>1, <1>3 DEF TraceOf
    <2> HIDE DEF k
    <2>3. TraceOf(c, k, y)
      BY <1>3 DEF k
    <2>4. CASE Eligible(log[i], options)
      <3>1. TraceOf(c, k + 1, Traced(y, Shown(c, k + 1)))
        BY <1>1, <2>1, <2>3, <2>4, EligibleKeeps
      <3>2. TracedEvent(y, log[i]) = Traced(y, Shown(c, i))
        BY <1>1, <2>2, <2>4 DEF TracedEvent, Shown
      <3>3. QED
        BY <2>1, <3>1, <3>2
    <2>5. CASE ~Eligible(log[i], options)
      <3>1. EligibleOf(c, k + 1) = EligibleOf(c, k)
        BY <1>1, <2>1, <2>5, EligibleOfMore
      <3>2. TracedEvent(y, log[i]) = y
        BY <2>2, <2>5 DEF TracedEvent
      <3>3. TraceOf(c, k + 1, y)
        BY <2>3, <3>1 DEF TraceOf
      <3>4. QED
        BY <2>1, <3>2, <3>3
    <2>6. QED
      BY <2>4, <2>5
  <1>4. TraceOf(c, n, Tracing!Folded(Untraced(options), log))
    BY <1>2, <1>3, Tracing!FoldKeeps DEF n
  <1>5. TraceOf(c, n, trace)
    BY <1>4, TraceFolds DEF trace
  <1> DEFINE el == EligibleOf(c, n)
  <1>6. el = {i \in DOMAIN log : Eligible(log[i], options)}
    BY <1>1 DEF EligibleOf
  <1> HIDE DEF el
  <1>7. SUFFICES ASSUME el # {}
                 PROVE  /\ FoldLeft(ApplyPatch, trace.baseline[1], trace.patches)
                           = FilterProjection(log[Max(el)].projection, options.seq, options.view)
                        /\ trace.kept + trace.skipped = Cardinality(el)
                        /\ trace.kept = Len(trace.patches) + 1
    BY <1>6 DEF Rebuilds, trace
  <1>8. PICK m \in el : (\A j \in el : j <= m) /\ trace.prior = Shown(c, m)
    BY <1>5, <1>7 DEF TraceOf, el
  <1>9. Max(el) = m
    <2>1. el \subseteq 0 .. n
      BY <1>1 DEF el, EligibleOf
    <2>2. Max(el) \in el /\ \A j \in el : j <= Max(el)
      BY <1>1, <1>7, <2>1, MaxIsLargest
    <2> DEFINE x == Max(el)
    <2> HIDE DEF x
    <2>3. x \in el /\ \A j \in el : j <= x
      BY <2>2 DEF x
    <2>4. x <= m /\ m <= x
      BY <1>8, <2>3
    <2>5. x \in Int /\ m \in Int
      BY <1>8, <2>1, <2>3
    <2>6. QED
      BY <2>4, <2>5 DEF x
  <1>10. Patched(trace.baseline[1], trace.patches) = Shown(c, m)
    BY <1>5, <1>7, <1>8 DEF TraceOf, el
  <1>11. trace.kept + trace.skipped = Cardinality(el) /\ trace.kept = Len(trace.patches) + 1
    BY <1>5, <1>7 DEF TraceOf, el
  <1>12. QED
    BY <1>1, <1>9, <1>10, <1>11 DEF Patched, Shown

\* What is on disk is a sequence, whole or cut.
IsLog == (\E S : events \in Seq(S)) /\ tail \in {"clean", "torn", "bare"}

\* A line more, or the last line gone with the next.
LEMMA LogStays ==
  ASSUME IsLog, NEW r,
         r = events \/ r = SubSeq(events, 1, Len(events) - 1) \/ \E e : r = Append(events, e)
  PROVE  \E S : r \in Seq(S)
PROOF
  <1>1. PICK S : events \in Seq(S)
    BY DEF IsLog
  <1>2. CASE r = SubSeq(events, 1, Len(events) - 1)
    <2>1. Len(events) \in Nat
      BY <1>1, LenProperties
    <2>2. \A j \in 1 .. Len(events) - 1 : events[j] \in S
      BY <1>1, <2>1, ElementOfSeq
    <2>3. SubSeq(events, 1, Len(events) - 1) \in Seq(S)
      BY <1>1, <2>1, <2>2, SubSeqProperties
    <2>4. QED
      BY <1>2, <2>3
  <1>3. ASSUME NEW e, r = Append(events, e) PROVE \E T : r \in Seq(T)
    <2> DEFINE T == S \cup {e}
    <2>1. events \in Seq(T) /\ e \in T
      BY <1>1
    <2>2. Append(events, e) \in Seq(T)
      BY <2>1, AppendProperties
    <2>3. QED
      BY <1>3, <2>2
  <1>4. QED
    BY <1>1, <1>2, <1>3

\* Whatever is recorded, the trace of its answers can be replayed (render_trace).
THEOREM ReplaysTheTrace == Spec => []TraceReplays
PROOF
  <1>1. Init => IsLog
    <2>1. <<>> \in Seq({})
      OBVIOUS
    <2>2. QED
      BY <2>1 DEF Init, RecorderInit, IsLog
  <1>2. IsLog /\ [Records]_vars => IsLog'
    <2>1. SUFFICES ASSUME IsLog, [Records]_vars PROVE IsLog'
      OBVIOUS
    <2>5. tail' \in {"clean", "torn", "bare"}
      BY <2>1 DEF IsLog, Records, RecorderNext, Tick, OpenSession, CloseUnrecorded, WriteStart, PollSnapshot,
         LedgerSnapshot, Snapshot, Sync, EndSession, Kill, KillWriting, vars, recorderVars
    <2>2. \/ events' = events \/ events' = SubSeq(events, 1, Len(events) - 1)
          \/ \E e : events' = Append(events, e)
      <3>1. CASE UNCHANGED vars
        BY <3>1 DEF vars, recorderVars
      <3>2. CASE Records
        <4>1. RecorderNext
          BY <3>2 DEF Records
        <4>2. CASE Tick \/ OpenSession \/ CloseUnrecorded \/ Sync \/ Kill
          BY <4>2 DEF Tick, OpenSession, CloseUnrecorded, Sync, Kill
        <4>3. CASE WriteStart
          BY <2>1, <4>3 DEF WriteStart, IsLog
        <4>4. CASE PollSnapshot \/ LedgerSnapshot
          <5>1. \E idx, txs : Snapshot(idx, txs)
            BY <4>4 DEF PollSnapshot, LedgerSnapshot
          <5>2. QED
            BY <5>1 DEF Snapshot
        <4>5. CASE EndSession \/ KillWriting
          BY <4>5 DEF EndSession, KillWriting
        <4>6. QED
          BY <4>1, <4>2, <4>3, <4>4, <4>5 DEF RecorderNext
      <3>3. QED
        BY <2>1, <3>1, <3>2
    <2>3. \E S : events' \in Seq(S)
      BY <2>1, <2>2, LogStays
    <2>4. QED
      BY <2>3, <2>5 DEF IsLog
  <1>3. IsLog => TraceReplays
    <2>1. SUFFICES ASSUME IsLog PROVE \A options : Rebuilds(events, options)
      BY DEF TraceReplays
    <2>2. PICK S : events \in Seq(S)
      BY <2>1 DEF IsLog
    <2>3. QED
      BY <2>2, TraceRebuilds
  <1>4. QED
    BY <1>1, <1>2, <1>3, PTL DEF Spec

-------------------------------------------------------------------------------
(* The diagnosis *)

Ranges(bound) == Seq([lo : Nat, hi : 0 .. bound, single : BOOLEAN])

\* The upper ends are bounded.
LEMMA UpperEnds ==
  ASSUME NEW bound \in Nat, NEW ranges \in Ranges(bound)
  PROVE  /\ \A i \in DOMAIN ranges : ranges[i].hi \in 0 .. bound
         /\ ranges # <<>> => DOMAIN ranges # {}
PROOF
  <1> DEFINE Range1 == [lo : Nat, hi : 0 .. bound, single : BOOLEAN]
  <1>1. ranges \in Seq(Range1)
    BY DEF Ranges
  <1>2. \A r \in Range1 : r.hi \in 0 .. bound
    OBVIOUS
  <1> HIDE DEF Range1
  <1>3. DOMAIN ranges = 1 .. Len(ranges) /\ Len(ranges) \in Nat
    BY <1>1
  <1>4. \A i \in DOMAIN ranges : ranges[i] \in Range1
    BY <1>1, <1>3
  <1>5. ranges # <<>> => Len(ranges) # 0
    BY <1>1, EmptySeq
  <1> QED
    BY <1>2, <1>3, <1>4, <1>5

\* An inferred gap is how far the highest ledger of the ranges is ahead.
LEMMA InferredGapIsLead ==
  ASSUME NEW bound \in Nat, NEW ranges \in Ranges(bound), NEW validated \in Nat
  PROVE  \/ InferredGap(validated, ranges) = {}
         \/ /\ validated > 0
            /\ \E i \in DOMAIN ranges :
                 /\ \A j \in DOMAIN ranges : ranges[j].hi <= ranges[i].hi
                 /\ InferredGap(validated, ranges)
                    = {IF ranges[i].hi > validated THEN ranges[i].hi - validated ELSE 0}
PROOF
  <1> DEFINE his == {ranges[i].hi : i \in DOMAIN ranges}
             Lead(tip) == IF tip > validated THEN tip - validated ELSE 0
             tips == IF validated > 0 THEN MaxSeqInRanges(ranges) ELSE {}
  <1>0. InferredGap(validated, ranges) = {Lead(tip) : tip \in tips}
    BY DEF InferredGap
  <1>1. CASE validated = 0 \/ ranges = <<>>
    <2>1. tips = {}
      BY <1>1 DEF MaxSeqInRanges
    <2> HIDE DEF tips, Lead
    <2>2. {Lead(tip) : tip \in tips} = {}
      BY <2>1
    <2> QED
      BY <1>0, <2>2
  <1>2. CASE validated > 0 /\ ranges # <<>>
    <2>1. his # {} /\ his \subseteq 0 .. bound
      BY <1>2, UpperEnds
    <2>2. Max(his) \in his /\ \A y \in his : y <= Max(his)
      BY <2>1, MaxIsLargest
    <2>3. MaxSeqInRanges(ranges) = {Max(his)}
      BY <1>2 DEF MaxSeqInRanges
    <2>4. PICK i \in DOMAIN ranges : ranges[i].hi = Max(his)
      BY <2>2
    <2>5. tips = {ranges[i].hi}
      BY <1>2, <2>3, <2>4
    <2>6. \A j \in DOMAIN ranges : ranges[j].hi <= ranges[i].hi
      BY <2>2, <2>4
    <2>7. {Lead(tip) : tip \in tips} = {Lead(ranges[i].hi)}
      <3> HIDE DEF tips, Lead
      <3> QED
        BY <2>5
    <2> QED
      BY <1>0, <1>2, <2>6, <2>7
  <1> QED
    BY <1>1, <1>2

\* The gap that is taken is the node's own, if it can know it and it is not absurd,
\* or the inferred one.
LEMMA GapIsOwnOrInferred ==
  ASSUME NEW seen \in Nat, NEW behind \in Int, NEW inferred
  PROVE  \/ /\ seen > 0 /\ behind <= AbsurdGap
            /\ BehindForDiagnosis(seen, behind, inferred) = {behind}
         \/ BehindForDiagnosis(seen, behind, inferred) = inferred
PROOF BY DEF BehindForDiagnosis, Suspect, AbsurdGap

\* A node is called healthy only if nothing waits to be published or validated and
\* the gap is known to be none: the node knows the network and says so, or it is
\* acquiring ledgers and none of them is ahead of its validated one. With no gap
\* known it never is (_gaps_panel, _diagnose).
THEOREM HealthyIsLevel ==
  ASSUME NEW bound \in Nat, NEW ranges \in Ranges(bound), NEW seen \in Nat, NEW validated \in Nat,
         NEW behind \in Int, NEW publish \in Int, NEW close \in Int,
         Diagnosis(seen, validated, ranges, behind, publish, close) = "healthy"
  PROVE  /\ publish = 0 /\ close = 0
         /\ \/ seen > 0 /\ behind = 0
            \/ /\ validated > 0 /\ ranges # <<>>
               /\ \A i \in DOMAIN ranges : ranges[i].hi <= validated
PROOF
  <1> DEFINE inferred == InferredGap(validated, ranges)
             gap == BehindForDiagnosis(seen, behind, inferred)
             b == CHOOSE x \in gap : TRUE
  <1>1. Diagnose(gap, publish, close) = "healthy"
    BY DEF Diagnosis
  <1>2. gap # {}
    BY <1>1 DEF Diagnose, DiagnoseLocal
  <1>3. b = 0 /\ publish = 0 /\ close = 0
    BY <1>1, <1>2 DEF Diagnose, DiagnoseNetwork
  <1>4. CASE seen > 0 /\ gap = {behind}
    BY <1>3, <1>4
  <1>5. CASE gap = inferred
    <2>1. PICK i \in DOMAIN ranges :
            /\ validated > 0
            /\ \A j \in DOMAIN ranges : ranges[j].hi <= ranges[i].hi
            /\ inferred = {IF ranges[i].hi > validated THEN ranges[i].hi - validated ELSE 0}
      <3> HIDE DEF gap, inferred
      <3>1. inferred # {}
        BY <1>2, <1>5
      <3> USE DEF inferred
      <3> QED
        BY <3>1, InferredGapIsLead
    <2>2. \A j \in DOMAIN ranges : ranges[j].hi \in Nat
      BY UpperEnds
    <2>3. b = IF ranges[i].hi > validated THEN ranges[i].hi - validated ELSE 0
      <3> HIDE DEF gap, inferred
      <3> QED
        BY <1>5, <2>1
    <2>4. ranges[i].hi <= validated
      <3> HIDE DEF gap, inferred, b
      <3> QED
        BY <1>3, <2>2, <2>3
    <2>5. \A j \in DOMAIN ranges : ranges[j].hi <= validated
      <3> HIDE DEF gap, inferred, b
      <3> QED
        BY <2>1, <2>2, <2>4
    <2>6. ranges # <<>>
      OBVIOUS
    <2> HIDE DEF gap, inferred, b
    <2> QED
      BY <1>3, <2>1, <2>5, <2>6
  <1> QED
    BY <1>4, <1>5, GapIsOwnOrInferred

\* A node is said to fall behind only if it reports a gap that a network can have,
\* or acquires a ledger ahead of its validated one: a gap computed from state that
\* is not there never gets into the verdict (_gaps_panel).
THEOREM FallingBehindIsReal ==
  ASSUME NEW bound \in Nat, NEW ranges \in Ranges(bound), NEW seen \in Nat, NEW validated \in Nat,
         NEW behind \in Int, NEW publish \in Int, NEW close \in Int,
         Diagnosis(seen, validated, ranges, behind, publish, close) = "falling_behind"
  PROVE  \/ seen > 0 /\ behind \in 1 .. AbsurdGap
         \/ \E i \in DOMAIN ranges : ranges[i].hi > validated
PROOF
  <1> DEFINE inferred == InferredGap(validated, ranges)
             gap == BehindForDiagnosis(seen, behind, inferred)
             b == CHOOSE x \in gap : TRUE
  <1>1. Diagnose(gap, publish, close) = "falling_behind"
    BY DEF Diagnosis
  <1>2. gap # {}
    BY <1>1 DEF Diagnose, DiagnoseLocal
  <1>3. b > 0
    BY <1>1, <1>2 DEF Diagnose, DiagnoseNetwork
  <1>4. CASE seen > 0 /\ behind <= AbsurdGap /\ gap = {behind}
    <2>1. b = behind
      <3> HIDE DEF gap
      <3> QED
        BY <1>4
    <2> HIDE DEF gap, b
    <2>2. behind > 0
      BY <1>3, <2>1
    <2>3. behind <= AbsurdGap /\ AbsurdGap \in Nat
      BY <1>4 DEF AbsurdGap
    <2>4. behind \in 1 .. AbsurdGap
      BY <2>2, <2>3
    <2> QED
      BY <1>4, <2>4
  <1>5. CASE gap = inferred
    <2>1. PICK i \in DOMAIN ranges :
            inferred = {IF ranges[i].hi > validated THEN ranges[i].hi - validated ELSE 0}
      <3> HIDE DEF gap, inferred
      <3>1. inferred # {}
        BY <1>2, <1>5
      <3> USE DEF inferred
      <3> QED
        BY <3>1, InferredGapIsLead
    <2>2. b = IF ranges[i].hi > validated THEN ranges[i].hi - validated ELSE 0
      <3> HIDE DEF gap, inferred
      <3> QED
        BY <1>5, <2>1
    <2>3. \A j \in DOMAIN ranges : ranges[j].hi \in Nat
      BY UpperEnds
    <2>4. ranges[i].hi > validated
      <3> HIDE DEF gap, inferred, b
      <3> QED
        BY <1>3, <2>2, <2>3
    <2> QED
      BY <2>4
  <1> QED
    BY <1>4, <1>5, GapIsOwnOrInferred

-------------------------------------------------------------------------------
(* The session directory and the process *)

\* Directories that a run of the program leaves behind.
Dirs(dirs, bound) ==
  /\ NoPath \notin DOMAIN dirs
  /\ \A d \in DOMAIN dirs : dirs[d] \in [mtime : 0 .. bound, backup : BOOLEAN, events : BOOLEAN]

\* Of directories with events one is the newest.
LEMMA NewestIsThere ==
  ASSUME NEW bound \in Nat, NEW dirs, Dirs(dirs, bound), SessionDirs(dirs) # {}
  PROVE  /\ Newest(dirs) \in SessionDirs(dirs)
         /\ \A d \in SessionDirs(dirs) : dirs[d].mtime <= dirs[Newest(dirs)].mtime
PROOF
  <1> DEFINE times == {dirs[d].mtime : d \in SessionDirs(dirs)}
  <1>1. SessionDirs(dirs) \subseteq DOMAIN dirs
    BY DEF SessionDirs
  <1>2. times \subseteq 0 .. bound
    BY <1>1 DEF Dirs
  <1>3. times # {}
    OBVIOUS
  <1> HIDE DEF times
  <1>4. PICK t \in times : \A u \in times : u <= t
    BY <1>2, <1>3, LargestExists
  <1> USE DEF times
  <1>5. PICK d \in SessionDirs(dirs) : t = dirs[d].mtime
    OBVIOUS
  <1>6. \A e \in SessionDirs(dirs) : dirs[e].mtime <= dirs[d].mtime
    BY <1>4, <1>5
  <1> QED
    BY <1>6 DEF Newest

\* An offline command reads a directory with events or stops with an error, never
\* both. Without a notice it is the directory it was given, or that of the only
\* process that runs; a directory that nobody named is the newest, not one set
\* aside by --fresh, and taken with a notice only (resolve_session_dir).
THEOREM ResolvedDirIsMeant ==
  ASSUME NEW bound \in Nat, NEW dirs, Dirs(dirs, bound), NEW explicit, NEW running, NEW gone \in BOOLEAN
  PROVE  LET r == ResolveSessionDir(dirs, explicit, running, gone)
         IN /\ r.path = NoPath <=> r.error # "none"
            /\ r.error = "none" =>
                 /\ r.path \in DOMAIN dirs /\ dirs[r.path].events
                 /\ r.notice = "none" =>
                      r.path = explicit \/ (explicit = NoPath /\ \E p \in running : r.path = OwnDir(p))
                 /\ r.notice # "none" =>
                      /\ explicit = NoPath /\ ~dirs[r.path].backup
                      /\ \A d \in SessionDirs(dirs) : dirs[d].mtime <= dirs[r.path].mtime
PROOF
  <1> DEFINE Meant(r) ==
        /\ r.path = NoPath <=> r.error # "none"
        /\ r.error = "none" =>
             /\ r.path \in DOMAIN dirs /\ dirs[r.path].events
             /\ r.notice = "none" =>
                  r.path = explicit \/ (explicit = NoPath /\ \E p \in running : r.path = OwnDir(p))
             /\ r.notice # "none" =>
                  /\ explicit = NoPath /\ ~dirs[r.path].backup
                  /\ \A d \in SessionDirs(dirs) : dirs[d].mtime <= dirs[r.path].mtime
  <1>1. \A error : error # "none" => Meant(Failed(error))
    BY DEF Failed
  <1>2. \A d \in DOMAIN dirs : d # NoPath
    BY DEF Dirs
  <1>3. ASSUME explicit = NoPath, NEW notice, notice # "none", NEW error, error # "none"
        PROVE  Meant(NewestWith(dirs, notice, error))
    <2>1. CASE SessionDirs(dirs) = {}
      BY <1>1, <1>3, <2>1 DEF NewestWith
    <2>2. CASE SessionDirs(dirs) # {}
      <3>1. NewestWith(dirs, notice, error) = Found(Newest(dirs), notice)
        BY <2>2 DEF NewestWith
      <3>2. Newest(dirs) \in SessionDirs(dirs)
        BY <2>2, NewestIsThere
      <3>3. \A d \in SessionDirs(dirs) : dirs[d].mtime <= dirs[Newest(dirs)].mtime
        BY <2>2, NewestIsThere
      <3>4. Newest(dirs) \in DOMAIN dirs /\ dirs[Newest(dirs)].events /\ ~dirs[Newest(dirs)].backup
        BY <3>2 DEF SessionDirs
      <3>5. Newest(dirs) # NoPath
        BY <1>2, <3>4
      <3> QED
        BY <1>3, <3>1, <3>3, <3>4, <3>5 DEF Found
    <2> QED
      BY <2>1, <2>2
  <1>4. CASE explicit # NoPath
    <2>1. ResolveSessionDir(dirs, explicit, running, gone) = Explicit(dirs, explicit)
      BY <1>4 DEF ResolveSessionDir
    <2>2. Meant(Explicit(dirs, explicit))
      BY <1>1, <1>2 DEF Explicit, Found
    <2> QED
      BY <2>1, <2>2
  <1>5. CASE explicit = NoPath /\ Cardinality(running) > 1
    <2>1. ResolveSessionDir(dirs, explicit, running, gone) = Failed("several_processes")
      BY <1>5 DEF ResolveSessionDir
    <2> QED
      BY <1>1, <2>1
  <1>6. CASE explicit = NoPath /\ ~(Cardinality(running) > 1) /\ running # {}
    <2> DEFINE p == CHOOSE q \in running : TRUE
    <2>1. ResolveSessionDir(dirs, explicit, running, gone) = OfProcess(dirs, p, gone)
      BY <1>6 DEF ResolveSessionDir
    <2>2. p \in running
      BY <1>6
    <2> HIDE DEF p
    <2>3. CASE gone
      BY <1>1, <2>1, <2>3 DEF OfProcess
    <2>4. CASE ~gone /\ OwnDir(p) \in DOMAIN dirs /\ dirs[OwnDir(p)].events
      <3>1. OfProcess(dirs, p, gone) = Found(OwnDir(p), "none")
        BY <2>4 DEF OfProcess
      <3>2. OwnDir(p) # NoPath
        BY <1>2, <2>4
      <3> QED
        BY <1>6, <2>1, <2>2, <2>4, <3>1, <3>2 DEF Found
    <2>5. CASE ~gone /\ ~(OwnDir(p) \in DOMAIN dirs /\ dirs[OwnDir(p)].events)
      <3>1. OfProcess(dirs, p, gone) = NewestWith(dirs, "not_of_the_process", "no_directories")
        BY <2>5 DEF OfProcess
      <3> QED
        BY <1>3, <1>6, <2>1, <3>1
    <2> QED
      BY <2>3, <2>4, <2>5
  <1>7. CASE explicit = NoPath /\ ~(Cardinality(running) > 1) /\ running = {}
    <2>1. ResolveSessionDir(dirs, explicit, running, gone)
          = NewestWith(dirs, "no_process", "no_directories")
      BY <1>7 DEF ResolveSessionDir
    <2> QED
      BY <1>3, <1>7, <2>1
  <1> QED
    BY <1>4, <1>5, <1>6, <1>7

\* Whatever the monitor attaches to can be read and is the process that was named,
\* or, when none was, one that looks like a node, is not the monitor itself, and is
\* the only one or the one the user chose; and it waits only if told to reattach
\* (run_attach_mode, display_process_menu).
THEOREM AttachIsMeant ==
  ASSUME NEW procs, NEW pid, NEW answers, NEW reattach \in BOOLEAN, NEW url \in BOOLEAN,
         NEW a \in AttachAction(procs, pid, answers, reattach, url)
  PROVE  /\ a.act = "attach" =>
              \E p \in procs :
                /\ a.process = {p} /\ p.readable /\ (p.configured \/ url)
                /\ pid # 0 => p.pid = pid
                /\ pid = 0 => /\ p.named /\ ~p.own
                              /\ Cardinality(FindRippledProcesses(procs)) = 1 \/ p \in answers
         /\ a.act = "wait" => reattach /\ Targets(procs, pid, answers) = {}
PROOF
  <1>1. CASE Targets(procs, pid, answers) # {}
    <2>1. PICK p \in Targets(procs, pid, answers) :
            a = [act |-> IF p.configured \/ url THEN "attach" ELSE "exit", process |-> {p}]
      BY <1>1 DEF AttachAction
    <2>2. CASE pid # 0
      BY <2>1, <2>2 DEF Targets, GetProcessByPid
    <2>3. CASE pid = 0
      <3>1. p \in DisplayProcessMenu(FindRippledProcesses(procs), answers)
        BY <2>1, <2>3 DEF Targets
      <3>2. p \in FindRippledProcesses(procs)
        BY <3>1 DEF DisplayProcessMenu
      <3>3. Cardinality(FindRippledProcesses(procs)) = 1 \/ p \in answers
        BY <3>1 DEF DisplayProcessMenu
      <3>4. p \in procs /\ ~p.own /\ p.named /\ p.readable
        BY <3>2 DEF FindRippledProcesses
      <3> QED
        BY <2>1, <2>3, <3>3, <3>4
    <2> QED
      BY <2>2, <2>3
  <1>2. CASE Targets(procs, pid, answers) = {}
    <2>1. a = [act |-> IF reattach /\ (pid # 0 \/ FindRippledProcesses(procs) = {}) THEN "wait" ELSE "exit",
               process |-> {}]
      BY <1>2 DEF AttachAction
    <2> QED
      BY <1>2, <2>1
  <1> QED
    BY <1>1, <1>2

-------------------------------------------------------------------------------
(* The times of sessions *)

\* A log in the order of its times, whose sessions have a number of their own.
IsHistory(log) ==
  /\ \E S : log \in Seq(S)
  /\ \A j \in DOMAIN log : log[j].kind \in {"start", "end", "snapshot"} /\ log[j].t \in Nat
  /\ \A i, j \in DOMAIN log : i <= j => log[i].t <= log[j].t
  /\ \A j \in DOMAIN log :
       log[j].kind = "snapshot" => log[j].monitoring \in BOOLEAN /\ log[j].tx \in Nat
  /\ \A j \in DOMAIN log : log[j].kind = "start" => log[j].n \in Nat
  /\ \A i, j \in DOMAIN log :
       log[i].kind = "start" /\ log[j].kind = "start" /\ log[i].n = log[j].n => i = j

\* Where the positions of a log are.
LEMMA LogIsCounted ==
  ASSUME NEW log, IsHistory(log)
  PROVE  Len(log) \in Nat /\ DOMAIN log = 1 .. Len(log)
PROOF BY LenProperties DEF IsHistory

\* What an event does to the session before it.
LEMMA SessionGoesOn ==
  ASSUME NEW log, IsHistory(log), NEW i \in Nat, i + 1 \in DOMAIN log
  PROVE  /\ log[i + 1].kind = "start" => i + 1 \in Open(log) /\ i + 1 \notin Synced(log)
         /\ log[i + 1].kind = "end" => i + 1 \notin Open(log) /\ i + 1 \notin Synced(log)
         /\ log[i + 1].kind = "snapshot" =>
              /\ i + 1 \in Open(log) <=> i \in Open(log)
              /\ i + 1 \in Synced(log) <=> i \in Synced(log) \/ (i \in Open(log) /\ log[i + 1].monitoring)
         /\ i + 1 \in Synced(log) => i + 1 \in Open(log)
PROOF
  <1> DEFINE m == i + 1
             o == Open(log)
             s == Synced(log)
  <1>1. DOMAIN log = 1 .. Len(log) /\ Len(log) \in Nat /\ m \in Nat /\ m >= 1 /\ m <= Len(log)
    BY LogIsCounted
  <1>2. log[m].kind \in {"start", "end", "snapshot"}
    BY DEF IsHistory
  <1>3. m \in o <=> \E a \in 1 .. m : log[a].kind = "start" /\ \A k \in a .. m : log[k].kind # "end"
    BY <1>1 DEF Open
  <1>4. m \in s <=> \E a \in 1 .. m : /\ a \in o /\ log[a].kind = "snapshot" /\ log[a].monitoring
                                      /\ \A k \in a .. m : log[k].kind = "snapshot"
    BY <1>1 DEF Synced
  <1>5. \A a \in 1 .. m : m \in a .. m
    BY <1>1
  <1>6. log[m].kind = "start" => m \in o /\ m \notin s
    <2>1. m \in 1 .. m /\ \A k \in m .. m : k = m
      BY <1>1
    <2>2. QED
      BY <1>3, <1>4, <1>5, <2>1
  <1>7. log[m].kind = "end" => m \notin o /\ m \notin s
    BY <1>3, <1>4, <1>5
  <1>8. ASSUME log[m].kind = "snapshot" PROVE m \in o <=> i \in o
    <2>1. i \in o => i \in 1 .. i
      BY <1>1 DEF Open
    <2>2. i \in o <=> \E a \in 1 .. i : log[a].kind = "start" /\ \A k \in a .. i : log[k].kind # "end"
      BY <1>1 DEF Open
    <2>3. 1 .. m = (1 .. i) \cup {m} /\ \A a \in 1 .. i : a .. m = (a .. i) \cup {m}
      OBVIOUS
    <2> HIDE DEF m, o
    <2>4. QED
      BY <1>3, <1>8, <2>2, <2>3
  <1>9. ASSUME log[m].kind = "snapshot" PROVE m \in s <=> i \in s \/ (i \in o /\ log[m].monitoring)
    <2>1. i \in s <=> \E a \in 1 .. i : /\ a \in o /\ log[a].kind = "snapshot" /\ log[a].monitoring
                                        /\ \A k \in a .. i : log[k].kind = "snapshot"
      BY <1>1 DEF Synced
    <2>2. /\ 1 .. m = (1 .. i) \cup {m} /\ (\A a \in 1 .. i : a .. m = (a .. i) \cup {m})
          /\ m .. m = {m}
      OBVIOUS
    <2>3. m \in o <=> i \in o
      BY <1>8, <1>9
    <2> HIDE DEF m, o, s
    <2>4. QED
      BY <1>4, <1>9, <2>1, <2>2, <2>3
  <1>10. ASSUME m \in s PROVE m \in o
    <2>1. PICK a \in 1 .. m : /\ a \in o /\ log[a].kind = "snapshot" /\ log[a].monitoring
                              /\ \A k \in a .. m : log[k].kind = "snapshot"
      BY <1>4, <1>10
    <2>2. PICK b \in 1 .. a : log[b].kind = "start" /\ \A k \in b .. a : log[k].kind # "end"
      BY <2>1 DEF Open
    <2>3. b \in 1 .. m /\ \A k \in b .. m : k \in b .. a \/ k \in a .. m
      BY <1>1, <2>1, <2>2
    <2> HIDE DEF m, o, s
    <2>4. QED
      BY <1>3, <2>1, <2>2, <2>3
  <1>11. QED
    BY <1>6, <1>7, <1>8, <1>9, <1>10

\* The time between neighbours among the first events of a log.
GapsUpTo(log, during, i) == {j \in 1 .. i - 1 : j \in during /\ log[j + 1].kind # "start"}
TimeUpTo(log, during, i) == SumOf(Gaps(log), GapsUpTo(log, during, i))

\* With an event more it is what it was, or more by the time since the event before.
LEMMA TimeGrows ==
  ASSUME NEW log, IsHistory(log), NEW during \in SUBSET DOMAIN log, NEW i \in Nat, i + 1 \in DOMAIN log
  PROVE  /\ TimeUpTo(log, during, i) \in Nat
         /\ TimeUpTo(log, during, i + 1)
            = TimeUpTo(log, during, i)
              + IF i \in during /\ log[i + 1].kind # "start" THEN log[i + 1].t - log[i].t ELSE 0
PROOF
  <1> DEFINE was == GapsUpTo(log, during, i)
             is == GapsUpTo(log, during, i + 1)
             gaps == Gaps(log)
             n == Len(log)
  <1>1. n \in Nat /\ DOMAIN log = 1 .. n /\ i + 1 <= n
    BY LogIsCounted
  <1>2. \A j \in 1 .. n - 1 : j \in DOMAIN log /\ j + 1 \in DOMAIN log /\ j <= j + 1
    BY <1>1
  <1>3. \A j \in 1 .. n - 1 : gaps[j] = log[j + 1].t - log[j].t
    BY DEF Gaps
  <1>4. \A j \in 1 .. n - 1 : gaps[j] \in Nat
    BY <1>2, <1>3 DEF IsHistory
  <1>5. is \subseteq 1 .. n - 1 /\ was \subseteq 1 .. n - 1 /\ was \subseteq 1 .. n /\ is \subseteq 1 .. n
    BY <1>1 DEF GapsUpTo
  <1>6. IsFiniteSet(is) /\ IsFiniteSet(was)
    <2>1. IsFiniteSet(1 .. n)
      BY <1>1, FS_Interval
    <2> HIDE DEF was, is, n
    <2>2. QED
      BY <1>5, <2>1, FS_Subset
  <1>7. i \notin was
    BY DEF GapsUpTo
  <1>8. IF i \in during /\ log[i + 1].kind # "start" THEN is = was \cup {i} ELSE is = was
    <2>1. i \in during => i \in 1 .. i
      BY <1>1
    <2>2. 1 .. (i + 1) - 1 = 1 .. i /\ \A j \in 1 .. i : j \in 1 .. i - 1 \/ j = i
      OBVIOUS
    <2>3. \A j \in 1 .. i - 1 : j \in 1 .. i
      OBVIOUS
    <2>4. QED
      BY <2>1, <2>2, <2>3 DEF GapsUpTo
  <1> HIDE DEF was, is, gaps
  <1>9. SumOf(gaps, was) \in Nat
    <2>1. \A j \in was : gaps[j] \in Int /\ gaps[j] \in Nat
      BY <1>4, <1>5
    <2>2. QED
      BY <1>6, <2>1, SumIsNumber
  <1>10. CASE i \in during /\ log[i + 1].kind # "start"
    <2>1. is = was \cup {i} /\ i \in is /\ is \ {i} = was
      BY <1>7, <1>8, <1>10
    <2>2. \A j \in is : gaps[j] \in Int
      BY <1>4, <1>5
    <2>3. SumOf(gaps, is) = SumOf(gaps, was) + gaps[i]
      <3> DEFINE z == i
      <3> HIDE DEF z
      <3>1. IsFiniteSet(was) /\ z \notin was /\ is = was \cup {z} /\ \A j \in was \cup {z} : gaps[j] \in Int
        BY <1>6, <1>7, <2>1, <2>2 DEF z
      <3>2. SumOf(gaps, was \cup {z}) = SumOf(gaps, was) + gaps[z]
        BY <3>1, SumOfMore
      <3>3. QED
        BY <3>1, <3>2 DEF z
    <2>4. gaps[i] = log[i + 1].t - log[i].t
      BY <1>3, <1>5, <2>1
    <2>5. QED
      BY <1>9, <1>10, <2>3, <2>4 DEF TimeUpTo, was, is, gaps
  <1>11. CASE ~(i \in during /\ log[i + 1].kind # "start")
    BY <1>8, <1>9, <1>11 DEF TimeUpTo, was, is, gaps
  <1>12. QED
    BY <1>10, <1>11

\* All of them together are what the property says.
LEMMA TimeOfAll ==
  ASSUME NEW log, IsHistory(log), NEW during \in SUBSET DOMAIN log
  PROVE  TimeBetween(log, during) = TimeUpTo(log, during, Len(log)) /\ TimeUpTo(log, during, 0) = 0
PROOF
  <1>1. DOMAIN Gaps(log) = 1 .. Len(log) - 1
    BY DEF Gaps
  <1>2. {j \in DOMAIN Gaps(log) \cap during : log[j + 1].kind # "start"} = GapsUpTo(log, during, Len(log))
    BY <1>1 DEF GapsUpTo
  <1>3. GapsUpTo(log, during, 0) = {}
    BY DEF GapsUpTo
  <1> DEFINE g == Gaps(log)
             S == GapsUpTo(log, during, Len(log))
  <1>4. TimeBetween(log, during) = SumOf(g, S)
    BY <1>2 DEF TimeBetween, SumOf
  <1>5. TimeUpTo(log, during, 0) = 0
    BY <1>3, SumOfNone DEF TimeUpTo
  <1>6. QED
    BY <1>4, <1>5 DEF TimeUpTo

\* The long waits among the first events of a log.
LongUpTo(log, i) == {j \in LongSyncs(log) : j <= i}
FirstLong(log, i) ==
  IF LongUpTo(log, i) = {} THEN None ELSE SyncTime(log, Min(LongUpTo(log, i)))

\* The smallest number of a set.
LEMMA MinIsSmallest ==
  ASSUME NEW S \in SUBSET Nat, NEW m \in S, \A x \in S : m <= x
  PROVE  Min(S) = m
PROOF
  <1>1. \A x \in S : (\A y \in S : x <= y) => x = m
    OBVIOUS
  <1>2. QED
    BY <1>1 DEF Min

\* A wait more is the first one, or comes after the others.
LEMMA FirstLongStays ==
  ASSUME NEW log, IsHistory(log), NEW i \in Nat, i + 1 \in DOMAIN log
  PROVE  FirstLong(log, i + 1)
         = IF LongUpTo(log, i) = {} /\ i + 1 \in LongSyncs(log)
           THEN SyncTime(log, i + 1) ELSE FirstLong(log, i)
PROOF
  <1> DEFINE was == LongUpTo(log, i)
             is == LongUpTo(log, i + 1)
             new == i + 1 \in LongSyncs(log)
  <1>1. LongSyncs(log) \subseteq Nat
    BY LogIsCounted DEF LongSyncs, Syncs, Synced
  <1>2. was \subseteq Nat /\ is \subseteq Nat /\ \A j \in was : j <= i
    BY <1>1 DEF LongUpTo
  <1>3. IF new THEN is = was \cup {i + 1} ELSE is = was
    BY <1>1 DEF LongUpTo
  <1> HIDE DEF was, is, new
  <1>4. CASE new /\ was = {}
    <2>1. is = {i + 1}
      BY <1>3, <1>4
    <2>2. Min(is) = i + 1
      BY <1>2, <2>1, MinIsSmallest
    <2>3. QED
      BY <1>4, <2>1, <2>2 DEF FirstLong, was, is, new
  <1>5. CASE new /\ was # {}
    <2>1. PICK m \in was : \A j \in was : m <= j
      BY <1>2, <1>5, LeastNat
    <2>2. Min(was) = m
      BY <1>2, <2>1, MinIsSmallest
    <2>3. m \in is /\ \A j \in is : m <= j
      BY <1>2, <1>3, <1>5, <2>1
    <2>4. Min(is) = m
      BY <1>2, <2>3, MinIsSmallest
    <2>5. QED
      BY <1>5, <2>2, <2>3, <2>4 DEF FirstLong, was, is, new
  <1>6. CASE ~new
    BY <1>3, <1>6 DEF FirstLong, was, is, new
  <1>7. QED
    BY <1>4, <1>5, <1>6

TimingFields == {"elapsed", "monitoring", "originalSync", "start", "syncedAt", "lastT"}
IsTiming(d) == TimingFields \subseteq DOMAIN d

\* What closing a session changes.
LEMMA CloseAtFields ==
  ASSUME NEW d, IsTiming(d), NEW t
  PROVE  LET r == CloseAt(d, t)
         IN /\ IsTiming(r) /\ r.start = d.start /\ r.syncedAt = d.syncedAt /\ r.lastT = d.lastT
            /\ r.elapsed = IF d.start = None THEN d.elapsed ELSE d.elapsed + AtLeast0(t - d.start)
            /\ r.monitoring = IF d.start = None \/ d.syncedAt = None THEN d.monitoring
                              ELSE d.monitoring + AtLeast0(t - d.syncedAt)
            /\ r.originalSync = IF /\ d.start # None /\ d.originalSync = None /\ d.syncedAt # None
                                   /\ d.syncedAt - d.start > ReattachSync
                                THEN d.syncedAt - d.start ELSE d.originalSync
PROOF BY DEF CloseAt, IsTiming, TimingFields

\* What an event changes.
LEMMA TimingOfFields ==
  ASSUME NEW d, IsTiming(d), NEW e, e.kind \in {"start", "end", "snapshot"}
  PROVE  LET r == TimingOf(d, e)
             c == CloseAt(d, IF e.kind = "start" THEN d.lastT ELSE e.t)
         IN /\ IsTiming(r)
            /\ e.kind # "snapshot" =>
                 /\ r.elapsed = c.elapsed /\ r.monitoring = c.monitoring
                 /\ r.originalSync = c.originalSync /\ r.syncedAt = None
                 /\ r.start = IF e.kind = "start" THEN e.t ELSE None
            /\ e.kind = "snapshot" =>
                 /\ r.elapsed = d.elapsed /\ r.monitoring = d.monitoring
                 /\ r.originalSync = d.originalSync /\ r.start = d.start
                 /\ r.syncedAt = IF d.start # None /\ d.syncedAt = None /\ e.monitoring
                                 THEN e.t ELSE d.syncedAt
            /\ e.kind # "end" => r.lastT = e.t
PROOF
  <1>1. CASE e.kind = "start"
    <2> DEFINE c == CloseAt(d, d.lastT)
    <2>1. IsTiming(c)
      BY CloseAtFields
    <2> HIDE DEF c
    <2>2. TimingOf(d, e) = [c EXCEPT !.start = e.t, !.syncedAt = None, !.lastT = e.t]
      BY <1>1 DEF TimingOf, c
    <2>3. QED
      BY <1>1, <2>1, <2>2 DEF IsTiming, TimingFields, c
  <1>2. CASE e.kind = "end"
    <2> DEFINE c == CloseAt(d, e.t)
    <2>1. IsTiming(c)
      BY CloseAtFields
    <2> HIDE DEF c
    <2>2. TimingOf(d, e) = [c EXCEPT !.start = None, !.syncedAt = None, !.lastT = None]
      BY <1>2 DEF TimingOf, c
    <2>3. QED
      BY <1>2, <2>1, <2>2 DEF IsTiming, TimingFields, c
  <1>3. CASE e.kind = "snapshot"
    <2>1. TimingOf(d, e) =
            [d EXCEPT !.lastT = e.t,
                      !.syncedAt = IF d.start # None /\ @ = None /\ e.monitoring THEN e.t ELSE @]
      BY <1>3 DEF TimingOf
    <2>2. QED
      BY <1>3, <2>1 DEF IsTiming, TimingFields
  <1>4. QED
    BY <1>1, <1>2, <1>3

\* The start of the session that is open behind an event.
StartOf(log, i) == Max({j \in 1 .. i : log[j].kind = "start"})

\* It is the last session_start, and there are only snapshots after it.
LEMMA StartIsLast ==
  ASSUME NEW log, IsHistory(log), NEW i \in Open(log)
  PROVE  /\ StartOf(log, i) \in 1 .. i /\ StartOf(log, i) \in DOMAIN log
         /\ log[StartOf(log, i)].kind = "start"
         /\ \A k \in StartOf(log, i) + 1 .. i : log[k].kind = "snapshot"
         /\ \A k \in 1 .. i : log[k].kind = "start" => k <= StartOf(log, i)
PROOF
  <1> DEFINE S == {j \in 1 .. i : log[j].kind = "start"}
             m == Max(S)
  <1>1. i \in 1 .. Len(log) /\ Len(log) \in Nat
    BY LogIsCounted DEF Open
  <1>2. PICK a \in 1 .. i : log[a].kind = "start" /\ \A k \in a .. i : log[k].kind # "end"
    BY DEF Open
  <1>3. a \in S /\ S \subseteq 0 .. i
    BY <1>2
  <1>4. m \in S /\ \A y \in S : y <= m
    <2> HIDE DEF S
    <2>1. i \in Nat /\ S # {}
      BY <1>1, <1>3
    <2>2. QED
      BY <1>3, <2>1, MaxIsLargest
  <1> HIDE DEF m
  <1>5. m \in 1 .. i /\ log[m].kind = "start" /\ a <= m
    BY <1>3, <1>4
  <1>6. ASSUME NEW k \in m + 1 .. i PROVE log[k].kind = "snapshot"
    <2>1. k \in 1 .. i /\ k \in a .. i /\ k > m /\ k \in DOMAIN log
      BY <1>1, <1>2, <1>5, LogIsCounted
    <2>2. log[k].kind # "start" /\ log[k].kind # "end"
      BY <1>2, <1>4, <2>1
    <2>3. QED
      BY <2>1, <2>2 DEF IsHistory
  <1>7. \A k \in 1 .. i : log[k].kind = "start" => k <= m
    BY <1>4
  <1>8. QED
    BY <1>1, <1>5, <1>6, <1>7, LogIsCounted DEF StartOf, m

\* The start of a session stays what it is.
LEMMA StartStays ==
  ASSUME NEW log, IsHistory(log), NEW i \in Nat, i + 1 \in DOMAIN log
  PROVE  StartOf(log, i + 1) = IF log[i + 1].kind = "start" THEN i + 1 ELSE StartOf(log, i)
PROOF
  <1> DEFINE S == {j \in 1 .. i + 1 : log[j].kind = "start"}
  <1>1. CASE log[i + 1].kind = "start"
    <2>1. i + 1 \in S /\ S \subseteq 0 .. i + 1 /\ \A j \in S : j <= i + 1
      BY <1>1
    <2>2. Max(S) \in S /\ \A j \in S : j <= Max(S)
      BY <2>1, MaxIsLargest
    <2> DEFINE m == Max(S)
    <2> HIDE DEF S, m
    <2>3. m \in S /\ i + 1 <= m
      BY <2>1, <2>2 DEF m
    <2>4. m = i + 1
      BY <2>1, <2>3
    <2>5. QED
      BY <1>1, <2>4 DEF StartOf, S, m
  <1>2. CASE log[i + 1].kind # "start"
    <2>1. S = {j \in 1 .. i : log[j].kind = "start"}
      BY <1>2
    <2>2. QED
      BY <1>2, <2>1 DEF StartOf
  <1>3. QED
    BY <1>1, <1>2

\* A time to sync is one, and the first is there when there is any.
LEMMA LongIsKnown ==
  ASSUME NEW log, IsHistory(log), NEW i
  PROVE  /\ FirstLong(log, i) = None <=> LongUpTo(log, i) = {}
         /\ FirstLong(log, i) \in Nat \cup {None}
PROOF
  <1> DEFINE S == LongUpTo(log, i)
  <1>1. CASE S = {}
    BY <1>1 DEF FirstLong
  <1>2. CASE S # {}
    <2>1. S \subseteq Nat
      BY LogIsCounted DEF LongUpTo, LongSyncs, Syncs, Synced
    <2> HIDE DEF S
    <2>2. PICK m \in S : \A j \in S : m <= j
      BY <1>2, <2>1, LeastNat
    <2>3. Min(S) = m
      BY <2>1, <2>2, MinIsSmallest
    <2>4. m \in Synced(log) /\ SyncTime(log, m) > ReattachSync
      BY <2>2 DEF S, LongUpTo, LongSyncs, Syncs
    <2>5. m - 1 \in Nat /\ (m - 1) + 1 = m /\ m \in DOMAIN log
      BY <2>4, LogIsCounted DEF Synced
    <2>6. m \in Open(log)
      BY <2>4, <2>5, SessionGoesOn
    <2>7. /\ StartOf(log, m) \in DOMAIN log /\ StartOf(log, m) <= m
      BY <2>6, StartIsLast
    <2>8. SyncTime(log, m) = log[m].t - log[StartOf(log, m)].t
      BY DEF SyncTime, StartOf
    <2>9. SyncTime(log, m) \in Nat
      <3>1. log[m].t \in Nat /\ log[StartOf(log, m)].t \in Nat /\ log[StartOf(log, m)].t <= log[m].t
        BY <2>5, <2>7 DEF IsHistory
      <3>2. QED
        BY <2>8, <3>1
    <2>10. FirstLong(log, i) = SyncTime(log, m)
      BY <1>2, <2>3 DEF FirstLong, S
    <2>11. QED
      BY <1>2, <2>9, <2>10 DEF None, S
  <1>3. QED
    BY <1>1, <1>2

\* What holds of the times after i events: closed at the last of them, they are the
\* times between the events.
TimesOf(log, i, d) ==
  /\ IsTiming(d)
  /\ IF i \in Open(log) THEN d.start = log[StartOf(log, i)].t /\ d.lastT = log[i].t
     ELSE d.start = None
  /\ IF i \in Synced(log) THEN d.syncedAt \in Nat /\ d.start <= d.syncedAt /\ d.syncedAt <= d.lastT
     ELSE d.syncedAt = None
  /\ d.elapsed \in Nat /\ d.monitoring \in Nat
  /\ TimeUpTo(log, Open(log), i) = d.elapsed + IF i \in Open(log) THEN d.lastT - d.start ELSE 0
  /\ TimeUpTo(log, Synced(log), i)
     = d.monitoring + IF i \in Synced(log) THEN d.lastT - d.syncedAt ELSE 0
  /\ FirstLong(log, i)
     = IF i \in Synced(log) /\ d.originalSync = None /\ d.syncedAt - d.start > ReattachSync
       THEN d.syncedAt - d.start ELSE d.originalSync

\* The times of an open session are times.
LEMMA TimesAreTimes ==
  ASSUME NEW log, IsHistory(log), NEW i \in Nat, i = 0 \/ i \in DOMAIN log,
         NEW d, TimesOf(log, i, d)
  PROVE  /\ i \in Synced(log) => i \in Open(log)
         /\ i \in Open(log) =>
              /\ i \in DOMAIN log /\ d.start \in Nat /\ d.lastT \in Nat /\ d.start <= d.lastT
              /\ d.start # None
         /\ i \notin Open(log) => d.start = None /\ d.syncedAt = None
         /\ i \in Synced(log) <=> d.syncedAt # None
PROOF
  <1>1. i \in Synced(log) => i \in Open(log)
    <2>1. i \in Synced(log) => i - 1 \in Nat /\ (i - 1) + 1 = i /\ i \in DOMAIN log
      BY LogIsCounted DEF Synced
    <2>2. QED
      BY <2>1, SessionGoesOn
  <1>2. i \in Open(log) => i \in DOMAIN log
    BY DEF Open
  <1>3. ASSUME i \in Open(log)
        PROVE  d.start \in Nat /\ d.lastT \in Nat /\ d.start <= d.lastT /\ d.start # None
    <2>1. StartOf(log, i) \in DOMAIN log /\ StartOf(log, i) <= i
      BY <1>3, StartIsLast
    <2>2. d.start = log[StartOf(log, i)].t /\ d.lastT = log[i].t
      BY <1>3 DEF TimesOf
    <2>3. /\ log[StartOf(log, i)].t \in Nat /\ log[i].t \in Nat
          /\ log[StartOf(log, i)].t <= log[i].t
      BY <1>2, <1>3, <2>1 DEF IsHistory
    <2>4. QED
      BY <2>2, <2>3 DEF None
  <1>4. i \in Synced(log) <=> d.syncedAt # None
    BY DEF TimesOf, None
  <1>5. QED
    BY <1>1, <1>2, <1>3, <1>4 DEF TimesOf

\* Closed at a later time, they grow by the time since the last event.
LEMMA ClosedAreTimes ==
  ASSUME NEW log, IsHistory(log), NEW i \in Nat, i = 0 \/ i \in DOMAIN log,
         NEW d, TimesOf(log, i, d), NEW t,
         i \in Open(log) => t \in Nat /\ d.lastT <= t
  PROVE  LET r == CloseAt(d, t)
         IN /\ IsTiming(r)
            /\ r.elapsed = TimeUpTo(log, Open(log), i) + IF i \in Open(log) THEN t - d.lastT ELSE 0
            /\ r.monitoring
               = TimeUpTo(log, Synced(log), i) + IF i \in Synced(log) THEN t - d.lastT ELSE 0
            /\ r.originalSync = FirstLong(log, i)
            /\ r.elapsed \in Nat /\ r.monitoring \in Nat
PROOF
  <1> DEFINE r == CloseAt(d, t)
             o == i \in Open(log)
             s == i \in Synced(log)
             time == TimeUpTo(log, Open(log), i)
             sync == TimeUpTo(log, Synced(log), i)
  <1>1. /\ IsTiming(r)
        /\ r.elapsed = IF d.start = None THEN d.elapsed ELSE d.elapsed + AtLeast0(t - d.start)
        /\ r.monitoring = IF d.start = None \/ d.syncedAt = None THEN d.monitoring
                          ELSE d.monitoring + AtLeast0(t - d.syncedAt)
        /\ r.originalSync = IF /\ d.start # None /\ d.originalSync = None /\ d.syncedAt # None
                               /\ d.syncedAt - d.start > ReattachSync
                            THEN d.syncedAt - d.start ELSE d.originalSync
    BY CloseAtFields DEF TimesOf
  <1>2. /\ s => o
        /\ o => d.start \in Nat /\ d.lastT \in Nat /\ d.start <= d.lastT /\ d.start # None
        /\ ~o => d.start = None /\ d.syncedAt = None
        /\ s <=> d.syncedAt # None
    BY TimesAreTimes
  <1>3. /\ s => d.syncedAt \in Nat /\ d.start <= d.syncedAt /\ d.syncedAt <= d.lastT
        /\ d.elapsed \in Nat /\ d.monitoring \in Nat
        /\ time = d.elapsed + IF o THEN d.lastT - d.start ELSE 0
        /\ sync = d.monitoring + IF s THEN d.lastT - d.syncedAt ELSE 0
        /\ FirstLong(log, i) = IF s /\ d.originalSync = None /\ d.syncedAt - d.start > ReattachSync
                               THEN d.syncedAt - d.start ELSE d.originalSync
    BY DEF TimesOf
  <1>4. o => t \in Nat /\ d.lastT <= t
    OBVIOUS
  <1> HIDE DEF r, o, s, time, sync
  <1>5. o => AtLeast0(t - d.start) = t - d.start
    BY <1>2, <1>4 DEF AtLeast0
  <1>6. s => AtLeast0(t - d.syncedAt) = t - d.syncedAt
    BY <1>2, <1>3, <1>4 DEF AtLeast0
  <1>7. r.elapsed = (time + IF o THEN t - d.lastT ELSE 0) /\ r.elapsed \in Nat
    BY <1>1, <1>2, <1>3, <1>4, <1>5
  <1>8. r.monitoring = (sync + IF s THEN t - d.lastT ELSE 0) /\ r.monitoring \in Nat
    BY <1>1, <1>2, <1>3, <1>4, <1>6
  <1>9. r.originalSync = FirstLong(log, i)
    BY <1>1, <1>2, <1>3
  <1>10. QED
    BY <1>1, <1>7, <1>8, <1>9 DEF r, o, s, time, sync

\* An event more keeps it.
LEMMA EventKeepsTimes ==
  ASSUME NEW log, IsHistory(log), NEW i \in Nat, i + 1 \in DOMAIN log,
         NEW d, TimesOf(log, i, d)
  PROVE  TimesOf(log, i + 1, TimingOf(d, log[i + 1]))
PROOF
  <1> DEFINE m == i + 1
             e == log[m]
             r == TimingOf(d, e)
             o == i \in Open(log)
             s == i \in Synced(log)
             time == TimeUpTo(log, Open(log), i)
             sync == TimeUpTo(log, Synced(log), i)
             long == FirstLong(log, i)
  <1>1. DOMAIN log = 1 .. Len(log) /\ Len(log) \in Nat /\ (i = 0 \/ i \in DOMAIN log)
    BY LogIsCounted
  <1>2. /\ e.kind \in {"start", "end", "snapshot"} /\ e.t \in Nat
        /\ e.kind = "snapshot" => e.monitoring \in BOOLEAN
    BY DEF IsHistory
  <1>3. /\ s => o
        /\ o => i \in DOMAIN log /\ d.start \in Nat /\ d.lastT \in Nat /\ d.start <= d.lastT /\ d.start # None
        /\ ~o => d.start = None /\ d.syncedAt = None
        /\ s <=> d.syncedAt # None
    BY <1>1, TimesAreTimes
  <1>4. IsTiming(d) /\ (o => d.lastT = log[i].t)
    BY DEF TimesOf
  <1>5. o => d.lastT <= e.t
    <2>1. o => log[i].t <= e.t
      BY <1>3 DEF IsHistory
    <2>2. QED
      BY <1>4, <2>1
  <1>6. Open(log) \in SUBSET DOMAIN log /\ Synced(log) \in SUBSET DOMAIN log
    BY DEF Open, Synced
  <1>7. /\ time \in Nat /\ sync \in Nat
        /\ TimeUpTo(log, Open(log), m)
           = time + IF o /\ e.kind # "start" THEN e.t - log[i].t ELSE 0
        /\ TimeUpTo(log, Synced(log), m)
           = sync + IF s /\ e.kind # "start" THEN e.t - log[i].t ELSE 0
    BY <1>6, TimeGrows
  <1>8. /\ e.kind = "start" => m \in Open(log) /\ m \notin Synced(log)
        /\ e.kind = "end" => m \notin Open(log) /\ m \notin Synced(log)
        /\ e.kind = "snapshot" =>
             /\ m \in Open(log) <=> o
             /\ m \in Synced(log) <=> s \/ (o /\ e.monitoring)
    BY SessionGoesOn
  <1>9. FirstLong(log, m)
        = IF LongUpTo(log, i) = {} /\ m \in LongSyncs(log) THEN SyncTime(log, m) ELSE long
    BY FirstLongStays
  <1>10. long = None <=> LongUpTo(log, i) = {}
    BY LongIsKnown
  <1>11. StartOf(log, m) = IF e.kind = "start" THEN m ELSE StartOf(log, i)
    BY StartStays
  <1> DEFINE close == IF e.kind = "start" THEN d.lastT ELSE e.t
             c == CloseAt(d, close)
  <1>12. /\ IsTiming(r)
         /\ e.kind # "snapshot" =>
              /\ r.elapsed = c.elapsed /\ r.monitoring = c.monitoring
              /\ r.originalSync = c.originalSync /\ r.syncedAt = None
              /\ r.start = IF e.kind = "start" THEN e.t ELSE None
         /\ e.kind = "snapshot" =>
              /\ r.elapsed = d.elapsed /\ r.monitoring = d.monitoring
              /\ r.originalSync = d.originalSync /\ r.start = d.start
              /\ r.syncedAt = IF d.start # None /\ d.syncedAt = None /\ e.monitoring
                              THEN e.t ELSE d.syncedAt
         /\ e.kind # "end" => r.lastT = e.t
    BY <1>2, <1>4, TimingOfFields
  <1>13. /\ c.elapsed = time + IF o THEN close - d.lastT ELSE 0
         /\ c.monitoring = sync + IF s THEN close - d.lastT ELSE 0
         /\ c.originalSync = long
         /\ c.elapsed \in Nat /\ c.monitoring \in Nat
    <2>1. o => close \in Nat /\ d.lastT <= close
      BY <1>2, <1>3, <1>5
    <2> HIDE DEF close
    <2>2. QED
      BY <1>1, <2>1, ClosedAreTimes
  <1>14. CASE e.kind \in {"start", "end"}
    <2>1. m \notin Synced(log) /\ m \notin LongSyncs(log) /\ (m \in Open(log) <=> e.kind = "start")
      BY <1>8, <1>14 DEF LongSyncs, Syncs
    <2>2. /\ TimeUpTo(log, Open(log), m) = c.elapsed /\ TimeUpTo(log, Synced(log), m) = c.monitoring
      BY <1>2, <1>3, <1>4, <1>7, <1>13, <1>14
    <2>3. FirstLong(log, m) = long
      BY <1>9, <2>1
    <2>4. e.kind = "start" => r.start = log[StartOf(log, m)].t /\ r.lastT = e.t /\ r.lastT - r.start = 0
      BY <1>2, <1>11, <1>12
    <2> HIDE DEF r, e, c, long, m, o, s
    <2>5. TimesOf(log, m, r)
      <3>1. IsTiming(r) /\ r.elapsed \in Nat /\ r.monitoring \in Nat /\ r.syncedAt = None
        BY <1>12, <1>13, <1>14
      <3>2. /\ TimeUpTo(log, Open(log), m) = r.elapsed /\ TimeUpTo(log, Synced(log), m) = r.monitoring
            /\ FirstLong(log, m) = r.originalSync
        BY <1>12, <1>13, <1>14, <2>2, <2>3
      <3>3. m \notin Open(log) => r.start = None
        BY <1>12, <1>14, <2>1
      <3>4. m \in Open(log) => r.start = log[StartOf(log, m)].t /\ r.lastT = log[m].t /\ r.lastT - r.start = 0
        BY <2>1, <2>4 DEF e
      <3>5. QED
        BY <2>1, <3>1, <3>2, <3>3, <3>4 DEF TimesOf
    <2>6. QED
      BY <2>5 DEF r, e, m
  <1>15. CASE e.kind = "snapshot"
    <2>1. r.syncedAt = IF o /\ ~s /\ e.monitoring THEN e.t ELSE d.syncedAt
      BY <1>3, <1>12, <1>15
    <2>2. /\ s => d.syncedAt \in Nat /\ d.start <= d.syncedAt /\ d.syncedAt <= d.lastT
          /\ d.elapsed \in Nat /\ d.monitoring \in Nat
          /\ time = d.elapsed + IF o THEN d.lastT - d.start ELSE 0
          /\ sync = d.monitoring + IF s THEN d.lastT - d.syncedAt ELSE 0
          /\ long = IF s /\ d.originalSync = None /\ d.syncedAt - d.start > ReattachSync
                    THEN d.syncedAt - d.start ELSE d.originalSync
      BY DEF TimesOf
    <2>3. o => r.start = log[StartOf(log, m)].t
      BY <1>11, <1>12, <1>15 DEF TimesOf
    <2>4. TimeUpTo(log, Open(log), m) = r.elapsed + IF o THEN r.lastT - r.start ELSE 0
      BY <1>2, <1>3, <1>4, <1>5, <1>7, <1>12, <1>15, <2>2
    <2> DEFINE s2 == m \in Synced(log)
    <2>5. s2 <=> s \/ (o /\ e.monitoring)
      BY <1>8, <1>15
    <2>6. s2 => r.syncedAt \in Nat /\ r.start <= r.syncedAt /\ r.syncedAt <= r.lastT
      BY <1>2, <1>3, <1>5, <1>12, <1>15, <2>1, <2>2, <2>5
    <2>7. ~s2 => r.syncedAt = None
      BY <1>3, <2>1, <2>5
    <2>8. TimeUpTo(log, Synced(log), m) = r.monitoring + IF s2 THEN r.lastT - r.syncedAt ELSE 0
      BY <1>2, <1>3, <1>4, <1>5, <1>7, <1>12, <1>15, <2>1, <2>2, <2>5
    <2>9. m \in LongSyncs(log) <=> s2 /\ ~s /\ SyncTime(log, m) > ReattachSync
      <3>1. m - 1 = i
        BY <1>1
      <3>2. QED
        BY <3>1 DEF LongSyncs, Syncs
    <2>10. s2 => SyncTime(log, m) = e.t - r.start
      BY <1>3, <2>3, <2>5 DEF SyncTime, StartOf
    <2>11. FirstLong(log, m)
           = IF s2 /\ r.originalSync = None /\ r.syncedAt - r.start > ReattachSync
             THEN r.syncedAt - r.start ELSE r.originalSync
      <3>1. CASE s
        BY <1>9, <1>12, <1>15, <2>1, <2>2, <2>5, <2>9, <3>1
      <3>2. CASE ~s /\ s2
        <4>1. r.syncedAt = e.t /\ long = d.originalSync /\ r.originalSync = long
          BY <1>12, <1>15, <2>1, <2>2, <2>5, <3>2
        <4>2. QED
          BY <1>9, <1>10, <2>9, <2>10, <3>2, <4>1
      <3>3. CASE ~s2
        BY <1>9, <1>12, <1>15, <2>2, <2>5, <2>9, <3>3
      <3>4. QED
        BY <3>1, <3>2, <3>3
    <2>12. m \in Open(log) <=> o
      BY <1>8, <1>15
    <2>13. ~o => r.start = None
      BY <1>3, <1>12, <1>15
    <2>14. r.elapsed \in Nat /\ r.monitoring \in Nat /\ r.lastT = log[m].t /\ IsTiming(r)
      BY <1>12, <1>15, <2>2
    <2> HIDE DEF r, e, c, long, m, o, s, s2
    <2>15. TimesOf(log, m, r)
      BY <2>3, <2>4, <2>6, <2>7, <2>8, <2>11, <2>12, <2>13, <2>14 DEF TimesOf, s2
    <2>16. QED
      BY <2>15 DEF r, e, m
  <1>16. QED
    BY <1>2, <1>14, <1>15

Timing == INSTANCE FoldLaws WITH Op <- TimingOf, Keeps <- TimesOf

\* For every log in the order of its times, the run times a dashboard starts from are
\* the times between the events of its sessions, whether they ended or not, and the
\* time to sync is that of the first session that had to wait
\* (_derive_timing_from_events).
THEOREM TimingIsOfSessions ==
  ASSUME NEW log, IsHistory(log)
  PROVE  LET d == DeriveTiming(log)
         IN /\ d.elapsed = TimeBetween(log, Open(log))
            /\ d.monitoring = TimeBetween(log, Synced(log))
            /\ d.originalSync = IF LongSyncs(log) = {} THEN None
                                ELSE SyncTime(log, Min(LongSyncs(log)))
PROOF
  <1> DEFINE n == Len(log)
             d == FoldLeft(TimingOf, NoTiming, log)
  <1>1. n \in Nat /\ DOMAIN log = 1 .. n
    BY LogIsCounted
  <1>2. Open(log) \in SUBSET DOMAIN log /\ Synced(log) \in SUBSET DOMAIN log
    BY DEF Open, Synced
  <1>3. TimesOf(log, 0, NoTiming)
    <2>1. 0 \notin Open(log) /\ 0 \notin Synced(log)
      BY <1>1, <1>2
    <2>2. TimeUpTo(log, Open(log), 0) = 0 /\ TimeUpTo(log, Synced(log), 0) = 0
      BY <1>2, TimeOfAll
    <2>3. LongUpTo(log, 0) = {}
      BY <1>1 DEF LongUpTo, LongSyncs, Syncs, Synced
    <2>4. FirstLong(log, 0) = None
      BY <2>3 DEF FirstLong
    <2>5. QED
      BY <2>1, <2>2, <2>4 DEF TimesOf, NoTiming, IsTiming, TimingFields
  <1>4. \A i \in 1 .. n : \A y : TimesOf(log, i - 1, y) => TimesOf(log, i, TimingOf(y, log[i]))
    <2> SUFFICES ASSUME NEW i \in 1 .. n, NEW y, TimesOf(log, i - 1, y)
                 PROVE  TimesOf(log, i, TimingOf(y, log[i]))
      OBVIOUS
    <2> DEFINE k == i - 1
    <2>1. k \in Nat /\ k + 1 = i
      BY <1>1
    <2>2. TimesOf(log, k, y) /\ k + 1 \in DOMAIN log
      BY <1>1, <2>1
    <2> HIDE DEF k
    <2>3. TimesOf(log, k + 1, TimingOf(y, log[k + 1]))
      BY <2>1, <2>2, EventKeepsTimes
    <2>4. QED
      BY <2>1, <2>3
  <1>5. TimesOf(log, n, d)
    <2>1. PICK S : log \in Seq(S)
      BY DEF IsHistory
    <2>2. TimesOf(log, n, Timing!Folded(NoTiming, log))
      BY <1>3, <1>4, <2>1, Timing!FoldKeeps
    <2>3. d = Timing!Folded(NoTiming, log)
      BY DEF Timing!Folded, FoldLeft, Timing!FoldLeft, MapThenFoldSet, Timing!MapThenFoldSet,
             Max, Timing!Max
    <2>4. QED
      BY <2>2, <2>3
  <1> DEFINE r == CloseAt(d, d.lastT)
  <1>6. DeriveTiming(log) = r
    BY DEF DeriveTiming
  <1> HIDE DEF n, d
  <1>7. n = 0 \/ n \in DOMAIN log
    BY <1>1
  <1>8. n \in Open(log) => d.lastT \in Nat
    BY <1>1, <1>5, <1>7, TimesAreTimes
  <1>9. /\ r.elapsed = TimeUpTo(log, Open(log), n) + IF n \in Open(log) THEN d.lastT - d.lastT ELSE 0
        /\ r.monitoring = TimeUpTo(log, Synced(log), n) + IF n \in Synced(log) THEN d.lastT - d.lastT ELSE 0
        /\ r.originalSync = FirstLong(log, n)
        /\ r.elapsed \in Nat /\ r.monitoring \in Nat
    BY <1>1, <1>5, <1>7, <1>8, ClosedAreTimes
  <1>10. /\ n \in Synced(log) => n \in Open(log)
    BY <1>1, <1>5, <1>7, TimesAreTimes
  <1>11. TimeUpTo(log, Open(log), n) \in Int /\ TimeUpTo(log, Synced(log), n) \in Int
    BY <1>5, <1>1, <1>7, <1>8, TimesAreTimes DEF TimesOf
  <1>12. /\ r.elapsed = TimeUpTo(log, Open(log), n)
         /\ r.monitoring = TimeUpTo(log, Synced(log), n)
    BY <1>8, <1>9, <1>10, <1>11
  <1>13. LongUpTo(log, n) = LongSyncs(log)
    BY <1>1 DEF LongUpTo, LongSyncs, Syncs, Synced
  <1>14. /\ TimeUpTo(log, Open(log), n) = TimeBetween(log, Open(log))
         /\ TimeUpTo(log, Synced(log), n) = TimeBetween(log, Synced(log))
    BY <1>2, TimeOfAll DEF n
  <1>15. QED
    BY <1>6, <1>9, <1>12, <1>13, <1>14 DEF FirstLong

-------------------------------------------------------------------------------
(* The summary *)

EntryFields == {"start", "end", "lastT", "status", "peak", "txns", "ledgers"}

\* The entry of a session: times in their order, and counts.
IsEntry(entry) ==
  /\ EntryFields \subseteq DOMAIN entry
  /\ entry.start \in Nat /\ entry.lastT \in Nat /\ entry.start <= entry.lastT
  /\ entry.end \in {None, entry.lastT}
  /\ entry.txns \in Nat /\ entry.ledgers \in Nat

IsSummary(s) ==
  /\ {"current", "sessions", "first", "last"} \subseteq DOMAIN s
  /\ IsFunction(s.sessions) /\ DOMAIN s.sessions \subseteq Nat /\ IsFiniteSet(DOMAIN s.sessions)
  /\ s.current \in DOMAIN s.sessions \cup {None}
  /\ \A n \in DOMAIN s.sessions : IsEntry(s.sessions[n])

\* The span of an entry is what it had until its last event.
LEMMA SpanOfEntry ==
  ASSUME NEW entry, IsEntry(entry)
  PROVE  AtLeast0(SpanOf(entry)) = entry.lastT - entry.start /\ entry.lastT - entry.start \in Nat
PROOF
  <1>1. SpanOf(entry) = entry.lastT - entry.start
    BY DEF IsEntry, SpanOf
  <1>2. entry.lastT - entry.start \in Nat
    BY DEF IsEntry
  <1>3. QED
    BY <1>1, <1>2 DEF AtLeast0

\* Only one session changes.
Touches(s, r, n) ==
  /\ DOMAIN r.sessions = DOMAIN s.sessions
  /\ \A k \in DOMAIN s.sessions \ {n} : r.sessions[k] = s.sessions[k]

\* What an event changes: a session_start begins an entry, and whatever follows it
\* changes the entry of the current session or none.
LEMMA SummaryOfFields ==
  ASSUME NEW s, IsSummary(s), NEW e, e.kind \in {"start", "end", "snapshot"}, e.t \in Nat,
         e.kind = "start" => e.n \in Nat \ DOMAIN s.sessions,
         e.kind = "snapshot" => e.tx \in Nat,
         s.current # None => s.sessions[s.current].lastT <= e.t /\ s.sessions[s.current].end = None
  PROVE  LET r == SummaryOf(s, e)
             n == s.current
         IN /\ IsSummary(r)
            /\ e.kind = "start" =>
                 /\ r.current = e.n /\ DOMAIN r.sessions = DOMAIN s.sessions \cup {e.n}
                 /\ r.sessions[e.n] = NewSession(e.t)
                 /\ \A k \in DOMAIN s.sessions : r.sessions[k] = s.sessions[k]
            /\ e.kind # "start" /\ n = None => r.current = None /\ r.sessions = s.sessions
            /\ e.kind # "start" /\ n # None =>
                 /\ Touches(s, r, n)
                 /\ r.sessions[n].start = s.sessions[n].start /\ r.sessions[n].lastT = e.t
                 /\ e.kind = "snapshot" =>
                      /\ r.current = n /\ r.sessions[n].end = None
                      /\ r.sessions[n].status = s.sessions[n].status
                      /\ r.sessions[n].txns = s.sessions[n].txns + e.tx
                      /\ r.sessions[n].ledgers
                         = s.sessions[n].ledgers + IF e.ledger # None THEN 1 ELSE 0
                 /\ e.kind = "end" =>
                      /\ r.current = None /\ r.sessions[n].status = e.status
                      /\ r.sessions[n].txns = s.sessions[n].txns
                      /\ r.sessions[n].ledgers = s.sessions[n].ledgers
PROOF
  <1> DEFINE r == SummaryOf(s, e)
             n == s.current
             old == s.sessions[n]
  <1>0. 0 \in Nat /\ None \notin Nat /\ e.t # None
    BY DEF None
  <1>1. CASE e.kind = "start"
    <2> DEFINE D == DOMAIN s.sessions \cup {e.n}
               f == [k \in D |-> IF k = e.n THEN NewSession(e.t) ELSE s.sessions[k]]
    <2>1. r = [s EXCEPT !.current = e.n, !.sessions = f]
      BY <1>1 DEF SummaryOf
    <2>2. DOMAIN f = D /\ IsFunction(f) /\ D \subseteq Nat /\ IsFiniteSet(D)
      <3>1. IsFiniteSet(D)
        BY FS_AddElement DEF IsSummary
      <3>2. QED
        BY <1>1, <3>1 DEF IsFunction, IsSummary
    <2>3. f[e.n] = NewSession(e.t) /\ \A k \in DOMAIN s.sessions : f[k] = s.sessions[k]
      BY <1>1
    <2>4. IsEntry(NewSession(e.t))
      BY DEF IsEntry, NewSession, EntryFields
    <2> HIDE DEF f
    <2>5. \A k \in DOMAIN f : IsEntry(f[k])
      BY <2>2, <2>3, <2>4 DEF IsSummary
    <2>6. r.current = e.n /\ r.sessions = f /\ DOMAIN r = DOMAIN s
      BY <2>1 DEF IsSummary
    <2> HIDE DEF r
    <2>7. IsSummary(r)
      BY <2>2, <2>5, <2>6 DEF IsSummary
    <2>8. QED
      BY <1>1, <2>2, <2>3, <2>6, <2>7 DEF r
  <1>2. CASE e.kind = "end" /\ n = None
    <2>1. r = s
      BY <1>2 DEF SummaryOf
    <2> HIDE DEF r
    <2>2. QED
      BY <1>2, <2>1 DEF r
  <1>3. CASE e.kind = "end" /\ n # None
    <2> DEFINE new == Finished(old, e)
               f == [s.sessions EXCEPT ![n] = new]
    <2>1. n \in DOMAIN s.sessions /\ IsEntry(old)
      BY <1>3 DEF IsSummary
    <2>2. /\ EntryFields \subseteq DOMAIN new
          /\ new.start = old.start /\ new.lastT = e.t /\ new.end = e.t /\ new.status = e.status
          /\ new.txns = old.txns /\ new.ledgers = old.ledgers
      BY <2>1 DEF Finished, IsEntry, EntryFields
    <2>3. IsEntry(new)
      BY <1>3, <2>1, <2>2 DEF IsEntry
    <2>4. r = [s EXCEPT !.current = None, !.sessions = f]
      BY <1>3 DEF SummaryOf
    <2> HIDE DEF new
    <2>5. /\ DOMAIN f = DOMAIN s.sessions /\ f[n] = new
          /\ \A k \in DOMAIN s.sessions \ {n} : f[k] = s.sessions[k]
      BY <2>1
    <2>6. IsFunction(f)
      <3>1. s.sessions = [k \in DOMAIN s.sessions |-> s.sessions[k]]
        BY DEF IsSummary, IsFunction
      <3>2. f = [k \in DOMAIN s.sessions |-> IF k = n THEN new ELSE s.sessions[k]]
        BY <3>1
      <3>3. QED
        BY <3>2 DEF IsFunction
    <2> HIDE DEF f
    <2>7. r.current = None /\ r.sessions = f /\ DOMAIN r = DOMAIN s
      BY <2>4 DEF IsSummary
    <2>8. \A k \in DOMAIN f : IsEntry(f[k])
      BY <2>3, <2>5 DEF IsSummary
    <2> HIDE DEF r
    <2>9. IsSummary(r)
      BY <2>5, <2>6, <2>7, <2>8 DEF IsSummary
    <2>10. QED
      BY <1>3, <2>2, <2>5, <2>7, <2>9 DEF r, Touches
  <1>4. CASE e.kind = "snapshot"
    <2> DEFINE first == IF s.first = <<>> THEN <<e>> ELSE s.first
    <2>1. CASE n = None
      <3>1. r = [s EXCEPT !.first = first, !.last = <<e>>, !.sessions = s.sessions]
        BY <1>4, <2>1 DEF SummaryOf
      <3>2. r.sessions = s.sessions /\ r.current = s.current /\ DOMAIN r = DOMAIN s
        BY <3>1 DEF IsSummary
      <3> HIDE DEF r
      <3>3. IsSummary(r)
        BY <3>2 DEF IsSummary
      <3>4. QED
        BY <1>4, <2>1, <3>2, <3>3 DEF r
    <2>2. CASE n # None
      <3> DEFINE new == Tallied(old, e)
                 f == [s.sessions EXCEPT ![n] = new]
      <3>1. n \in DOMAIN s.sessions /\ IsEntry(old)
        BY <2>2 DEF IsSummary
      <3>2. /\ EntryFields \subseteq DOMAIN new
            /\ new.start = old.start /\ new.lastT = e.t /\ new.end = old.end
            /\ new.status = old.status /\ new.txns = old.txns + e.tx
            /\ new.ledgers = IF e.ledger # None THEN old.ledgers + 1 ELSE old.ledgers
        BY <3>1 DEF Tallied, IsEntry, EntryFields
      <3>3. new.end = None /\ new.ledgers = old.ledgers + IF e.ledger # None THEN 1 ELSE 0
        BY <2>2, <3>1, <3>2 DEF IsEntry
      <3>4. IsEntry(new)
        BY <1>4, <2>2, <3>1, <3>2, <3>3 DEF IsEntry
      <3>5. r = [s EXCEPT !.first = first, !.last = <<e>>, !.sessions = f]
        BY <1>4, <2>2 DEF SummaryOf
      <3> HIDE DEF new
      <3>6. /\ DOMAIN f = DOMAIN s.sessions /\ f[n] = new
            /\ \A k \in DOMAIN s.sessions \ {n} : f[k] = s.sessions[k]
        BY <3>1
      <3>7. IsFunction(f)
        <4>1. s.sessions = [k \in DOMAIN s.sessions |-> s.sessions[k]]
          BY DEF IsSummary, IsFunction
        <4>2. f = [k \in DOMAIN s.sessions |-> IF k = n THEN new ELSE s.sessions[k]]
          BY <4>1
        <4>3. QED
          BY <4>2 DEF IsFunction
      <3> HIDE DEF f
      <3>8. r.current = n /\ r.sessions = f /\ DOMAIN r = DOMAIN s
        BY <3>5 DEF IsSummary
      <3>9. \A k \in DOMAIN f : IsEntry(f[k])
        BY <3>4, <3>6 DEF IsSummary
      <3> HIDE DEF r
      <3>10. IsSummary(r)
        BY <3>1, <3>6, <3>7, <3>8, <3>9 DEF IsSummary
      <3>11. QED
        BY <1>4, <2>2, <3>2, <3>3, <3>6, <3>8, <3>10 DEF r, Touches
    <2>3. QED
      BY <2>1, <2>2
  <1>5. QED
    BY <1>1, <1>2, <1>3, <1>4

\* A total over one more.
LEMMA TotalOfMore ==
  ASSUME NEW f, IsFiniteSet(DOMAIN f), \A x \in DOMAIN f : f[x] \in Int,
         NEW z, z \notin DOMAIN f,
         NEW g, DOMAIN g = DOMAIN f \cup {z}, \A x \in DOMAIN f : g[x] = f[x], g[z] \in Int
  PROVE  Total(g) = Total(f) + g[z]
PROOF
  <1> DEFINE S == DOMAIN f
  <1>1. IsFiniteSet(S) /\ z \notin S /\ \A x \in S \cup {z} : g[x] \in Int
    OBVIOUS
  <1>2. \A x \in S : f[x] = g[x]
    OBVIOUS
  <1>3. Total(f) = SumOf(f, S) /\ Total(g) = SumOf(g, S \cup {z})
    BY DEF Total, SumOf
  <1> HIDE DEF S
  <1>4. SumOf(g, S \cup {z}) = SumOf(g, S) + g[z]
    BY <1>1, SumOfMore
  <1>5. SumOf(f, S) = SumOf(g, S)
    BY <1>1, <1>2, SumOfSame
  <1>6. QED
    BY <1>3, <1>4, <1>5

\* A total of which one term changes.
LEMMA TotalOfChanged ==
  ASSUME NEW f, IsFiniteSet(DOMAIN f), \A x \in DOMAIN f : f[x] \in Nat, NEW z \in DOMAIN f,
         NEW g, DOMAIN g = DOMAIN f, \A x \in DOMAIN f \ {z} : g[x] = f[x], g[z] \in Nat
  PROVE  Total(g) = Total(f) + (g[z] - f[z]) /\ Total(f) \in Nat
PROOF
  <1> DEFINE S == DOMAIN f
  <1>1. IsFiniteSet(S) /\ z \in S
    OBVIOUS
  <1>2. \A x \in S : f[x] \in Int /\ f[x] \in Nat /\ g[x] \in Int
    OBVIOUS
  <1>3. \A x \in S \ {z} : g[x] = f[x]
    OBVIOUS
  <1>4. Total(f) = SumOf(f, S) /\ Total(g) = SumOf(g, S)
    BY DEF Total, SumOf
  <1> HIDE DEF S
  <1>5. SumOf(g, S) = SumOf(f, S) + (g[z] - f[z])
    BY <1>1, <1>2, <1>3, SumOfChanged
  <1>6. SumOf(f, S) \in Nat
    BY <1>1, <1>2, SumIsNumber
  <1>7. QED
    BY <1>4, <1>5, <1>6

\* A total of zeros is zero.
LEMMA TotalOfNothing ==
  ASSUME NEW f, IsFiniteSet(DOMAIN f), \A x \in DOMAIN f : f[x] = 0
  PROVE  Total(f) = 0
PROOF
  <1> DEFINE S == DOMAIN f
             T == {n \in Nat : \A s \in SUBSET S : Cardinality(s) = n => SumOf(f, s) = 0}
  <1>1. \A s \in SUBSET S : IsFiniteSet(s) /\ Cardinality(s) \in Nat
    BY FS_Subset, FS_CardinalityType
  <1>2. 0 \in T
    <2> SUFFICES ASSUME NEW s \in SUBSET S, Cardinality(s) = 0 PROVE SumOf(f, s) = 0
      OBVIOUS
    <2>1. s = {}
      BY <1>1, FS_EmptySet
    <2>2. QED
      BY <2>1, SumOfNone
  <1>3. ASSUME NEW n \in Nat, n \in T
        PROVE  n + 1 \in T
    <2> SUFFICES ASSUME NEW s \in SUBSET S, Cardinality(s) = n + 1 PROVE SumOf(f, s) = 0
      OBVIOUS
    <2>1. s # {}
      BY FS_EmptySet
    <2>2. One(s) \in s /\ Cardinality(s \ {One(s)}) = n
      BY <1>1, <1>3, <2>1, OneIsTaken
    <2>3. SumOf(f, s \ {One(s)}) = 0 /\ f[One(s)] = 0
      BY <1>3, <2>2
    <2>4. SumOf(f, s) = f[One(s)] + SumOf(f, s \ {One(s)})
      BY <1>1, <2>1, SumOfTaken
    <2>5. QED
      BY <2>3, <2>4
  <1> HIDE DEF T
  <1>4. Cardinality(S) \in T
    BY <1>1, <1>2, <1>3, NatIsInductive
  <1>5. SumOf(f, S) = 0
    BY <1>4 DEF T
  <1>6. QED
    BY <1>5 DEF Total, SumOf

\* A total of naturals is one.
LEMMA TotalIsNat ==
  ASSUME NEW f, IsFiniteSet(DOMAIN f), \A x \in DOMAIN f : f[x] \in Nat
  PROVE  Total(f) \in Nat
PROOF
  <1> DEFINE S == DOMAIN f
  <1>1. IsFiniteSet(S) /\ \A x \in S : f[x] \in Int /\ f[x] \in Nat
    OBVIOUS
  <1>2. Total(f) = SumOf(f, S)
    BY DEF Total, SumOf
  <1> HIDE DEF S
  <1>3. QED
    BY <1>1, <1>2, SumIsNumber

Spans(s) == [n \in DOMAIN s.sessions |-> AtLeast0(SpanOf(s.sessions[n]))]
Txns(s) == [n \in DOMAIN s.sessions |-> s.sessions[n].txns]
Ledgers(s) == [n \in DOMAIN s.sessions |-> s.sessions[n].ledgers]

\* What an event adds to the totals.
LEMMA TotalsGoOn ==
  ASSUME NEW s, IsSummary(s), NEW e, e.kind \in {"start", "end", "snapshot"}, e.t \in Nat,
         e.kind = "start" => e.n \in Nat \ DOMAIN s.sessions,
         e.kind = "snapshot" => e.tx \in Nat,
         s.current # None => s.sessions[s.current].lastT <= e.t /\ s.sessions[s.current].end = None
  PROVE  LET r == SummaryOf(s, e)
             n == s.current
         IN /\ TotalSpan(s) \in Nat /\ TotalTxns(s) \in Nat /\ TotalLedgers(s) \in Nat
            /\ TotalSpan(r)
               = TotalSpan(s)
                 + IF e.kind # "start" /\ n # None THEN e.t - s.sessions[n].lastT ELSE 0
            /\ TotalTxns(r) = TotalTxns(s) + IF e.kind = "snapshot" /\ n # None THEN e.tx ELSE 0
            /\ TotalLedgers(r)
               = TotalLedgers(s)
                 + IF e.kind = "snapshot" /\ n # None /\ e.ledger # None THEN 1 ELSE 0
PROOF
  <1> DEFINE r == SummaryOf(s, e)
             n == s.current
             D == DOMAIN s.sessions
  <1>1. /\ IsSummary(r)
        /\ e.kind = "start" =>
             /\ r.current = e.n /\ DOMAIN r.sessions = D \cup {e.n}
             /\ r.sessions[e.n] = NewSession(e.t)
             /\ \A k \in D : r.sessions[k] = s.sessions[k]
        /\ e.kind # "start" /\ n = None => r.current = None /\ r.sessions = s.sessions
        /\ e.kind # "start" /\ n # None =>
             /\ Touches(s, r, n)
             /\ r.sessions[n].start = s.sessions[n].start /\ r.sessions[n].lastT = e.t
             /\ e.kind = "snapshot" =>
                  /\ r.sessions[n].txns = s.sessions[n].txns + e.tx
                  /\ r.sessions[n].ledgers
                     = s.sessions[n].ledgers + IF e.ledger # None THEN 1 ELSE 0
             /\ e.kind = "end" =>
                  /\ r.sessions[n].txns = s.sessions[n].txns
                  /\ r.sessions[n].ledgers = s.sessions[n].ledgers
    BY SummaryOfFields
  <1>2. \A x : IsSummary(x) =>
          /\ IsFiniteSet(DOMAIN x.sessions)
          /\ DOMAIN Spans(x) = DOMAIN x.sessions /\ DOMAIN Txns(x) = DOMAIN x.sessions
          /\ DOMAIN Ledgers(x) = DOMAIN x.sessions
          /\ \A k \in DOMAIN x.sessions :
               /\ Spans(x)[k] = x.sessions[k].lastT - x.sessions[k].start
               /\ Txns(x)[k] = x.sessions[k].txns /\ Ledgers(x)[k] = x.sessions[k].ledgers
               /\ Spans(x)[k] \in Nat /\ Txns(x)[k] \in Nat /\ Ledgers(x)[k] \in Nat
               /\ x.sessions[k].lastT \in Nat /\ x.sessions[k].start \in Nat
    <2> SUFFICES ASSUME NEW x, IsSummary(x), NEW k \in DOMAIN x.sessions
                 PROVE  /\ Spans(x)[k] = x.sessions[k].lastT - x.sessions[k].start
                        /\ Txns(x)[k] = x.sessions[k].txns /\ Ledgers(x)[k] = x.sessions[k].ledgers
                        /\ Spans(x)[k] \in Nat /\ Txns(x)[k] \in Nat /\ Ledgers(x)[k] \in Nat
                        /\ x.sessions[k].lastT \in Nat /\ x.sessions[k].start \in Nat
      BY DEF Spans, Txns, Ledgers, IsSummary
    <2>1. IsEntry(x.sessions[k])
      BY DEF IsSummary
    <2>2. QED
      BY <2>1, SpanOfEntry DEF Spans, Txns, Ledgers, IsEntry
  <1>3. \A x : /\ TotalSpan(x) = Total(Spans(x)) /\ TotalTxns(x) = Total(Txns(x))
               /\ TotalLedgers(x) = Total(Ledgers(x))
    BY DEF TotalSpan, TotalTxns, TotalLedgers, Spans, Txns, Ledgers
  <1> DEFINE f1 == Spans(s)
             f2 == Txns(s)
             f3 == Ledgers(s)
             g1 == Spans(r)
             g2 == Txns(r)
             g3 == Ledgers(r)
  <1>4. /\ DOMAIN f1 = D /\ DOMAIN f2 = D /\ DOMAIN f3 = D /\ IsFiniteSet(D)
        /\ \A k \in D : /\ f1[k] = s.sessions[k].lastT - s.sessions[k].start
                        /\ f2[k] = s.sessions[k].txns /\ f3[k] = s.sessions[k].ledgers
                        /\ f1[k] \in Nat /\ f2[k] \in Nat /\ f3[k] \in Nat
    BY <1>2
  <1>5. /\ DOMAIN g1 = DOMAIN r.sessions /\ DOMAIN g2 = DOMAIN r.sessions /\ DOMAIN g3 = DOMAIN r.sessions
        /\ \A k \in DOMAIN r.sessions :
             /\ g1[k] = r.sessions[k].lastT - r.sessions[k].start
             /\ g2[k] = r.sessions[k].txns /\ g3[k] = r.sessions[k].ledgers
             /\ g1[k] \in Nat /\ g2[k] \in Nat /\ g3[k] \in Nat
    BY <1>1, <1>2
  <1> HIDE DEF f1, f2, f3, g1, g2, g3
  <1>6. Total(f1) \in Nat /\ Total(f2) \in Nat /\ Total(f3) \in Nat
    BY <1>4, TotalIsNat
  <1>7. CASE e.kind = "start"
    <2> DEFINE z == e.n
    <2>1. z \notin D /\ DOMAIN r.sessions = D \cup {z} /\ \A k \in D : r.sessions[k] = s.sessions[k]
      BY <1>1, <1>7
    <2>2. r.sessions[z].lastT - r.sessions[z].start = 0 /\ r.sessions[z].txns = 0 /\ r.sessions[z].ledgers = 0
      BY <1>1, <1>7 DEF NewSession
    <2> HIDE DEF z, r, D
    <2>3. /\ \A k \in D : g1[k] = f1[k] /\ g2[k] = f2[k] /\ g3[k] = f3[k]
          /\ g1[z] = 0 /\ g2[z] = 0 /\ g3[z] = 0
      BY <1>4, <1>5, <2>1, <2>2
    <2>4. 0 \in Nat
      OBVIOUS
    <2>5. Total(g1) = Total(f1) + g1[z]
      <3>1. /\ IsFiniteSet(DOMAIN f1) /\ z \notin DOMAIN f1 /\ DOMAIN g1 = DOMAIN f1 \cup {z}
            /\ g1[z] \in Nat
        BY <1>4, <1>5, <2>1, <2>3, <2>4
      <3>2. \A x \in DOMAIN f1 : f1[x] \in Nat /\ g1[x] = f1[x]
        BY <1>4, <2>3
      <3>3. QED
        BY <3>1, <3>2, TotalOfMore
    <2>6. Total(g2) = Total(f2) + g2[z]
      <3>1. /\ IsFiniteSet(DOMAIN f2) /\ z \notin DOMAIN f2 /\ DOMAIN g2 = DOMAIN f2 \cup {z}
            /\ g2[z] \in Nat
        BY <1>4, <1>5, <2>1, <2>3, <2>4
      <3>2. \A x \in DOMAIN f2 : f2[x] \in Nat /\ g2[x] = f2[x]
        BY <1>4, <2>3
      <3>3. QED
        BY <3>1, <3>2, TotalOfMore
    <2>7. Total(g3) = Total(f3) + g3[z]
      <3>1. /\ IsFiniteSet(DOMAIN f3) /\ z \notin DOMAIN f3 /\ DOMAIN g3 = DOMAIN f3 \cup {z}
            /\ g3[z] \in Nat
        BY <1>4, <1>5, <2>1, <2>3, <2>4
      <3>2. \A x \in DOMAIN f3 : f3[x] \in Nat /\ g3[x] = f3[x]
        BY <1>4, <2>3
      <3>3. QED
        BY <3>1, <3>2, TotalOfMore
    <2>8. Total(g1) = Total(f1) /\ Total(g2) = Total(f2) /\ Total(g3) = Total(f3)
      BY <1>6, <2>3, <2>5, <2>6, <2>7
    <2>9. QED
      BY <1>3, <1>6, <1>7, <2>8 DEF f1, f2, f3, g1, g2, g3, r
  <1>8. CASE e.kind # "start" /\ n = None
    <2>1. r.sessions = s.sessions
      BY <1>1, <1>8
    <2>2. g1 = f1 /\ g2 = f2 /\ g3 = f3
      BY <2>1 DEF f1, f2, f3, g1, g2, g3, Spans, Txns, Ledgers
    <2>3. QED
      BY <1>3, <1>6, <1>8, <2>2 DEF f1, f2, f3, g1, g2, g3, r
  <1>9. CASE e.kind # "start" /\ n # None
    <2>1. n \in D
      BY <1>9 DEF IsSummary
    <2>2. DOMAIN r.sessions = D /\ \A k \in D \ {n} : r.sessions[k] = s.sessions[k]
      BY <1>1, <1>9 DEF Touches
    <2>3. /\ g1[n] = e.t - s.sessions[n].start /\ f1[n] = s.sessions[n].lastT - s.sessions[n].start
          /\ g2[n] - f2[n] = IF e.kind = "snapshot" THEN e.tx ELSE 0
          /\ g3[n] - f3[n] = IF e.kind = "snapshot" /\ e.ledger # None THEN 1 ELSE 0
      <3>1. /\ g1[n] = r.sessions[n].lastT - r.sessions[n].start
            /\ g2[n] = r.sessions[n].txns /\ g3[n] = r.sessions[n].ledgers
        BY <1>5, <2>1, <2>2
      <3>2. /\ f1[n] = s.sessions[n].lastT - s.sessions[n].start
            /\ f2[n] = s.sessions[n].txns /\ f3[n] = s.sessions[n].ledgers
            /\ f2[n] \in Nat /\ f3[n] \in Nat
        BY <1>4, <2>1
      <3> HIDE DEF r, n, D
      <3>3. g1[n] = e.t - s.sessions[n].start
        BY <1>1, <1>9, <3>1
      <3>4. CASE e.kind = "snapshot"
        BY <1>1, <1>9, <3>1, <3>2, <3>3, <3>4
      <3>5. CASE e.kind = "end"
        BY <1>1, <1>9, <3>1, <3>2, <3>3, <3>5
      <3>6. QED
        BY <1>9, <3>4, <3>5
    <2>4. s.sessions[n].lastT \in Nat /\ s.sessions[n].start \in Nat
      BY <1>2, <2>1
    <2>5. g1[n] - f1[n] = e.t - s.sessions[n].lastT
      BY <2>3, <2>4
    <2>6. /\ \A k \in D \ {n} : g1[k] = f1[k] /\ g2[k] = f2[k] /\ g3[k] = f3[k]
          /\ g1[n] \in Nat /\ g2[n] \in Nat /\ g3[n] \in Nat
      BY <1>4, <1>5, <2>1, <2>2
    <2> HIDE DEF r, n, D
    <2>7. Total(g1) = Total(f1) + (g1[n] - f1[n])
      BY <1>4, <1>5, <2>1, <2>2, <2>6, TotalOfChanged
    <2>8. Total(g2) = Total(f2) + (g2[n] - f2[n])
      BY <1>4, <1>5, <2>1, <2>2, <2>6, TotalOfChanged
    <2>9. Total(g3) = Total(f3) + (g3[n] - f3[n])
      BY <1>4, <1>5, <2>1, <2>2, <2>6, TotalOfChanged
    <2>10. QED
      BY <1>3, <1>6, <1>9, <2>3, <2>5, <2>7, <2>8, <2>9 DEF f1, f2, f3, g1, g2, g3, r, n
  <1>10. QED
    BY <1>7, <1>8, <1>9

Starts(log, i) == {j \in 1 .. i : log[j].kind = "start"}

\* What a log holds of sessions by then: snapshots, their transactions, and ends.
Recorded(log, i) == {j \in 1 .. i : log[j].kind = "snapshot" /\ j \in Open(log)}
Captured(log, i) == {j \in Recorded(log, i) : log[j].ledger # None}
TxOf(log) == [j \in DOMAIN log |-> log[j].tx]
EndsAt(log, j, m) == log[m].kind = "end" /\ \A k \in j + 1 .. m - 1 : log[k].kind = "snapshot"
Outcome(log, i, j, status) ==
  \/ status = "interrupted" /\ \A m \in j + 1 .. i : ~EndsAt(log, j, m)
  \/ \E m \in j + 1 .. i : EndsAt(log, j, m) /\ status = log[m].status

\* What holds of the summary after i events.
SummaryUpTo(log, i, s) ==
  /\ IsSummary(s)
  /\ DOMAIN s.sessions = {log[j].n : j \in Starts(log, i)}
  /\ s.current = IF i \in Open(log) THEN log[StartOf(log, i)].n ELSE None
  /\ i \in Open(log) => s.sessions[s.current].lastT = log[i].t /\ s.sessions[s.current].end = None
  /\ TotalSpan(s) = TimeUpTo(log, Open(log), i)
  /\ TotalTxns(s) = SumOf(TxOf(log), Recorded(log, i))
  /\ TotalLedgers(s) = Cardinality(Captured(log, i))
  /\ \A j \in Starts(log, i) : Outcome(log, i, j, s.sessions[log[j].n].status)

\* An event more is recorded or is not.
LEMMA RecordedGrows ==
  ASSUME NEW log, IsHistory(log), NEW i \in Nat, i + 1 \in DOMAIN log
  PROVE  LET e == log[i + 1]
             counts == e.kind = "snapshot" /\ i + 1 \in Open(log)
         IN /\ SumOf(TxOf(log), Recorded(log, i + 1))
               = SumOf(TxOf(log), Recorded(log, i)) + IF counts THEN e.tx ELSE 0
            /\ Cardinality(Captured(log, i + 1))
               = Cardinality(Captured(log, i)) + IF counts /\ e.ledger # None THEN 1 ELSE 0
PROOF
  <1> DEFINE m == i + 1
             e == log[m]
             counts == e.kind = "snapshot" /\ m \in Open(log)
             R == Recorded(log, i)
             C == Captured(log, i)
             f == TxOf(log)
  <1>1. DOMAIN log = 1 .. Len(log) /\ Len(log) \in Nat
    BY LogIsCounted
  <1>2. R \subseteq 1 .. i /\ C \subseteq R /\ m \notin 1 .. i /\ 1 .. m = (1 .. i) \cup {m}
    BY DEF Recorded, Captured
  <1>3. IsFiniteSet(R) /\ IsFiniteSet(C)
    <2>1. IsFiniteSet(1 .. i)
      BY FS_Interval
    <2> HIDE DEF R, C
    <2>2. QED
      BY <1>2, <2>1, FS_Subset
  <1>4. \A j \in R : j \in DOMAIN log /\ log[j].kind = "snapshot"
    BY <1>1 DEF Recorded
  <1>5. \A j \in R : f[j] = log[j].tx /\ f[j] \in Int
    BY <1>4 DEF TxOf, IsHistory
  <1>6. Recorded(log, m) = IF counts THEN R \cup {m} ELSE R
    BY <1>2 DEF Recorded
  <1>7. Captured(log, m) = IF counts /\ e.ledger # None THEN C \cup {m} ELSE C
    BY <1>2, <1>6 DEF Captured
  <1>8. counts => f[m] = e.tx /\ f[m] \in Int
    BY DEF TxOf, IsHistory
  <1>9. m \notin R /\ m \notin C
    BY <1>2
  <1>10. SumOf(f, R) \in Int
    <2> HIDE DEF R, f
    <2>1. QED
      BY <1>3, <1>5, SumIsNumber
  <1>11. Cardinality(C) \in Nat
    <2> HIDE DEF C
    <2>1. QED
      BY <1>3, FS_CardinalityType
  <1>12. SumOf(f, Recorded(log, m)) = SumOf(f, R) + IF counts THEN e.tx ELSE 0
    <2>1. CASE counts
      <3> HIDE DEF R, f, m, counts, e
      <3>1. m \notin R /\ IsFiniteSet(R) /\ \A x \in R \cup {m} : f[x] \in Int
        BY <1>3, <1>5, <1>8, <1>9, <2>1
      <3>2. SumOf(f, R \cup {m}) = SumOf(f, R) + f[m]
        BY <3>1, SumOfMore
      <3>3. QED
        BY <1>6, <1>8, <2>1, <3>2
    <2>2. CASE ~counts
      <3> HIDE DEF R, f, m, counts, e
      <3>1. QED
        BY <1>6, <1>10, <2>2
    <2>3. QED
      BY <2>1, <2>2
  <1>13. Cardinality(Captured(log, m)) = Cardinality(C) + IF counts /\ e.ledger # None THEN 1 ELSE 0
    <2>1. Cardinality(C \cup {m}) = Cardinality(C) + 1
      <3> HIDE DEF C, m
      <3>1. QED
        BY <1>3, <1>9, FS_AddElement
    <2> HIDE DEF C, m, counts, e
    <2>2. QED
      BY <1>7, <1>11, <2>1
  <1> HIDE DEF R, C, f
  <1>14. QED
    BY <1>12, <1>13 DEF R, C, f

\* An event that ends no session leaves the outcomes as they are.
LEMMA OutcomeStays ==
  ASSUME NEW log, NEW i \in Nat, NEW j \in 1 .. i, NEW status, ~EndsAt(log, j, i + 1),
         Outcome(log, i, j, status)
  PROVE  Outcome(log, i + 1, j, status)
PROOF
  <1>1. j + 1 .. i + 1 = (j + 1 .. i) \cup {i + 1}
    OBVIOUS
  <1>2. QED
    BY <1>1 DEF Outcome

\* An event more keeps what holds of the summary.
LEMMA EventKeepsSummary ==
  ASSUME NEW log, IsHistory(log), NEW i \in Nat, i + 1 \in DOMAIN log,
         NEW s, SummaryUpTo(log, i, s)
  PROVE  SummaryUpTo(log, i + 1, SummaryOf(s, log[i + 1]))
PROOF
  <1> DEFINE m == i + 1
             e == log[m]
             r == SummaryOf(s, e)
             n == s.current
             o == i \in Open(log)
             st == StartOf(log, i)
  <1>1. DOMAIN log = 1 .. Len(log) /\ Len(log) \in Nat /\ m <= Len(log) /\ m \in DOMAIN log
    BY LogIsCounted
  <1>2. /\ e.kind \in {"start", "end", "snapshot"} /\ e.t \in Nat
        /\ e.kind = "snapshot" => e.tx \in Nat
        /\ e.kind = "start" => e.n \in Nat
    BY DEF IsHistory
  <1>3. /\ e.kind = "start" => m \in Open(log)
        /\ e.kind = "end" => m \notin Open(log)
        /\ e.kind = "snapshot" => (m \in Open(log) <=> o)
    BY SessionGoesOn
  <1>4. o => /\ st \in 1 .. i /\ log[st].kind = "start"
             /\ \A k \in st + 1 .. i : log[k].kind = "snapshot"
             /\ \A k \in 1 .. i : log[k].kind = "start" => k <= st
             /\ i \in DOMAIN log
    BY StartIsLast DEF Open
  <1>5. o => n = log[st].n /\ n # None /\ n \in Nat
    <2>1. o => st \in DOMAIN log
      BY <1>1, <1>4
    <2>2. o => n = log[st].n
      BY DEF SummaryUpTo
    <2>3. QED
      BY <1>4, <2>1, <2>2 DEF IsHistory, None
  <1>6. ~o => n = None
    BY DEF SummaryUpTo
  <1>7. IsSummary(s)
    BY DEF SummaryUpTo
  <1>8. e.kind = "start" => e.n \in Nat \ DOMAIN s.sessions
    <2> SUFFICES ASSUME e.kind = "start", NEW j \in Starts(log, i) PROVE e.n # log[j].n
      BY <1>2 DEF SummaryUpTo
    <2>1. j \in DOMAIN log /\ j # m /\ log[j].kind = "start"
      BY <1>1 DEF Starts
    <2>2. QED
      BY <1>1, <2>1 DEF IsHistory
  <1>9. n # None => /\ s.sessions[n].lastT = log[i].t /\ s.sessions[n].lastT <= e.t
                    /\ s.sessions[n].end = None
    <2>1. n # None => s.sessions[n].lastT = log[i].t /\ s.sessions[n].end = None /\ o
      BY <1>6 DEF SummaryUpTo
    <2>2. o => log[i].t <= e.t
      BY <1>1, <1>4 DEF IsHistory
    <2>3. QED
      BY <2>1, <2>2
  <1>10. /\ IsSummary(r)
         /\ e.kind = "start" =>
              /\ r.current = e.n /\ DOMAIN r.sessions = DOMAIN s.sessions \cup {e.n}
              /\ r.sessions[e.n] = NewSession(e.t)
              /\ \A k \in DOMAIN s.sessions : r.sessions[k] = s.sessions[k]
         /\ e.kind # "start" /\ n = None => r.current = None /\ r.sessions = s.sessions
         /\ e.kind # "start" /\ n # None =>
              /\ Touches(s, r, n)
              /\ r.sessions[n].lastT = e.t
              /\ e.kind = "snapshot" =>
                   /\ r.current = n /\ r.sessions[n].end = None
                   /\ r.sessions[n].status = s.sessions[n].status
              /\ e.kind = "end" => r.current = None /\ r.sessions[n].status = e.status
    BY <1>2, <1>7, <1>8, <1>9, SummaryOfFields
  <1>11. /\ TotalSpan(s) \in Nat /\ TotalTxns(s) \in Nat /\ TotalLedgers(s) \in Nat
         /\ TotalSpan(r)
            = TotalSpan(s) + IF e.kind # "start" /\ n # None THEN e.t - s.sessions[n].lastT ELSE 0
         /\ TotalTxns(r) = TotalTxns(s) + IF e.kind = "snapshot" /\ n # None THEN e.tx ELSE 0
         /\ TotalLedgers(r)
            = TotalLedgers(s) + IF e.kind = "snapshot" /\ n # None /\ e.ledger # None THEN 1 ELSE 0
    BY <1>2, <1>7, <1>8, <1>9, TotalsGoOn
  <1>12. TotalSpan(r) = TimeUpTo(log, Open(log), m)
    <2>1. TimeUpTo(log, Open(log), m)
          = TimeUpTo(log, Open(log), i) + IF o /\ e.kind # "start" THEN e.t - log[i].t ELSE 0
      <3>1. Open(log) \in SUBSET DOMAIN log
        BY DEF Open
      <3>2. QED
        BY <3>1, TimeGrows
    <2>2. TotalSpan(s) = TimeUpTo(log, Open(log), i)
      BY DEF SummaryUpTo
    <2> HIDE DEF e, m, r
    <2>3. QED
      BY <1>5, <1>6, <1>9, <1>11, <2>1, <2>2
  <1>13. /\ TotalTxns(r) = SumOf(TxOf(log), Recorded(log, m))
         /\ TotalLedgers(r) = Cardinality(Captured(log, m))
    <2> DEFINE counts == e.kind = "snapshot" /\ m \in Open(log)
    <2>1. /\ SumOf(TxOf(log), Recorded(log, m))
             = SumOf(TxOf(log), Recorded(log, i)) + IF counts THEN e.tx ELSE 0
          /\ Cardinality(Captured(log, m))
             = Cardinality(Captured(log, i)) + IF counts /\ e.ledger # None THEN 1 ELSE 0
      BY RecordedGrows
    <2>2. /\ TotalTxns(s) = SumOf(TxOf(log), Recorded(log, i))
          /\ TotalLedgers(s) = Cardinality(Captured(log, i))
      BY DEF SummaryUpTo
    <2>3. counts <=> e.kind = "snapshot" /\ n # None
      BY <1>3, <1>5, <1>6
    <2> HIDE DEF e, m, r, counts
    <2>4. QED
      BY <1>11, <2>1, <2>2, <2>3
  <1>14. /\ DOMAIN r.sessions = {log[j].n : j \in Starts(log, m)}
         /\ \A j \in Starts(log, i) : log[j].n \in DOMAIN s.sessions
    <2>1. Starts(log, m) = IF e.kind = "start" THEN Starts(log, i) \cup {m} ELSE Starts(log, i)
      <3>1. 1 .. m = (1 .. i) \cup {m}
        OBVIOUS
      <3>2. QED
        BY <3>1 DEF Starts
    <2>2. DOMAIN s.sessions = {log[j].n : j \in Starts(log, i)}
      BY DEF SummaryUpTo
    <2>3. DOMAIN r.sessions = IF e.kind = "start" THEN DOMAIN s.sessions \cup {e.n} ELSE DOMAIN s.sessions
      BY <1>10 DEF Touches
    <2> HIDE DEF r
    <2>4. QED
      BY <2>1, <2>2, <2>3
  <1>15. r.current = IF m \in Open(log) THEN log[StartOf(log, m)].n ELSE None
    <2>1. StartOf(log, m) = IF e.kind = "start" THEN m ELSE st
      BY StartStays
    <2>2. QED
      BY <1>2, <1>3, <1>5, <1>6, <1>10, <2>1
  <1>16. m \in Open(log) => r.sessions[r.current].lastT = log[m].t /\ r.sessions[r.current].end = None
    <2>1. CASE e.kind = "start"
      BY <1>10, <2>1 DEF NewSession
    <2>2. CASE e.kind # "start"
      BY <1>2, <1>3, <1>5, <1>10, <2>2
    <2>3. QED
      BY <2>1, <2>2
  <1>17. ASSUME NEW j \in Starts(log, m)
         PROVE  Outcome(log, m, j, r.sessions[log[j].n].status)
    <2>1. j \in 1 .. m /\ log[j].kind = "start" /\ (j \in 1 .. i \/ j = m)
      BY DEF Starts
    <2>2. CASE j = m
      <3>1. r.sessions[log[j].n].status = "interrupted"
        BY <1>10, <2>1, <2>2 DEF NewSession
      <3>2. \A k \in j + 1 .. m : FALSE
        BY <2>2
      <3>3. QED
        BY <3>1, <3>2 DEF Outcome
    <2>3. CASE j \in 1 .. i
      <3>1. j \in Starts(log, i)
        BY <2>1, <2>3 DEF Starts
      <3>2. Outcome(log, i, j, s.sessions[log[j].n].status)
        BY <3>1 DEF SummaryUpTo
      <3>3. log[j].n \in DOMAIN s.sessions
        BY <1>14, <3>1
      <3>4. CASE e.kind = "end" /\ o /\ j = st
        <4>1. r.sessions[log[j].n].status = e.status
          BY <1>5, <1>10, <3>4
        <4>2. \A k \in j + 1 .. m - 1 : log[k].kind = "snapshot"
          BY <1>4, <3>4
        <4>3. EndsAt(log, j, m) /\ m \in j + 1 .. m
          BY <2>3, <3>4, <4>2 DEF EndsAt
        <4>4. QED
          BY <4>1, <4>3 DEF Outcome
      <3>5. CASE ~(e.kind = "end" /\ o /\ j = st)
        <4>1. ~EndsAt(log, j, m)
          <5> SUFFICES ASSUME EndsAt(log, j, m) PROVE FALSE
            OBVIOUS
          <5>1. e.kind = "end" /\ \A k \in j + 1 .. i : log[k].kind = "snapshot"
            BY DEF EndsAt
          <5>2. \A k \in j .. i : k = j \/ k \in j + 1 .. i
            BY <2>3
          <5>3. o
            <6>1. i \in DOMAIN log
              BY <1>1, <2>3
            <6>2. \A k \in j .. i : log[k].kind # "end"
              BY <2>1, <5>1, <5>2
            <6>3. QED
              BY <2>1, <2>3, <6>1, <6>2 DEF Open
          <5>4. j < st /\ st \in j + 1 .. i
            BY <1>4, <2>1, <2>3, <3>5, <5>1, <5>3
          <5>5. QED
            BY <1>4, <5>1, <5>3, <5>4
        <4>2. r.sessions[log[j].n].status = s.sessions[log[j].n].status
          <5>1. CASE e.kind = "start"
            BY <1>10, <3>3, <5>1
          <5>2. CASE e.kind # "start" /\ n = None
            BY <1>10, <5>2
          <5>3. CASE e.kind = "snapshot" /\ n # None
            BY <1>10, <3>3, <5>3 DEF Touches
          <5>4. CASE e.kind = "end" /\ n # None
            <6>1. o /\ j # st
              BY <1>6, <3>5, <5>4
            <6>2. log[j].n # n
              <7>1. j \in DOMAIN log /\ st \in DOMAIN log /\ log[st].kind = "start"
                BY <1>1, <1>4, <2>3, <6>1
              <7>2. QED
                BY <1>5, <2>1, <6>1, <7>1 DEF IsHistory
            <6>3. QED
              BY <1>10, <3>3, <5>4, <6>2 DEF Touches
          <5>5. QED
            BY <1>2, <5>1, <5>2, <5>3, <5>4
        <4> HIDE DEF r
        <4>3. QED
          BY <2>3, <3>2, <4>1, <4>2, OutcomeStays
      <3>6. QED
        BY <3>4, <3>5
    <2>4. QED
      BY <2>1, <2>2, <2>3
  <1> HIDE DEF r, m
  <1>18. SummaryUpTo(log, m, r)
    BY <1>10, <1>12, <1>13, <1>14, <1>15, <1>16, <1>17 DEF SummaryUpTo
  <1>19. QED
    BY <1>18 DEF r, m

Summing == INSTANCE FoldLaws WITH Op <- SummaryOf, Keeps <- SummaryUpTo

\* What holds of the summary of a whole log.
LEMMA SummaryOfAll == ASSUME NEW log, IsHistory(log) PROVE SummaryUpTo(log, Len(log), Summary(log))
PROOF
  <1> DEFINE n == Len(log)
             s == NoSummary
  <1>1. n \in Nat /\ DOMAIN log = 1 .. n
    BY LogIsCounted
  <1>2. SummaryUpTo(log, 0, s)
    <2>1. /\ {"current", "sessions", "first", "last"} \subseteq DOMAIN s
          /\ s.current = None /\ DOMAIN s.sessions = {} /\ IsFunction(s.sessions)
      BY DEF NoSummary, IsFunction
    <2>2. IsFiniteSet({}) /\ Cardinality({}) = 0
      BY FS_EmptySet
    <2> HIDE DEF s
    <2>3. IsSummary(s)
      BY <2>1, <2>2 DEF IsSummary
    <2>4. 0 \notin Open(log) /\ Open(log) \in SUBSET DOMAIN log
      BY <1>1 DEF Open
    <2>5. Starts(log, 0) = {} /\ Recorded(log, 0) = {} /\ Captured(log, 0) = {}
      BY DEF Starts, Recorded, Captured
    <2>6. \A f : DOMAIN f = {} => Total(f) = 0
      <3> SUFFICES ASSUME NEW f, DOMAIN f = {} PROVE Total(f) = 0
        OBVIOUS
      <3>1. SumOf(f, {}) = 0
        BY SumOfNone
      <3>2. QED
        BY <3>1 DEF Total, SumOf
    <2>7. TotalSpan(s) = 0 /\ TotalTxns(s) = 0 /\ TotalLedgers(s) = 0
      BY <2>1, <2>6 DEF TotalSpan, TotalTxns, TotalLedgers
    <2>8. TimeUpTo(log, Open(log), 0) = 0
      BY <2>4, TimeOfAll
    <2>9. SumOf(TxOf(log), Recorded(log, 0)) = 0
      BY <2>5, SumOfNone
    <2>10. QED
      BY <2>1, <2>2, <2>3, <2>4, <2>5, <2>7, <2>8, <2>9 DEF SummaryUpTo
  <1>3. \A i \in 1 .. n : \A y : SummaryUpTo(log, i - 1, y) => SummaryUpTo(log, i, SummaryOf(y, log[i]))
    <2> SUFFICES ASSUME NEW i \in 1 .. n, NEW y, SummaryUpTo(log, i - 1, y)
                 PROVE  SummaryUpTo(log, i, SummaryOf(y, log[i]))
      OBVIOUS
    <2> DEFINE k == i - 1
    <2>1. k \in Nat /\ k + 1 = i
      BY <1>1
    <2>2. SummaryUpTo(log, k, y) /\ k + 1 \in DOMAIN log
      BY <1>1, <2>1
    <2> HIDE DEF k
    <2>3. SummaryUpTo(log, k + 1, SummaryOf(y, log[k + 1]))
      BY <2>1, <2>2, EventKeepsSummary
    <2>4. QED
      BY <2>1, <2>3
  <1>4. PICK S : log \in Seq(S)
    BY DEF IsHistory
  <1>5. SummaryUpTo(log, n, Summing!Folded(NoSummary, log))
    BY <1>2, <1>3, <1>4, Summing!FoldKeeps
  <1>6. Summary(log) = Summing!Folded(NoSummary, log)
    BY DEF Summary, Summing!Folded, FoldLeft, Summing!FoldLeft, MapThenFoldSet, Summing!MapThenFoldSet,
           Max, Summing!Max
  <1>7. QED
    BY <1>5, <1>6

\* For every log in the order of its times, the totals of the summary are the time,
\* the transactions and the captured ledgers recorded while a session was open, over
\* all sessions that started, and a session has the status of the session_end after
\* its snapshots, "interrupted" where there is none (build_and_render_summary).
THEOREM SummaryIsOfSessions ==
  ASSUME NEW log, IsHistory(log)
  PROVE  LET s == Summary(log)
             n == Len(log)
         IN /\ DOMAIN s.sessions = {log[j].n : j \in Starts(log, n)}
            /\ TotalSpan(s) = TimeBetween(log, Open(log))
            /\ TotalTxns(s) = SumOf(TxOf(log), Recorded(log, n))
            /\ TotalLedgers(s) = Cardinality(Captured(log, n))
            /\ \A j \in Starts(log, n) : Outcome(log, n, j, s.sessions[log[j].n].status)
PROOF
  <1>1. SummaryUpTo(log, Len(log), Summary(log))
    BY SummaryOfAll
  <1>2. TimeBetween(log, Open(log)) = TimeUpTo(log, Open(log), Len(log))
    <2>1. Open(log) \in SUBSET DOMAIN log
      BY DEF Open
    <2>2. QED
      BY <2>1, TimeOfAll
  <1>3. QED
    BY <1>1, <1>2 DEF SummaryUpTo

\* Both readers agree, which is what the run checks of the times.
LEMMA TimesAgree == ASSUME NEW log, IsHistory(log) PROVE TimesAreOfSessions(log)
PROOF BY TimingIsOfSessions, SummaryIsOfSessions DEF TimesAreOfSessions

-------------------------------------------------------------------------------
(* The runs behind the sessions *)

\* A log as the runs of a monitor leave it: one after the other, a session_start before
\* and a session_end after everything else of its run.
IsLogOfRuns(log, last) ==
  /\ IsHistory(log)
  /\ \A j \in DOMAIN log : log[j].of \in 1 .. last
  /\ \A i, j \in DOMAIN log : i <= j => log[i].of <= log[j].of
  /\ \A j \in DOMAIN log :
       log[j].kind = "start" => log[j].n = log[j].of /\ \A i \in 1 .. j - 1 : log[i].of # log[j].of
  /\ \A j \in DOMAIN log :
       log[j].kind = "end" =>
         log[j].status = "completed" /\ \A i \in DOMAIN log : log[i].of = log[j].of => i <= j

NoStartLost(log, last) == \A r \in 1 .. last : ~StartLost(log, r)

\* Without a lost session_start every event has one of its run before it.
LEMMA RunBegins ==
  ASSUME NEW log, NEW last \in Nat, IsLogOfRuns(log, last), NoStartLost(log, last), NEW j \in DOMAIN log
  PROVE  \E m \in 1 .. j : log[m].kind = "start" /\ log[m].of = log[j].of
PROOF
  <1> DEFINE r == log[j].of
             S == EventsOf(log, r)
  <1>1. DOMAIN log = 1 .. Len(log) /\ Len(log) \in Nat
    BY LogIsCounted DEF IsLogOfRuns
  <1>2. r \in 1 .. last
    BY DEF IsLogOfRuns
  <1>3. j \in S /\ S \subseteq Nat /\ S # {}
    BY <1>1 DEF EventsOf
  <1>4. PICK m \in S : \A x \in S : m <= x
    <2> HIDE DEF S
    <2>1. QED
      BY <1>3, LeastNat
  <1>5. Min(S) = m
    <2> HIDE DEF S
    <2>1. QED
      BY <1>3, <1>4, MinIsSmallest
  <1>6. log[m].kind = "start"
    BY <1>2, <1>3, <1>5 DEF NoStartLost, StartLost
  <1>7. m \in 1 .. j /\ log[m].of = r
    BY <1>1, <1>3, <1>4 DEF EventsOf
  <1>8. QED
    BY <1>6, <1>7

\* Between two events of a run there are only events of it.
LEMMA RunIsWhole ==
  ASSUME NEW log, NEW last \in Nat, IsLogOfRuns(log, last),
         NEW i \in DOMAIN log, NEW j \in DOMAIN log, log[i].of = log[j].of, NEW k \in i .. j
  PROVE  k \in DOMAIN log /\ log[k].of = log[i].of
PROOF
  <1>1. DOMAIN log = 1 .. Len(log) /\ Len(log) \in Nat
    BY LogIsCounted DEF IsLogOfRuns
  <1>2. k \in DOMAIN log /\ i <= k /\ k <= j
    BY <1>1
  <1>3. log[i].of <= log[k].of /\ log[k].of <= log[j].of /\ log[i].of \in Int /\ log[k].of \in Int
    BY <1>2 DEF IsLogOfRuns
  <1>4. QED
    BY <1>2, <1>3

\* So a session is open behind each event but a session_end.
LEMMA OpenUntilEnd ==
  ASSUME NEW log, NEW last \in Nat, IsLogOfRuns(log, last), NoStartLost(log, last), NEW j \in DOMAIN log
  PROVE  j \in Open(log) <=> log[j].kind # "end"
PROOF
  <1>1. DOMAIN log = 1 .. Len(log) /\ Len(log) \in Nat
    BY LogIsCounted DEF IsLogOfRuns
  <1>2. ASSUME log[j].kind # "end" PROVE j \in Open(log)
    <2>1. PICK m \in 1 .. j : log[m].kind = "start" /\ log[m].of = log[j].of
      BY RunBegins
    <2>2. m \in DOMAIN log
      BY <1>1
    <2>3. ASSUME NEW k \in m .. j PROVE log[k].kind # "end"
      <3>1. k \in DOMAIN log /\ log[k].of = log[j].of /\ k <= j
        BY <2>1, <2>2, RunIsWhole
      <3>2. log[k].kind = "end" => j <= k
        BY <3>1 DEF IsLogOfRuns
      <3>3. QED
        BY <1>1, <1>2, <3>1, <3>2
    <2>4. QED
      BY <2>1, <2>3 DEF Open
  <1>3. ASSUME j \in Open(log) PROVE log[j].kind # "end"
    <2>1. PICK i \in 1 .. j : \A k \in i .. j : log[k].kind # "end"
      BY <1>3 DEF Open
    <2>2. j \in i .. j
      BY <1>1
    <2>3. QED
      BY <2>1, <2>2
  <1>4. QED
    BY <1>2, <1>3

\* How long a run took as far as the first events tell.
IsSpan(log, r, i, x) ==
  \/ x = 0 /\ \A k \in 1 .. i : log[k].of # r
  \/ \E a, b \in 1 .. i :
       /\ log[a].of = r /\ log[b].of = r /\ x = log[b].t - log[a].t
       /\ \A k \in 1 .. i : log[k].of = r => a <= k /\ k <= b

\* Those of all of them.
LEMMA RunTimeIsSpan ==
  ASSUME NEW log, NEW last \in Nat, IsLogOfRuns(log, last), NEW r, NEW x, IsSpan(log, r, Len(log), x)
  PROVE  RunTime(log, r) = x
PROOF
  <1> DEFINE S == EventsOf(log, r)
  <1>1. DOMAIN log = 1 .. Len(log) /\ Len(log) \in Nat
    BY LogIsCounted DEF IsLogOfRuns
  <1>2. CASE x = 0 /\ \A k \in 1 .. Len(log) : log[k].of # r
    <2>1. S = {}
      BY <1>1, <1>2 DEF EventsOf
    <2>2. QED
      BY <1>2, <2>1 DEF RunTime
  <1>3. CASE \E a, b \in 1 .. Len(log) :
               /\ log[a].of = r /\ log[b].of = r /\ x = log[b].t - log[a].t
               /\ \A k \in 1 .. Len(log) : log[k].of = r => a <= k /\ k <= b
    <2>1. PICK a, b \in 1 .. Len(log) :
               /\ log[a].of = r /\ log[b].of = r /\ x = log[b].t - log[a].t
               /\ \A k \in 1 .. Len(log) : log[k].of = r => a <= k /\ k <= b
      BY <1>3
    <2>2. /\ a \in S /\ b \in S /\ S \subseteq Nat /\ S \subseteq 0 .. Len(log) /\ S # {}
          /\ \A k \in S : a <= k /\ k <= b
      BY <1>1, <2>1 DEF EventsOf
    <2> HIDE DEF S
    <2>3. Min(S) = a
      BY <2>2, MinIsSmallest
    <2>4. Max(S) \in S /\ \A k \in S : k <= Max(S)
      BY <1>1, <2>2, MaxIsLargest
    <2>5. Max(S) = b
      <3> DEFINE m == Max(S)
      <3> HIDE DEF m
      <3>1. m \in S /\ b <= m /\ m <= b
        BY <2>2, <2>4 DEF m
      <3>2. m = b
        BY <2>2, <3>1
      <3>3. QED
        BY <3>2 DEF m
    <2>6. QED
      BY <2>1, <2>2, <2>3, <2>5 DEF RunTime, S
  <1>4. QED
    BY <1>2, <1>3 DEF IsSpan

\* An event more belongs to one run, and lets it take the time since the event before
\* unless it starts the run.
LEMMA SpanGrows ==
  ASSUME NEW log, NEW last \in Nat, IsLogOfRuns(log, last), NoStartLost(log, last),
         NEW i \in Nat, i + 1 \in DOMAIN log, NEW r, NEW x, IsSpan(log, r, i, x)
  PROVE  LET e == log[i + 1]
         IN IsSpan(log, r, i + 1,
                   IF e.of # r THEN x
                   ELSE x + IF i \in Open(log) /\ e.kind # "start" THEN e.t - log[i].t ELSE 0)
PROOF
  <1> DEFINE m == i + 1
             e == log[m]
             starts == e.kind = "start"
  <1>1. DOMAIN log = 1 .. Len(log) /\ Len(log) \in Nat /\ m \in DOMAIN log /\ m \in Nat
    BY LogIsCounted DEF IsLogOfRuns
  <1>2. 1 .. m = (1 .. i) \cup {m}
    OBVIOUS
  <1>3. CASE e.of # r
    <2> HIDE DEF m
    <2>1. QED
      BY <1>2, <1>3 DEF IsSpan, m
  <1>4. CASE e.of = r /\ starts
    <2>1. \A k \in 1 .. i : log[k].of # r
      BY <1>1, <1>4 DEF IsLogOfRuns
    <2>2. x = 0
      BY <2>1 DEF IsSpan
    <2>3. e.t - e.t = 0
      BY <1>1 DEF IsLogOfRuns, IsHistory
    <2>4. \A k \in 1 .. m : log[k].of = r => m <= k /\ k <= m
      BY <1>1, <1>2, <2>1
    <2>5. IsSpan(log, r, m, 0)
      <3>1. m \in 1 .. m
        BY <1>1
      <3> HIDE DEF m
      <3>2. QED
        BY <1>4, <2>3, <2>4, <3>1 DEF IsSpan
    <2>6. QED
      BY <1>4, <2>2, <2>5
  <1>5. CASE e.of = r /\ ~starts
    <2>1. PICK f \in 1 .. m : log[f].kind = "start" /\ log[f].of = r
      BY <1>1, <1>5, RunBegins
    <2>2. f \in 1 .. i /\ f \in DOMAIN log /\ i \in f .. m /\ i \in DOMAIN log /\ i \in 1 .. i
      BY <1>1, <1>5, <2>1
    <2>3. log[i].of = r
      BY <1>1, <1>5, <2>1, <2>2, RunIsWhole
    <2>4. log[i].kind # "end"
      <3>1. log[i].kind = "end" => m <= i
        BY <1>1, <1>5, <2>2, <2>3 DEF IsLogOfRuns
      <3>2. QED
        BY <3>1
    <2>5. i \in Open(log)
      BY <2>2, <2>4, OpenUntilEnd
    <2>6. PICK a, b \in 1 .. i :
               /\ log[a].of = r /\ log[b].of = r /\ x = log[b].t - log[a].t
               /\ \A k \in 1 .. i : log[k].of = r => a <= k /\ k <= b
      BY <2>2, <2>3 DEF IsSpan
    <2>7. b = i
      BY <2>2, <2>3, <2>6
    <2>8. log[a].t \in Nat /\ log[i].t \in Nat /\ e.t \in Nat
      BY <1>1, <2>2, <2>6 DEF IsLogOfRuns, IsHistory
    <2>9. x + (e.t - log[i].t) = e.t - log[a].t
      BY <2>6, <2>7, <2>8
    <2>10. /\ a \in 1 .. m /\ m \in 1 .. m
           /\ \A k \in 1 .. m : log[k].of = r => a <= k /\ k <= m
      BY <1>1, <1>2, <2>6
    <2> HIDE DEF m
    <2>11. IsSpan(log, r, m, e.t - log[a].t)
      BY <1>5, <2>6, <2>10 DEF IsSpan
    <2>12. QED
      BY <1>5, <2>5, <2>9, <2>11 DEF m
  <1>6. QED
    BY <1>3, <1>4, <1>5

\* The time between the events of open sessions is that of the runs.
LEMMA TimeIsOfRuns ==
  ASSUME NEW log, NEW last \in Nat, IsLogOfRuns(log, last), NoStartLost(log, last)
  PROVE  TimeBetween(log, Open(log)) = Total([r \in 1 .. last |-> RunTime(log, r)])
PROOF
  <1> DEFINE n == Len(log)
             o == Open(log)
             Good(F, i) == /\ DOMAIN F = 1 .. last
                           /\ \A r \in 1 .. last : F[r] \in Nat /\ IsSpan(log, r, i, F[r])
                           /\ Total(F) = TimeUpTo(log, o, i)
             T == {i \in Nat : i <= n => \E F : Good(F, i)}
  <1>1. DOMAIN log = 1 .. n /\ n \in Nat /\ IsHistory(log)
    BY LogIsCounted DEF IsLogOfRuns
  <1>2. o \in SUBSET DOMAIN log
    BY DEF Open
  <1>3. IsFiniteSet(1 .. last)
    BY FS_Interval
  <1>4. 0 \in T
    <2> DEFINE F == [r \in 1 .. last |-> 0]
    <2>1. DOMAIN F = 1 .. last /\ \A r \in 1 .. last : F[r] = 0
      OBVIOUS
    <2> HIDE DEF F
    <2>2. \A r \in 1 .. last : F[r] \in Nat /\ IsSpan(log, r, 0, F[r])
      BY <2>1 DEF IsSpan
    <2>3. Total(F) = 0
      BY <1>3, <2>1, TotalOfNothing
    <2>4. TimeUpTo(log, o, 0) = 0
      BY <1>1, <1>2, TimeOfAll
    <2>5. Good(F, 0)
      BY <2>1, <2>2, <2>3, <2>4
    <2> HIDE DEF Good
    <2>6. QED
      BY <2>5
  <1>5. ASSUME NEW i \in Nat, i \in T
        PROVE  i + 1 \in T
    <2> SUFFICES ASSUME i + 1 <= n PROVE \E F : Good(F, i + 1)
      OBVIOUS
    <2>1. PICK F : Good(F, i)
      BY <1>1, <1>5
    <2> DEFINE e == log[i + 1]
               z == e.of
               d == IF i \in o /\ e.kind # "start" THEN e.t - log[i].t ELSE 0
               G == [F EXCEPT ![z] = F[z] + d]
    <2>2. i + 1 \in DOMAIN log /\ z \in 1 .. last
      BY <1>1 DEF IsLogOfRuns
    <2>3. /\ TimeUpTo(log, o, i) \in Nat
          /\ TimeUpTo(log, o, i + 1) = TimeUpTo(log, o, i) + d
      BY <1>1, <1>2, <2>2, TimeGrows
    <2>4. \A r \in 1 .. last : IsSpan(log, r, i + 1, IF z # r THEN F[r] ELSE F[r] + d)
      <3> SUFFICES ASSUME NEW r \in 1 .. last
                   PROVE  IsSpan(log, r, i + 1, IF z # r THEN F[r] ELSE F[r] + d)
        OBVIOUS
      <3>1. IsSpan(log, r, i, F[r])
        BY <2>1
      <3>2. QED
        BY <2>2, <3>1, SpanGrows
    <2>5. d \in Nat
      <3>1. CASE i \in o
        <4>1. i \in DOMAIN log
          BY <1>2, <3>1
        <4>2. log[i].t \in Nat /\ e.t \in Nat /\ log[i].t <= e.t
          BY <1>1, <2>2, <4>1 DEF IsHistory
        <4>3. QED
          BY <4>2
      <3>2. CASE i \notin o
        BY <3>2
      <3>3. QED
        BY <3>1, <3>2
    <2> HIDE DEF d, z, o
    <2>6. /\ DOMAIN F = 1 .. last /\ DOMAIN G = 1 .. last /\ G[z] = F[z] + d
          /\ \A r \in (1 .. last) \ {z} : G[r] = F[r]
          /\ \A r \in 1 .. last : F[r] \in Nat
      BY <2>1, <2>2
    <2> HIDE DEF G
    <2>7. Total(G) = Total(F) + (G[z] - F[z])
      <3>1. /\ IsFiniteSet(DOMAIN F) /\ (\A x \in DOMAIN F : F[x] \in Nat) /\ z \in DOMAIN F
            /\ DOMAIN G = DOMAIN F /\ (\A x \in DOMAIN F \ {z} : G[x] = F[x]) /\ G[z] \in Nat
        BY <1>3, <2>2, <2>5, <2>6
      <3>2. QED
        BY <3>1, TotalOfChanged
    <2>8. Total(G) = TimeUpTo(log, o, i + 1)
      <3>1. Total(F) = TimeUpTo(log, o, i) /\ F[z] \in Nat
        BY <2>1, <2>2
      <3>2. G[z] - F[z] = d
        BY <2>5, <2>6, <3>1
      <3>3. QED
        BY <2>3, <2>7, <3>1, <3>2
    <2>9. \A r \in 1 .. last : G[r] \in Nat /\ IsSpan(log, r, i + 1, G[r])
      <3> SUFFICES ASSUME NEW r \in 1 .. last PROVE G[r] \in Nat /\ IsSpan(log, r, i + 1, G[r])
        OBVIOUS
      <3>1. G[r] = IF z # r THEN F[r] ELSE F[r] + d
        BY <2>6
      <3>2. G[r] \in Nat
        BY <2>5, <2>6, <3>1
      <3>3. QED
        BY <2>4, <3>1, <3>2
    <2>10. Good(G, i + 1)
      BY <2>6, <2>8, <2>9
    <2> HIDE DEF Good
    <2>11. QED
      BY <2>10
  <1> HIDE DEF T
  <1>6. n \in T
    BY <1>1, <1>4, <1>5, NatIsInductive
  <1>7. PICK F : Good(F, n)
    BY <1>1, <1>6 DEF T
  <1> DEFINE R == [r \in 1 .. last |-> RunTime(log, r)]
  <1>8. \A r \in 1 .. last : F[r] = R[r]
    <2> SUFFICES ASSUME NEW r \in 1 .. last PROVE F[r] = RunTime(log, r)
      OBVIOUS
    <2>1. IsSpan(log, r, Len(log), F[r])
      BY <1>7
    <2>2. QED
      BY <2>1, RunTimeIsSpan
  <1>9. Total(F) = Total(R)
    <2>1. DOMAIN F = 1 .. last /\ DOMAIN R = 1 .. last
      BY <1>7
    <2> DEFINE D == 1 .. last
    <2> HIDE DEF R, D
    <2>2. Total(F) = SumOf(F, D) /\ Total(R) = SumOf(R, D)
      BY <2>1 DEF Total, SumOf, D
    <2>3. IsFiniteSet(D) /\ \A x \in D : F[x] = R[x]
      BY <1>3, <1>8 DEF D
    <2>4. QED
      BY <2>2, <2>3, SumOfSame
  <1>10. TimeBetween(log, o) = TimeUpTo(log, o, n)
    BY <1>1, <1>2, TimeOfAll
  <1>11. QED
    BY <1>7, <1>9, <1>10

\* A session is completed when the last event of its run is a session_end.
LEMMA OutcomeIsOfRun ==
  ASSUME NEW log, NEW last \in Nat, IsLogOfRuns(log, last), NoStartLost(log, last),
         NEW j \in DOMAIN log, log[j].kind = "start", NEW status, Outcome(log, Len(log), j, status)
  PROVE  status = "completed" <=> log[Max(EventsOf(log, log[j].n))].kind = "end"
PROOF
  <1> DEFINE r == log[j].of
             S == EventsOf(log, r)
             b == Max(S)
             n == Len(log)
  <1>1. DOMAIN log = 1 .. n /\ n \in Nat
    BY LogIsCounted DEF IsLogOfRuns
  <1>2. log[j].n = r
    BY DEF IsLogOfRuns
  <1>3. j \in S /\ S \subseteq 0 .. n /\ S # {}
    BY <1>1 DEF EventsOf
  <1>4. b \in S /\ \A k \in S : k <= b
    <2> HIDE DEF S, n
    <2>1. QED
      BY <1>1, <1>3, MaxIsLargest
  <1> HIDE DEF b
  <1>5. b \in DOMAIN log /\ log[b].of = r /\ j <= b
    BY <1>3, <1>4 DEF EventsOf
  <1>6. \A m \in DOMAIN log : log[m].kind = "end" => log[m].status = "completed"
    BY DEF IsLogOfRuns
  <1>7. ASSUME log[b].kind = "end" PROVE status = "completed"
    <2>1. j # b /\ b \in j + 1 .. n
      BY <1>1, <1>5, <1>7
    <2>2. ASSUME NEW k \in j + 1 .. b - 1 PROVE log[k].kind = "snapshot"
      <3>1. k \in j .. b /\ k # j /\ k < b /\ j \in 1 .. k - 1
        BY <1>1, <2>1
      <3>2. k \in DOMAIN log /\ log[k].of = r
        BY <1>5, <3>1, RunIsWhole
      <3>3. log[k].kind # "start"
        BY <3>1, <3>2 DEF IsLogOfRuns
      <3>4. log[k].kind # "end"
        <4>1. log[k].kind = "end" => b <= k
          BY <1>5, <3>2 DEF IsLogOfRuns
        <4>2. QED
          BY <1>1, <1>5, <3>1, <3>2, <4>1
      <3>5. QED
        BY <3>2, <3>3, <3>4 DEF IsLogOfRuns, IsHistory
    <2>3. EndsAt(log, j, b)
      BY <1>7, <2>2 DEF EndsAt
    <2>4. PICK m \in j + 1 .. n : EndsAt(log, j, m) /\ status = log[m].status
      BY <2>1, <2>3 DEF Outcome
    <2>5. QED
      BY <1>1, <1>6, <2>4 DEF EndsAt
  <1>8. ASSUME status = "completed" PROVE log[b].kind = "end"
    <2>1. PICK m \in j + 1 .. n : EndsAt(log, j, m)
      BY <1>8 DEF Outcome
    <2>2. m \in DOMAIN log /\ j \in 1 .. m /\ log[m].kind = "end"
      BY <1>1, <2>1 DEF EndsAt
    <2>3. PICK f \in 1 .. m : log[f].kind = "start" /\ log[f].of = log[m].of
      BY <2>2, RunBegins
    <2>4. f <= j
      <3>1. f # m
        BY <2>2, <2>3
      <3>2. f \notin j + 1 .. m - 1
        BY <2>1, <2>3 DEF EndsAt
      <3>3. QED
        BY <1>1, <2>2, <3>1, <3>2
    <2>5. log[m].of = r
      <3>1. f \in DOMAIN log /\ j <= m
        BY <1>1, <2>1, <2>2
      <3>2. log[f].of <= r /\ r <= log[m].of /\ r \in Int /\ log[m].of \in Int
        BY <2>2, <2>4, <3>1 DEF IsLogOfRuns
      <3>3. QED
        BY <2>3, <3>2
    <2>6. b <= m /\ m <= b
      BY <1>4, <1>5, <2>2, <2>5 DEF IsLogOfRuns, EventsOf
    <2>7. b = m
      BY <1>1, <1>5, <2>2, <2>6
    <2>8. QED
      BY <2>2, <2>7
  <1>9. QED
    BY <1>2, <1>7, <1>8 DEF b

\* As long as no session_start is lost, times and totals are those of the runs.
THEOREM TotalsOfRuns ==
  ASSUME NEW log, NEW last \in Nat, IsLogOfRuns(log, last), NoStartLost(log, last)
  PROVE  TotalsAreOfRuns(log, 1 .. last)
PROOF
  <1> DEFINE s == Summary(log)
             n == Len(log)
  <1>1. DOMAIN log = 1 .. n /\ n \in Nat /\ IsHistory(log)
    BY LogIsCounted DEF IsLogOfRuns
  <1>2. DeriveTiming(log).elapsed = TimeBetween(log, Open(log))
    BY <1>1, TimingIsOfSessions
  <1>3. TimeBetween(log, Open(log)) = Total([r \in 1 .. last |-> RunTime(log, r)])
    BY TimeIsOfRuns
  <1>4. /\ DOMAIN s.sessions = {log[j].n : j \in Starts(log, n)}
        /\ TotalTxns(s) = SumOf(TxOf(log), Recorded(log, n))
        /\ TotalLedgers(s) = Cardinality(Captured(log, n))
        /\ \A j \in Starts(log, n) : Outcome(log, n, j, s.sessions[log[j].n].status)
    BY <1>1, SummaryIsOfSessions
  <1> HIDE DEF s
  <1>5. Recorded(log, n) = Snapshots(log)
    <2>1. \A j \in DOMAIN log : log[j].kind = "snapshot" => j \in Open(log)
      BY OpenUntilEnd
    <2>2. QED
      BY <1>1, <2>1 DEF Recorded, Snapshots
  <1>6. Captured(log, n) = {j \in Snapshots(log) : log[j].ledger # None}
    BY <1>5 DEF Captured
  <1>7. SumOf(TxOf(log), Snapshots(log)) = Total([j \in Snapshots(log) |-> log[j].tx])
    <2> DEFINE D == Snapshots(log)
               f == TxOf(log)
               g == [j \in D |-> log[j].tx]
    <2>1. IsFiniteSet(D)
      <3>1. D \subseteq 1 .. n /\ IsFiniteSet(1 .. n)
        BY <1>1, FS_Interval DEF Snapshots
      <3> HIDE DEF D
      <3>2. QED
        BY <3>1, FS_Subset
    <2>2. D \subseteq DOMAIN log
      BY DEF Snapshots
    <2> HIDE DEF D
    <2>3. DOMAIN g = D /\ \A j \in D : f[j] = g[j]
      BY <2>2 DEF TxOf
    <2> HIDE DEF f, g
    <2>4. Total(g) = SumOf(g, D)
      BY <2>3 DEF Total, SumOf
    <2>5. SumOf(f, D) = SumOf(g, D)
      BY <2>1, <2>3, SumOfSame
    <2>6. QED
      BY <2>4, <2>5 DEF f, g, D
  <1>8. ASSUME NEW k \in DOMAIN s.sessions
        PROVE  s.sessions[k].status = "completed" <=> log[Max(EventsOf(log, k))].kind = "end"
    <2>1. PICK j \in Starts(log, n) : k = log[j].n
      BY <1>4
    <2>2. j \in DOMAIN log /\ log[j].kind = "start"
      BY <1>1, <2>1 DEF Starts
    <2>3. Outcome(log, Len(log), j, s.sessions[k].status)
      BY <1>4, <2>1
    <2> DEFINE status == s.sessions[k].status
    <2> HIDE DEF status
    <2>4. Outcome(log, Len(log), j, status)
      BY <2>3 DEF status
    <2>5. status = "completed" <=> log[Max(EventsOf(log, log[j].n))].kind = "end"
      BY <2>2, <2>4, OutcomeIsOfRun
    <2>6. QED
      BY <2>1, <2>5 DEF status
  <1>9. /\ DeriveTiming(log).elapsed = Total([r \in 1 .. last |-> RunTime(log, r)])
        /\ TotalTxns(s) = Total([j \in Snapshots(log) |-> log[j].tx])
        /\ TotalLedgers(s) = Cardinality({j \in Snapshots(log) : log[j].ledger # None})
    BY <1>2, <1>3, <1>4, <1>5, <1>6, <1>7
  <1>10. QED
    BY <1>8, <1>9 DEF TotalsAreOfRuns, s

-------------------------------------------------------------------------------
(* The recorder leaves such logs *)

\* What may follow in a log of runs.
MayFollow(log, e, last) ==
  /\ e.kind \in {"start", "end", "snapshot"} /\ e.t \in Nat /\ e.of = last
  /\ \A j \in DOMAIN log : log[j].t <= e.t
  /\ \A j \in DOMAIN log : log[j].of = last => log[j].kind # "end"
  /\ e.kind = "snapshot" => e.monitoring \in BOOLEAN /\ e.tx \in Nat
  /\ e.kind = "start" => e.n = last /\ \A j \in DOMAIN log : log[j].of # last
  /\ e.kind = "end" => e.status = "completed"

\* An event more leaves a log of runs.
LEMMA RunGoesOn ==
  ASSUME NEW log, NEW last \in Nat \ {0}, IsLogOfRuns(log, last), NEW e, MayFollow(log, e, last)
  PROVE  IsLogOfRuns(Append(log, e), last)
PROOF
  <1> DEFINE r == Append(log, e)
             n == Len(log)
  <1>1. DOMAIN log = 1 .. n /\ n \in Nat /\ IsHistory(log)
    BY LogIsCounted DEF IsLogOfRuns
  <1>2. \E S : r \in Seq(S) /\ log \in Seq(S) /\ e \in S
    <2>1. PICK S : log \in Seq(S)
      BY <1>1 DEF IsHistory
    <2> DEFINE T == S \cup {e}
    <2>2. log \in Seq(T) /\ e \in T
      BY <2>1
    <2>3. r \in Seq(T)
      BY <2>2, AppendProperties
    <2>4. QED
      BY <2>2, <2>3
  <1>3. /\ Len(r) = n + 1 /\ DOMAIN r = 1 .. n + 1 /\ r[n + 1] = e
        /\ \A j \in DOMAIN log : r[j] = log[j]
    <2>1. PICK S : log \in Seq(S) /\ e \in S
      BY <1>2
    <2>2. Len(r) = n + 1 /\ r \in Seq(S)
      BY <2>1, AppendProperties
    <2>3. DOMAIN r = 1 .. Len(r)
      BY <2>2, LenProperties
    <2>4. r[n + 1] = e /\ \A j \in 1 .. n : r[j] = log[j]
      BY <2>1, AppendProperties
    <2>5. QED
      BY <1>1, <2>2, <2>3, <2>4
  <1> DEFINE m == n + 1
  <1>4. /\ \A j \in DOMAIN r : j \in DOMAIN log \/ j = m
        /\ m \notin DOMAIN log /\ m \in DOMAIN r /\ m \in Nat
        /\ \A j \in DOMAIN log : j \in DOMAIN r /\ j < m /\ j \in Nat
    BY <1>1, <1>3
  <1> HIDE DEF r, m
  <1>5. r[m] = e /\ \A j \in DOMAIN log : r[j] = log[j]
    BY <1>3 DEF m
  <1>6. \A j \in DOMAIN r : r[j].kind \in {"start", "end", "snapshot"} /\ r[j].t \in Nat
    BY <1>1, <1>4, <1>5 DEF IsHistory, MayFollow
  <1>7. \A i, j \in DOMAIN r : i <= j => r[i].t <= r[j].t
    <2> SUFFICES ASSUME NEW i \in DOMAIN r, NEW j \in DOMAIN r, i <= j PROVE r[i].t <= r[j].t
      OBVIOUS
    <2>1. CASE j = m
      <3>1. CASE i = m
        BY <1>6, <2>1, <3>1
      <3>2. CASE i \in DOMAIN log
        BY <1>5, <2>1, <3>2 DEF MayFollow
      <3>3. QED
        BY <1>4, <3>1, <3>2
    <2>2. CASE j \in DOMAIN log
      <3>1. i \in DOMAIN log
        BY <1>4, <2>2
      <3>2. QED
        BY <1>1, <1>5, <2>2, <3>1 DEF IsHistory
    <2>3. QED
      BY <1>4, <2>1, <2>2
  <1>8. \A j \in DOMAIN r : r[j].kind = "snapshot" => r[j].monitoring \in BOOLEAN /\ r[j].tx \in Nat
    BY <1>1, <1>4, <1>5 DEF IsHistory, MayFollow
  <1>9. \A j \in DOMAIN r : r[j].of \in 1 .. last
    BY <1>4, <1>5 DEF IsLogOfRuns, MayFollow
  <1>10. \A i, j \in DOMAIN r : i <= j => r[i].of <= r[j].of
    <2> SUFFICES ASSUME NEW i \in DOMAIN r, NEW j \in DOMAIN r, i <= j PROVE r[i].of <= r[j].of
      OBVIOUS
    <2>1. CASE j = m
      BY <1>5, <1>9, <2>1 DEF MayFollow
    <2>2. CASE j \in DOMAIN log
      <3>1. i \in DOMAIN log
        BY <1>4, <2>2
      <3>2. QED
        BY <1>5, <2>2, <3>1 DEF IsLogOfRuns
    <2>3. QED
      BY <1>4, <2>1, <2>2
  <1>11. \A j \in DOMAIN r :
           r[j].kind = "start" => r[j].n = r[j].of /\ \A i \in 1 .. j - 1 : r[i].of # r[j].of
    <2> SUFFICES ASSUME NEW j \in DOMAIN r, r[j].kind = "start"
                 PROVE  r[j].n = r[j].of /\ \A i \in 1 .. j - 1 : r[i].of # r[j].of
      OBVIOUS
    <2>1. \A i \in 1 .. j - 1 : i \in DOMAIN log
      BY <1>1, <1>4 DEF m
    <2>2. CASE j = m
      BY <1>5, <2>1, <2>2 DEF MayFollow
    <2>3. CASE j \in DOMAIN log
      BY <1>5, <2>1, <2>3 DEF IsLogOfRuns
    <2>4. QED
      BY <1>4, <2>2, <2>3
  <1>12. \A j \in DOMAIN r :
           r[j].kind = "end" =>
             r[j].status = "completed" /\ \A i \in DOMAIN r : r[i].of = r[j].of => i <= j
    <2> SUFFICES ASSUME NEW j \in DOMAIN r, r[j].kind = "end"
                 PROVE  r[j].status = "completed" /\ \A i \in DOMAIN r : r[i].of = r[j].of => i <= j
      OBVIOUS
    <2>1. CASE j = m
      <3>1. \A i \in DOMAIN r : i <= m
        BY <1>4
      <3>2. QED
        BY <1>5, <2>1, <3>1 DEF MayFollow
    <2>2. CASE j \in DOMAIN log
      <3>1. r[m].of # r[j].of
        BY <1>5, <2>2 DEF MayFollow
      <3>2. QED
        BY <1>4, <1>5, <2>2, <3>1 DEF IsLogOfRuns
    <2>3. QED
      BY <1>4, <2>1, <2>2
  <1>13. \A j \in DOMAIN r : r[j].kind = "start" => r[j].n \in Nat
    <2>1. \A j \in DOMAIN r : r[j].of \in Nat
      BY <1>9
    <2>2. QED
      BY <1>11, <2>1
  <1>14. \A i, j \in DOMAIN r : r[i].kind = "start" /\ r[j].kind = "start" /\ r[i].n = r[j].n => i = j
    <2> SUFFICES ASSUME NEW i \in DOMAIN r, NEW j \in DOMAIN r, r[i].kind = "start",
                        r[j].kind = "start", r[i].n = r[j].n
                 PROVE  i = j
      OBVIOUS
    <2>1. r[i].of = r[j].of
      BY <1>11
    <2>2. i \in Nat /\ j \in Nat /\ i >= 1 /\ j >= 1
      BY <1>1, <1>4 DEF m
    <2>3. ~(i < j) /\ ~(j < i)
      BY <1>11, <2>1, <2>2
    <2>4. QED
      BY <2>2, <2>3
  <1>15. IsHistory(r)
    BY <1>2, <1>6, <1>7, <1>8, <1>13, <1>14 DEF IsHistory
  <1>16. IsLogOfRuns(r, last)
    BY <1>9, <1>10, <1>11, <1>12, <1>15 DEF IsLogOfRuns
  <1>17. QED
    BY <1>16 DEF r

\* So does the last event gone.
LEMMA RunIsCut ==
  ASSUME NEW log, NEW last \in Nat, IsLogOfRuns(log, last)
  PROVE  LET r == SubSeq(log, 1, Len(log) - 1)
         IN /\ IsLogOfRuns(r, last)
            /\ \A j \in DOMAIN r : j \in DOMAIN log /\ r[j] = log[j]
PROOF
  <1> DEFINE r == SubSeq(log, 1, Len(log) - 1)
             n == Len(log)
  <1>1. DOMAIN log = 1 .. n /\ n \in Nat /\ IsHistory(log)
    BY LogIsCounted DEF IsLogOfRuns
  <1>2. PICK S : log \in Seq(S)
    BY <1>1 DEF IsHistory
  <1>3. /\ r \in Seq(S) /\ \A j \in DOMAIN r : j \in DOMAIN log /\ r[j] = log[j]
    <2>1. \A j \in 1 .. n - 1 : log[j] \in S
      BY <1>1, <1>2, ElementOfSeq
    <2>2. /\ r \in Seq(S) /\ Len(r) = IF 1 <= n - 1 THEN n - 1 ELSE 0
          /\ \A j \in 1 .. n - 1 : r[j] = log[j]
      BY <1>1, <1>2, <2>1, SubSeqProperties
    <2>3. DOMAIN r = 1 .. Len(r)
      BY <2>2, LenProperties
    <2>4. \A j \in DOMAIN r : j \in 1 .. n - 1
      BY <1>1, <2>2, <2>3
    <2>5. QED
      BY <1>1, <2>2, <2>4
  <1>4. \A j \in DOMAIN r : \A i \in 1 .. j - 1 : i \in DOMAIN r
    <2>1. DOMAIN r = 1 .. Len(r) /\ Len(r) \in Nat
      BY <1>3, LenProperties
    <2>2. QED
      BY <2>1
  <1> HIDE DEF r
  <1>5. IsHistory(r)
    <2>1. \E T : r \in Seq(T)
      BY <1>3
    <2>2. \A j \in DOMAIN r : /\ r[j].kind \in {"start", "end", "snapshot"} /\ r[j].t \in Nat
                              /\ r[j].kind = "snapshot" => r[j].monitoring \in BOOLEAN /\ r[j].tx \in Nat
                              /\ r[j].kind = "start" => r[j].n \in Nat
      BY <1>1, <1>3 DEF IsHistory
    <2>3. \A i, j \in DOMAIN r : i <= j => r[i].t <= r[j].t
      BY <1>1, <1>3 DEF IsHistory
    <2>4. \A i, j \in DOMAIN r : r[i].kind = "start" /\ r[j].kind = "start" /\ r[i].n = r[j].n => i = j
      BY <1>1, <1>3 DEF IsHistory
    <2>5. QED
      BY <2>1, <2>2, <2>3, <2>4 DEF IsHistory
  <1>6. /\ \A j \in DOMAIN r : r[j].of \in 1 .. last
        /\ \A i, j \in DOMAIN r : i <= j => r[i].of <= r[j].of
    BY <1>3 DEF IsLogOfRuns
  <1>7. \A j \in DOMAIN r :
          r[j].kind = "start" => r[j].n = r[j].of /\ \A i \in 1 .. j - 1 : r[i].of # r[j].of
    BY <1>3, <1>4 DEF IsLogOfRuns
  <1>8. \A j \in DOMAIN r :
          r[j].kind = "end" =>
            r[j].status = "completed" /\ \A i \in DOMAIN r : r[i].of = r[j].of => i <= j
    BY <1>3 DEF IsLogOfRuns
  <1>9. IsLogOfRuns(r, last)
    BY <1>5, <1>6, <1>7, <1>8 DEF IsLogOfRuns
  <1>10. QED
    BY <1>3, <1>9 DEF r

\* Nothing of a run is on disk before its session is open, and no session_end while it
\* goes on.
RunsInv ==
  /\ run \in Nat /\ now \in Nat /\ synced \in BOOLEAN
  /\ phase \in {"off", "opening", "running"} /\ tail \in {"clean", "torn", "bare"}
  /\ IsLogOfRuns(events, run)
  /\ \A j \in DOMAIN events : events[j].t <= now
  /\ phase # "off" => run # 0
  /\ phase = "opening" => \A j \in DOMAIN events : events[j].of # run
  /\ phase = "running" => \A j \in DOMAIN events : events[j].of = run => events[j].kind # "end"

\* An event that may follow is one more, and time and phase fit it.
LEMMA EventIsWritten ==
  ASSUME RunsInv, NEW e, MayFollow(events, e, run), e.t = now, phase # "off",
         run' = run, now' = now, synced' \in BOOLEAN, tail' \in {"clean", "torn", "bare"},
         events' = Append(events, e), phase' \in {"off", "running"}, e.kind = "end" => phase' = "off"
  PROVE  RunsInv'
PROOF
  <1>1. IsLogOfRuns(events', run')
    <2>1. run \in Nat \ {0} /\ IsLogOfRuns(events, run)
      BY DEF RunsInv
    <2>2. QED
      BY <2>1, RunGoesOn
  <1>2. \A j \in DOMAIN events' : events'[j] = e \/ (j \in DOMAIN events /\ events'[j] = events[j])
    <2>1. PICK S : events \in Seq(S)
      BY DEF RunsInv, IsLogOfRuns, IsHistory
    <2> DEFINE T == S \cup {e}
    <2>2. events \in Seq(T) /\ e \in T
      BY <2>1
    <2>3. /\ events' \in Seq(T) /\ Len(events') = Len(events) + 1
          /\ events'[Len(events) + 1] = e
          /\ \A j \in 1 .. Len(events) : events'[j] = events[j]
      BY <2>2, AppendProperties
    <2>4. DOMAIN events = 1 .. Len(events) /\ DOMAIN events' = 1 .. Len(events') /\ Len(events) \in Nat
      BY <2>1, <2>3, LenProperties
    <2>5. QED
      BY <2>3, <2>4
  <1>3. \A j \in DOMAIN events' : events'[j].t <= now'
    <2>1. e.t <= now
      BY DEF RunsInv
    <2>2. QED
      BY <1>2, <2>1 DEF RunsInv
  <1>4. phase' = "running" =>
          \A j \in DOMAIN events' : events'[j].of = run' => events'[j].kind # "end"
    BY <1>2 DEF MayFollow
  <1>5. QED
    BY <1>1, <1>3, <1>4 DEF RunsInv

\* A step without a new event: the log stays, or its last event goes.
LEMMA NothingIsWritten ==
  ASSUME RunsInv, run' \in Nat, run <= run', now' \in Nat, now <= now', synced' \in BOOLEAN,
         tail' \in {"clean", "torn", "bare"},
         events' = events \/ events' = SubSeq(events, 1, Len(events) - 1),
         \/ phase' = "off"
         \/ phase' = "opening" /\ run' = run + 1
         \/ phase' = phase /\ run' = run
         \/ phase = "opening" /\ phase' = "running" /\ run' = run
  PROVE  RunsInv'
PROOF
  <1>1. /\ IsLogOfRuns(events', run)
        /\ \A j \in DOMAIN events' : j \in DOMAIN events /\ events'[j] = events[j]
    <2>1. run \in Nat /\ IsLogOfRuns(events, run)
      BY DEF RunsInv
    <2>2. QED
      BY <2>1, RunIsCut
  <1>2. \A j \in DOMAIN events' : events'[j].of \in 1 .. run'
    BY <1>1 DEF IsLogOfRuns, RunsInv
  <1>3. IsLogOfRuns(events', run')
    BY <1>1, <1>2 DEF IsLogOfRuns
  <1>4. \A j \in DOMAIN events' : events'[j].t <= now'
    <2> SUFFICES ASSUME NEW j \in DOMAIN events' PROVE events'[j].t <= now'
      OBVIOUS
    <2>1. events'[j].t \in Nat
      BY <1>1 DEF IsLogOfRuns, IsHistory
    <2>2. events'[j].t <= now /\ now \in Nat
      BY <1>1 DEF RunsInv
    <2>3. QED
      BY <2>1, <2>2
  <1>5. \A j \in DOMAIN events' : events'[j].of \in 1 .. run
    BY <1>1 DEF IsLogOfRuns
  <1>6. run \in Nat
    BY DEF RunsInv
  <1>7. phase' # "off" => run' # 0
    BY <1>6 DEF RunsInv
  <1>8. phase' = "opening" => \A j \in DOMAIN events' : events'[j].of # run'
    <2>1. CASE run' = run + 1
      BY <1>5, <1>6, <2>1
    <2>2. CASE phase' = phase /\ run' = run
      BY <1>1, <2>2 DEF RunsInv
    <2>3. QED
      BY <2>1, <2>2
  <1>9. phase' = "running" => \A j \in DOMAIN events' : events'[j].of = run' => events'[j].kind # "end"
    BY <1>1 DEF RunsInv
  <1>10. phase' \in {"off", "opening", "running"}
    BY DEF RunsInv
  <1>11. QED
    BY <1>3, <1>4, <1>7, <1>8, <1>9, <1>10 DEF RunsInv

\* Whatever is recorded, the run times a dashboard goes on from and the summary account
\* for the recorded sessions, and for the runs unless a session_start was lost
\* (_derive_timing_from_events, build_and_render_summary).
THEOREM RunsAreCounted == Spec => []RunsAreAccountedFor
PROOF
  <1>1. Init => RunsInv
    <2> SUFFICES ASSUME Init PROVE RunsInv
      OBVIOUS
    <2>1. events = <<>> /\ events \in Seq({}) /\ DOMAIN events = {}
      BY DEF Init, RecorderInit
    <2>2. IsLogOfRuns(events, run)
      BY <2>1 DEF IsLogOfRuns, IsHistory
    <2>3. QED
      BY <2>1, <2>2 DEF Init, RecorderInit, RunsInv
  <1>2. RunsInv /\ [Records]_vars => RunsInv'
    <2> SUFFICES ASSUME RunsInv, [Records]_vars PROVE RunsInv'
      OBVIOUS
    <2>1. run \in Nat /\ now \in Nat /\ synced \in BOOLEAN /\ tail \in {"clean", "torn", "bare"}
      BY DEF RunsInv
    <2>2. CASE UNCHANGED recorderVars
      BY <2>1, <2>2, NothingIsWritten DEF recorderVars
    <2>3. CASE Records
      <3>1. RecorderNext
        BY <2>3 DEF Records
      <3>2. CASE Tick
        <4>1. now' \in Nat /\ now <= now'
          BY <2>1, <3>2 DEF Tick
        <4>2. QED
          BY <2>1, <3>2, <4>1, NothingIsWritten DEF Tick
      <3>3. CASE OpenSession
        <4>1. run' = run + 1 /\ phase' = "opening" /\ synced' = FALSE /\ UNCHANGED <<events, tail, now>>
          BY <3>3 DEF OpenSession
        <4>2. run' \in Nat /\ run <= run'
          BY <2>1, <4>1
        <4>3. synced' \in BOOLEAN
          BY <4>1
        <4>4. QED
          BY <2>1, <4>1, <4>2, <4>3, NothingIsWritten
      <3>4. CASE CloseUnrecorded
        BY <2>1, <3>4, NothingIsWritten DEF CloseUnrecorded
      <3>5. CASE Sync
        BY <2>1, <3>5, NothingIsWritten DEF Sync
      <3>6. CASE Kill
        <4>1. phase' = "off" /\ tail' \in {"clean", "torn", "bare"} /\ UNCHANGED <<events, run, synced, now>>
          BY <2>1, <3>6 DEF Kill
        <4>2. QED
          BY <2>1, <4>1, NothingIsWritten
      <3>7. CASE KillWriting
        <4>1. /\ phase' = "off" /\ tail' \in {"clean", "torn", "bare"} /\ UNCHANGED <<run, synced, now>>
              /\ events' = events \/ events' = SubSeq(events, 1, Len(events) - 1)
          BY <3>7 DEF KillWriting
        <4>2. QED
          BY <2>1, <4>1, NothingIsWritten
      <3>8. CASE WriteStart
        <4> DEFINE e == [kind |-> "start", of |-> run, t |-> now, n |-> run]
        <4>1. /\ phase = "opening" /\ phase' = "running" /\ tail' \in {"clean", "torn", "bare"}
              /\ UNCHANGED <<run, synced, now>>
          BY <3>8 DEF WriteStart
        <4>2. \/ events' = events \/ events' = SubSeq(events, 1, Len(events) - 1)
              \/ events' = Append(events, e)
          BY <2>1, <3>8 DEF WriteStart
        <4>3. CASE events' = Append(events, e)
          <5>1. /\ \A j \in DOMAIN events : events[j].t <= now
                /\ \A j \in DOMAIN events : events[j].of # run
            BY <4>1 DEF RunsInv
          <5>2. MayFollow(events, e, run)
            BY <2>1, <5>1 DEF MayFollow
          <5>3. e.t = now /\ e.kind # "end"
            OBVIOUS
          <5> HIDE DEF e
          <5>4. QED
            BY <2>1, <4>1, <4>3, <5>2, <5>3, EventIsWritten
        <4>4. CASE events' = events \/ events' = SubSeq(events, 1, Len(events) - 1)
          BY <2>1, <4>1, <4>4, NothingIsWritten
        <4>5. QED
          BY <4>2, <4>3, <4>4
      <3>9. CASE PollSnapshot \/ LedgerSnapshot
        <4>1. \E idx, txs : Snapshot(idx, txs) /\ txs \subseteq Nat
          <5>1. CASE PollSnapshot
            <6>1. Snapshot(None, {0}) /\ {0} \subseteq Nat
              BY <5>1 DEF PollSnapshot
            <6>2. QED
              BY <6>1
          <5>2. CASE LedgerSnapshot
            BY <5>2, RecorderBounds DEF LedgerSnapshot
          <5>3. QED
            BY <3>9, <5>1, <5>2
        <4>2. PICK idx, txs : Snapshot(idx, txs) /\ txs \subseteq Nat
          BY <4>1
        <4>3. \E l, tx, rss : tx \in txs /\ events' = Append(events, Event(l, idx, tx, rss))
          BY <4>2 DEF Snapshot
        <4>4. PICK l, tx, rss : tx \in txs /\ events' = Append(events, Event(l, idx, tx, rss))
          BY <4>3
        <4>5. /\ phase = "running" /\ phase' = phase /\ UNCHANGED <<tail, run, synced, now>>
          BY <4>2 DEF Snapshot
        <4> DEFINE e == Event(l, idx, tx, rss)
        <4>6. /\ e.kind = "snapshot" /\ e.of = run /\ e.t = now /\ e.tx = tx /\ e.monitoring = synced
          BY DEF Event
        <4>7. tx \in Nat
          BY <4>2, <4>4
        <4> HIDE DEF e
        <4>8. MayFollow(events, e, run)
          BY <2>1, <4>5, <4>6, <4>7 DEF MayFollow, RunsInv
        <4>9. events' = Append(events, e)
          BY <4>4 DEF e
        <4>10. QED
          BY <2>1, <4>5, <4>6, <4>8, <4>9, EventIsWritten
      <3>10. CASE EndSession
        <4> DEFINE e == [kind |-> "end", of |-> run, t |-> now, status |-> "completed"]
        <4>1. /\ phase = "running" /\ phase' = "off" /\ UNCHANGED <<tail, run, synced, now>>
              /\ events' = Append(events, e)
          BY <3>10 DEF EndSession
        <4>2. MayFollow(events, e, run)
          BY <2>1, <4>1 DEF MayFollow, RunsInv
        <4>3. e.t = now
          OBVIOUS
        <4> HIDE DEF e
        <4>4. QED
          BY <2>1, <4>1, <4>2, <4>3, EventIsWritten
      <3>11. QED
        BY <3>1, <3>2, <3>3, <3>4, <3>5, <3>6, <3>7, <3>8, <3>9, <3>10 DEF RecorderNext
    <2>4. QED
      BY <2>2, <2>3 DEF vars
  <1>3. RunsInv => RunsAreAccountedFor
    <2> SUFFICES ASSUME RunsInv
                 PROVE  /\ TimesAreOfSessions(events)
                        /\ (\A r \in 1 .. run : ~StartLost(events, r)) => TotalsAreOfRuns(events, 1 .. run)
      BY DEF RunsAreAccountedFor
    <2>1. run \in Nat /\ IsLogOfRuns(events, run) /\ IsHistory(events)
      BY DEF RunsInv, IsLogOfRuns
    <2>2. TimesAreOfSessions(events)
      BY <2>1, TimesAgree
    <2>3. ASSUME \A r \in 1 .. run : ~StartLost(events, r) PROVE TotalsAreOfRuns(events, 1 .. run)
      <3>1. NoStartLost(events, run)
        BY <2>3 DEF NoStartLost
      <3>2. QED
        BY <2>1, <3>1, TotalsOfRuns
    <2>4. QED
      BY <2>2, <2>3
  <1>4. QED
    BY <1>1, <1>2, <1>3, PTL DEF Spec

-------------------------------------------------------------------------------
(* What find and diff report *)

ReadingsOf(f, k) == DOMAIN f \subseteq {k} /\ \A x \in DOMAIN f : f[x] \in Nat

\* What a snapshot holds.
IsReading(e) ==
  /\ e.ledger \in Nat \cup {None} /\ e.tx \in Nat /\ e.cum \in Nat /\ e.rss \in Nat
  /\ ReadingsOf(e.breakdown, "nodestore") /\ ReadingsOf(e.counts, "n")

\* A log of snapshots, of ledgers one after the other, that count each transaction.
IsCaptured(log) ==
  /\ \E S : log \in Seq(S)
  /\ \A j \in Snapshots(log) : IsReading(log[j])
  /\ \A i, j \in LedgerSnapshots(log) : i < j => log[i].ledger < log[j].ledger
  /\ \A i, j \in Snapshots(log) : i < j => log[i].cum + log[j].tx <= log[j].cum

\* Where the captured ledgers are.
LEMMA CapturedAt ==
  ASSUME NEW log, IsCaptured(log)
  PROVE  /\ Len(log) \in Nat /\ DOMAIN log = 1 .. Len(log)
         /\ LedgerSnapshots(log) \subseteq Snapshots(log) /\ Snapshots(log) \subseteq 1 .. Len(log)
         /\ \A j \in LedgerSnapshots(log) : log[j].ledger \in Nat
PROOF
  <1>1. Len(log) \in Nat /\ DOMAIN log = 1 .. Len(log)
    BY LenProperties DEF IsCaptured
  <1>2. \A j \in LedgerSnapshots(log) : log[j].ledger \in Nat
    BY DEF IsCaptured, LedgerSnapshots, IsReading
  <1>3. QED
    BY <1>1, <1>2 DEF LedgerSnapshots, Snapshots

Fields == {"rss", "heap", "n"}

Value(e, field) ==
  CASE field = "rss" -> e.rss
    [] field = "heap" -> e.rss - e.breakdown["nodestore"]
    [] field = "n" -> e.counts["n"]

Lacks(e, field) == Lookup(e, field) = {}

\* A field that is there has one value.
LEMMA LookupIsValue ==
  ASSUME NEW e, IsReading(e), NEW field \in Fields, ~Lacks(e, field)
  PROVE  /\ Lookup(e, field) = {Value(e, field)} /\ Value(e, field) \in Int
         /\ field = "heap" => "nodestore" \in DOMAIN e.breakdown
         /\ field = "n" => "n" \in DOMAIN e.counts
PROOF
  <1>1. CASE field = "rss"
    BY <1>1 DEF Lookup, Value, IsReading
  <1>2. CASE field = "heap"
    <2>1. Lookup(e, field) = Heap(e)
      BY <1>2 DEF Lookup
    <2>2. "nodestore" \in DOMAIN e.breakdown
      BY <2>1 DEF Lacks, Heap, At
    <2>3. "other" \notin DOMAIN e.breakdown
      BY DEF IsReading, ReadingsOf
    <2>4. Heap(e) = {e.rss - e.breakdown["nodestore"] - 0}
      BY <2>2, <2>3 DEF Heap, At
    <2>5. e.rss \in Nat /\ e.breakdown["nodestore"] \in Nat
      BY <2>2 DEF IsReading, ReadingsOf
    <2>6. Value(e, field) = e.rss - e.breakdown["nodestore"]
      BY <1>2 DEF Value
    <2> DEFINE a == e.rss
               b == e.breakdown["nodestore"]
    <2> HIDE DEF a, b
    <2>7. a - b - 0 = a - b /\ a - b \in Int
      BY <2>5 DEF a, b
    <2>8. QED
      BY <1>2, <2>1, <2>2, <2>4, <2>6, <2>7 DEF a, b
  <1>3. CASE field = "n"
    <2>1. Lookup(e, field) = At(e.counts, "n")
      BY <1>3 DEF Lookup
    <2>2. "n" \in DOMAIN e.counts
      BY <2>1 DEF Lacks, At
    <2>3. QED
      BY <1>3, <2>1, <2>2 DEF At, Value, IsReading, ReadingsOf
  <1>4. QED
    BY <1>1, <1>2, <1>3 DEF Fields

\* What it moved by is the difference.
LEMMA DeltaIsDifference ==
  ASSUME NEW a, NEW b, IsReading(a), IsReading(b), NEW field \in Fields,
         ~Lacks(a, field), ~Lacks(b, field)
  PROVE  /\ Delta(a, b, field) = Value(b, field) - Value(a, field)
         /\ Value(a, field) \in Int /\ Value(b, field) \in Int
PROOF
  <1> DEFINE x == Value(a, field)
             y == Value(b, field)
  <1>1. Lookup(a, field) = {x} /\ Lookup(b, field) = {y} /\ x \in Int /\ y \in Int
    BY LookupIsValue
  <1> HIDE DEF x, y
  <1>2. {v - u : u \in {x}, v \in {y}} = {y - x}
    OBVIOUS
  <1>3. Delta(a, b, field) = y - x
    BY <1>1, <1>2 DEF Delta
  <1>4. QED
    BY <1>1, <1>3 DEF x, y

DiffBetween(a, b) ==
  [header |-> DiffHeader(a, b), memory |-> DiffMemory(a, b),
   breakdown |-> DiffBreakdown(a, b), counts |-> DiffCounts(a, b)]

\* What a numeric leaf of both sides moved by, and nothing when it did not.
LEMMA MovedBy ==
  ASSUME NEW f, NEW g, NEW k, k \in DOMAIN f, k \in DOMAIN g, f[k] \in Int, g[k] \in Int
  PROVE  (IF k \in DOMAIN Moved(f, g) THEN Moved(f, g)[k] ELSE 0) = g[k] - f[k]
PROOF BY DEF Moved

\* diff tells the same of a field that both snapshots have.
LEMMA DiffIsDifference ==
  ASSUME NEW a, NEW b, IsReading(a), IsReading(b), NEW field \in Fields,
         ~Lacks(a, field), ~Lacks(b, field)
  PROVE  DiffOf(DiffBetween(a, b), field) = Value(b, field) - Value(a, field)
PROOF
  <1> DEFINE d == DiffBetween(a, b)
  <1>1. /\ d.memory = b.rss - a.rss /\ d.breakdown = Moved(a.breakdown, b.breakdown)
        /\ d.counts = Moved(a.counts, b.counts)
    BY DEF DiffBetween, DiffMemory, DiffBreakdown, DiffCounts
  <1>2. a.rss \in Nat /\ b.rss \in Nat
    BY DEF IsReading
  <1> HIDE DEF d
  <1>3. CASE field = "rss"
    BY <1>1, <1>3 DEF DiffOf, Value, d
  <1>4. CASE field = "heap"
    <2> DEFINE k == "nodestore"
               x == a.breakdown
               y == b.breakdown
    <2>1. k \in DOMAIN x /\ k \in DOMAIN y
      BY <1>4, LookupIsValue
    <2>2. x[k] \in Nat /\ y[k] \in Nat
      BY <2>1 DEF IsReading, ReadingsOf
    <2>3. DiffOf(d, field) = d.memory - IF k \in DOMAIN d.breakdown THEN d.breakdown[k] ELSE 0
      BY <1>4 DEF DiffOf
    <2>4. Value(a, field) = a.rss - x[k] /\ Value(b, field) = b.rss - y[k]
      BY <1>4 DEF Value
    <2> HIDE DEF k, x, y
    <2>5. (IF k \in DOMAIN Moved(x, y) THEN Moved(x, y)[k] ELSE 0) = y[k] - x[k]
      BY <2>1, <2>2, MovedBy
    <2>6. DiffOf(d, field) = (b.rss - a.rss) - (y[k] - x[k])
      BY <1>1, <2>3, <2>5 DEF x, y
    <2>7. QED
      BY <1>2, <2>2, <2>4, <2>6 DEF d
  <1>5. CASE field = "n"
    <2> DEFINE k == "n"
               x == a.counts
               y == b.counts
    <2>1. k \in DOMAIN x /\ k \in DOMAIN y
      BY <1>5, LookupIsValue
    <2>2. x[k] \in Nat /\ y[k] \in Nat
      BY <2>1 DEF IsReading, ReadingsOf
    <2>3. DiffOf(d, field) = IF k \in DOMAIN d.counts THEN d.counts[k] ELSE 0
      BY <1>5 DEF DiffOf
    <2>4. Value(a, field) = x[k] /\ Value(b, field) = y[k]
      BY <1>5 DEF Value
    <2> HIDE DEF k, x, y
    <2>5. (IF k \in DOMAIN Moved(x, y) THEN Moved(x, y)[k] ELSE 0) = y[k] - x[k]
      BY <2>1, <2>2, MovedBy
    <2>6. QED
      BY <1>1, <2>3, <2>4, <2>5 DEF x, y, d
  <1>6. QED
    BY <1>3, <1>4, <1>5 DEF Fields

\* A captured ledger is found, where it was captured (load_ledger_snapshots).
LEMMA LedgerIsFound ==
  ASSUME NEW log, IsCaptured(log), NEW i \in LedgerSnapshots(log)
  PROVE  LatestOf(log, log[i].ledger) = {i}
PROOF
  <1> DEFINE s == {j \in LedgerSnapshots(log) : log[j].ledger = log[i].ledger}
  <1>1. i \in Int /\ log[i].ledger \in Int /\ LedgerSnapshots(log) \subseteq Int
    BY CapturedAt
  <1>2. s = {i}
    <2>1. ASSUME NEW j \in s PROVE j = i
      <3>1. j \in Int /\ j \in LedgerSnapshots(log) /\ log[j].ledger = log[i].ledger
        BY <1>1
      <3>2. ~(j < i) /\ ~(i < j)
        BY <1>1, <3>1 DEF IsCaptured
      <3>3. QED
        BY <1>1, <3>1, <3>2
    <2>2. QED
      BY <2>1
  <1>3. s # {} /\ s \subseteq 0 .. i
    BY <1>2, CapturedAt
  <1>4. Max(s) \in s
    <2> DEFINE n == i
    <2> HIDE DEF s, n
    <2>1. n \in Nat /\ s \subseteq 0 .. n
      BY <1>3, CapturedAt DEF n
    <2>2. QED
      BY <1>3, <2>1, MaxIsLargest
  <1>5. Max(s) = i
    BY <1>2, <1>4
  <1>6. LatestOf(log, log[i].ledger) = IF s = {} THEN {} ELSE {Max(s)}
    BY DEF LatestOf
  <1>7. QED
    BY <1>3, <1>5, <1>6

\* So diff of two captured ledgers is that of their snapshots.
LEMMA DiffIsFound ==
  ASSUME NEW log, IsCaptured(log), NEW i \in LedgerSnapshots(log), NEW j \in LedgerSnapshots(log), i < j
  PROVE  DiffBetween(log[i], log[j]) \in RunDiff(log, log[i].ledger, log[j].ledger)
PROOF
  <1>1. log[i].ledger # log[j].ledger
    BY CapturedAt DEF IsCaptured
  <1> DEFINE from == log[i].ledger
             to == log[j].ledger
             found == LoadLedgerSnapshots(log, from, to)
  <1>2. LatestOf(log, from) = {i} /\ LatestOf(log, to) = {j}
    BY LedgerIsFound
  <1> HIDE DEF from, to
  <1>3. found.from = {i} /\ found.to = {j}
    BY <1>1, <1>2 DEF LoadLedgerSnapshots, from, to
  <1> HIDE DEF found
  <1>4. RunDiff(log, from, to) = {DiffBetween(log[x], log[y]) : x \in found.from, y \in found.to}
    BY DEF RunDiff, DiffBetween, found
  <1>5. QED
    BY <1>3, <1>4 DEF from, to

\* The ledger before a captured one.
LEMMA PreviousIsThere ==
  ASSUME NEW log, IsCaptured(log), NEW i \in LedgerSnapshots(log), NEW j \in LedgerSnapshots(log), i < j
  PROVE  \E p \in LedgerSnapshots(log) : i <= p /\ p < j /\ <<p, j>> \in Neighbours(LedgerSnapshots(log))
PROOF
  <1> DEFINE L == LedgerSnapshots(log)
             S == {k \in L : k < j}
             n == Len(log)
  <1>1. n \in Nat /\ L \subseteq 1 .. n
    BY CapturedAt
  <1>2. S \subseteq 0 .. n /\ i \in S
    BY <1>1
  <1>3. PICK p \in S : \A k \in S : k <= p
    <2> HIDE DEF S, n
    <2>1. QED
      BY <1>1, <1>2, LargestExists
  <1>4. p \in L /\ p < j /\ i <= p /\ ~ \E k \in L : p < k /\ k < j
    <2>1. p \in Int /\ \A k \in L : k \in Int
      BY <1>1, <1>3
    <2>2. QED
      BY <1>2, <1>3, <2>1
  <1> HIDE DEF L
  <1>5. <<p, j>> \in Neighbours(L)
    BY <1>4 DEF Neighbours, L
  <1>6. QED
    BY <1>4, <1>5 DEF L

\* Snapshots are in the order of their ledgers.
LEMMA LedgersInOrder ==
  ASSUME NEW log, IsCaptured(log), NEW a \in LedgerSnapshots(log), NEW b \in LedgerSnapshots(log)
  PROVE  log[a].ledger <= log[b].ledger <=> a <= b
PROOF
  <1>1. a \in Int /\ b \in Int /\ log[a].ledger \in Int /\ log[b].ledger \in Int
    BY CapturedAt
  <1>2. (a < b => log[a].ledger < log[b].ledger) /\ (b < a => log[b].ledger < log[a].ledger)
    BY DEF IsCaptured
  <1>3. QED
    BY <1>1, <1>2

MoveOf(log, a, b, field) ==
  [from |-> log[a].ledger, to |-> log[b].ledger, delta |-> Delta(log[a], log[b], field)]

\* A move between neighbours through a ledger.
IsMove(log, i, x, field, m) ==
  \E a, b \in LedgerSnapshots(log) :
    /\ <<a, b>> \in Consecutive(log, field) /\ m = MoveOf(log, a, b, field)
    /\ m.delta # 0 /\ i <= a /\ b <= x

\* What find reports through a ledger (find_delta_matches).
LEMMA MoveIsReported ==
  ASSUME NEW log, IsCaptured(log), NEW i \in LedgerSnapshots(log), NEW x \in LedgerSnapshots(log),
         NEW field, NEW m
  PROVE  m \in MovesOf(log, i, x, field) <=> IsMove(log, i, x, field, m)
PROOF
  <1> DEFINE L == LedgerSnapshots(log)
             C == Consecutive(log, field)
  <1>1. \A d : Compare("!=", d, 0) <=> d # 0
    BY DEF Compare
  <1>2. \A q \in C : \E a, b \in L : q = <<a, b>>
    BY DEF Consecutive, Neighbours
  <1>3. m \in FindDeltaMatches(log, field, "!=", 0) <=>
          \E q \in C : /\ Delta(log[q[1]], log[q[2]], field) # 0
                       /\ m = MoveOf(log, q[1], q[2], field)
    BY <1>1 DEF FindDeltaMatches, MoveOf
  <1> HIDE DEF C, L
  <1>4. m \in FindDeltaMatches(log, field, "!=", 0) <=>
          \E a, b \in L : /\ <<a, b>> \in C /\ Delta(log[a], log[b], field) # 0
                          /\ m = MoveOf(log, a, b, field)
    <2>1. \A a, b : <<a, b>>[1] = a /\ <<a, b>>[2] = b
      OBVIOUS
    <2>2. ASSUME NEW q \in C, Delta(log[q[1]], log[q[2]], field) # 0, m = MoveOf(log, q[1], q[2], field)
          PROVE  \E a, b \in L : /\ <<a, b>> \in C /\ Delta(log[a], log[b], field) # 0
                                 /\ m = MoveOf(log, a, b, field)
      <3>1. PICK a, b \in L : q = <<a, b>>
        BY <1>2
      <3>2. q[1] = a /\ q[2] = b
        BY <3>1
      <3>3. QED
        BY <2>2, <3>1, <3>2
    <2>3. ASSUME NEW a \in L, NEW b \in L, <<a, b>> \in C, Delta(log[a], log[b], field) # 0,
                 m = MoveOf(log, a, b, field)
          PROVE  \E q \in C : Delta(log[q[1]], log[q[2]], field) # 0 /\ m = MoveOf(log, q[1], q[2], field)
      <3> DEFINE q == <<a, b>>
      <3>1. q[1] = a /\ q[2] = b
        OBVIOUS
      <3> HIDE DEF q
      <3>2. q \in C /\ Delta(log[q[1]], log[q[2]], field) # 0 /\ m = MoveOf(log, q[1], q[2], field)
        BY <2>3, <3>1 DEF q
      <3>3. QED
        BY <3>2
    <2>4. QED
      BY <1>3, <2>2, <2>3
  <1>5. \A a, b \in L : /\ MoveOf(log, a, b, field).from >= log[i].ledger <=> i <= a
                        /\ MoveOf(log, a, b, field).to <= log[x].ledger <=> b <= x
    <2> SUFFICES ASSUME NEW a \in L, NEW b \in L
                 PROVE  /\ log[a].ledger >= log[i].ledger <=> i <= a
                        /\ log[b].ledger <= log[x].ledger <=> b <= x
      BY DEF MoveOf
    <2>1. log[i].ledger \in Int /\ log[a].ledger \in Int
      BY CapturedAt DEF L
    <2>2. (log[i].ledger <= log[a].ledger <=> i <= a) /\ (log[b].ledger <= log[x].ledger <=> b <= x)
      BY LedgersInOrder DEF L
    <2>3. QED
      BY <2>1, <2>2
  <1>6. \A a, b \in L : MoveOf(log, a, b, field).delta = Delta(log[a], log[b], field)
    BY DEF MoveOf
  <1>7. m \in MovesOf(log, i, x, field) <=>
          /\ m \in FindDeltaMatches(log, field, "!=", 0)
          /\ m.from >= log[i].ledger /\ m.to <= log[x].ledger
    BY DEF MovesOf
  <1>8. QED
    BY <1>4, <1>5, <1>6, <1>7 DEF C, L, IsMove

\* A ledger more is a report more, unless the field did not move.
LEMMA MovesGrow ==
  ASSUME NEW log, IsCaptured(log), NEW i \in LedgerSnapshots(log), NEW p \in LedgerSnapshots(log),
         NEW j \in LedgerSnapshots(log), i <= p, p < j, <<p, j>> \in Neighbours(LedgerSnapshots(log)),
         NEW field, ~Lacks(log[p], field), ~Lacks(log[j], field)
  PROVE  LET new == MoveOf(log, p, j, field)
         IN /\ MovesOf(log, i, j, field)
               = IF new.delta = 0 THEN MovesOf(log, i, p, field) ELSE MovesOf(log, i, p, field) \cup {new}
            /\ new \notin MovesOf(log, i, p, field)
PROOF
  <1> DEFINE L == LedgerSnapshots(log)
             C == Consecutive(log, field)
             new == MoveOf(log, p, j, field)
             was == MovesOf(log, i, p, field)
             is == MovesOf(log, i, j, field)
             Reported(m, x) == \E a, b \in L : /\ <<a, b>> \in C /\ m = MoveOf(log, a, b, field)
                                               /\ m.delta # 0 /\ i <= a /\ b <= x
  <1>1. \A a, b \in L : <<a, b>> \in C => a < b /\ ~ \E k \in L : a < k /\ k < b
    BY DEF Consecutive, Neighbours
  <1>2. <<p, j>> \in C
    <2> DEFINE q == <<p, j>>
    <2>1. q[1] = p /\ q[2] = j
      OBVIOUS
    <2> HIDE DEF q
    <2>2. q \in Neighbours(L)
      BY DEF q
    <2>3. q \in C
      BY <2>1, <2>2 DEF Consecutive, Lacks
    <2>4. QED
      BY <2>3 DEF q
  <1>3. ~ \E k \in L : p < k /\ k < j
    BY DEF Neighbours
  <1>4. \A m : m \in was <=> Reported(m, p)
    <2>1. \A m : m \in was <=> IsMove(log, i, p, field, m)
      BY MoveIsReported
    <2>2. \A m : IsMove(log, i, p, field, m) <=> Reported(m, p)
      BY DEF IsMove
    <2>3. QED
      BY <2>1, <2>2
  <1>5. \A m : m \in is <=> Reported(m, j)
    <2>1. \A m : m \in is <=> IsMove(log, i, j, field, m)
      BY MoveIsReported
    <2>2. \A m : IsMove(log, i, j, field, m) <=> Reported(m, j)
      BY DEF IsMove
    <2>3. QED
      BY <2>1, <2>2
  <1>6. L \subseteq Int
    BY CapturedAt
  <1> HIDE DEF L, C
  <1>7. ASSUME NEW a \in L, NEW b \in L, <<a, b>> \in C, b <= j PROVE b <= p \/ (a = p /\ b = j)
    <2>1. a \in Int /\ b \in Int /\ p \in Int /\ j \in Int /\ p \in L /\ a < b
      BY <1>1, <1>6, <1>7 DEF L
    <2>2. b <= p \/ b = j
      BY <1>3, <1>7, <2>1
    <2>3. b = j => a = p
      BY <1>1, <1>3, <1>7, <2>1
    <2>4. QED
      BY <2>2, <2>3
  <1>8. \A a, b \in L : b <= p => b <= j
    BY <1>6 DEF L
  <1>9. new \notin was
    <2> SUFFICES ASSUME new \in was PROVE FALSE
      OBVIOUS
    <2>1. PICK a, b \in L : new = MoveOf(log, a, b, field) /\ b <= p
      BY <1>4
    <2>2. log[b].ledger = log[j].ledger
      BY <2>1 DEF MoveOf
    <2>3. log[j].ledger <= log[b].ledger
      BY <2>2, CapturedAt DEF L
    <2>4. j <= b
      BY <2>3, LedgersInOrder DEF L
    <2>5. QED
      BY <1>6, <2>1, <2>4 DEF L
  <1>10. \A m : Reported(m, j) <=> Reported(m, p) \/ (m = new /\ new.delta # 0)
    <2> SUFFICES ASSUME NEW m PROVE Reported(m, j) <=> Reported(m, p) \/ (m = new /\ new.delta # 0)
      OBVIOUS
    <2>1. ASSUME Reported(m, j) PROVE Reported(m, p) \/ (m = new /\ new.delta # 0)
      <3>1. PICK a, b \in L : /\ <<a, b>> \in C /\ m = MoveOf(log, a, b, field)
                              /\ m.delta # 0 /\ i <= a /\ b <= j
        BY <2>1
      <3> HIDE DEF new
      <3>2. b <= p \/ (a = p /\ b = j)
        BY <1>7, <3>1
      <3>3. QED
        BY <3>1, <3>2 DEF new
    <2>2. ASSUME Reported(m, p) PROVE Reported(m, j)
      BY <1>8, <2>2
    <2>3. ASSUME m = new, new.delta # 0 PROVE Reported(m, j)
      <3>1. p \in L /\ j \in L /\ j <= j
        BY <1>6 DEF L
      <3> HIDE DEF new
      <3>2. new = MoveOf(log, p, j, field)
        BY DEF new
      <3>3. QED
        BY <1>2, <2>3, <3>1, <3>2
    <2>4. QED
      BY <2>1, <2>2, <2>3
  <1> HIDE DEF new, Reported, was, is
  <1>11. is = IF new.delta = 0 THEN was ELSE was \cup {new}
    <2>1. \A m : m \in is <=> m \in was \/ (m = new /\ new.delta # 0)
      BY <1>4, <1>5, <1>10
    <2>2. QED
      BY <2>1
  <1>12. QED
    BY <1>9, <1>11 DEF new, was, is

\* The moves through a ledger come to what the field moved by.
AddedUp(log, i, j, field) ==
  LET moves == MovesOf(log, i, j, field)
  IN /\ IsFiniteSet(moves) /\ \A m \in moves : m.delta \in Int
     /\ Total([m \in moves |-> m.delta]) = Value(log[j], field) - Value(log[i], field)

\* Through one ledger there is no move.
LEMMA NoMoveAddsUp ==
  ASSUME NEW log, IsCaptured(log), NEW i \in LedgerSnapshots(log), NEW field \in Fields,
         ~Lacks(log[i], field)
  PROVE  AddedUp(log, i, i, field)
PROOF
  <1> DEFINE moves == MovesOf(log, i, i, field)
             v == Value(log[i], field)
  <1>1. moves = {}
    <2> SUFFICES ASSUME NEW m \in moves PROVE FALSE
      OBVIOUS
    <2>1. IsMove(log, i, i, field, m)
      BY MoveIsReported
    <2>2. PICK a, b \in LedgerSnapshots(log) : <<a, b>> \in Consecutive(log, field) /\ i <= a /\ b <= i
      BY <2>1 DEF IsMove
    <2>3. a < b
      BY <2>2 DEF Consecutive, Neighbours
    <2>4. a \in Int /\ b \in Int /\ i \in Int
      BY CapturedAt
    <2>5. QED
      BY <2>2, <2>3, <2>4
  <1>2. v \in Int
    BY CapturedAt, LookupIsValue DEF IsCaptured
  <1> HIDE DEF moves, v
  <1>3. Total([m \in moves |-> m.delta]) = 0
    <2> DEFINE f == [m \in moves |-> m.delta]
    <2>1. DOMAIN f = {}
      BY <1>1
    <2> HIDE DEF f
    <2>2. IsFiniteSet(DOMAIN f)
      BY <2>1, FS_EmptySet
    <2>3. \A m \in DOMAIN f : f[m] = 0
      BY <2>1
    <2>4. Total(f) = 0
      BY <2>2, <2>3, TotalOfNothing
    <2>5. QED
      BY <2>4 DEF f
  <1>4. IsFiniteSet(moves)
    BY <1>1, FS_EmptySet
  <1>5. v - v = 0
    BY <1>2
  <1>6. QED
    BY <1>1, <1>3, <1>4, <1>5 DEF AddedUp, moves, v

\* And through one ledger more the moves come to what it moved by there too.
LEMMA MoveAddsUp ==
  ASSUME NEW log, IsCaptured(log), NEW i \in LedgerSnapshots(log), NEW p \in LedgerSnapshots(log),
         NEW j \in LedgerSnapshots(log), i <= p, p < j, <<p, j>> \in Neighbours(LedgerSnapshots(log)),
         NEW field \in Fields, ~Lacks(log[i], field), ~Lacks(log[p], field), ~Lacks(log[j], field),
         AddedUp(log, i, p, field)
  PROVE  AddedUp(log, i, j, field)
PROOF
  <1> DEFINE was == MovesOf(log, i, p, field)
             is == MovesOf(log, i, j, field)
             new == MoveOf(log, p, j, field)
             f == [m \in was |-> m.delta]
             g == [m \in is |-> m.delta]
             u == Value(log[i], field)
             v == Value(log[p], field)
             w == Value(log[j], field)
  <1>1. IsReading(log[i]) /\ IsReading(log[p]) /\ IsReading(log[j])
    BY CapturedAt DEF IsCaptured
  <1>2. new.delta = w - v /\ u \in Int /\ v \in Int /\ w \in Int
    BY <1>1, DeltaIsDifference DEF MoveOf
  <1>3. /\ is = IF new.delta = 0 THEN was ELSE was \cup {new}
        /\ new \notin was
    BY MovesGrow
  <1>4. IsFiniteSet(was) /\ (\A m \in was : m.delta \in Int) /\ Total(f) = v - u
    BY DEF AddedUp
  <1>5. DOMAIN f = was /\ DOMAIN g = is /\ (\A m \in was : f[m] = m.delta) /\ \A m \in is : g[m] = m.delta
    OBVIOUS
  <1> HIDE DEF was, is, new, u, v, w
  <1>6. CASE new.delta = 0
    <2>1. is = was /\ w = v
      BY <1>2, <1>3, <1>6
    <2>2. QED
      BY <1>4, <2>1 DEF AddedUp, was, is, u, v, w
  <1>7. CASE new.delta # 0
    <2>1. is = was \cup {new} /\ new \notin was
      BY <1>3, <1>7
    <2>2. new.delta \in Int
      BY <1>2
    <2>3. \A m \in is : m.delta \in Int
      BY <1>4, <2>1, <2>2
    <2>4. IsFiniteSet(is)
      BY <1>4, <2>1, FS_AddElement
    <2> HIDE DEF f, g
    <2>5. /\ DOMAIN g = DOMAIN f \cup {new} /\ new \notin DOMAIN f /\ g[new] = new.delta
          /\ \A m \in DOMAIN f : g[m] = f[m] /\ f[m] \in Int
      BY <1>4, <1>5, <2>1
    <2>6. Total(g) = Total(f) + g[new]
      <3>1. IsFiniteSet(DOMAIN f)
        BY <1>4, <1>5
      <3>2. g[new] \in Int
        BY <2>2, <2>5
      <3>3. QED
        BY <2>5, <3>1, <3>2, TotalOfMore
    <2>7. Total(g) = w - u
      BY <1>2, <1>4, <2>5, <2>6
    <2>8. QED
      BY <2>3, <2>4, <2>7 DEF AddedUp, g, is, u, w
  <1>8. QED
    BY <1>6, <1>7

\* Induction over the captured ledgers, from one of them on.
LEMMA LedgersAreInductive ==
  ASSUME NEW log, IsCaptured(log), NEW i \in LedgerSnapshots(log), NEW P, i \in P,
         \A p, j \in LedgerSnapshots(log) :
           i <= p /\ p < j /\ <<p, j>> \in Neighbours(LedgerSnapshots(log)) /\ p \in P => j \in P
  PROVE  \A j \in LedgerSnapshots(log) : i <= j => j \in P
PROOF
  <1> DEFINE L == LedgerSnapshots(log)
             T == {n \in Nat : \A x \in L : i <= x /\ x <= n => x \in P}
  <1>1. L \subseteq Nat \ {0}
    BY CapturedAt
  <1>2. 0 \in T
    BY <1>1
  <1>3. ASSUME NEW n \in Nat, n \in T PROVE n + 1 \in T
    <2> SUFFICES ASSUME NEW x \in L, i <= x, x <= n + 1 PROVE x \in P
      OBVIOUS
    <2>1. i \in Int /\ x \in Int
      BY <1>1
    <2>2. CASE i = x
      BY <2>2
    <2>3. CASE i # x
      <3>1. i < x
        BY <2>1, <2>3
      <3>2. PICK p \in L : i <= p /\ p < x /\ <<p, x>> \in Neighbours(L)
        BY <3>1, PreviousIsThere
      <3>3. p <= n
        BY <1>1, <2>1, <3>2
      <3>4. p \in P
        BY <1>3, <3>2, <3>3
      <3>5. QED
        BY <3>2, <3>4
    <2>4. QED
      BY <2>2, <2>3
  <1>4. SUFFICES ASSUME NEW j \in L, i <= j PROVE j \in P
    OBVIOUS
  <1>5. j \in Nat /\ j <= j
    BY <1>1
  <1> HIDE DEF T
  <1>6. j \in T
    BY <1>2, <1>3, <1>5, NatIsInductive
  <1>7. QED
    BY <1>4, <1>5, <1>6 DEF T

\* A ledger more is the one that is added to those through which a sum goes.
LEMMA ThroughGrows ==
  ASSUME NEW log, IsCaptured(log), NEW i \in LedgerSnapshots(log), NEW p \in LedgerSnapshots(log),
         NEW j \in LedgerSnapshots(log), i <= p, p < j, <<p, j>> \in Neighbours(LedgerSnapshots(log))
  PROVE  /\ Through(log, i, j) = Through(log, i, p) \cup {j}
         /\ j \notin Through(log, i, p) /\ j # i /\ {i, p} \subseteq Through(log, i, p)
PROOF
  <1> DEFINE L == LedgerSnapshots(log)
  <1>1. L \subseteq Int
    BY CapturedAt
  <1>2. ~ \E k \in L : p < k /\ k < j
    <2> DEFINE q == <<p, j>>
    <2>1. q[1] = p /\ q[2] = j
      OBVIOUS
    <2> HIDE DEF q
    <2>2. q \in Neighbours(L)
      BY DEF q
    <2>3. QED
      BY <2>1, <2>2 DEF Neighbours
  <1>3. i \in Int /\ p \in Int /\ j \in Int
    BY <1>1
  <1>4. \A k \in L : k <= j <=> k <= p \/ k = j
    BY <1>1, <1>2, <1>3
  <1>5. i <= j /\ ~(j <= p) /\ j # i /\ i <= i /\ p <= p
    BY <1>3
  <1>6. QED
    BY <1>4, <1>5 DEF Through

\* However many ledgers are in between.
LEMMA MovesAddUp ==
  ASSUME NEW log, IsCaptured(log), NEW i \in LedgerSnapshots(log), NEW j \in LedgerSnapshots(log),
         i <= j, NEW field \in Fields, \A k \in Through(log, i, j) : ~Lacks(log[k], field)
  PROVE  AddedUp(log, i, j, field)
PROOF
  <1> DEFINE L == LedgerSnapshots(log)
             Has(x) == \A k \in Through(log, i, x) : ~Lacks(log[k], field)
             P == {x \in L : Has(x) => AddedUp(log, i, x, field)}
  <1>1. i \in P
    <2>1. i \in Through(log, i, i)
      BY CapturedAt DEF Through
    <2>2. QED
      BY <2>1, NoMoveAddsUp
  <1>2. ASSUME NEW p \in L, NEW x \in L, i <= p, p < x, <<p, x>> \in Neighbours(L), p \in P
        PROVE  x \in P
    <2> SUFFICES ASSUME Has(x) PROVE AddedUp(log, i, x, field)
      OBVIOUS
    <2>1. Through(log, i, x) = Through(log, i, p) \cup {x} /\ {i, p} \subseteq Through(log, i, p)
      BY <1>2, ThroughGrows
    <2>2. Has(p) /\ ~Lacks(log[i], field) /\ ~Lacks(log[p], field) /\ ~Lacks(log[x], field)
      BY <2>1
    <2>3. AddedUp(log, i, p, field)
      BY <1>2, <2>2
    <2>4. QED
      BY <1>2, <2>2, <2>3, MoveAddsUp
  <1> HIDE DEF P
  <1>3. j \in P
    BY <1>1, <1>2, LedgersAreInductive
  <1>4. QED
    BY <1>3 DEF P

TxThrough(log, i, j) == [k \in Through(log, i, j) \ {i} |-> log[k].tx]

\* The transactions of the ledgers in between are among those counted.
LEMMA TxsAreCounted ==
  ASSUME NEW log, IsCaptured(log), NEW i \in LedgerSnapshots(log), NEW j \in LedgerSnapshots(log),
         i <= j
  PROVE  /\ Total(TxThrough(log, i, j)) \in Nat
         /\ log[i].cum + Total(TxThrough(log, i, j)) <= log[j].cum
PROOF
  <1> DEFINE L == LedgerSnapshots(log)
             Counted(x) == /\ IsFiniteSet(DOMAIN TxThrough(log, i, x))
                           /\ \A k \in DOMAIN TxThrough(log, i, x) : TxThrough(log, i, x)[k] \in Nat
                           /\ Total(TxThrough(log, i, x)) \in Nat
                           /\ log[i].cum + Total(TxThrough(log, i, x)) <= log[x].cum
             P == {x \in L : Counted(x)}
  <1>1. \A k \in L : k \in Int /\ k \in Snapshots(log) /\ log[k].cum \in Nat /\ log[k].tx \in Nat
    BY CapturedAt DEF IsCaptured, IsReading
  <1>2. i \in P
    <2> DEFINE f == TxThrough(log, i, i)
    <2>1. \A k \in L : i <= k /\ k <= i => k = i
      BY <1>1
    <2>2. DOMAIN f = {}
      BY <2>1 DEF TxThrough, Through
    <2> HIDE DEF f
    <2>3. IsFiniteSet(DOMAIN f) /\ \A k \in DOMAIN f : f[k] = 0
      BY <2>2, FS_EmptySet
    <2>4. Total(f) = 0
      BY <2>3, TotalOfNothing
    <2>5. log[i].cum + 0 <= log[i].cum
      BY <1>1
    <2>6. QED
      BY <2>2, <2>3, <2>4, <2>5 DEF f
  <1>3. ASSUME NEW p \in L, NEW x \in L, i <= p, p < x, <<p, x>> \in Neighbours(L), p \in P
        PROVE  x \in P
    <2> DEFINE f == TxThrough(log, i, p)
               g == TxThrough(log, i, x)
    <2>1. /\ Through(log, i, x) = Through(log, i, p) \cup {x}
          /\ x \notin Through(log, i, p) /\ x # i
      BY <1>3, ThroughGrows
    <2>2. /\ DOMAIN g = DOMAIN f \cup {x} /\ x \notin DOMAIN f /\ g[x] = log[x].tx
          /\ \A k \in DOMAIN f : g[k] = f[k]
      BY <2>1 DEF TxThrough
    <2>3. /\ IsFiniteSet(DOMAIN f) /\ \A k \in DOMAIN f : f[k] \in Nat
          /\ Total(f) \in Nat /\ log[i].cum + Total(f) <= log[p].cum
      BY <1>3
    <2> HIDE DEF f, g, P
    <2>4. g[x] \in Int /\ g[x] \in Nat /\ \A k \in DOMAIN f : f[k] \in Int
      BY <1>1, <2>2, <2>3
    <2>5. Total(g) = Total(f) + g[x]
      BY <2>2, <2>3, <2>4, TotalOfMore
    <2>6. IsFiniteSet(DOMAIN g)
      BY <2>2, <2>3, FS_AddElement
    <2>7. \A k \in DOMAIN g : g[k] \in Nat
      BY <2>2, <2>3, <2>4
    <2>8. log[p].cum + g[x] <= log[x].cum
      BY <1>1, <1>3, <2>2 DEF IsCaptured
    <2>9. Total(g) \in Nat /\ log[i].cum + Total(g) <= log[x].cum
      <3>1. log[p].cum \in Nat /\ log[x].cum \in Nat /\ log[i].cum \in Nat
        BY <1>1
      <3>2. QED
        BY <2>3, <2>4, <2>5, <2>8, <3>1
    <2>10. QED
      BY <2>6, <2>7, <2>9 DEF P, g
  <1> HIDE DEF P
  <1>4. j \in P
    BY <1>2, <1>3, LedgersAreInductive
  <1>5. QED
    BY <1>4 DEF P

-------------------------------------------------------------------------------
(* The first and the last snapshot of the summary *)

SummaryFields == {"current", "sessions", "first", "last"}

\* Only snapshots touch them.
LEMMA SummaryEnds ==
  ASSUME NEW s, SummaryFields \subseteq DOMAIN s, NEW e
  PROVE  LET r == SummaryOf(s, e)
         IN /\ DOMAIN r = DOMAIN s
            /\ e.kind # "snapshot" => r.first = s.first /\ r.last = s.last
            /\ e.kind = "snapshot" =>
                 r.first = (IF s.first = <<>> THEN <<e>> ELSE s.first) /\ r.last = <<e>>
PROOF
  <1> DEFINE r == SummaryOf(s, e)
  <1>1. CASE e.kind = "start"
    <2>1. \E f : r = [s EXCEPT !.current = e.n, !.sessions = f]
      BY <1>1 DEF SummaryOf
    <2> HIDE DEF r
    <2>2. PICK f : r = [s EXCEPT !.current = e.n, !.sessions = f]
      BY <2>1
    <2>3. QED
      BY <1>1, <2>2 DEF SummaryFields, r
  <1>2. CASE e.kind = "end" /\ s.current # None
    <2>1. \E f : r = [s EXCEPT !.current = None, !.sessions = f]
      BY <1>2 DEF SummaryOf
    <2> HIDE DEF r
    <2>2. PICK f : r = [s EXCEPT !.current = None, !.sessions = f]
      BY <2>1
    <2>3. QED
      BY <1>2, <2>2 DEF SummaryFields, r
  <1>3. CASE e.kind = "snapshot"
    <2> DEFINE a == IF s.first = <<>> THEN <<e>> ELSE s.first
    <2>1. \E f : r = [s EXCEPT !.first = a, !.last = <<e>>, !.sessions = f]
      BY <1>3 DEF SummaryOf
    <2> HIDE DEF r, a
    <2>2. PICK f : r = [s EXCEPT !.first = a, !.last = <<e>>, !.sessions = f]
      BY <2>1
    <2>3. r.first = a /\ r.last = <<e>> /\ DOMAIN r = DOMAIN s
      BY <2>2 DEF SummaryFields
    <2>4. QED
      BY <1>3, <2>3 DEF r, a
  <1>4. CASE e.kind \notin {"start", "snapshot"} /\ ~(e.kind = "end" /\ s.current # None)
    <2>1. r = s
      BY <1>4 DEF SummaryOf
    <2> HIDE DEF r
    <2>2. QED
      BY <1>4, <2>1 DEF r
  <1>5. QED
    BY <1>1, <1>2, <1>3, <1>4

\* What the summary has for them behind an event.
EndsUpTo(log, k, s) ==
  LET S == {j \in Snapshots(log) : j <= k}
  IN /\ SummaryFields \subseteq DOMAIN s
     /\ S = {} => s.first = <<>>
     /\ S # {} => \E a, b \in S : /\ \A x \in S : a <= x /\ x <= b
                                  /\ s.first = <<log[a]>> /\ s.last = <<log[b]>>

\* An event more is the last, and the first where there was none.
LEMMA EventKeepsEnds ==
  ASSUME NEW log, IsCaptured(log), NEW k \in Nat, k + 1 \in DOMAIN log, NEW s, EndsUpTo(log, k, s)
  PROVE  EndsUpTo(log, k + 1, SummaryOf(s, log[k + 1]))
PROOF
  <1> DEFINE S == {j \in Snapshots(log) : j <= k}
             R == {j \in Snapshots(log) : j <= k + 1}
             e == log[k + 1]
             r == SummaryOf(s, e)
             m == k + 1
  <1>1. m \in Nat /\ \A j \in Snapshots(log) : j \in Int /\ (j <= m <=> j <= k \/ j = m)
    BY CapturedAt
  <1>2. /\ SummaryFields \subseteq DOMAIN s
        /\ S = {} => s.first = <<>>
        /\ S # {} => \E a, b \in S : /\ \A x \in S : a <= x /\ x <= b
                                     /\ s.first = <<log[a]>> /\ s.last = <<log[b]>>
    BY DEF EndsUpTo
  <1>3. /\ DOMAIN r = DOMAIN s
        /\ e.kind # "snapshot" => r.first = s.first /\ r.last = s.last
        /\ e.kind = "snapshot" =>
             r.first = (IF s.first = <<>> THEN <<e>> ELSE s.first) /\ r.last = <<e>>
    BY <1>2, SummaryEnds
  <1>4. \A x \in S : x \in Int /\ x <= m /\ x < m
    BY <1>1
  <1>5. e.kind = "snapshot" <=> m \in Snapshots(log)
    BY DEF Snapshots
  <1>6. R = IF e.kind = "snapshot" THEN S \cup {m} ELSE S
    BY <1>1, <1>5
  <1>7. e = log[m]
    OBVIOUS
  <1> HIDE DEF r, e, m, S, R
  <1>8. CASE e.kind # "snapshot"
    <2>1. R = S
      BY <1>6, <1>8
    <2>2. QED
      BY <1>2, <1>3, <1>8, <2>1 DEF EndsUpTo, R, m, r, e
  <1>9. CASE e.kind = "snapshot" /\ S = {}
    <2>1. R = {m} /\ r.first = <<log[m]>> /\ r.last = <<log[m]>> /\ m <= m
      BY <1>1, <1>2, <1>3, <1>6, <1>7, <1>9
    <2>2. \E a, b \in R : /\ \A x \in R : a <= x /\ x <= b
                          /\ r.first = <<log[a]>> /\ r.last = <<log[b]>>
      BY <2>1
    <2>3. QED
      BY <1>2, <1>3, <2>1, <2>2 DEF EndsUpTo, R, m, r, e
  <1>10. CASE e.kind = "snapshot" /\ S # {}
    <2>1. PICK a, b \in S : /\ \A x \in S : a <= x /\ x <= b
                            /\ s.first = <<log[a]>>
      BY <1>2, <1>10
    <2>2. R = S \cup {m} /\ r.first = <<log[a]>> /\ r.last = <<log[m]>>
      BY <1>3, <1>6, <1>7, <1>10, <2>1
    <2>3. \A x \in R : a <= x /\ x <= m
      BY <1>1, <1>4, <2>1, <2>2
    <2>4. a \in R /\ m \in R /\ R # {}
      BY <2>2
    <2>5. \E c, d \in R : /\ \A x \in R : c <= x /\ x <= d
                          /\ r.first = <<log[c]>> /\ r.last = <<log[d]>>
      BY <2>2, <2>3, <2>4
    <2>6. QED
      BY <1>2, <1>3, <2>4, <2>5 DEF EndsUpTo, R, m, r, e
  <1>11. QED
    BY <1>8, <1>9, <1>10

Ending == INSTANCE FoldLaws WITH Op <- SummaryOf, Keeps <- EndsUpTo

\* The summary has the first and the last snapshot of the log.
LEMMA SummaryHasEnds ==
  ASSUME NEW log, IsCaptured(log), Snapshots(log) # {}
  PROVE  LET s == Summary(log)
             i == Min(Snapshots(log))
             j == Max(Snapshots(log))
         IN /\ i \in Snapshots(log) /\ j \in Snapshots(log)
            /\ s.first = <<log[i]>> /\ s.last = <<log[j]>>
PROOF
  <1> DEFINE n == Len(log)
             s == NoSummary
             D == Snapshots(log)
  <1>1. n \in Nat /\ DOMAIN log = 1 .. n /\ D \subseteq 1 .. n
    BY CapturedAt
  <1>2. EndsUpTo(log, 0, s)
    <2>1. s.first = <<>> /\ SummaryFields \subseteq DOMAIN s
      BY DEF NoSummary, SummaryFields
    <2> HIDE DEF s
    <2>2. {j \in D : j <= 0} = {}
      BY <1>1
    <2>3. QED
      BY <2>1, <2>2 DEF EndsUpTo
  <1>3. \A i \in 1 .. n : \A y : EndsUpTo(log, i - 1, y) => EndsUpTo(log, i, SummaryOf(y, log[i]))
    <2> SUFFICES ASSUME NEW i \in 1 .. n, NEW y, EndsUpTo(log, i - 1, y)
                 PROVE  EndsUpTo(log, i, SummaryOf(y, log[i]))
      OBVIOUS
    <2> DEFINE k == i - 1
    <2>1. k \in Nat /\ k + 1 = i
      BY <1>1
    <2>2. EndsUpTo(log, k, y) /\ k + 1 \in DOMAIN log
      BY <1>1, <2>1
    <2> HIDE DEF k
    <2>3. EndsUpTo(log, k + 1, SummaryOf(y, log[k + 1]))
      BY <2>1, <2>2, EventKeepsEnds
    <2>4. QED
      BY <2>1, <2>3
  <1>4. PICK S : log \in Seq(S)
    BY DEF IsCaptured
  <1>5. EndsUpTo(log, n, Ending!Folded(NoSummary, log))
    BY <1>2, <1>3, <1>4, Ending!FoldKeeps
  <1>6. Summary(log) = Ending!Folded(NoSummary, log)
    BY DEF Summary, Ending!Folded, FoldLeft, Ending!FoldLeft, MapThenFoldSet, Ending!MapThenFoldSet,
           Max, Ending!Max
  <1> DEFINE r == Summary(log)
  <1> HIDE DEF s, r, D
  <1>7. EndsUpTo(log, n, r)
    BY <1>5, <1>6 DEF r
  <1>8. {j \in D : j <= n} = D
    <2>1. \A j \in D : j <= n
      BY <1>1
    <2>2. QED
      BY <2>1
  <1>9. PICK a, b \in D : /\ \A x \in D : a <= x /\ x <= b
                          /\ r.first = <<log[a]>> /\ r.last = <<log[b]>>
    BY <1>7, <1>8 DEF EndsUpTo, D
  <1>10. Min(D) = a /\ Max(D) = b
    <2>1. D \in SUBSET Nat /\ D \subseteq 0 .. n /\ D # {}
      BY <1>1, <1>9
    <2>2. Min(D) = a
      BY <1>9, <2>1, MinIsSmallest
    <2> DEFINE hi == Max(D)
    <2>3. hi \in D /\ \A x \in D : x <= hi
      <3> HIDE DEF n
      <3>1. n \in Nat /\ D \subseteq 0 .. n
        BY <1>1, <2>1 DEF n
      <3>2. QED
        BY <2>1, <3>1, MaxIsLargest
    <2> HIDE DEF hi
    <2>4. hi \in Int /\ b \in Int /\ hi <= b /\ b <= hi
      BY <1>9, <2>1, <2>3
    <2>5. hi = b
      BY <2>4
    <2>6. QED
      BY <2>2, <2>5 DEF hi
  <1>11. QED
    BY <1>9, <1>10 DEF r, D

\* For every log of snapshots in the order of their ledgers, what find reports between
\* two captured ledgers adds up to what diff says of them, for every field that each
\* ledger between them has, diff counts at least the transactions recorded in between,
\* and from the first to the last snapshot the summary says the same
\* (find_delta_matches, run_diff, build_and_render_summary).
THEOREM DeltasAddUp ==
  ASSUME NEW log, IsCaptured(log), NEW i \in LedgerSnapshots(log), NEW j \in LedgerSnapshots(log), i < j
  PROVE  DiffIsSum(log, i, j)
PROOF
  <1> DEFINE d == DiffBetween(log[i], log[j])
             D == Snapshots(log)
             s == Summary(log)
  <1>1. /\ i \in Int /\ j \in Int /\ i \in D /\ j \in D
        /\ IsReading(log[i]) /\ IsReading(log[j])
    BY CapturedAt DEF IsCaptured
  <1>2. i <= j
    BY <1>1
  <1>3. d \in RunDiff(log, log[i].ledger, log[j].ledger)
    BY DiffIsFound
  <1>4. d.header.txns = log[j].cum - log[i].cum /\ d.memory = log[j].rss - log[i].rss
    BY DEF DiffBetween, DiffHeader, DiffMemory
  <1>5. ASSUME NEW field \in Fields, \A k \in Through(log, i, j) : Lookup(log[k], field) # {}
        PROVE  Total([m \in MovesOf(log, i, j, field) |-> m.delta]) = DiffOf(d, field)
    <2>1. AddedUp(log, i, j, field)
      BY <1>2, <1>5, MovesAddUp DEF Lacks
    <2>2. i \in Through(log, i, j) /\ j \in Through(log, i, j)
      BY <1>1, <1>2 DEF Through
    <2>3. ~Lacks(log[i], field) /\ ~Lacks(log[j], field)
      BY <1>5, <2>2 DEF Lacks
    <2>4. DiffOf(d, field) = Value(log[j], field) - Value(log[i], field)
      BY <1>1, <2>3, DiffIsDifference
    <2>5. Total([m \in MovesOf(log, i, j, field) |-> m.delta]) = Value(log[j], field) - Value(log[i], field)
      BY <2>1 DEF AddedUp
    <2>6. QED
      BY <2>4, <2>5
  <1>6. d.header.txns >= Total([k \in Through(log, i, j) \ {i} |-> log[k].tx])
    <2> DEFINE x == Total(TxThrough(log, i, j))
    <2>1. x \in Nat /\ log[i].cum + x <= log[j].cum
      BY <1>2, TxsAreCounted
    <2>2. log[i].cum \in Nat /\ log[j].cum \in Nat
      BY <1>1 DEF IsReading
    <2>3. x = Total([k \in Through(log, i, j) \ {i} |-> log[k].tx])
      BY DEF TxThrough
    <2> HIDE DEF x, d
    <2>4. d.header.txns >= x
      BY <1>4, <2>1, <2>2
    <2>5. QED
      BY <2>3, <2>4
  <1>7. ASSUME i = Min(D), j = Max(D)
        PROVE  NetMemory(s)["rss"] = d.memory
    <2> DEFINE a == log[i]
               b == log[j]
    <2>1. s.first = <<a>> /\ s.last = <<b>>
      BY <1>1, <1>7, SummaryHasEnds
    <2>2. s.first[1] = a /\ s.last[1] = b
      BY <2>1
    <2>3. Lookup(a, "rss") = {a.rss} /\ Lookup(b, "rss") = {b.rss}
      BY DEF Lookup
    <2>4. ~Lacks(a, "rss") /\ ~Lacks(b, "rss")
      BY <2>3 DEF Lacks
    <2>5. Delta(a, b, "rss") = Value(b, "rss") - Value(a, "rss")
      BY <1>1, <2>4, DeltaIsDifference DEF Fields
    <2>6. Value(a, "rss") = a.rss /\ Value(b, "rss") = b.rss
      BY DEF Value
    <2>7. NetMemory(s)["rss"] = Delta(s.first[1], s.last[1], "rss")
      <3> HIDE DEF s, a, b
      <3>1. Lookup(s.first[1], "rss") # {} /\ Lookup(s.last[1], "rss") # {}
        BY <2>2, <2>4 DEF Lacks
      <3>2. QED
        BY <3>1 DEF NetMemory
    <2> HIDE DEF s, d
    <2>8. QED
      BY <1>4, <2>2, <2>5, <2>6, <2>7
  <1> HIDE DEF d, s, D
  <1>8. QED
    BY <1>3, <1>5, <1>6, <1>7 DEF DiffIsSum, Fields, D, s

-------------------------------------------------------------------------------
(* What the monitor runs record can be compared *)

\* The counters and the latest values are those of the snapshots, or beyond them.
CapturesInv ==
  /\ tail \in {"clean", "torn", "bare"}
  /\ IsCaptured(events) /\ total \in Nat /\ ledger \in Nat
  /\ \A j \in Snapshots(events) : events[j].cum <= total /\ events[j].ledger <= ledger
  /\ ReadingsOf(latest.breakdown, "nodestore") /\ ReadingsOf(latest.counts, "n")

\* A log stays comparable with an event more that goes on from its snapshots.
LEMMA CaptureGoesOn ==
  ASSUME NEW log, IsCaptured(log), NEW e,
         e.kind = "snapshot" =>
           /\ IsReading(e) /\ \A j \in Snapshots(log) : log[j].cum + e.tx <= e.cum
           /\ e.ledger # None => \A j \in LedgerSnapshots(log) : log[j].ledger < e.ledger
  PROVE  LET r == Append(log, e)
         IN /\ IsCaptured(r)
            /\ \A j \in Snapshots(r) : \/ j \in Snapshots(log) /\ r[j] = log[j]
                                       \/ e.kind = "snapshot" /\ r[j] = e
PROOF
  <1> DEFINE r == Append(log, e)
             n == Len(log)
             m == n + 1
  <1>1. PICK S : log \in Seq(S)
    BY DEF IsCaptured
  <1>2. /\ \E T : r \in Seq(T)
        /\ DOMAIN log = 1 .. n /\ DOMAIN r = 1 .. m /\ n \in Nat
        /\ r[m] = e /\ \A j \in 1 .. n : r[j] = log[j]
    <2> DEFINE T == S \cup {e}
    <2>1. log \in Seq(T) /\ e \in T
      BY <1>1
    <2>2. /\ r \in Seq(T) /\ Len(r) = m /\ r[m] = e
          /\ \A j \in 1 .. n : r[j] = log[j]
      BY <2>1, AppendProperties
    <2>3. n \in Nat
      BY <1>1, LenProperties
    <2>4. DOMAIN log = 1 .. n /\ DOMAIN r = 1 .. m
      BY <1>1, <2>2, LenProperties
    <2>5. QED
      BY <2>2, <2>3, <2>4
  <1> HIDE DEF r, n
  <1>3. \A j \in DOMAIN r : (j \in DOMAIN log /\ r[j] = log[j] /\ j < m) \/ (j = m /\ r[j] = e)
    BY <1>2
  <1>4. m \in Nat /\ m \notin DOMAIN log
    BY <1>2
  <1> HIDE DEF m
  <1>5. \A j \in Snapshots(r) : \/ j \in Snapshots(log) /\ r[j] = log[j] /\ j < m
                                \/ e.kind = "snapshot" /\ r[j] = e /\ j = m
    BY <1>3 DEF Snapshots
  <1>6. \A j \in LedgerSnapshots(r) : \/ j \in LedgerSnapshots(log) /\ r[j] = log[j] /\ j < m
                                      \/ e.kind = "snapshot" /\ r[j] = e /\ j = m /\ e.ledger # None
    BY <1>5 DEF LedgerSnapshots
  <1>7. \A j \in Snapshots(r) : j \in Int
    BY <1>2, <1>4, <1>5 DEF Snapshots
  <1>8. \A j \in Snapshots(r) : IsReading(r[j])
    BY <1>5 DEF IsCaptured
  <1>9. ASSUME NEW i \in LedgerSnapshots(r), NEW j \in LedgerSnapshots(r), i < j
        PROVE  r[i].ledger < r[j].ledger
    <2>1. i \in Int /\ j \in Int
      BY <1>7 DEF LedgerSnapshots
    <2>2. i \in LedgerSnapshots(log) /\ r[i] = log[i]
      BY <1>4, <1>6, <1>9, <2>1
    <2>3. CASE j \in LedgerSnapshots(log) /\ r[j] = log[j]
      BY <1>9, <2>2, <2>3 DEF IsCaptured
    <2>4. CASE e.kind = "snapshot" /\ r[j] = e /\ e.ledger # None
      BY <2>2, <2>4
    <2>5. QED
      BY <1>6, <2>3, <2>4
  <1>10. ASSUME NEW i \in Snapshots(r), NEW j \in Snapshots(r), i < j
         PROVE  r[i].cum + r[j].tx <= r[j].cum
    <2>1. i \in Int /\ j \in Int
      BY <1>7
    <2>2. i \in Snapshots(log) /\ r[i] = log[i]
      BY <1>4, <1>5, <1>10, <2>1
    <2>3. CASE j \in Snapshots(log) /\ r[j] = log[j]
      BY <1>10, <2>2, <2>3 DEF IsCaptured
    <2>4. CASE e.kind = "snapshot" /\ r[j] = e
      BY <2>2, <2>4
    <2>5. QED
      BY <1>5, <2>3, <2>4
  <1>11. IsCaptured(r)
    BY <1>2, <1>8, <1>9, <1>10 DEF IsCaptured
  <1>12. QED
    BY <1>5, <1>11 DEF r

\* And with its last event gone.
LEMMA CaptureIsCut ==
  ASSUME NEW log, IsCaptured(log)
  PROVE  LET r == SubSeq(log, 1, Len(log) - 1)
         IN IsCaptured(r) /\ \A j \in Snapshots(r) : j \in Snapshots(log) /\ r[j] = log[j]
PROOF
  <1> DEFINE r == SubSeq(log, 1, Len(log) - 1)
             n == Len(log)
  <1>1. PICK S : log \in Seq(S)
    BY DEF IsCaptured
  <1>2. n \in Nat /\ DOMAIN log = 1 .. n
    BY <1>1, LenProperties
  <1>3. r \in Seq(S) /\ \A j \in DOMAIN r : j \in DOMAIN log /\ r[j] = log[j]
    <2>1. \A j \in 1 .. n - 1 : log[j] \in S
      BY <1>1, <1>2, ElementOfSeq
    <2>2. /\ r \in Seq(S) /\ Len(r) = IF 1 <= n - 1 THEN n - 1 ELSE 0
          /\ \A j \in 1 .. n - 1 : r[j] = log[j]
      BY <1>1, <1>2, <2>1, SubSeqProperties
    <2>3. DOMAIN r = 1 .. Len(r)
      BY <2>2, LenProperties
    <2>4. \A j \in DOMAIN r : j \in 1 .. n - 1
      BY <1>2, <2>2, <2>3
    <2>5. QED
      BY <1>2, <2>2, <2>4
  <1> HIDE DEF r, n
  <1>4. \A j \in Snapshots(r) : j \in Snapshots(log) /\ r[j] = log[j]
    BY <1>3 DEF Snapshots
  <1>5. \A j \in LedgerSnapshots(r) : j \in LedgerSnapshots(log) /\ r[j] = log[j]
    BY <1>4 DEF LedgerSnapshots
  <1>6. \E T : r \in Seq(T)
    BY <1>3
  <1>7. /\ \A j \in Snapshots(r) : IsReading(r[j])
        /\ \A i, j \in LedgerSnapshots(r) : i < j => r[i].ledger < r[j].ledger
        /\ \A i, j \in Snapshots(r) : i < j => r[i].cum + r[j].tx <= r[j].cum
    BY <1>4, <1>5 DEF IsCaptured
  <1>8. QED
    BY <1>4, <1>6, <1>7 DEF IsCaptured, r

\* A step that writes no snapshot: counters may only go on.
LEMMA NothingIsCaptured ==
  ASSUME CapturesInv, total' \in Nat, total <= total', ledger' \in Nat, ledger <= ledger',
         latest' \in {latest, NothingLatest}, tail' \in {"clean", "torn", "bare"},
         \/ events' = events \/ events' = SubSeq(events, 1, Len(events) - 1)
         \/ \E e : events' = Append(events, e) /\ e.kind # "snapshot"
  PROVE  CapturesInv'
PROOF
  <1>1. IsCaptured(events') /\ \A j \in Snapshots(events') : j \in Snapshots(events) /\ events'[j] = events[j]
    <2>1. IsCaptured(events)
      BY DEF CapturesInv
    <2>2. CASE events' = events
      BY <2>1, <2>2
    <2>3. CASE events' = SubSeq(events, 1, Len(events) - 1)
      BY <2>1, <2>3, CaptureIsCut
    <2>4. ASSUME NEW e, events' = Append(events, e), e.kind # "snapshot"
          PROVE  /\ IsCaptured(events')
                 /\ \A j \in Snapshots(events') : j \in Snapshots(events) /\ events'[j] = events[j]
      BY <2>1, <2>4, CaptureGoesOn
    <2>5. QED
      BY <2>2, <2>3, <2>4
  <1>2. \A j \in Snapshots(events') : events'[j].cum <= total' /\ events'[j].ledger <= ledger'
    <2> SUFFICES ASSUME NEW j \in Snapshots(events')
                 PROVE  events'[j].cum <= total' /\ events'[j].ledger <= ledger'
      OBVIOUS
    <2>1. /\ events'[j].cum \in Int /\ events'[j].ledger \in Int
          /\ events'[j].cum <= total /\ events'[j].ledger <= ledger
      BY <1>1 DEF CapturesInv, IsCaptured, IsReading, None
    <2>2. total \in Int /\ ledger \in Int
      BY DEF CapturesInv
    <2>3. QED
      BY <2>1, <2>2
  <1>3. ReadingsOf(latest'.breakdown, "nodestore") /\ ReadingsOf(latest'.counts, "n")
    <2>1. ReadingsOf(NothingLatest.breakdown, "nodestore") /\ ReadingsOf(NothingLatest.counts, "n")
      BY DEF ReadingsOf, NothingLatest
    <2>2. QED
      BY <2>1 DEF CapturesInv
  <1>4. QED
    BY <1>1, <1>2, <1>3 DEF CapturesInv

\* The latest snapshot has counted the most.
LEMMA LastCountsMost ==
  ASSUME NEW log, IsCaptured(log), Snapshots(log) # {}
  PROVE  LET last == Max(Snapshots(log))
         IN log[last].cum \in Nat /\ \A j \in Snapshots(log) : log[j].cum <= log[last].cum
PROOF
  <1> DEFINE D == Snapshots(log)
             n == Len(log)
             last == Max(D)
  <1>1. n \in Nat /\ D \subseteq 0 .. n /\ D # {} /\ D \subseteq Int
    BY CapturedAt
  <1> HIDE DEF n
  <1>2. last \in D /\ \A j \in D : j <= last
    <2> HIDE DEF D
    <2>1. QED
      BY <1>1, MaxIsLargest
  <1> HIDE DEF last
  <1>3. \A j \in D : log[j].cum \in Nat /\ log[j].tx \in Nat
    BY DEF IsCaptured, IsReading
  <1>4. ASSUME NEW j \in D PROVE log[j].cum <= log[last].cum
    <2>1. j = last \/ j < last
      BY <1>1, <1>2
    <2>2. j < last => log[j].cum + log[last].tx <= log[last].cum
      BY <1>2 DEF IsCaptured
    <2>3. QED
      BY <1>2, <1>3, <2>1, <2>2
  <1>5. QED
    BY <1>2, <1>3, <1>4 DEF last

\* A snapshot goes on from those before it.
LEMMA SnapshotIsCaptured ==
  ASSUME CapturesInv, NEW idx, NEW txs, Snapshot(idx, txs), txs \subseteq Nat,
         \/ idx = None /\ ledger' = ledger
         \/ idx \in ledger + 1 .. ledger + 2 /\ ledger' = idx
  PROVE  CapturesInv'
PROOF
  <1>1. PICK l \in Refreshed, tx \in txs, rss \in Rss :
          latest' = l /\ total' = total + tx /\ events' = Append(events, Event(l, idx, tx, rss))
    BY DEF Snapshot
  <1> DEFINE e == Event(l, idx, tx, rss)
  <1>2. /\ e.kind = "snapshot" /\ e.ledger = idx /\ e.tx = tx /\ e.cum = total + tx /\ e.rss = rss
        /\ e.breakdown = l.breakdown /\ e.counts = l.counts
    BY DEF Event
  <1>3. ReadingsOf(l.breakdown, "nodestore") /\ ReadingsOf(l.counts, "n")
    <2>1. ReadingsOf(latest.breakdown, "nodestore") /\ ReadingsOf(latest.counts, "n")
      BY DEF CapturesInv
    <2>2. \A k : \A f \in {[x \in {k} |-> v] : v \in Readings} : ReadingsOf(f, k)
      BY RecorderBounds DEF ReadingsOf
    <2>3. /\ l.breakdown \in {latest.breakdown} \cup {[x \in {"nodestore"} |-> v] : v \in Readings}
          /\ l.counts \in {latest.counts} \cup {[x \in {"n"} |-> v] : v \in Readings}
      BY <1>1 DEF Refreshed
    <2>4. QED
      BY <2>1, <2>2, <2>3
  <1>4. total \in Nat /\ ledger \in Nat /\ tx \in Nat /\ rss \in Nat /\ IsCaptured(events)
    BY RecorderBounds DEF CapturesInv
  <1>5. idx = None \/ (idx \in Nat /\ ledger < idx)
    BY <1>4
  <1>6. /\ \A j \in Snapshots(events) : events[j].cum \in Int /\ events[j].ledger \in Int
        /\ \A j \in Snapshots(events) : events[j].cum <= total /\ events[j].ledger <= ledger
    BY DEF CapturesInv, IsCaptured, IsReading, None
  <1> HIDE DEF e
  <1>7. e.cum \in Nat /\ total \in Int
    BY <1>2, <1>4
  <1>8. IsReading(e)
    BY <1>2, <1>3, <1>4, <1>5, <1>7 DEF IsReading
  <1>9. \A j \in Snapshots(events) : events[j].cum + e.tx <= e.cum
    BY <1>2, <1>4, <1>6
  <1>10. e.ledger # None => \A j \in LedgerSnapshots(events) : events[j].ledger < e.ledger
    <2>1. \A j \in LedgerSnapshots(events) : j \in Snapshots(events)
      BY DEF LedgerSnapshots
    <2>2. QED
      BY <1>2, <1>4, <1>5, <1>6, <2>1
  <1>11. events' = Append(events, e)
    BY <1>1 DEF e
  <1>12. /\ IsCaptured(events')
         /\ \A j \in Snapshots(events') : \/ j \in Snapshots(events) /\ events'[j] = events[j]
                                          \/ events'[j] = e
    BY <1>4, <1>8, <1>9, <1>10, <1>11, CaptureGoesOn
  <1>13. total' \in Nat /\ total' = e.cum /\ ledger' \in Nat /\ ledger <= ledger' /\ e.ledger <= ledger'
    BY <1>1, <1>2, <1>4, <1>5 DEF None
  <1>14. \A j \in Snapshots(events') : events'[j].cum <= total' /\ events'[j].ledger <= ledger'
    <2> SUFFICES ASSUME NEW j \in Snapshots(events')
                 PROVE  events'[j].cum <= total' /\ events'[j].ledger <= ledger'
      OBVIOUS
    <2>1. CASE j \in Snapshots(events) /\ events'[j] = events[j]
      <3>1. events[j].cum <= total' /\ events[j].ledger <= ledger'
        BY <1>1, <1>4, <1>6, <1>13, <2>1
      <3>2. QED
        BY <2>1, <3>1
    <2>2. CASE events'[j] = e
      BY <1>13, <2>2
    <2>3. QED
      BY <1>12, <2>1, <2>2
  <1>15. ReadingsOf(latest'.breakdown, "nodestore") /\ ReadingsOf(latest'.counts, "n")
    BY <1>1, <1>3
  <1>16. tail' \in {"clean", "torn", "bare"}
    BY DEF Snapshot, CapturesInv
  <1>17. QED
    BY <1>12, <1>13, <1>14, <1>15, <1>16 DEF CapturesInv

\* Whatever is recorded, find, diff and summary agree on the ledgers it captured, with
\* polls in between, sessions that end or are killed and records lost to a torn tail
\* (find_delta_matches, run_diff, build_and_render_summary).
THEOREM DeltasAreTold == Spec => []DeltasTelescope
PROOF
  <1>1. Init => CapturesInv
    <2> SUFFICES ASSUME Init PROVE CapturesInv
      OBVIOUS
    <2>1. /\ events = <<>> /\ events \in Seq({}) /\ DOMAIN events = {}
          /\ total = 0 /\ ledger = 0 /\ latest = NothingLatest /\ tail = "clean"
      BY DEF Init, RecorderInit
    <2>2. Snapshots(events) = {} /\ LedgerSnapshots(events) = {}
      BY <2>1 DEF Snapshots, LedgerSnapshots
    <2>3. IsCaptured(events)
      BY <2>1, <2>2 DEF IsCaptured
    <2>4. ReadingsOf(latest.breakdown, "nodestore") /\ ReadingsOf(latest.counts, "n")
      BY <2>1 DEF NothingLatest, ReadingsOf
    <2>5. QED
      BY <2>1, <2>2, <2>3, <2>4 DEF CapturesInv
  <1>2. CapturesInv /\ [Records]_vars => CapturesInv'
    <2> SUFFICES ASSUME CapturesInv, [Records]_vars PROVE CapturesInv'
      OBVIOUS
    <2>1. /\ total \in Nat /\ ledger \in Nat /\ total <= total /\ ledger <= ledger
          /\ tail \in {"clean", "torn", "bare"}
      BY DEF CapturesInv
    <2>2. CASE UNCHANGED <<events, total, ledger, latest>> /\ tail' \in {"clean", "torn", "bare"}
      BY <2>1, <2>2, NothingIsCaptured
    <2>3. CASE Records
      <3>1. RecorderNext
        BY <2>3 DEF Records
      <3>2. CASE Tick \/ Sync \/ Kill
        <4>1. UNCHANGED <<events, total, ledger, latest>>
          BY <3>2 DEF Tick, Sync, Kill
        <4>2. tail' \in {"clean", "torn", "bare"}
          BY <2>1, <3>2 DEF Tick, Sync, Kill
        <4>3. QED
          BY <2>2, <4>1, <4>2
      <3>3. CASE OpenSession
        <4>1. /\ UNCHANGED <<events, tail, ledger>> /\ latest' = NothingLatest
              /\ total' = IF Snapshots(events) = {} THEN 0 ELSE events[Max(Snapshots(events))].cum
          BY <3>3 DEF OpenSession
        <4>2. IsCaptured(events) /\ \A j \in Snapshots(events) : events[j].ledger <= ledger
          BY DEF CapturesInv
        <4>3. total' \in Nat /\ \A j \in Snapshots(events) : events[j].cum <= total'
          <5>1. CASE Snapshots(events) = {}
            BY <4>1, <5>1
          <5>2. CASE Snapshots(events) # {}
            BY <4>1, <4>2, <5>2, LastCountsMost
          <5>3. QED
            BY <5>1, <5>2
        <4>4. ReadingsOf(latest'.breakdown, "nodestore") /\ ReadingsOf(latest'.counts, "n")
          BY <4>1 DEF NothingLatest, ReadingsOf
        <4>5. QED
          BY <2>1, <4>1, <4>2, <4>3, <4>4 DEF CapturesInv
      <3>4. CASE CloseUnrecorded
        <4>1. PICK tx \in Tx : total' = total + tx
          BY <3>4 DEF CloseUnrecorded
        <4>2. ledger' = ledger + 1 /\ UNCHANGED <<events, tail, latest>>
          BY <3>4 DEF CloseUnrecorded
        <4>3. total' \in Nat /\ total <= total' /\ ledger' \in Nat /\ ledger <= ledger'
          BY <2>1, <4>1, <4>2, RecorderBounds
        <4>4. QED
          BY <2>1, <4>2, <4>3, NothingIsCaptured
      <3>5. CASE KillWriting
        <4>1. /\ UNCHANGED <<total, ledger, latest>> /\ tail' = "torn"
              /\ events' = events \/ events' = SubSeq(events, 1, Len(events) - 1)
          BY <3>5 DEF KillWriting
        <4>2. QED
          BY <2>1, <4>1, NothingIsCaptured
      <3>6. CASE WriteStart
        <4>1. UNCHANGED <<total, ledger, latest>> /\ tail' = "clean"
          BY <3>6 DEF WriteStart
        <4> DEFINE e == [kind |-> "start", of |-> run, t |-> now, n |-> run]
        <4>2. \/ events' = Append(events, e) \/ events' = events
              \/ events' = SubSeq(events, 1, Len(events) - 1)
          BY <2>1, <3>6 DEF WriteStart
        <4>3. e.kind # "snapshot"
          OBVIOUS
        <4> HIDE DEF e
        <4>4. QED
          BY <2>1, <4>1, <4>2, <4>3, NothingIsCaptured
      <3>7. CASE EndSession
        <4>1. UNCHANGED <<tail, total, ledger, latest>>
          BY <3>7 DEF EndSession
        <4> DEFINE e == [kind |-> "end", of |-> run, t |-> now, status |-> "completed"]
        <4>2. events' = Append(events, e)
          BY <3>7 DEF EndSession
        <4>3. e.kind # "snapshot"
          OBVIOUS
        <4> HIDE DEF e
        <4>4. QED
          BY <2>1, <4>1, <4>2, <4>3, NothingIsCaptured
      <3>8. CASE PollSnapshot
        <4>1. Snapshot(None, {0}) /\ ledger' = ledger /\ {0} \subseteq Nat
          BY <3>8 DEF PollSnapshot
        <4>2. QED
          BY <4>1, SnapshotIsCaptured
      <3>9. CASE LedgerSnapshot
        <4>1. PICK idx \in ledger + 1 .. ledger + 2 : Snapshot(idx, Tx) /\ ledger' = idx
          BY <3>9 DEF LedgerSnapshot
        <4>2. Tx \subseteq Nat
          BY RecorderBounds
        <4>3. QED
          BY <4>1, <4>2, SnapshotIsCaptured
      <3>10. QED
        BY <3>1, <3>2, <3>3, <3>4, <3>5, <3>6, <3>7, <3>8, <3>9 DEF RecorderNext
    <2>4. QED
      BY <2>1, <2>2, <2>3 DEF vars, recorderVars
  <1>3. CapturesInv => DeltasTelescope
    BY DeltasAddUp DEF CapturesInv, DeltasTelescope
  <1>4. QED
    BY <1>1, <1>2, <1>3, PTL DEF Spec
===============================================================================

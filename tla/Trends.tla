------------------------------- MODULE Trends --------------------------------
(***************************************************************************)
(* The histories the diagnostic widgets keep per metric, and the markers   *)
(* they draw from them: ui/components/counts_display.py,                   *)
(* shamap_pools_display.py and heap_display.py. A history is a function    *)
(* from the metrics seen so far to an entry.                               *)
(***************************************************************************)
EXTENDS Integers, Sequences, FiniteSets

CONSTANTS
  TrendWindow,  \* steps the trend looks back on (30)
  TrendSamples  \* steps it needs before it commits to a direction (5)

ASSUME TrendBounds == TrendSamples \in Nat \ {0} /\ TrendWindow \in Nat /\ TrendSamples <= TrendWindow

Newest(s, n) == IF Len(s) <= n THEN s ELSE SubSeq(s, Len(s) - n + 1, Len(s))
Sign(d) == IF d > 0 THEN 1 ELSE IF d < 0 THEN -1 ELSE 0
Times(s, x) == Cardinality({i \in DOMAIN s : s[i] = x})

\* A metric of the sample begins a history or goes on with the one it has; a metric
\* that is not in the sample keeps what it has.
Recorded(history, sample, New(_), Step(_, _)) ==
  [k \in DOMAIN history \cup DOMAIN sample |->
    IF k \notin DOMAIN sample THEN history[k]
    ELSE IF k \in DOMAIN history THEN Step(history[k], sample[k])
    ELSE New(sample[k])]

-------------------------------------------------------------------------------
(* counts_display *)

NewEntry(v) ==
  [first |-> v, last |-> v, everDecreased |-> FALSE, deltas |-> <<>>, trend |-> "none"]

\* Wrong: a step down is noted in the window only.
StepEntryForgiving(e, v) ==
  [e EXCEPT !.last = v, !.deltas = Newest(Append(@, Sign(v - e.last)), TrendWindow)]

StepEntry(e, v) ==
  [e EXCEPT !.last = v,
            !.everDecreased = @ \/ v < e.last,
            !.deltas = Newest(Append(@, Sign(v - e.last)), TrendWindow)]

\* The arrow stays until the other direction makes up 60% of the moves.
Latched(e) ==
  LET ups == Times(e.deltas, 1)
      downs == Times(e.deltas, -1)
  IN IF Len(e.deltas) < TrendSamples \/ ups + downs = 0 THEN e
     ELSE IF 5 * ups >= 3 * (ups + downs) THEN [e EXCEPT !.trend = "up"]
     ELSE IF 5 * downs >= 3 * (ups + downs) THEN [e EXCEPT !.trend = "down"]
     ELSE e

\* '++': the metric has grown and never fell.
MonotonicGrowing(e) == ~e.everDecreased /\ e.last > e.first

UpdateCounts(history, counts) ==
  LET recorded == Recorded(history, counts, NewEntry, StepEntry)
  IN [k \in DOMAIN recorded |-> Latched(recorded[k])]

-------------------------------------------------------------------------------
(* shamap_pools_display: as above, and the last change that was not zero *)

NewPoolEntry(v) ==
  [first |-> v, last |-> v, everDecreased |-> FALSE, deltas |-> <<>>, trend |-> "none",
   lastDelta |-> 0]

StepPoolEntry(e, v) ==
  [StepEntry(e, v) EXCEPT !.lastDelta = IF v # e.last THEN v - e.last ELSE @]

UpdatePools(history, counts) ==
  LET recorded == Recorded(history, counts, NewPoolEntry, StepPoolEntry)
  IN [k \in DOMAIN recorded |-> Latched(recorded[k])]

-------------------------------------------------------------------------------
(* heap_display: of the number of samples only one and more count *)

NewClass(bytes) == [first |-> bytes, last |-> bytes, everDecreased |-> FALSE, samples |-> 1]

StepClass(e, bytes) ==
  [e EXCEPT !.last = bytes, !.everDecreased = @ \/ bytes < e.last, !.samples = 2]

UpdateSample(history, top) == Recorded(history, top, NewClass, StepClass)

\* The mark of a class whose row is in the sample shown.
ClassGrows(e) == e.samples >= 2 /\ ~e.everDecreased /\ e.last > e.first
================================================================================

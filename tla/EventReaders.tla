------------------------------ MODULE EventReaders ------------------------------
(***************************************************************************)
(* What is read out of a recorded events.jsonl: the run times the          *)
(* dashboard starts from after a reattach (ui/dashboard.py) and the diff,  *)
(* find and summary commands (utils/ledger_diff.py).                       *)
(*                                                                         *)
(* Events are the lines that parse, in their order:                        *)
(*   [kind |-> "start", t, n]                                              *)
(*   [kind |-> "end", t, status]                                           *)
(*   [kind |-> "snapshot", t, ledger, tx, cum, monitoring, rss, breakdown, *)
(*    counts]  with a ledger of None when a poll took it                   *)
(* breakdown and counts are functions, empty before the first answer.      *)
(* Abstracted: every event has its time stamp, as the program writes it;   *)
(* nested fields are names; MB are whole; the order of rows and the cut    *)
(* at the top ones; formatting.                                            *)
(***************************************************************************)
EXTENDS Integers, Sequences, FiniteSets, FiniteSetsExt, SequencesExt, Functions

None == -1
AtLeast0(d) == IF d > 0 THEN d ELSE 0

\* Where the snapshots are, and those of ledgers.
Snapshots(events) == {j \in DOMAIN events : events[j].kind = "snapshot"}
LedgerSnapshots(events) == {j \in Snapshots(events) : events[j].ledger # None}

-------------------------------------------------------------------------------
(* _derive_timing_from_events *)

NoTiming == [elapsed |-> 0, monitoring |-> 0, originalSync |-> None,
             start |-> None, syncedAt |-> None, lastT |-> None]

\* Not longer than this a node was synced already when the session began.
ReattachSync == 1

CloseAt(d, t) ==
  IF d.start = None THEN d
  ELSE [d EXCEPT
    !.elapsed = @ + AtLeast0(t - d.start),
    !.monitoring = IF d.syncedAt = None THEN @ ELSE @ + AtLeast0(t - d.syncedAt),
    !.originalSync = IF @ = None /\ d.syncedAt # None /\ d.syncedAt - d.start > ReattachSync
                     THEN d.syncedAt - d.start ELSE @]

\* Wrong: a session that did not end is forgotten when the next one starts.
TimingOfForgetful(d, e) ==
  CASE e.kind = "start" -> [d EXCEPT !.start = e.t, !.syncedAt = None, !.lastT = e.t]
    [] e.kind = "end" -> [CloseAt(d, e.t) EXCEPT !.start = None, !.syncedAt = None, !.lastT = None]
    [] e.kind = "snapshot" ->
         [d EXCEPT !.lastT = e.t,
                   !.syncedAt = IF d.start # None /\ @ = None /\ e.monitoring THEN e.t ELSE @]

\* A session that did not end is closed at the last event seen.
TimingOf(d, e) ==
  CASE e.kind = "start" ->
         [CloseAt(d, d.lastT) EXCEPT !.start = e.t, !.syncedAt = None, !.lastT = e.t]
    [] e.kind = "end" -> [CloseAt(d, e.t) EXCEPT !.start = None, !.syncedAt = None, !.lastT = None]
    [] e.kind = "snapshot" ->
         [d EXCEPT !.lastT = e.t,
                   !.syncedAt = IF d.start # None /\ @ = None /\ e.monitoring THEN e.t ELSE @]

DeriveTiming(events) ==
  LET d == FoldLeft(TimingOf, NoTiming, events) IN CloseAt(d, d.lastT)

-------------------------------------------------------------------------------
(* build_and_render_summary *)

NoSummary == [current |-> None, sessions |-> [n \in {} |-> 0], first |-> <<>>, last |-> <<>>]

NewSession(t) ==
  [start |-> t, end |-> None, lastT |-> t, status |-> "interrupted",
   peak |-> 0, txns |-> 0, ledgers |-> 0]

\* What a session's entry takes from one of its snapshots.
Tallied(entry, e) ==
  [entry EXCEPT !.lastT = e.t,
                !.peak = Max({@, e.rss}),
                !.txns = @ + e.tx,
                !.ledgers = IF e.ledger # None THEN @ + 1 ELSE @]

\* And from the session_end.
Finished(entry, e) == [entry EXCEPT !.end = e.t, !.lastT = e.t, !.status = e.status]

SummaryOf(s, e) ==
  CASE e.kind = "start" ->
         [s EXCEPT !.current = e.n,
                   !.sessions = [n \in DOMAIN @ \cup {e.n} |-> IF n = e.n THEN NewSession(e.t) ELSE @[n]]]
    [] e.kind = "end" /\ s.current # None ->
         [s EXCEPT !.current = None,
                   !.sessions = [s.sessions EXCEPT ![s.current] = Finished(s.sessions[s.current], e)]]
    [] e.kind = "snapshot" ->
         [s EXCEPT !.first = IF @ = <<>> THEN <<e>> ELSE @,
                   !.last = <<e>>,
                   !.sessions =
                     IF s.current = None THEN @
                     ELSE [s.sessions EXCEPT ![s.current] = Tallied(s.sessions[s.current], e)]]
    [] OTHER -> s

Summary(events) == FoldLeft(SummaryOf, NoSummary, events)

SpanOf(entry) == (IF entry.end # None THEN entry.end ELSE entry.lastT) - entry.start

\* The lines under the table of sessions.
Total(f) == MapThenSumSet(LAMBDA x : f[x], DOMAIN f)
TotalSpan(s) == Total([n \in DOMAIN s.sessions |-> AtLeast0(SpanOf(s.sessions[n]))])
TotalTxns(s) == Total([n \in DOMAIN s.sessions |-> s.sessions[n].txns])
TotalLedgers(s) == Total([n \in DOMAIN s.sessions |-> s.sessions[n].ledgers])

-------------------------------------------------------------------------------
(* The value of a field: a set with it, or the empty set *)

At(f, k) == IF k \in DOMAIN f THEN {f[k]} ELSE {}

\* heap_mb: no value before the first breakdown. Files beside the node store
\* count as 0 when they are not told.
Heap(s) ==
  {s.rss - nodestore - (IF "other" \in DOMAIN s.breakdown THEN s.breakdown["other"] ELSE 0)
   : nodestore \in At(s.breakdown, "nodestore")}

\* _lookup, _derived: a computed field or a path, "pool" is such a path.
Lookup(s, field) ==
  CASE field = "rss" -> {s.rss}
    [] field = "heap" -> Heap(s)
    [] OTHER -> At(s.counts, field)

\* Numeric leaves of both sides that moved.
Moved(a, b) ==
  [k \in {x \in DOMAIN a \cap DOMAIN b : a[x] # b[x]} |-> b[k] - a[k]]

-------------------------------------------------------------------------------
(* find *)

Compare(op, d, v) ==
  LET abs == IF d < 0 THEN -d ELSE d
  IN CASE op = ">" -> d > v [] op = ">=" -> d >= v [] op = "<" -> d < v [] op = "<=" -> d <= v
       [] op = "==" -> d = v [] op = "!=" -> d # v
       [] op = "abs>" -> abs > v [] op = "abs>=" -> abs >= v
       [] op = "abs<" -> abs < v [] op = "abs<=" -> abs <= v

\* The pairs of numbers of a set that follow each other in it.
Neighbours(S) == {p \in S \X S : p[1] < p[2] /\ ~ \E k \in S : p[1] < k /\ k < p[2]}

\* Wrong: the last pair is left out.
ConsecutiveButLast(events, field) ==
  {p \in Neighbours(LedgerSnapshots(events)) :
     /\ Lookup(events[p[1]], field) # {} /\ Lookup(events[p[2]], field) # {}
     /\ \E k \in LedgerSnapshots(events) : p[2] < k}

\* Only snapshots of ledgers that follow each other, both with the field.
Consecutive(events, field) ==
  {p \in Neighbours(LedgerSnapshots(events)) :
     Lookup(events[p[1]], field) # {} /\ Lookup(events[p[2]], field) # {}}

\* By how much a field moved from one snapshot to another that both have it.
Delta(a, b, field) == CHOOSE d \in {y - x : x \in Lookup(a, field), y \in Lookup(b, field)} : TRUE

FindDeltaMatches(events, field, op, threshold) ==
  {[from |-> events[p[1]].ledger, to |-> events[p[2]].ledger, delta |-> Delta(events[p[1]], events[p[2]], field)] :
     p \in {q \in Consecutive(events, field) : Compare(op, Delta(events[q[1]], events[q[2]], field), threshold)}}

-------------------------------------------------------------------------------
(* diff *)

\* The latest snapshot of a ledger: a set with its position, or the empty set.
LatestOf(events, ledger) ==
  LET s == {j \in LedgerSnapshots(events) : events[j].ledger = ledger}
  IN IF s = {} THEN {} ELSE {Max(s)}

\* The second is not found when both are the same.
LoadLedgerSnapshots(events, from, to) ==
  [from |-> LatestOf(events, from),
   to |-> IF to = from THEN {} ELSE LatestOf(events, to),
   first |-> IF LedgerSnapshots(events) = {} THEN None ELSE events[Min(LedgerSnapshots(events))].ledger]

DiffHeader(a, b) == [ledgers |-> b.ledger - a.ledger, txns |-> b.cum - a.cum, wall |-> b.t - a.t]
DiffMemory(a, b) == b.rss - a.rss
DiffBreakdown(a, b) == Moved(a.breakdown, b.breakdown)
DiffCounts(a, b) == Moved(a.counts, b.counts)

\* run_diff: an exit with an error when one of the ledgers was not captured.
RunDiff(events, from, to) ==
  LET found == LoadLedgerSnapshots(events, from, to)
  IN {[header |-> DiffHeader(events[i], events[j]), memory |-> DiffMemory(events[i], events[j]),
       breakdown |-> DiffBreakdown(events[i], events[j]), counts |-> DiffCounts(events[i], events[j])]
      : i \in found.from, j \in found.to}

\* summary: from the first snapshot to the last, whoever took them.
NetMemory(s) ==
  [f \in {x \in {"rss", "heap"} : Lookup(s.first[1], x) # {} /\ Lookup(s.last[1], x) # {}} |->
     Delta(s.first[1], s.last[1], f)]
NetCounts(s) == Moved(s.first[1].counts, s.last[1].counts)
================================================================================

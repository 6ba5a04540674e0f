--------------------------------- MODULE MCReplay ---------------------------------
(***************************************************************************)
(* The readers of a recorded session in three parts, of which a behaviour  *)
(* exercises one: the runs behind the times and totals, the fields behind  *)
(* find and diff, and the answers behind the trace.                        *)
(***************************************************************************)
EXTENDS EventRecorder, SequencesExt, FiniteSetsExt

VARIABLE part  \* what a behaviour is about

vars == <<recorderVars, part>>

\* Ledgers 3 and 4 are on their way, 3 is done, and a peer shows up.
Ranges34 == <<[lo |-> 3, hi |-> 4, single |-> FALSE]>>
Answer(v, ranges, details, peers) ==
  [validated |-> v, seen |-> 4, behind |-> 4 - v, ranges |-> ranges, details |-> details, peers |-> peers]
MCAnswers ==
  {Answer(2, Ranges34, [q \in {3, 4} |-> 1], [p \in {} |-> 0]),
   Answer(3, Ranges34, [q \in {4} |-> 1], [p \in {7} |-> 1]),
   Answer(3, <<>>, [q \in {3, 4} |-> q - 2], [p \in {7} |-> 1])}

\* Bounds on the variety of a part, not the program's.
Plain ==
  /\ latest = NothingLatest /\ \A j \in Snapshots(events) : events[j].rss = 1
  /\ total <= 1 /\ ledger <= 1 /\ (run = 3 => Len(events) <= 4)
Untimed == now = 0 /\ run <= 1 /\ ~synced /\ Len(events) <= 4
PartBound ==
  CASE part = "runs" -> Plain
    [] part = "fields" -> Untimed /\ total = 0 /\ ledger <= 4 /\ latest.projection = NoProjection
    [] part = "answers" ->
         /\ run <= 1 /\ total = 0 /\ ledger = 0 /\ Len(events) <= 4 /\ now <= 2
         /\ \A j \in Snapshots(events) : events[j].rss = 1
         /\ DOMAIN latest.breakdown = {} /\ DOMAIN latest.counts = {}

Init == RecorderInit /\ part \in {"runs", "fields", "answers"}

Records == UNCHANGED part /\ RecorderNext /\ PartBound'

Spec == Init /\ [][Records]_vars

-------------------------------------------------------------------------------
(* Properties *)

\* Behind which events of a log is a session open, and behind which is it synced?
Open(log) ==
  {j \in DOMAIN log : \E i \in 1 .. j : log[i].kind = "start" /\ \A k \in i .. j : log[k].kind # "end"}
Synced(log) ==
  {j \in DOMAIN log : \E i \in 1 .. j :
     /\ i \in Open(log) /\ log[i].kind = "snapshot" /\ log[i].monitoring
     /\ \A k \in i .. j : log[k].kind = "snapshot"}

\* The first snapshots of sessions that found the node synced, and how long after
\* the session's start each was.
Syncs(log) == {j \in Synced(log) : j - 1 \notin Synced(log)}
SyncTime(log, j) == log[j].t - log[Max({i \in 1 .. j : log[i].kind = "start"})].t
LongSyncs(log) == {j \in Syncs(log) : SyncTime(log, j) > ReattachSync}

\* The time between neighbours in a log of which the second starts no session.
Gaps(log) == [j \in 1 .. Len(log) - 1 |-> log[j + 1].t - log[j].t]
TimeBetween(log, during) ==
  LET gaps == Gaps(log)
  IN MapThenSumSet(LAMBDA j : gaps[j], {j \in DOMAIN gaps \cap during : log[j + 1].kind # "start"})

\* The run times the dashboard goes on from are the times between the recorded
\* events of a session, whether it ended, was killed, or lost its session_start to
\* the tail of the one before. The time to sync is that of the first session that had
\* to wait for it. The summary, written on its own, comes to the same span.
TimesAreOfSessions(log) ==
  LET d == DeriveTiming(log)
  IN /\ d.elapsed = TimeBetween(log, Open(log))
     /\ d.monitoring = TimeBetween(log, Synced(log))
     /\ d.originalSync = IF LongSyncs(log) = {} THEN None ELSE SyncTime(log, Min(LongSyncs(log)))
     /\ TotalSpan(Summary(log)) = d.elapsed

\* What a run left in a log.
EventsOf(log, r) == {j \in DOMAIN log : log[j].of = r}
StartLost(log, r) == EventsOf(log, r) # {} /\ log[Min(EventsOf(log, r))].kind # "start"
RunTime(log, r) ==
  IF EventsOf(log, r) = {} THEN 0 ELSE log[Max(EventsOf(log, r))].t - log[Min(EventsOf(log, r))].t

\* The times are those of the runs, without the pauses, and the totals of the
\* summary miss no recorded transaction and no status.
TotalsAreOfRuns(log, runs) ==
  LET s == Summary(log)
  IN /\ DeriveTiming(log).elapsed = Total([r \in runs |-> RunTime(log, r)])
     /\ TotalTxns(s) = Total([j \in Snapshots(log) |-> log[j].tx])
     /\ TotalLedgers(s) = Cardinality({j \in Snapshots(log) : log[j].ledger # None})
     /\ \A n \in DOMAIN s.sessions :
          s.sessions[n].status = "completed" <=> log[Max(EventsOf(log, n))].kind = "end"

\* The run times and the totals are those of the recorded sessions; as long as no
\* session_start is lost they are those of the runs.
RunsAreAccountedFor ==
  part = "runs" =>
    /\ TimesAreOfSessions(events)
    /\ (\A r \in 1 .. run : ~StartLost(events, r)) => TotalsAreOfRuns(events, 1 .. run)

\* What a field moved by between two captured ledgers.
DiffOf(diff, field) ==
  LET By(f, k) == IF k \in DOMAIN f THEN f[k] ELSE 0
  IN CASE field = "rss" -> diff.memory
       [] field = "heap" -> diff.memory - By(diff.breakdown, "nodestore")
       [] field = "n" -> By(diff.counts, "n")

\* The ledgers from one captured snapshot to another, and what find reports of them.
Through(log, i, j) == {k \in LedgerSnapshots(log) : i <= k /\ k <= j}
MovesOf(log, i, j, field) ==
  {m \in FindDeltaMatches(log, field, "!=", 0) : m.from >= log[i].ledger /\ m.to <= log[j].ledger}

\* What find reports between two captured ledgers adds up to what diff says of them
\* and, from the first to the last snapshot, to the summary, for every field that each
\* ledger between them has, whatever polls lie between; and diff counts at least
\* the transactions recorded in between.
DiffIsSum(log, i, j) ==
  \E diff \in RunDiff(log, log[i].ledger, log[j].ledger) :
    /\ \A field \in {"rss", "heap", "n"} :
         (\A k \in Through(log, i, j) : Lookup(log[k], field) # {}) =>
           Total([m \in MovesOf(log, i, j, field) |-> m.delta]) = DiffOf(diff, field)
    /\ diff.header.txns >= Total([k \in Through(log, i, j) \ {i} |-> log[k].tx])
    /\ i = Min(Snapshots(log)) /\ j = Max(Snapshots(log)) => NetMemory(Summary(log))["rss"] = diff.memory

DeltasTelescope ==
  part \in {"runs", "fields"} =>
    \A i, j \in LedgerSnapshots(events) : i < j => DiffIsSum(events, i, j)

\* The baseline and the differences printed rebuild the last projection in the
\* window, as far as the options show it; nothing is printed for one that is as it
\* was.
Rebuilds(log, options) ==
  LET eligible == {i \in DOMAIN log : Eligible(log[i], options)}
      trace == RenderTrace(log, options)
  IN eligible # {} =>
       /\ FoldLeft(ApplyPatch, trace.baseline[1], trace.patches)
          = FilterProjection(log[Max(eligible)].projection, options.seq, options.view)
       /\ trace.kept + trace.skipped = Cardinality(eligible)
       /\ trace.kept = Len(trace.patches) + 1

\* The trace of the recorded answers can be replayed, whatever is left out of it.
TraceReplays ==
  part = "answers" =>
    \A options \in [seq : {Unset, 3}, view : DOMAIN Views,
                    since : {Unset} \cup 0 .. MaxTime, until : {Unset} \cup 0 .. MaxTime] :
      Rebuilds(events, options)
================================================================================

----------------------------- MODULE SessionStore -----------------------------
(***************************************************************************)
(* One session directory - events.jsonl and meta.json of one incarnation   *)
(* of the monitored process - and the monitor runs that write to it, one   *)
(* after the other: utils/session_store.py with _open_session,             *)
(* _close_session and the persisting part of _create_memory_snapshot.      *)
(*                                                                         *)
(* A monitor can be killed between any two writes and in the middle of a   *)
(* line. An atomic step therefore holds at most one write. Between two     *)
(* steps of _open_session or _close_session nothing of the same monitor    *)
(* runs, except at the awaits: before the directory is resolved and in     *)
(* the hydrate callback ("init" and "hydrate"), where a queued websocket   *)
(* message may still be counted.                                           *)
(*                                                                         *)
(* Abstracted: time stamps, the attach/spawn mode and every snapshot field *)
(* but the transaction counts and the RSS. A failing meta.json write stops *)
(* an open or a close where it stands, like a kill (Abandon).              *)
(***************************************************************************)
EXTENDS Naturals, Sequences, FiniteSetsExt

CONSTANTS
  Statuses,       \* the statuses a finished session can carry
  Tx,             \* transaction counts a ledger can carry
  Rss,            \* RSS readings
  MaxSessions,    \* bound on the sessions of one directory
  MaxLines,       \* bound on the lines of events.jsonl when a snapshot is added
  MaxTotal        \* bound on the transactions counted

ASSUME ConstantsTyped ==
  /\ {"running", "open", "abandoned"} \cap Statuses = {}
  /\ "interrupted" \in Statuses
  /\ Tx \subseteq Nat /\ Rss \subseteq Nat
  /\ MaxSessions \in Nat /\ MaxLines \in Nat /\ MaxTotal \in Nat

VARIABLES
  lines,     \* events.jsonl: what each physical line holds
  metaExists, entries, savedPeak,  \* meta.json: is it there, its "sessions"
             \* list and its "summary" (peak_rss_mb)
  pc,        \* where the monitor stands in open, run and close
  n,         \* session_n
  total,     \* total_txns
  peak,      \* _peak_rss_mb: the peak the per-ledger log reports
  sPeak,     \* _session_peak_rss_mb
  sTxns,     \* _session_total_txns
  closed     \* history: the sessions whose _close_session ran to its end

vars == <<lines, metaExists, entries, savedPeak, pc, n, total, peak, sPeak, sTxns, closed>>
meta == <<metaExists, entries, savedPeak>>
counters == <<n, total, peak, sPeak, sTxns>>

-------------------------------------------------------------------------------
(* events.jsonl *)

StartEvent(k) == [kind |-> "start", n |-> k]
EndEvent(k, s) == [kind |-> "end", n |-> k, status |-> s]

\* The session a snapshot belongs to is not part of the record on disk; it is
\* kept here to say what a reader should conclude.
Snapshot(k, tx, cum, rss) ==
  [kind |-> "snapshot", n |-> k, tx |-> tx, cum |-> cum, rss |-> rss]

Events == [kind : {"start"}, n : Nat]
          \cup [kind : {"end"}, n : Nat, status : Statuses]
          \cup [kind : {"snapshot"}, n : Nat, tx : Nat, cum : Nat, rss : Nat]

(* A line is the last event that went into it and what became of it:       *)
(*   "line"    the whole record and its newline                            *)
(*   "bare"    the whole record, but the monitor died before the newline   *)
(*   "torn"    a prefix of the record, no newline                          *)
(*   "glued"   the event was appended whole to an unterminated line; the   *)
(*             newline ends a line that is not JSON                        *)
Forms == {"line", "bare", "torn", "glued"}
Lines == [ev : Events, form : Forms]

Terminated(l) == l.form \in {"line", "glued"}

OpenTail(log) == log # <<>> /\ ~Terminated(log[Len(log)])

\* A write that completes. O_APPEND puts it behind whatever is there.
Append1(log, ev) ==
  IF OpenTail(log)
  THEN [log EXCEPT ![Len(log)] = [ev |-> ev, form |-> "glued"]]
  ELSE Append(log, [ev |-> ev, form |-> "line"])

\* A write the monitor's death cuts short, with or without the closing brace.
AppendCut(log, ev, form) ==
  IF OpenTail(log)
  THEN [log EXCEPT ![Len(log)] = [ev |-> ev, form |-> "torn"]]
  ELSE Append(log, [ev |-> ev, form |-> form])

Readable(l) == l.form \in {"line", "bare"}

\* iter_events: the lines that parse.
IterEvents(log) == {i \in DOMAIN log : Readable(log[i])}

SnapshotsIn(log) == {i \in DOMAIN log : log[i].ev.kind = "snapshot"}

ReadableSnapshots(log) == IterEvents(log) \cap SnapshotsIn(log)

IsLatest(i, log) == /\ i \in ReadableSnapshots(log)
                    /\ \A j \in ReadableSnapshots(log) : j <= i

-------------------------------------------------------------------------------
(* meta.json *)

Larger(a, b) == IF a >= b THEN a ELSE b

Entries == [n : Nat, status : Statuses \cup {"running"}, peak : Nat, txns : Nat]

NewEntry(k) == [n |-> k, status |-> "running", peak |-> 0, txns |-> 0]

\* Wrong: the new session is not counted.
NextSessionNumberPrior == Larger(Len(entries), 1)

NextSessionNumber == IF metaExists THEN Len(entries) + 1 ELSE 1

Finished(e, s, p, t) == [n |-> e.n, status |-> s, peak |-> p, txns |-> t]

\* Wrong: the number is not matched.
UpdateSessionEvery(k, s, p, t) ==
  [i \in DOMAIN entries |-> Finished(entries[i], s, p, t)]

\* update_session: the first entry with the number is merged with the updates.
UpdateSession(k, s, p, t) ==
  [i \in DOMAIN entries |->
     IF entries[i].n = k /\ \A j \in DOMAIN entries : j < i => entries[j].n # k
     THEN Finished(entries[i], s, p, t)
     ELSE entries[i]]

-------------------------------------------------------------------------------
(* The monitor *)

\* "init" and "hydrate" are the points of _open_session other code runs at;
\* the next three are its writes still to come, the last two those of
\* _close_session. "down": no monitor works on the directory.
Phases == {"down", "init", "hydrate", "entry", "start", "run", "ended", "updated"}

Init == /\ lines = <<>> /\ metaExists = FALSE /\ entries = <<>> /\ savedPeak = 0
        /\ pc = "down" /\ n = 0
        /\ total = 0 /\ peak = 0 /\ sPeak = 0 /\ sTxns = 0
        /\ closed = {}

\* _initialize_binary_result: the counters of the previous incarnation go. The
\* per-session ones stay until the session is open.
Begin == /\ pc = "down"
         /\ Len(entries) < MaxSessions /\ Len(lines) < MaxLines
         /\ pc' = "init"
         /\ total' = 0 /\ peak' = 0
         /\ UNCHANGED <<lines, meta, n, sPeak, sTxns, closed>>

\* A ledger close or a poll observed while no store is open: counted, not kept.
ObserveUnsaved(tx, rss) ==
  /\ pc \in {"init", "hydrate"}
  /\ total + tx <= MaxTotal
  /\ total' = total + tx
  /\ peak' = Larger(peak, rss)
  /\ sPeak' = Larger(sPeak, rss) /\ sTxns' = sTxns + tx
  /\ UNCHANGED <<lines, meta, pc, n, closed>>

\* --fresh: the directory is renamed, a clean one takes its place.
SetAside ==
  /\ pc = "init"
  /\ lines' = <<>> /\ closed' = {}
  /\ metaExists' = FALSE /\ entries' = <<>> /\ savedPeak' = 0
  /\ pc' = "hydrate"
  /\ UNCHANGED counters

\* Wrong: the total starts over.
HydrateNoTotal ==
  /\ pc = "init" /\ pc' = "hydrate"
  /\ UNCHANGED <<lines, meta, counters, closed>>

\* Without --fresh, or when the rename failed: the total continues from the
\* latest snapshot on record; then the hydrate callback is awaited.
Hydrate ==
  /\ pc = "init"
  /\ IF ReadableSnapshots(lines) = {}
     THEN UNCHANGED total
     ELSE \E i \in DOMAIN lines : IsLatest(i, lines) /\ total' = lines[i].ev.cum
  /\ pc' = "hydrate"
  /\ UNCHANGED <<lines, meta, n, peak, sPeak, sTxns, closed>>

\* Wrong: the stored peak is not adopted.
EnsureMetaNoPeak ==
  /\ pc = "hydrate" /\ pc' = "entry"
  /\ metaExists' = TRUE
  /\ UNCHANGED <<lines, entries, savedPeak, counters, closed>>

\* The peak of an existing meta.json is adopted; a missing one is created.
EnsureMeta ==
  /\ pc = "hydrate"
  /\ peak' = IF metaExists THEN Larger(peak, savedPeak) ELSE peak
  /\ metaExists' = TRUE
  /\ pc' = "entry"
  /\ UNCHANGED <<lines, entries, savedPeak, n, total, sPeak, sTxns, closed>>

\* append_session: the entry is in meta.json before the log knows the session.
AddEntry ==
  /\ pc = "entry"
  /\ n' = NextSessionNumber
  /\ entries' = Append(entries, NewEntry(NextSessionNumber))
  /\ metaExists' = TRUE
  /\ pc' = "start"
  /\ UNCHANGED <<lines, savedPeak, total, peak, sPeak, sTxns, closed>>

\* Wrong: the per-session counters survive.
WriteStartNoReset ==
  /\ pc = "start" /\ pc' = "run"
  /\ lines' = Append1(lines, StartEvent(n))
  /\ UNCHANGED <<meta, counters, closed>>

\* write_session_start; the store becomes visible to the snapshot code.
WriteStart ==
  /\ pc = "start"
  /\ lines' = Append1(lines, StartEvent(n))
  /\ sPeak' = 0 /\ sTxns' = 0
  /\ pc' = "run"
  /\ UNCHANGED <<meta, n, total, peak, closed>>

\* _create_memory_snapshot with the store open.
WriteSnapshot(tx, rss) ==
  /\ pc = "run"
  /\ Len(lines) < MaxLines /\ total + tx <= MaxTotal
  /\ total' = total + tx
  /\ lines' = Append1(lines, Snapshot(n, tx, total', rss))
  /\ sPeak' = Larger(sPeak, rss) /\ sTxns' = sTxns + tx
  /\ peak' = Larger(peak, rss)
  /\ UNCHANGED <<meta, pc, n, closed>>

\* Wrong: the raw status goes to disk.
EndStatusRaw(s) == s

\* The result of a run that nothing finalized still says "running".
EndStatus(s) == IF s = "running" THEN "interrupted" ELSE s

\* _close_session, its three writes. The status is that of the result.
WriteEnd(s) ==
  /\ pc = "run"
  /\ lines' = Append1(lines, EndEvent(n, EndStatus(s)))
  /\ pc' = "ended"
  /\ UNCHANGED <<meta, counters, closed>>

UpdateEntry ==
  /\ pc = "ended"
  /\ entries' = UpdateSession(n, lines[Len(lines)].ev.status, sPeak, sTxns)
  /\ pc' = "updated"
  /\ UNCHANGED <<lines, metaExists, savedPeak, counters, closed>>

SaveSummary ==
  /\ pc = "updated"
  /\ savedPeak' = Larger(savedPeak, peak)
  /\ closed' = closed \cup {n}
  /\ pc' = "down"
  /\ UNCHANGED <<lines, metaExists, entries, counters>>

\* The counters go with the process. When only the open or the close is given
\* up they linger, but Begin and WriteStart reset them before they are used.
Forget == n' = 0 /\ total' = 0 /\ peak' = 0 /\ sPeak' = 0 /\ sTxns' = 0

\* Between two writes: the monitor is killed, the open is cancelled or one of
\* its calls raises, or a write of _close_session fails and is only logged.
Abandon ==
  /\ pc # "down"
  /\ pc' = "down" /\ Forget
  /\ UNCHANGED <<lines, meta, closed>>

\* In the middle of a write to events.jsonl.
InFlight ==
  CASE pc = "start" -> {StartEvent(n)}
    [] pc = "run" -> {EndEvent(n, s) : s \in Statuses}
                     \cup {Snapshot(n, tx, total + tx, rss) : tx \in Tx, rss \in Rss}
    [] OTHER -> {}

\* Wrong: a write cut short goes unnoticed and the session continues.
DieWritingSurvive ==
  /\ \E ev \in InFlight, form \in {"torn", "bare"} :
       lines' = AppendCut(lines, ev, form)
  /\ UNCHANGED <<meta, pc, counters, closed>>

DieWriting ==
  /\ \E ev \in InFlight, form \in {"torn", "bare"} :
       lines' = AppendCut(lines, ev, form)
  /\ pc' = "down" /\ Forget
  /\ UNCHANGED <<meta, closed>>

Open == SetAside \/ Hydrate \/ EnsureMeta \/ AddEntry \/ WriteStart
Close == (\E s \in Statuses \cup {"running"} : WriteEnd(s)) \/ UpdateEntry \/ SaveSummary

Next == \/ Begin \/ Open \/ Close
        \/ \E tx \in Tx, rss \in Rss : WriteSnapshot(tx, rss) \/ ObserveUnsaved(tx, rss)
        \/ Abandon \/ DieWriting

Spec == Init /\ [][Next]_vars

-------------------------------------------------------------------------------
(* Properties *)

\* Every variable keeps its type.
TypeOK ==
  /\ lines \in Seq(Lines) /\ entries \in Seq(Entries)
  /\ metaExists \in BOOLEAN /\ savedPeak \in Nat /\ pc \in Phases
  /\ n \in Nat /\ total \in Nat /\ peak \in Nat /\ sPeak \in Nat /\ sTxns \in Nat
  /\ closed \subseteq Nat

\* A crash never costs data that was already acknowledged: whatever kills a
\* monitor, in whatever write, every snapshot and every session_end whose
\* write returned stays readable. Only the session_start that the next monitor
\* appends to the cut line can be lost (write_event, iter_events).
OnlyStartsAreSwallowed ==
  \A i \in DOMAIN lines : lines[i].form = "glued" => lines[i].ev.kind = "start"

\* The log is a concatenation of sessions with rising numbers: nothing is
\* logged for a session after its end, nor for an older one after a start,
\* although the number comes from meta.json and each monitor may die at any
\* write (next_session_number, append_session, write_session_start).
SessionsAreBlocks ==
  \A i, j \in DOMAIN lines : i < j =>
    LET a == lines[i].ev  b == lines[j].ev
    IN  /\ a.n <= b.n
        /\ a.kind = "end" \/ b.kind = "start" => a.n < b.n

\* meta.json never claims more than events.jsonl proves and never lacks a
\* session the log knows: a finished entry has its session_end in the log,
\* with the same status (order of writes in _open_session, _close_session).
MetaFollowsLog ==
  /\ \A i \in DOMAIN lines : lines[i].ev.n \in DOMAIN entries
  /\ \A k \in DOMAIN entries :
       entries[k].status # "running" =>
         \E i \in DOMAIN lines :
           lines[i] = [ev |-> EndEvent(k, entries[k].status), form |-> "line"]

\* The cumulative transaction count a reader of the log sees never goes back,
\* across detaches, crashes and reattaches (the restore in _open_session:
\* otherwise "the next snapshot" would show "a regression").
TotalNeverRegresses ==
  \A i, j \in ReadableSnapshots(lines) :
    i < j => lines[i].ev.cum <= lines[j].ev.cum

\* While a session runs, the peak it reports is at least every RSS logged by
\* itself and by the sessions that were closed to the end (the peak adopted
\* from meta.json in _open_session, the maximum saved in _close_session).
PeakCoversClosed ==
  pc = "run" =>
    \A i \in SnapshotsIn(lines) :
      lines[i].ev.n \in closed \cup {n} => lines[i].ev.rss <= peak

\* A finished entry of meta.json sums up exactly the snapshots its session has
\* in the log: nothing of an earlier session, nor of the websocket messages
\* counted before the store was open (_session_peak_rss_mb and its reset).
EntrySummarisesLog ==
  \A k \in DOMAIN entries :
    LET e == entries[k]
        own == {i \in SnapshotsIn(lines) : lines[i].ev.n = k}
    IN  e.status # "running" =>
          /\ e.txns = MapThenSumSet(LAMBDA i : lines[i].ev.tx, own)
          /\ \A i \in own : lines[i].ev.rss <= e.peak
          /\ e.peak # 0 => \E i \in own : lines[i].ev.rss = e.peak

\* What the class comment says of a crash: it "loses at most the in-flight
\* line". False: the first line after a torn one is lost with it.
CrashLosesInFlightOnly == \A i \in DOMAIN lines : Terminated(lines[i]) => Readable(lines[i])

-------------------------------------------------------------------------------
(* The directory as a session history *)

\* The status with which the log closes session k: one, or none.
LoggedEnds(k) == {s \in Statuses :
                    \E i \in DOMAIN lines :
                      lines[i] = [ev |-> EndEvent(k, s), form |-> "line"]}

SessionStatus(k) ==
  CASE LoggedEnds(k) # {} -> CHOOSE s \in LoggedEnds(k) : TRUE
    [] LoggedEnds(k) = {} /\ k = n /\ pc \in {"start", "run"} -> "open"
    [] OTHER -> "abandoned"

KeptSnapshots == {i \in SnapshotsIn(lines) : lines[i].form = "line"}

LatestKept == {i \in KeptSnapshots : \A j \in KeptSnapshots : j <= i}

LatestTotal == IF LatestKept = {} THEN 0 ELSE lines[CHOOSE i \in LatestKept : TRUE].ev.cum

History == INSTANCE SessionHistory
             WITH sessions <- [k \in DOMAIN entries |-> SessionStatus(k)],
                  total <- LatestTotal

\* The directory is a session history: at most the newest session is open, a
\* session is left once, the recorded total never falls, and only --fresh
\* removes anything.
ImplementsHistory == History!HSpec
===============================================================================

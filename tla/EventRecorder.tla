------------------------------ MODULE EventRecorder -------------------------------
(***************************************************************************)
(* The monitor runs that record an events.jsonl, as far as its readers are *)
(* concerned: time, sessions that end or are killed, and what the          *)
(* snapshots hold (services/monitoring_service.py). SessionStore models    *)
(* the same file line by line; here an event is on disk or is not, and a   *)
(* monitor killed in the middle of a write leaves a tail that takes the    *)
(* next event with it.                                                     *)
(***************************************************************************)
EXTENDS EventReaders, LedgersInfoTrace

CONSTANTS
  MaxEvents,    \* bound on the events on disk
  MaxSessions,  \* bound on the monitor runs
  MaxTime,      \* bound on the clock
  Tx,           \* transaction counts of a ledger
  Rss,          \* RSS readings
  Readings,     \* values of a counter and of the node store
  Answers       \* answers to ledgers_info

ASSUME RecorderBounds ==
  /\ MaxEvents \in Nat /\ MaxSessions \in Nat /\ MaxTime \in Nat
  /\ Tx \subseteq Nat /\ Rss \subseteq Nat /\ Readings \subseteq Nat

VARIABLES
  events,    \* what iter_events yields; "of" is the run that wrote an event
  tail,      \* how the file ends: "clean", "torn", or "bare" for a whole record
             \* that lacks its newline
  phase,     \* of the monitor: "off", "opening", "running"
  run,       \* the number of monitor runs so far
  synced,    \* is _monitoring_start_time set
  total,     \* total_txns
  ledger,    \* the last ledger that closed
  latest,    \* latest_breakdown, latest_counts and the projection of latest_ledgers_info
  now        \* the clock

recorderVars == <<events, tail, phase, run, synced, total, ledger, latest, now>>

NothingLatest == [breakdown |-> [k \in {} |-> 0], counts |-> [k \in {} |-> 0], projection |-> NoProjection]

LastOf(r) == events # <<>> /\ events[Len(events)].of = r

RecorderInit ==
  /\ events = <<>> /\ tail = "clean"
  /\ phase = "off" /\ run = 0 /\ synced = FALSE
  /\ total = 0 /\ ledger = 0 /\ latest = NothingLatest /\ now = 0

Tick ==
  /\ now < MaxTime
  /\ now' = now + 1
  /\ UNCHANGED <<events, tail, phase, run, synced, total, ledger, latest>>

\* _initialize_binary_result and the first half of _open_session: the transactions
\* go on from the latest snapshot.
OpenSession ==
  /\ phase = "off" /\ run < MaxSessions
  /\ phase' = "opening" /\ run' = run + 1 /\ synced' = FALSE /\ latest' = NothingLatest
  /\ total' = IF Snapshots(events) = {} THEN 0 ELSE events[Max(Snapshots(events))].cum
  /\ UNCHANGED <<events, tail, ledger, now>>

\* A ledger that closes before the session is open is counted, not recorded.
CloseUnrecorded ==
  /\ phase = "opening" /\ run > 1
  /\ ledger' = ledger + 1
  /\ \E tx \in Tx : total' = total + tx
  /\ UNCHANGED <<events, tail, phase, run, synced, latest, now>>

\* write_session_start, appended to whatever the last monitor left.
WriteStart ==
  /\ phase = "opening" /\ Len(events) < MaxEvents
  /\ phase' = "running" /\ tail' = "clean"
  /\ events' = CASE tail = "clean" -> Append(events, [kind |-> "start", of |-> run, t |-> now, n |-> run])
                 [] tail = "torn" -> events
                 [] tail = "bare" -> SubSeq(events, 1, Len(events) - 1)
  /\ UNCHANGED <<run, synced, total, ledger, latest, now>>

\* The latest values before a snapshot: new answers, or those of before.
Refreshed ==
  {[breakdown |-> b, counts |-> c, projection |-> p] :
     b \in {latest.breakdown} \cup {[k \in {"nodestore"} |-> v] : v \in Readings},
     c \in {latest.counts} \cup {[k \in {"n"} |-> v] : v \in Readings},
     p \in {latest.projection} \cup {Project(a) : a \in Answers}}

Event(l, idx, tx, rss) ==
  [kind |-> "snapshot", of |-> run, t |-> now, ledger |-> idx, tx |-> tx, cum |-> total + tx,
   monitoring |-> synced, rss |-> rss, breakdown |-> l.breakdown, counts |-> l.counts,
   projection |-> l.projection]

Snapshot(idx, txs) ==
  /\ phase = "running" /\ Len(events) < MaxEvents
  /\ \E l \in Refreshed, tx \in txs, rss \in Rss :
       /\ latest' = l /\ total' = total + tx
       /\ events' = Append(events, Event(l, idx, tx, rss))
  /\ UNCHANGED <<tail, phase, run, synced, now>>

\* A round of _polling_phase.
PollSnapshot == ~synced /\ Snapshot(None, {0}) /\ UNCHANGED ledger

\* _handle_websocket_message; the monitor may have missed ledgers while it was off.
LedgerSnapshot ==
  \E idx \in ledger + 1 .. ledger + 2 : Snapshot(idx, Tx) /\ ledger' = idx

\* The end of _polling_phase; at once when the node was synced before.
Sync ==
  /\ phase = "running" /\ ~synced
  /\ synced' = TRUE
  /\ UNCHANGED <<events, tail, phase, run, total, ledger, latest, now>>

\* _close_session
EndSession ==
  /\ phase = "running" /\ Len(events) < MaxEvents
  /\ phase' = "off"
  /\ events' = Append(events, [kind |-> "end", of |-> run, t |-> now, status |-> "completed"])
  /\ UNCHANGED <<tail, run, synced, total, ledger, latest, now>>

\* Killed in the middle of a write: the tail takes a record that lacks its newline
\* with it.
KillWriting ==
  /\ phase # "off"
  /\ phase' = "off" /\ tail' = "torn"
  /\ events' = IF tail = "bare" THEN SubSeq(events, 1, Len(events) - 1) ELSE events
  /\ UNCHANGED <<run, synced, total, ledger, latest, now>>

\* Killed between two writes, or before the newline of the last one.
Kill ==
  /\ phase # "off"
  /\ phase' = "off"
  /\ \/ UNCHANGED tail
     \/ phase = "running" /\ LastOf(run) /\ tail' = "bare"
  /\ UNCHANGED <<events, run, synced, total, ledger, latest, now>>

RecorderNext ==
  \/ Tick \/ OpenSession \/ CloseUnrecorded \/ WriteStart \/ PollSnapshot \/ LedgerSnapshot
  \/ Sync \/ EndSession \/ Kill \/ KillWriting
================================================================================

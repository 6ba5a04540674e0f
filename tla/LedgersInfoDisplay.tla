-------------------------- MODULE LedgersInfoDisplay ---------------------------
(***************************************************************************)
(* The Ledgers Info tab: ui/components/ledgers_info_display.py.            *)
(*                                                                         *)
(* First the timeline of server states, rebuilt from what server_info      *)
(* tells: the current state and how often each state has been entered.     *)
(* Then the table of ledgers being acquired ("inbound"), which keeps what  *)
(* it showed for each ledger, and the raw JSON, cached by the identity of  *)
(* the payload.                                                            *)
(* Abstracted: the times of the timeline; the counters of an acquisition   *)
(* are one number, and its state and its transaction side are one side.    *)
(***************************************************************************)
EXTENDS Integers, Sequences, FiniteSetsExt

CONSTANTS
  StateLogMax,  \* entries the timeline keeps (12)
  RowMax        \* rows of the inbound table (20)

ASSUME DisplayBounds == StateLogMax \in Nat \ {0} /\ RowMax \in Nat \ {0}

-------------------------------------------------------------------------------
(* The timeline: [log, prev, last] *)

Ladder == {"disconnected", "connected", "syncing", "tracking", "full"}
NoTransitions == [s \in {} |-> 0]
NoTimeline == [log |-> <<>>, prev |-> NoTransitions, last |-> "none"]

Cut(s, n) == IF Len(s) <= n THEN s ELSE SubSeq(s, Len(s) - n + 1, Len(s))

\* What a poll adds: for each state, lowest of the ladder first, the visits its
\* counter tells of, and the state the node is in when it is another one.
Pending(tl, transitions, server) ==
  LET Bump(s) == IF s \in DOMAIN tl.prev \cap DOMAIN transitions /\ s # server
                 THEN Max({0, transitions[s] - tl.prev[s]})
                 ELSE 0
      Inferred(s) == [i \in 1 .. Bump(s) |-> [state |-> s, source |-> "inferred"]]
      Observed(s) == IF s = server /\ server # tl.last
                     THEN <<[state |-> s, source |-> "observed"]>> ELSE <<>>
      New(s) == Inferred(s) \o Observed(s)
  IN New("disconnected") \o New("connected") \o New("syncing") \o New("tracking") \o New("full")

\* Wrong: the counters of the first poll stay what the others are compared with.
UpdateStateAccountingFirst(tl, transitions, server) ==
  IF DOMAIN transitions = {} THEN tl
  ELSE IF tl.log = <<>> /\ server # "none"
  THEN [log |-> <<[state |-> server, source |-> "observed"]>>,
        prev |-> transitions, last |-> server]
  ELSE [log |-> Cut(tl.log \o Pending(tl, transitions, server), StateLogMax),
        prev |-> tl.prev, last |-> IF server = "none" THEN tl.last ELSE server]

UpdateStateAccounting(tl, transitions, server) ==
  IF DOMAIN transitions = {} THEN tl
  ELSE IF tl.log = <<>> /\ server # "none"
  THEN [log |-> <<[state |-> server, source |-> "observed"]>>,
        prev |-> transitions, last |-> server]
  ELSE [log |-> Cut(tl.log \o Pending(tl, transitions, server), StateLogMax),
        prev |-> transitions, last |-> IF server = "none" THEN tl.last ELSE server]

Visits(log, s) == Cardinality({i \in DOMAIN log : log[i].state = s})

-------------------------------------------------------------------------------
(* The inbound table: [prev, delta, peak], by ledger *)

NoTime == -1
NoInbound == [prev |-> [q \in {} |-> 0], delta |-> [q \in {} |-> 0], peak |-> [q \in {} |-> 0]]

\* A side is idle from its last request on, when no response came after it.
\* Nothing was asked: there is no gap to remember.
Gap(ibl) ==
  IF ibl.request = NoTime THEN {}
  ELSE IF ibl.response = NoTime THEN {ibl.request}
  ELSE {Max({0, ibl.request - ibl.response})}

\* Wrong: the gap of this poll replaces the peak.
PeakOfPoll(old, ibl) == Max(Gap(ibl) \cup (IF Gap(ibl) = {} THEN old ELSE {}) \cup {0})

Peak(old, ibl) == Max(Gap(ibl) \cup old \cup {0})

\* The details come keyed by ledger, then the rows are the lowest ones; or as a list,
\* which is cut as it comes.
Rows(details, list) ==
  IF list = <<>> THEN {q \in DOMAIN details : Cardinality({r \in DOMAIN details : r < q}) < RowMax}
  ELSE {list[i] : i \in 1 .. Min({RowMax, Len(list)})}

Cached(cache, q) == IF q \in DOMAIN cache THEN {cache[q]} ELSE {}

\* A change since the last table is shown, and kept for the tables without one.
Deltas(panel, details, rows) ==
  LET Moved(q) == q \in DOMAIN panel.prev /\ details[q].counter # panel.prev[q]
  IN [q \in {r \in rows : Moved(r) \/ r \in DOMAIN panel.delta} |->
        IF Moved(q) THEN details[q].counter - panel.prev[q] ELSE panel.delta[q]]

\* Wrong: the peaks of ledgers that are done stay.
PeaksUnpruned(panel, details, rows) ==
  [q \in rows \cup DOMAIN panel.peak |->
    IF q \in DOMAIN details THEN Peak(Cached(panel.peak, q), details[q]) ELSE panel.peak[q]]

Peaks(panel, details, rows) ==
  [q \in {r \in rows : Gap(details[r]) # {} \/ r \in DOMAIN panel.peak} |->
    Peak(Cached(panel.peak, q), details[q])]

\* The caches follow the rows; a table without rows leaves them as they are.
InboundPanel(panel, details, rows) ==
  IF DOMAIN details = {} THEN panel
  ELSE [prev |-> [q \in rows |-> details[q].counter],
        delta |-> Deltas(panel, details, rows),
        peak |-> Peaks(panel, details, rows)]

-------------------------------------------------------------------------------
(* The raw JSON: [id, text] *)

NoRaw == [id |-> 0, text |-> 0]

RawJson(raw, id, text) == IF id # raw.id THEN [id |-> id, text |-> text] ELSE raw
================================================================================

------------------------------- MODULE Dashboard -------------------------------
(***************************************************************************)
(* The dashboard of a monitor attached to a node, with the state manager   *)
(* between them: ui/dashboard.py, managers/state_manager.py and the parts  *)
(* of services/monitoring_service.py that fill the shared state. The node  *)
(* comes and goes, the monitor reattaches and is itself quit and launched  *)
(* again; widgets keep histories of their own, which a reset has to clear  *)
(* and the events of earlier runs have to refill.                          *)
(*                                                                         *)
(* Every setter of the state manager notifies all observers before it      *)
(* gives up control, and an observer reads the whole state, so the same    *)
(* values reach the widgets many times. A datum carries the process it is  *)
(* of: the one attached to, or its successor, as the websocket goes by     *)
(* address and reconnects to whoever listens there. Abstracted: the        *)
(* metrics are one counter "n" (the heap bytes follow it); timing, paint,  *)
(* and catalogue_status, which goes the way of the job types.              *)
(***************************************************************************)
EXTENDS Trends, LedgersInfoDisplay, SequencesExt

CONSTANTS
  MaxProcs,      \* bound on the processes of the node
  MaxMoves,      \* bound on the changes of a process's counter and state
  MaxSnapshots,  \* bound on the snapshots of a process
  NodeStates     \* the server states the node goes through

ASSUME DashboardBounds == MaxProcs \in Nat /\ MaxMoves \in Nat /\ MaxSnapshots \in Nat
ASSUME StatesOfLadder == NodeStates \subseteq Ladder /\ "connected" \in NodeStates

VARIABLES
  running,   \* the process that runs, 0 for none
  started,   \* processes there have been
  node,      \* what each process would answer
  log,       \* the snapshots in each process's events.jsonl
  phase,     \* of the monitor, one of Phases
  attached,  \* the process it is or was last attached to
  latest,    \* latest_counts, latest_heap_sample and the latest panels of the service
  state,     \* ApplicationState
  ui,        \* the widgets
  sampling,  \* _heap_sampling_in_flight
  samples,   \* heap samples being taken, [of, val]
  fed        \* the counters and heap bytes the widgets were to learn of, in order

nodeVars == <<running, started, node>>
taskVars == <<sampling, samples>>
vars == <<nodeVars, log, phase, attached, latest, state, ui, taskVars, fed>>

\* "polling" and "refreshing" are the rounds of "syncing" and "monitoring", from the
\* look at the process to the answers.
Awake == {"opening", "syncing", "polling", "monitoring", "refreshing"}
Phases == {"off", "attaching", "ended"} \cup Awake

Procs == 1 .. MaxProcs
None == [of |-> 0, val |-> 0]
Panels == {"job_types", "memory_breakdown", "ledgers_info"}
Counter(n) == [k \in {"n"} |-> n]
NoHistory == [k \in {} |-> 0]

InitialState ==
  [counts |-> None, heap |-> None, server |-> "none", transitions |-> NoTransitions,
   serverOf |-> 0, accountingOf |-> 0, panel |-> [p \in Panels |-> 0]]

FreshWidgets ==
  [counts |-> NoHistory, countsStats |-> NoHistory, pools |-> NoHistory,
   poolsStats |-> NoHistory, heap |-> NoHistory, timeline |-> NoTimeline, graph |-> {},
   shown |-> [p \in Panels \cup {"counts", "pools", "heap"} |-> 0]]

NoLatest == [counts |-> None, heap |-> None, panels |-> {}]
NothingFed == [counts |-> <<>>, heap |-> <<>>]

\* A process when it is first seen: connected, or further up already.
NewProcesses ==
  {[counter |-> 1, state |-> s, moves |-> 0,
    transitions |-> [t \in NodeStates |-> IF t \in {s, "connected"} THEN 1 ELSE 0]]
   : s \in NodeStates}

Init ==
  /\ running = 0 /\ started = 0
  /\ node \in [Procs -> NewProcesses] /\ log = [p \in Procs |-> <<>>]
  /\ phase = "off" /\ attached = 0 /\ latest = NoLatest
  /\ state = InitialState /\ ui = FreshWidgets
  /\ sampling = FALSE /\ samples = {} /\ fed = NothingFed

-------------------------------------------------------------------------------
(* The state manager and its observer *)

\* on_state_change: what the state holds goes to both tabs; what it lacks is not
\* cleared.
Observe(u, s) ==
  LET with == s.counts.of # 0
      Shown(p) == CASE p \in Panels -> s.panel[p]
                    [] p = "heap" -> s.heap.of
                    [] OTHER -> s.counts.of
      Counts(h) == IF with THEN UpdateCounts(h, Counter(s.counts.val)) ELSE h
      Pools(h) == IF with THEN UpdatePools(h, Counter(s.counts.val)) ELSE h
  IN [counts |-> Counts(u.counts), countsStats |-> Counts(u.countsStats),
      pools |-> Pools(u.pools), poolsStats |-> Pools(u.poolsStats),
      heap |-> IF s.heap.of # 0 THEN UpdateSample(u.heap, Counter(s.heap.val)) ELSE u.heap,
      timeline |-> UpdateStateAccounting(u.timeline, s.transitions, s.server),
      graph |-> u.graph,
      shown |-> [p \in DOMAIN u.shown |-> IF Shown(p) # 0 THEN Shown(p) ELSE u.shown[p]]]

\* The widgets after a notification for each of these states.
Notified(u, states) == FoldLeft(Observe, u, states)

\* What the widgets have to learn of.
Learnt(series, v) == IF series # <<>> /\ Last(series) = v THEN series ELSE Append(series, v)

-------------------------------------------------------------------------------
(* The node *)

Start ==
  /\ running = 0 /\ started < MaxProcs
  /\ running' = started + 1 /\ started' = started + 1
  /\ UNCHANGED <<node, log, phase, attached, latest, state, ui, taskVars, fed>>

Die ==
  /\ running # 0
  /\ running' = 0
  /\ UNCHANGED <<started, node, log, phase, attached, latest, state, ui, taskVars, fed>>

Works ==
  /\ running # 0 /\ node[running].moves < MaxMoves
  /\ \/ \E n \in {node[running].counter - 1, node[running].counter + 1} \cap Nat :
          node' = [node EXCEPT ![running].counter = n, ![running].moves = @ + 1]
     \/ \E s \in NodeStates \ {node[running].state} :
          node' = [node EXCEPT ![running].state = s, ![running].moves = @ + 1,
                               ![running].transitions[s] = @ + 1]
  /\ UNCHANGED <<running, started, log, phase, attached, latest, state, ui, taskVars, fed>>

-------------------------------------------------------------------------------
(* Attaching and reattaching *)

\* _initialize_binary_result, at the start of an incarnation.
Initialized == latest' = NoLatest /\ sampling' = FALSE

Launch ==
  /\ phase = "off" /\ running # 0
  /\ phase' = "attaching" /\ attached' = running
  /\ Initialized
  /\ UNCHANGED <<nodeVars, log, state, ui, samples, fed>>

\* _reset_ui_for_new_incarnation but for the shared state. The histories of the
\* pools and the caches of the inbound table stay.
Reset(u) ==
  [FreshWidgets EXCEPT !.pools = u.pools, !.poolsStats = u.poolsStats]

\* Wrong: the shared state stays, and the next notification brings it back.
ReattachUnreset ==
  /\ phase = "ended" /\ running # 0
  /\ phase' = "attaching" /\ attached' = running
  /\ ui' = Notified(Reset(ui), <<state>>)
  /\ fed' = NothingFed
  /\ Initialized
  /\ UNCHANGED <<nodeVars, log, state, samples>>

\* A process is found, perhaps the one that was lost: the dashboard is cleared,
\* the state last, and the incarnation begins.
Reattach ==
  /\ phase = "ended" /\ running # 0
  /\ phase' = "attaching" /\ attached' = running
  /\ state' = InitialState
  /\ ui' = Notified(Reset(ui), <<InitialState>>)
  /\ fed' = NothingFed
  /\ Initialized
  /\ UNCHANGED <<nodeVars, log, samples>>

Has(s, key) == s[key].of # 0

HydrateCounts(h, s) == IF Has(s, "counts") THEN UpdateCounts(h, Counter(s.counts.val)) ELSE h
HydrateSample(h, s) == IF Has(s, "heap") THEN UpdateSample(h, Counter(s.heap.val)) ELSE h
HydrateTimeline(tl, s) == UpdateStateAccounting(tl, s.transitions, s.server)
LaterHeap(heap, s) == IF Has(s, "heap") THEN s.heap ELSE heap

\* _hydrate_ui_from_events: the histories are replayed from all snapshots, the
\* state is filled from the last one. The pools and the accounting are not.
HydratedWidgets(u, snapshots, p) ==
  LET heap == FoldLeft(LaterHeap, None, snapshots)
  IN [u EXCEPT
        !.graph = @ \cup {p},
        !.counts = FoldLeft(HydrateCounts, @, snapshots),
        !.countsStats = FoldLeft(HydrateCounts, @, snapshots),
        !.heap = FoldLeft(HydrateSample, NoHistory, snapshots),
        !.timeline = FoldLeft(HydrateTimeline, NoTimeline, snapshots),
        !.shown = [u.shown EXCEPT
          !["counts"] = IF \E i \in DOMAIN snapshots : Has(snapshots[i], "counts") THEN p ELSE @,
          !["heap"] = IF heap = None THEN @ ELSE heap.of]]

HydratedState(s, snapshots, p) ==
  LET last == Last(snapshots)
      heap == FoldLeft(LaterHeap, None, snapshots)
  IN [s EXCEPT
        !.counts = IF last.counts.of # 0 THEN last.counts ELSE @,
        !.heap = IF heap # None THEN heap ELSE @,
        !.server = IF last.server # "none" THEN last.server ELSE @,
        !.serverOf = IF last.server # "none" THEN p ELSE @,
        !.panel = [q \in Panels |-> IF q \in last.panels THEN p ELSE @[q]]]

LearntCounts(f, s) == IF Has(s, "counts") THEN Learnt(f, s.counts.val) ELSE f
LearntHeap(f, s) == IF Has(s, "heap") THEN Learnt(f, s.heap.val) ELSE f

\* attach_to_process, update_process_info, and _open_session with the hydration.
OpenSession ==
  /\ phase = "attaching" /\ running = attached
  /\ LET snapshots == log[attached]
         filled == IF snapshots = <<>> THEN state ELSE HydratedState(state, snapshots, attached)
         told == Notified(ui, <<state>>)
     IN /\ ui' = IF snapshots = <<>> THEN Notified(told, <<state>>)
                 ELSE Notified(HydratedWidgets(told, snapshots, attached), <<filled>>)
        /\ fed' = [counts |-> FoldLeft(LearntCounts, fed.counts, snapshots),
                   heap |-> IF snapshots = <<>> THEN fed.heap
                            ELSE LearntHeap(FoldLeft(LearntHeap, <<>>, snapshots), filled)]
        /\ state' = filled
  /\ phase' = "opening"
  /\ UNCHANGED <<nodeVars, log, attached, latest, taskVars>>

\* Who may have answered a request: nobody asks whether it is the process that is
\* monitored, which may have died and been replaced since it was looked at.
Sources == {attached, running} \ {0}

\* _ingest_server_state_fields, with the answer of p.
Ingested(p) ==
  [state EXCEPT !.server = node[p].state, !.serverOf = p,
                !.transitions = node[p].transitions, !.accountingOf = p]

\* The first server_info: it goes into the state without a notification.
FirstInfo ==
  /\ phase = "opening"
  /\ state' \in {state} \cup {Ingested(p) : p \in Sources}
  /\ phase' = "syncing"
  /\ UNCHANGED <<nodeVars, log, attached, latest, ui, taskVars, fed>>

\* The incarnation ends: the process died or does not answer, or the time is up.
EndIncarnation ==
  /\ phase \in Awake \cup {"attaching"}
  /\ phase' = "ended"
  /\ ui' = Notified(ui, <<state>>)
  /\ UNCHANGED <<nodeVars, log, attached, latest, state, taskVars, fed>>

Quit ==
  /\ phase # "off"
  /\ phase' = "off" /\ attached' = 0 /\ latest' = NoLatest
  /\ state' = InitialState /\ ui' = FreshWidgets
  /\ sampling' = FALSE /\ samples' = {} /\ fed' = NothingFed
  /\ UNCHANGED <<nodeVars, log>>

-------------------------------------------------------------------------------
(* What fills the state *)

Requests == {"server_info", "get_counts", "ledgers_info"}

\* The answers of a round: by whom each request that succeeded was answered.
Answers == UNION {[asked -> Sources] : asked \in SUBSET Requests}

\* The states a poll goes through, each of them told to the observers, and the
\* service's own latest values.
Polled(by) ==
  LET said(r) == r \in DOMAIN by
      info == IF ~said("server_info") THEN state
              ELSE [Ingested(by["server_info"]) EXCEPT !.panel["job_types"] = by["server_info"]]
      counts == IF ~said("get_counts") THEN info
                ELSE [info EXCEPT !.counts = [of |-> by["get_counts"],
                                              val |-> node[by["get_counts"]].counter]]
      rest == IF ~said("ledgers_info") THEN counts
              ELSE [counts EXCEPT !.panel["ledgers_info"] = by["ledgers_info"]]
  IN [states |-> (IF said("server_info") THEN <<info, info>> ELSE <<>>)
                 \o (IF said("get_counts") THEN <<counts>> ELSE <<>>)
                 \o (IF said("ledgers_info") THEN <<rest>> ELSE <<>>),
      last |-> rest,
      latest |-> [latest EXCEPT
                    !.counts = IF said("get_counts") THEN rest.counts ELSE @,
                    !.panels = @ \cup (IF said("server_info") THEN {"job_types"} ELSE {})]]

FedBy(by) ==
  IF "get_counts" \in DOMAIN by
  THEN [fed EXCEPT !.counts = Learnt(@, node[by["get_counts"]].counter)] ELSE fed

\* _create_memory_snapshot: counts, heap and panels are the service's, the rest
\* the shared state's.
SnapshotOf(l, s) ==
  [counts |-> l.counts, heap |-> l.heap, panels |-> l.panels,
   server |-> s.server, transitions |-> s.transitions]

Logged(snapshot) ==
  log' = IF Len(log[attached]) < MaxSnapshots
         THEN [log EXCEPT ![attached] = Append(@, snapshot)] ELSE log

\* The top of both loops: the process is alive when the requests are sent.
BeginRound ==
  /\ phase \in {"syncing", "monitoring"} /\ running = attached
  /\ phase' = IF phase = "syncing" THEN "polling" ELSE "refreshing"
  /\ UNCHANGED <<nodeVars, log, attached, latest, state, ui, taskVars, fed>>

\* A round of _polling_phase: it ends with a snapshot and two more notifications.
Poll ==
  /\ phase = "polling"
  /\ \E by \in Answers :
       LET poll == Polled(by)
       IN /\ latest' = poll.latest /\ state' = poll.last /\ fed' = FedBy(by)
          /\ ui' = Notified(ui, poll.states \o <<poll.last, poll.last>>)
          /\ Logged(SnapshotOf(poll.latest, poll.last))
  /\ phase' = "syncing"
  /\ UNCHANGED <<nodeVars, attached, taskVars>>

\* The round that finds the node synced stops short of the counts.
Synced ==
  /\ phase = "polling"
  /\ \E by \in [{"server_info"} -> Sources] :
       LET poll == Polled(by)
       IN /\ latest' = poll.latest /\ state' = poll.last
          /\ ui' = Notified(ui, poll.states)
  /\ phase' = "monitoring"
  /\ UNCHANGED <<nodeVars, log, attached, taskVars, fed>>

\* A round of _monitoring_phase.
Refresh ==
  /\ phase = "refreshing"
  /\ \E by \in Answers :
       LET poll == Polled(by)
       IN /\ latest' = poll.latest /\ state' = poll.last /\ fed' = FedBy(by)
          /\ ui' = Notified(ui, poll.states)
  /\ phase' = "monitoring"
  /\ UNCHANGED <<nodeVars, log, attached, taskVars>>

\* A ledger closes, at whatever node: a snapshot, and a heap sample when the node is
\* full and none is being taken. heap(1) goes by pid: of a dead process it has none.
LedgerClosed ==
  /\ phase \in Awake /\ running # 0
  /\ Logged(SnapshotOf(latest, state))
  /\ \/ UNCHANGED taskVars
     \/ /\ ~sampling /\ state.server = "full"
        /\ sampling' = TRUE
        /\ samples' = samples \cup {IF running = attached
                                   THEN [of |-> attached, val |-> node[attached].counter]
                                   ELSE None}
  /\ UNCHANGED <<nodeVars, phase, attached, latest, state, ui, fed>>

\* The sample arrives, whatever the monitor does by then.
HeapSample ==
  \E s \in samples :
    /\ samples' = samples \ {s} /\ sampling' = FALSE
    /\ \/ UNCHANGED <<latest, state, ui, fed>>   \* it failed
       \/ /\ s # None
          /\ latest' = [latest EXCEPT !.heap = s]
          /\ state' = [state EXCEPT !.heap = s]
          /\ ui' = Notified(ui, <<state'>>)
          /\ fed' = [fed EXCEPT !.heap = Learnt(@, s.val)]
    /\ UNCHANGED <<nodeVars, log, phase, attached>>

\* _refresh_breakdown_periodically, cancelled with the incarnation.
RefreshBreakdown ==
  /\ phase \in Awake \cup {"attaching"} /\ running = attached
  /\ state' = [state EXCEPT !.panel["memory_breakdown"] = attached]
  /\ latest' = [latest EXCEPT !.panels = @ \cup {"memory_breakdown"}]
  /\ ui' = Notified(ui, <<state'>>)
  /\ UNCHANGED <<nodeVars, log, phase, attached, taskVars, fed>>

\* _update_memory_stats, every second: the graph grows while a service is there.
UpdateMemoryStats ==
  /\ phase \in Awake \cup {"attaching"} /\ running = attached
  /\ ui' = [Notified(ui, <<state>>) EXCEPT !.graph = @ \cup {attached}]
  /\ UNCHANGED <<nodeVars, log, phase, attached, latest, state, taskVars, fed>>

\* Any other setter: the tick of the clocks, a status, a pause.
Tell ==
  /\ phase # "off"
  /\ ui' = Notified(ui, <<state>>)
  /\ UNCHANGED <<nodeVars, log, phase, attached, latest, state, taskVars, fed>>

DashboardNext ==
  \/ Start \/ Die \/ Works
  \/ Launch \/ Reattach \/ OpenSession \/ FirstInfo \/ EndIncarnation \/ Quit
  \/ BeginRound \/ Poll \/ Synced \/ Refresh \/ LedgerClosed \/ HeapSample
  \/ RefreshBreakdown \/ UpdateMemoryStats \/ Tell

DashboardSpec == Init /\ [][DashboardNext]_vars

-------------------------------------------------------------------------------
(* Properties *)

\* Nothing that the shared state holds or the widgets show is of a process before the
\* one attached to, through deaths, reattaching, late answers and however many
\* notifications. What is asked by address may be of a successor that answered in its
\* stead; the graph and the breakdown, asked by pid, may not. Exempt is a heap sample:
\* it arrives when it is done.
NothingStale ==
  LET own == {0} \cup attached .. started
  IN phase # "off" =>
       /\ {state.counts.of, state.serverOf, state.accountingOf} \subseteq own
       /\ \A p \in Panels : state.panel[p] \in own
       /\ \A p \in DOMAIN ui.shown \ {"heap"} : ui.shown[p] \in own
       /\ {state.panel["memory_breakdown"], ui.shown["memory_breakdown"]} \subseteq {0, attached}
       /\ ui.graph \subseteq {attached}

Made(p, s) == IF p = 0 THEN 0 ELSE node[p].transitions[s]

\* The timeline never shows more visits to a state than the node it is attached to
\* has made, and the successor that answered in its stead if one did, though it is fed
\* the same counters many times and a part of it is replayed from the events of earlier
\* runs.
NoInventedTransitions ==
  phase # "off" =>
    \A s \in NodeStates :
      Visits(ui.timeline.log, s) <=
        Made(attached, s)
          + IF state.accountingOf = attached THEN 0 ELSE Made(state.accountingOf, s)

\* What the reset hook promises, "clear all widget history so the dashboard looks
\* freshly launched": a trend remembers only what it learnt since. False: the pools'
\* trends are not reset, and the next process goes on from the values of the last.
ColdLaunchLook ==
  /\ fed.counts = <<>> => {ui.counts, ui.countsStats, ui.pools, ui.poolsStats} = {NoHistory}
  /\ fed.heap = <<>> => ui.heap = NoHistory

Grew(s) ==
  /\ s # <<>> /\ Last(s) > Head(s)
  /\ \A i \in 1 .. Len(s) - 1 : s[i] <= s[i + 1]

\* '++' is drawn exactly for the metrics that grew and never fell, as far as the
\* widgets were to learn of them since the reset, by events replayed or by polls;
\* beside it no arrow points down, and both tabs agree.
MarkersMatchHistory ==
  /\ \A k \in DOMAIN ui.counts : MonotonicGrowing(ui.counts[k]) <=> Grew(fed.counts)
  /\ \A k \in DOMAIN ui.heap : ClassGrows(ui.heap[k]) <=> Grew(fed.heap)
  /\ \A h \in {ui.counts, ui.pools} : \A k \in DOMAIN h :
       MonotonicGrowing(h[k]) => h[k].trend # "down"
  /\ ui.counts = ui.countsStats /\ ui.pools = ui.poolsStats
================================================================================

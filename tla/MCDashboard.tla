------------------------------ MODULE MCDashboard ------------------------------
(***************************************************************************)
(* The dashboard in five parts, a behaviour exercises one of them: the     *)
(* counters behind the markers, the heap samples, the server states behind *)
(* the timeline, the panels whose data comes and stays away, and the       *)
(* Ledgers Info tab.                                                       *)
(***************************************************************************)
EXTENDS Dashboard, InboundTable, Functions

VARIABLE part  \* what a behaviour is about

\* Bounds on the variety of a part, not the program's.
SameState(s) == \A p \in Procs : node[p].state = s
SameCounter == \A p \in Procs : node[p].counter = 1
NoCounts == state.counts.of = 0
NoPanels == latest.panels \subseteq {"job_types"} /\ state.panel["ledgers_info"] = 0
NoServer == state.serverOf = 0
Moves == FoldFunction(+, 0, [p \in Procs |-> node[p].moves])
NoSamples == samples = {}

Within ==
  \/ part = "counters" /\ NoServer /\ SameState("full") /\ NoPanels /\ NoSamples /\ Moves <= MaxMoves
  \/ part = "heap" /\ SameState("full") /\ NoPanels /\ NoCounts /\ Moves <= 1
  \/ part = "states" /\ SameCounter /\ NoPanels /\ NoSamples /\ NoCounts
  \/ part = "panels" /\ SameCounter /\ SameState("full") /\ NoSamples /\ NoCounts
  \/ part = "inbound" /\ SameState("full")

Init0 == part \in {"counters", "heap", "states", "panels", "inbound"} /\ Init /\ InboundInit /\ Within

Histories == part # "inbound" /\ UNCHANGED <<part, inboundVars>> /\ DashboardNext /\ Within'
Inbound == part = "inbound" /\ InboundNext /\ UNCHANGED <<part, vars>>

Spec == Init0 /\ [][Histories \/ Inbound]_<<part, vars, inboundVars>>

-------------------------------------------------------------------------------
(* Properties *)

\* Every variable keeps its type and the bounded histories their bound.
TypeOK ==
  /\ running \in 0 .. MaxProcs /\ started \in 0 .. MaxProcs /\ attached \in 0 .. MaxProcs
  /\ phase \in Phases
  /\ \A p \in Procs : Len(log[p]) <= MaxSnapshots
  /\ \A h \in {ui.counts, ui.pools} : \A k \in DOMAIN h :
       /\ Len(h[k].deltas) <= TrendWindow
       /\ h[k].trend \in {"none", "up", "down"}
  /\ Len(ui.timeline.log) <= StateLogMax
  /\ Cardinality(DOMAIN panel.prev) <= RowMax
  /\ DOMAIN panel.peak \cup DOMAIN panel.delta \subseteq DOMAIN panel.prev
  /\ sampling \in BOOLEAN /\ resets \in 0 .. 1
================================================================================

----------------------------- MODULE LedgersInfoTrace -----------------------------
(***************************************************************************)
(* The compact form of a ledgers_info answer that goes into a snapshot,    *)
(* and its offline trace, a baseline and then only differences:            *)
(* utils/ledgers_info_projection.py, utils/ledgers_info_trace.py.          *)
(*                                                                         *)
(* An answer is [validated, seen, behind, ranges, details, peers], the     *)
(* details a function from ledgers, the peers one from peer ids. A         *)
(* projection is a function from paths to values; without an answer there  *)
(* is none, the empty function. Abstracted: the counters of a ledger or a  *)
(* peer are one value, and so are the local pointers; the quorum hash;     *)
(* --max-ops, which cuts what is printed; headers.                         *)
(***************************************************************************)
EXTENDS LedgersInfoGaps, SequencesExt

NoProjection == [k \in {} |-> 0]
Unset == -1

\* Ledgers and peers are keyed by their number, so that one that comes or goes
\* does not move the others.
Project(info) ==
  LET inferred == InferredGap(info.validated, info.ranges)
      paths == {<<"pointers", "seen">>, <<"pointers", "validated">>, <<"gaps", "behind">>,
                <<"gaps", "inferred">>, <<"ranges", "inbound">>}
               \cup {<<"ibls", q>> : q \in DOMAIN info.details}
               \cup {<<"peers", p>> : p \in DOMAIN info.peers}
  IN [k \in paths |->
       CASE k[1] = "pointers" -> IF k[2] = "seen" THEN info.seen ELSE info.validated
         [] k[1] = "gaps" -> IF k[2] = "behind" THEN info.behind
                             ELSE IF inferred = {} THEN Unset ELSE CHOOSE g \in inferred : TRUE
         [] k[1] = "ranges" -> info.ranges
         [] k[1] = "ibls" -> info.details[k[2]]
         [] k[1] = "peers" -> info.peers[k[2]]]

Views == [pointers |-> {"pointers", "gaps"},
          ibls |-> {"pointers", "ibls"},
          peers |-> {"pointers", "peers"},
          all |-> {"pointers", "gaps", "ranges", "ibls", "peers"}]

\* --seq keeps one ledger and no peers, --view some of the parts.
FilterProjection(proj, seq, view) ==
  [k \in {x \in DOMAIN proj :
            /\ x[1] \in Views[view]
            /\ seq = Unset \/ (x[1] # "peers" /\ (x[1] = "ibls" => x[2] = seq))} |-> proj[k]]

Within(t, since, until) == (since = Unset \/ t >= since) /\ (until = Unset \/ t <= until)

\* jsonpatch.make_patch
MakePatch(prior, proj) ==
  [removed |-> DOMAIN prior \ DOMAIN proj,
   values |-> [k \in {x \in DOMAIN proj : x \in DOMAIN prior => prior[x] # proj[x]} |-> proj[k]]]
NoChange(patch) == patch.removed = {} /\ DOMAIN patch.values = {}

\* What whoever reads the trace does with a difference (jsonpatch.apply_patch).
ApplyPatch(proj, patch) ==
  [k \in (DOMAIN proj \ patch.removed) \cup DOMAIN patch.values |->
     IF k \in DOMAIN patch.values THEN patch.values[k] ELSE proj[k]]

\* The arguments of render_trace and its variables before the first snapshot.
Untraced(options) ==
  [options |-> options, baseline |-> <<>>, prior |-> NoProjection, patches |-> <<>>,
   kept |-> 0, skipped |-> 0]

\* Wrong: every difference is one to the baseline.
TracedFromBaseline(trace, proj) ==
  LET patch == MakePatch(trace.prior, proj)
  IN IF trace.baseline = <<>>
     THEN [trace EXCEPT !.baseline = <<proj>>, !.prior = proj, !.kept = 1]
     ELSE IF NoChange(patch) THEN [trace EXCEPT !.skipped = @ + 1]
     ELSE [trace EXCEPT !.patches = Append(@, patch), !.kept = @ + 1]

\* What the next snapshot's projection adds to what has been printed.
Traced(trace, proj) ==
  LET patch == MakePatch(trace.prior, proj)
  IN IF trace.baseline = <<>>
     THEN [trace EXCEPT !.baseline = <<proj>>, !.prior = proj, !.kept = 1]
     ELSE IF NoChange(patch) THEN [trace EXCEPT !.prior = proj, !.skipped = @ + 1]
     ELSE [trace EXCEPT !.prior = proj, !.patches = Append(@, patch), !.kept = @ + 1]

\* The snapshots render_trace does not pass over.
Eligible(e, options) ==
  /\ e.kind = "snapshot" /\ DOMAIN e.projection # {}
  /\ Within(e.t, options.since, options.until)

TracedEvent(trace, e) ==
  IF Eligible(e, trace.options)
  THEN Traced(trace, FilterProjection(e.projection, trace.options.seq, trace.options.view))
  ELSE trace

RenderTrace(events, options) == FoldLeft(TracedEvent, Untraced(options), events)
================================================================================

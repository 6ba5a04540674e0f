----------------------------- MODULE LedgersInfoGaps ------------------------------
(***************************************************************************)
(* The numbers read out of ranges of ledgers, and the diagnosis the        *)
(* Ledgers Info tab draws from the gaps a node reports: utils/parsers.py,  *)
(* ui/components/ledgers_info_display.py.                                  *)
(*                                                                         *)
(* Ranges are a sequence of [lo, hi, single]: "5" is single, "5-5" is not. *)
(* An optional number is a set with it or the empty set. Abstracted: parts *)
(* of a range that are no numbers, and the styling.                        *)
(***************************************************************************)
EXTENDS Integers, Sequences, FiniteSetsExt

\* parse_ledger_ranges: what has no dash does not count.
ParseLedgerRanges(ranges) ==
  MapThenSumSet(LAMBDA i : ranges[i].hi - ranges[i].lo + 1,
                {i \in DOMAIN ranges : ~ranges[i].single})

MaxSeqInRanges(ranges) ==
  IF ranges = <<>> THEN {} ELSE {Max({ranges[i].hi : i \in DOMAIN ranges})}

\* How far the ledgers being acquired are ahead of the validated one, when there is one.
InferredGap(validated, ranges) ==
  {IF tip > validated THEN tip - validated ELSE 0 :
     tip \in IF validated > 0 THEN MaxSeqInRanges(ranges) ELSE {}}

\* More than this is a computation on state that is not there.
AbsurdGap == 100000

Suspect(behind, inferred) ==
  behind > AbsurdGap \/ \E g \in inferred : behind > 5 * g + 50

\* The gap to the network the diagnosis goes by: the node's own when it can know it
\* and it is plausible. seen is 0 in builds that do not tell it.
BehindForDiagnosis(seen, behind, inferred) ==
  IF seen > 0 /\ ~Suspect(behind, inferred) THEN {behind} ELSE inferred

\* _diagnose with a gap that is known.
DiagnoseNetwork(b, p, c) ==
  CASE b = 0 /\ p = 0 /\ c = 0 -> "healthy"
    [] b = 0 /\ p > 0 /\ c = 0 -> "publish_backed_up"
    [] b > 0 /\ p = 0 /\ c = 0 -> "falling_behind"
    [] b > 0 /\ p > 0 /\ c > 0 -> "local_stall"
    [] b = 0 /\ p = 0 /\ c > 0 -> "waiting_for_validations"
    [] OTHER -> "mixed"

\* _diagnose without one.
DiagnoseLocal(p, c) ==
  CASE p = 0 /\ c = 0 -> "local_healthy"
    [] p > 0 /\ c = 0 -> "publish_backed_up"
    [] c > 0 -> "waiting_for_validations"
    [] OTHER -> "local"

Diagnose(behind, publish, close) ==
  IF behind = {} THEN DiagnoseLocal(publish, close)
  ELSE DiagnoseNetwork(CHOOSE b \in behind : TRUE, publish, close)

\* _gaps_panel, its last row.
Diagnosis(seen, validated, ranges, behind, publish, close) ==
  Diagnose(BehindForDiagnosis(seen, behind, InferredGap(validated, ranges)), publish, close)
================================================================================

----------------------------- MODULE InboundTable ------------------------------
(***************************************************************************)
(* The Ledgers Info tab over many polls: rippled acquires ledgers, a poll  *)
(* brings a new payload, and every notification draws the payload of the   *)
(* shared state again. The payload is a Python object: its id() is an      *)
(* address, free again when nothing refers to the object.                  *)
(***************************************************************************)
EXTENDS LedgersInfoDisplay, SequencesExt

CONSTANTS
  Ledgers,   \* the ledgers that may be acquired
  MaxTime,   \* bound on the time an acquisition takes
  MaxPolls   \* bound on the polls

ASSUME InboundBounds == Ledgers \subseteq Nat /\ MaxTime \in Nat /\ MaxPolls \in Nat

VARIABLES
  ibls,   \* what rippled acquires: ledger -> [counter, request, response]
  polls,  \* polls so far: names the payloads
  held,   \* the payload of the shared state: [id, text, details, list], id 0 for None
  panel,  \* the caches of the table
  raw,    \* the cached raw JSON
  high,   \* the longest gap drawn of each ledger since it entered the table
  resets  \* incarnations that ended

inboundVars == <<ibls, polls, held, panel, raw, high, resets>>

NoLedgers == [q \in {} |-> 0]
NoPayload == [id |-> 0, text |-> 0, details |-> NoLedgers, list |-> <<>>]
Addresses == 1 .. 2

InboundInit ==
  /\ ibls = NoLedgers /\ polls = 0 /\ held = NoPayload
  /\ panel = NoInbound /\ raw = NoRaw /\ high = NoLedgers /\ resets = 0

Now(ibl) == Max({0, ibl.request, ibl.response})

AcquisitionBegins ==
  \E q \in Ledgers \ DOMAIN ibls :
    /\ ibls' = [r \in DOMAIN ibls \cup {q} |->
                 IF r = q THEN [counter |-> 0, request |-> NoTime, response |-> NoTime]
                 ELSE ibls[r]]
    /\ UNCHANGED <<polls, held, panel, raw, high, resets>>

\* Peers are asked, or answer.
Progress ==
  \E q \in DOMAIN ibls :
    /\ Now(ibls[q]) < MaxTime
    /\ \/ ibls' = [ibls EXCEPT ![q].request = Now(ibls[q]) + 1]
       \/ /\ ibls[q].request # NoTime
          /\ ibls' = [ibls EXCEPT ![q].response = Now(ibls[q]) + 1, ![q].counter = @ + 1]
    /\ UNCHANGED <<polls, held, panel, raw, high, resets>>

AcquisitionEnds ==
  \E q \in DOMAIN ibls :
    /\ ibls' = [r \in DOMAIN ibls \ {q} |-> ibls[r]]
    /\ UNCHANGED <<polls, held, panel, raw, high, resets>>

\* update_ledgers_info with a payload.
Drawn(payload) ==
  LET rows == Rows(payload.details, payload.list)
  IN /\ panel' = InboundPanel(panel, payload.details, rows)
     /\ raw' = RawJson(raw, payload.id, payload.text)
     /\ high' = [q \in rows |->
                  Max(Gap(payload.details[q]) \cup {0}
                      \cup (IF q \in DOMAIN high THEN {high[q]} ELSE {}))]

\* Wrong: the old payload is let go before the new one is there.
AddressAny == Addresses

\* The new payload is there before the old one is let go of.
AddressFor == Addresses \ {held.id}

PollLedgersInfo ==
  /\ polls < MaxPolls
  /\ polls' = polls + 1
  /\ \E a \in AddressFor, list \in {<<>>} \cup SetToSeqs(DOMAIN ibls) :
       held' = [id |-> a, text |-> polls + 1, details |-> ibls, list |-> list]
  /\ Drawn(held')
  /\ UNCHANGED <<ibls, resets>>

NotifyLedgersInfo ==
  /\ held # NoPayload
  /\ Drawn(held)
  /\ UNCHANGED <<ibls, polls, held, resets>>

\* The reset draws None, which leaves the caches alone, and frees the payload.
ResetLedgersInfo ==
  /\ held # NoPayload
  /\ held' = NoPayload /\ ibls' = NoLedgers /\ high' = NoLedgers
  /\ resets' = 1
  /\ UNCHANGED <<polls, panel, raw>>

InboundNext ==
  \/ AcquisitionBegins \/ Progress \/ AcquisitionEnds
  \/ PollLedgersInfo \/ NotifyLedgersInfo \/ ResetLedgersInfo

InboundSpec == InboundInit /\ [][InboundNext]_inboundVars

-------------------------------------------------------------------------------
(* Properties *)

\* The peak beside a ledger is at least the longest gap drawn since the ledger
\* entered the table: a stall that is over does not vanish.
PeakIsHighWater ==
  \A q \in DOMAIN high : high[q] > 0 => q \in DOMAIN panel.peak /\ panel.peak[q] >= high[q]

\* Until the first reset the raw JSON is the payload's that the state holds: an
\* address is not used again for the payload that comes next.
RawIsCurrent ==
  resets = 0 /\ held # NoPayload => raw.text = held.text
================================================================================

---------------------------- MODULE SessionHistory ----------------------------
(***************************************************************************)
(* What a session directory promises to whoever reads it, without files,   *)
(* crash windows or in-memory counters: a list of monitor sessions, of     *)
(* which only the newest can be open, each leaving the open state once and *)
(* for good, and one transaction total that never goes backwards.          *)
(* SessionStore implements it.                                             *)
(***************************************************************************)
EXTENDS Naturals, Sequences

CONSTANT Statuses    \* the statuses a session_end can carry;
                     \* "open" and "abandoned" are not among them

VARIABLES
  sessions,    \* one status per session, in the order they were opened
  total        \* the largest cumulative transaction count on record

hvars == <<sessions, total>>

NoneOpen == \A i \in DOMAIN sessions : sessions[i] # "open"

IsOpen == sessions # <<>> /\ sessions[Len(sessions)] = "open"

HInit == sessions = <<>> /\ total = 0

\* A monitor attaches, or spawns the process: a new session joins the list.
Start == /\ NoneOpen
         /\ sessions' = Append(sessions, "open")
         /\ UNCHANGED total

\* A snapshot is recorded by the open session.
Record == /\ IsOpen
          /\ total' \in Nat
          /\ total' >= total
          /\ UNCHANGED sessions

\* The open session ends, with a status or by the death of its monitor.
Leave == /\ IsOpen
         /\ \E s \in Statuses \cup {"abandoned"} :
              sessions' = [sessions EXCEPT ![Len(sessions)] = s]
         /\ UNCHANGED total

\* --fresh puts the whole directory aside.
SetAside == NoneOpen /\ sessions' = <<>> /\ total' = 0

HNext == Start \/ Record \/ Leave \/ SetAside

HSpec == HInit /\ [][HNext]_hvars
===============================================================================

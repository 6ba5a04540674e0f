-------------------------- MODULE SessionStoreProofs --------------------------
(***************************************************************************)
(* Proofs about SessionStore, for every number of sessions, lines,         *)
(* transactions and crashes.                                               *)
(*                                                                         *)
(* None of the invariants is inductive alone. What carries them:           *)
(*   - meta.json numbers its entries 1, 2, 3, ... and the session in hand  *)
(*     is the last of them (Numbered);                                     *)
(*   - only the last line of the log can lack its newline, and not while   *)
(*     a session runs, so only a session_start can land on a cut line      *)
(*     (CutTail);                                                           *)
(*   - the session in hand has not ended, has just ended, or has not yet   *)
(*     started in the log, as pc says (InHand);                            *)
(*   - from the restore on, the total is at least every readable snapshot  *)
(*     (TotalCovers);                                                      *)
(*   - what the closed sessions logged is below the saved peak, which a    *)
(*     session takes over, and its own snapshots are below its own (Peaks);*)
(*   - the counters of a session sum up the snapshots it has in the log    *)
(*     (Summed).                                                           *)
(***************************************************************************)
EXTENDS SessionStore, SumLaws

Numbered ==
  /\ ~metaExists => entries = <<>>
  /\ \A k \in DOMAIN entries : entries[k].n = k
  /\ pc \in {"start", "run", "ended", "updated"} => n = Len(entries) /\ n > 0

CutTail ==
  /\ \A i \in DOMAIN lines : i < Len(lines) => Terminated(lines[i])
  /\ pc \in {"run", "ended"} => lines # <<>> /\ Terminated(lines[Len(lines)])

InHand ==
  /\ pc = "start" => \A i \in DOMAIN lines : lines[i].ev.n < n
  /\ pc = "run" => \A i \in DOMAIN lines : lines[i].ev.kind = "end" => lines[i].ev.n < n
  /\ pc = "ended" => \E s \in Statuses :
                       lines[Len(lines)] = [ev |-> EndEvent(n, s), form |-> "line"]

TotalCovers ==
  pc \in {"hydrate", "entry", "start", "run"} =>
    \A i \in ReadableSnapshots(lines) : lines[i].ev.cum <= total

\* The inductive invariant.
IInv == /\ TypeOK
        /\ Numbered /\ CutTail /\ InHand /\ TotalCovers
        /\ OnlyStartsAreSwallowed /\ SessionsAreBlocks
        /\ MetaFollowsLog /\ TotalNeverRegresses

-------------------------------------------------------------------------------
(* Writing a line *)

\* r is log with ev as its last line, in the given form, every other line of r
\* being where it was in log and no terminated line of log being replaced.
PutLast(log, r, ev, form) ==
  /\ r \in Seq(Lines) /\ r # <<>>
  /\ r[Len(r)] = [ev |-> ev, form |-> form]
  /\ \A i \in DOMAIN r : i < Len(r) => i \in DOMAIN log /\ r[i] = log[i]
                                      /\ (i < Len(log) \/ Terminated(log[i]))
  /\ \A i \in DOMAIN log : i < Len(log) \/ Terminated(log[i]) =>
                           i \in DOMAIN r /\ i < Len(r)

\* A completed write ends in a line of its own unless the log's tail is cut
\* (write_event on a file opened for append).
LEMMA Append1Puts ==
  ASSUME NEW log \in Seq(Lines), NEW ev \in Events
  PROVE  PutLast(log, Append1(log, ev), ev,
                 IF OpenTail(log) THEN "glued" ELSE "line")
<1> DEFINE glued == [ev |-> ev, form |-> "glued"]
           whole == [ev |-> ev, form |-> "line"]
<1>1. glued \in Lines /\ whole \in Lines
  BY DEF Lines, Forms
<1>2. CASE OpenTail(log)
  <2> DEFINE r == [log EXCEPT ![Len(log)] = glued]
  <2>1. Len(log) \in DOMAIN log /\ Len(log) \in Nat /\ DOMAIN log = 1 .. Len(log)
    BY <1>2 DEF OpenTail
  <2>2. r \in Seq(Lines) /\ Len(r) = Len(log) /\ DOMAIN r = DOMAIN log
    BY <1>1, <2>1
  <2>3. r[Len(r)] = glued /\ \A i \in DOMAIN r : i # Len(r) => r[i] = log[i]
    BY <2>1, <2>2
  <2>4. \A i \in DOMAIN log : i < Len(log) \/ Terminated(log[i]) => i < Len(log)
    BY <1>2, <2>1 DEF OpenTail
  <2>5. PutLast(log, r, ev, "glued")
    BY <2>1, <2>2, <2>3, <2>4 DEF PutLast
  <2>6. QED
    BY <1>2, <2>5 DEF Append1
<1>3. CASE ~OpenTail(log)
  <2> DEFINE r == Append(log, whole)
  <2>1. r \in Seq(Lines) /\ Len(r) = Len(log) + 1 /\ Len(log) \in Nat
        /\ r[Len(r)] = whole /\ DOMAIN log = 1 .. Len(log)
        /\ DOMAIN r = 1 .. Len(log) + 1
        /\ \A i \in DOMAIN log : r[i] = log[i]
    BY <1>1
  <2>2. \A i \in DOMAIN log : i < Len(log) \/ Terminated(log[i])
    BY <1>3, <2>1 DEF OpenTail
  <2>3. PutLast(log, r, ev, "line")
    BY <2>1, <2>2 DEF PutLast
  <2>4. QED
    BY <1>3, <2>3 DEF Append1
<1>4. QED
  BY <1>2, <1>3

\* So does a write that the monitor's death cuts short.
LEMMA AppendCutPuts ==
  ASSUME NEW log \in Seq(Lines), NEW ev \in Events, NEW form \in {"torn", "bare"}
  PROVE  PutLast(log, AppendCut(log, ev, form), ev,
                 IF OpenTail(log) THEN "torn" ELSE form)
<1> DEFINE torn == [ev |-> ev, form |-> "torn"]
           cut == [ev |-> ev, form |-> form]
<1>1. torn \in Lines /\ cut \in Lines
  BY DEF Lines, Forms
<1>2. CASE OpenTail(log)
  <2> DEFINE r == [log EXCEPT ![Len(log)] = torn]
  <2>1. Len(log) \in DOMAIN log /\ Len(log) \in Nat /\ DOMAIN log = 1 .. Len(log)
    BY <1>2 DEF OpenTail
  <2>2. r \in Seq(Lines) /\ Len(r) = Len(log) /\ DOMAIN r = DOMAIN log
    BY <1>1, <2>1
  <2>3. r[Len(r)] = torn /\ \A i \in DOMAIN r : i # Len(r) => r[i] = log[i]
    BY <2>1, <2>2
  <2>4. \A i \in DOMAIN log : i < Len(log) \/ Terminated(log[i]) => i < Len(log)
    BY <1>2, <2>1 DEF OpenTail
  <2>5. PutLast(log, r, ev, "torn")
    BY <2>1, <2>2, <2>3, <2>4 DEF PutLast
  <2>6. QED
    BY <1>2, <2>5 DEF AppendCut
<1>3. CASE ~OpenTail(log)
  <2> DEFINE r == Append(log, cut)
  <2>1. r \in Seq(Lines) /\ Len(r) = Len(log) + 1 /\ Len(log) \in Nat
        /\ r[Len(r)] = cut /\ DOMAIN log = 1 .. Len(log)
        /\ DOMAIN r = 1 .. Len(log) + 1
        /\ \A i \in DOMAIN log : r[i] = log[i]
    BY <1>1
  <2>2. \A i \in DOMAIN log : i < Len(log) \/ Terminated(log[i])
    BY <1>3, <2>1 DEF OpenTail
  <2>3. PutLast(log, r, ev, form)
    BY <2>1, <2>2 DEF PutLast
  <2>4. QED
    BY <1>3, <2>3 DEF AppendCut
<1>4. QED
  BY <1>2, <1>3

\* The update reaches the entry with the session's number and no other
\* (update_session).
LEMMA UpdateSessionReaches ==
  ASSUME TypeOK, Numbered, NEW s \in Statuses, n \in DOMAIN entries
  PROVE  LET new == UpdateSession(n, s, sPeak, sTxns)
         IN  /\ new \in Seq(Entries) /\ Len(new) = Len(entries)
             /\ DOMAIN new = DOMAIN entries
             /\ \A k \in DOMAIN entries : new[k].n = k /\ (k # n => new[k] = entries[k])
             /\ new[n].status = s
<1> DEFINE new == UpdateSession(n, s, sPeak, sTxns)
           done(k) == Finished(entries[k], s, sPeak, sTxns)
<1>1. DOMAIN entries = 1 .. Len(entries) /\ Len(entries) \in Nat
  BY DEF TypeOK
<1>2. \A k \in DOMAIN entries : new[k] = IF k = n THEN done(k) ELSE entries[k]
  BY <1>1 DEF UpdateSession, Numbered
<1>3. \A k \in DOMAIN entries : /\ entries[k] \in Entries /\ done(k) \in Entries
                                /\ done(k).status = s /\ done(k).n = entries[k].n
  <2>1. \A k \in DOMAIN entries : entries[k] \in Entries
    BY <1>1 DEF TypeOK
  <2>2. sPeak \in Nat /\ sTxns \in Nat
    BY DEF TypeOK
  <2>3. \A e \in Entries : LET d == Finished(e, s, sPeak, sTxns)
                           IN  d \in Entries /\ d.status = s /\ d.n = e.n
    BY <2>2 DEF Entries, Finished
  <2>4. QED
    BY <2>1, <2>3
<1>4. new = [k \in 1 .. Len(entries) |-> new[k]]
  BY <1>1 DEF UpdateSession
<1>5. new \in Seq(Entries) /\ Len(new) = Len(entries) /\ DOMAIN new = DOMAIN entries
  <2> HIDE DEF new, done
  <2>1. \A k \in 1 .. Len(entries) : new[k] \in Entries
    BY <1>1, <1>2, <1>3
  <2>2. QED
    BY <1>1, <1>4, <2>1
<1> HIDE DEF new, done
<1>6. QED
  BY <1>2, <1>3, <1>5 DEF new, Numbered

-------------------------------------------------------------------------------
(* What a write does to the invariants of the log *)

\* The order of the log, the readability of its data and the rise of its total
\* survive a new last line, complete or cut short, that belongs to the newest
\* session, comes before that session's end and carries a total not below the
\* ones on record.
LEMMA LogGrows ==
  ASSUME TypeOK, CutTail, OnlyStartsAreSwallowed, SessionsAreBlocks, TotalNeverRegresses,
         NEW ev \in Events, NEW form \in Forms,
         PutLast(lines, lines', ev, form),
         form = "glued" => ev.kind = "start",
         \A i \in DOMAIN lines :
           /\ lines[i].ev.n <= ev.n
           /\ lines[i].ev.kind = "end" \/ ev.kind = "start" => lines[i].ev.n < ev.n,
         ev.kind = "snapshot" =>
           \A i \in ReadableSnapshots(lines) : lines[i].ev.cum <= ev.cum
  PROVE  /\ OnlyStartsAreSwallowed' /\ SessionsAreBlocks' /\ TotalNeverRegresses'
         /\ \A i \in DOMAIN lines' : i < Len(lines') => Terminated(lines'[i])
<1> DEFINE last == Len(lines')
<1>1. /\ DOMAIN lines' = 1 .. last /\ last \in Nat /\ last \in DOMAIN lines'
      /\ lines'[last].ev = ev /\ lines'[last].form = form
  BY DEF PutLast
<1>2. \A i \in DOMAIN lines' : i < last =>
        i \in DOMAIN lines /\ lines'[i] = lines[i] /\ Terminated(lines[i])
  BY DEF PutLast, CutTail
<1>3. \A i \in DOMAIN lines' : i = last \/ i < last
  BY <1>1
<1> HIDE DEF last
<1>4. OnlyStartsAreSwallowed'
  BY <1>1, <1>2, <1>3 DEF OnlyStartsAreSwallowed
<1>5. SessionsAreBlocks'
  <2> SUFFICES ASSUME NEW i \in DOMAIN lines', NEW j \in DOMAIN lines', i < j
               PROVE  /\ lines'[i].ev.n <= lines'[j].ev.n
                      /\ lines'[i].ev.kind = "end" \/ lines'[j].ev.kind = "start"
                           => lines'[i].ev.n < lines'[j].ev.n
    BY DEF SessionsAreBlocks
  <2>1. i < last /\ i \in DOMAIN lines /\ lines'[i] = lines[i]
    BY <1>1, <1>2, <1>3
  <2>2. CASE j = last
    BY <1>1, <2>1, <2>2
  <2>3. CASE j < last
    BY <1>2, <2>1, <2>3 DEF SessionsAreBlocks
  <2>4. QED
    BY <1>3, <2>2, <2>3
<1>6. TotalNeverRegresses'
  <2> SUFFICES ASSUME NEW i \in ReadableSnapshots(lines'), NEW j \in ReadableSnapshots(lines'),
                      i < j
               PROVE  lines'[i].ev.cum <= lines'[j].ev.cum
    BY DEF TotalNeverRegresses
  <2>1. i \in DOMAIN lines' /\ j \in DOMAIN lines' /\ lines'[j].ev.kind = "snapshot"
    BY DEF ReadableSnapshots, SnapshotsIn, IterEvents
  <2>2. i < last /\ lines'[i] = lines[i] /\ i \in ReadableSnapshots(lines)
    BY <1>1, <1>2, <1>3, <2>1 DEF ReadableSnapshots, SnapshotsIn, IterEvents
  <2>3. CASE j = last
    BY <1>1, <2>1, <2>2, <2>3
  <2>4. CASE j < last
    <3>1. lines'[j] = lines[j] /\ j \in ReadableSnapshots(lines)
      BY <1>2, <2>1, <2>4 DEF ReadableSnapshots, SnapshotsIn, IterEvents
    <3>2. QED
      BY <2>2, <3>1 DEF TotalNeverRegresses
  <2>5. QED
    BY <1>3, <2>1, <2>3, <2>4
<1>7. QED
  BY <1>1, <1>2, <1>4, <1>5, <1>6 DEF last

\* A write touches no line that holds a session_end, so what meta.json claims
\* stays in the log.
LEMMA MetaStillFollows ==
  ASSUME TypeOK, MetaFollowsLog, entries' = entries,
         NEW ev \in Events, NEW form \in Forms,
         PutLast(lines, lines', ev, form),
         ev.n \in DOMAIN entries
  PROVE  MetaFollowsLog'
<1>1. \A i \in DOMAIN lines' : lines'[i].ev.n \in DOMAIN entries
  <2>1. DOMAIN lines' = 1 .. Len(lines') /\ Len(lines') \in Nat /\ lines'[Len(lines')].ev = ev
    BY DEF PutLast
  <2>2. \A i \in DOMAIN lines' : i < Len(lines') => i \in DOMAIN lines /\ lines'[i] = lines[i]
    BY DEF PutLast
  <2>3. QED
    BY <2>1, <2>2 DEF MetaFollowsLog
<1>2. ASSUME NEW k \in DOMAIN entries, entries[k].status # "running"
      PROVE  \E i \in DOMAIN lines' :
               lines'[i] = [ev |-> EndEvent(k, entries[k].status), form |-> "line"]
  <2>1. PICK i \in DOMAIN lines :
               lines[i] = [ev |-> EndEvent(k, entries[k].status), form |-> "line"]
    BY <1>2 DEF MetaFollowsLog
  <2>2. Terminated(lines[i])
    BY <2>1 DEF Terminated
  <2>3. i \in DOMAIN lines' /\ lines'[i] = lines[i]
    BY <2>2 DEF PutLast
  <2>4. QED
    BY <2>1, <2>3
<1>3. QED
  BY <1>1, <1>2 DEF MetaFollowsLog

-------------------------------------------------------------------------------
(* The induction *)

\* Steps that leave the log alone leave what is said of it alone.
LEMMA QuietLog ==
  ASSUME lines' = lines
  PROVE  /\ OnlyStartsAreSwallowed => OnlyStartsAreSwallowed'
         /\ SessionsAreBlocks => SessionsAreBlocks'
         /\ TotalNeverRegresses => TotalNeverRegresses'
         /\ ReadableSnapshots(lines') = ReadableSnapshots(lines)
BY DEF OnlyStartsAreSwallowed, SessionsAreBlocks, TotalNeverRegresses,
       ReadableSnapshots, SnapshotsIn, IterEvents, Readable, Terminated

\* An empty directory satisfies the strengthened invariant.
LEMMA InitEstablishes == Init => IInv
<1> SUFFICES ASSUME Init PROVE IInv
  OBVIOUS
<1>1. lines = <<>> /\ entries = <<>> /\ DOMAIN lines = {} /\ DOMAIN entries = {} /\ pc = "down"
  BY DEF Init
<1>2. TypeOK
  <2>1. <<>> \in Seq(Lines) /\ <<>> \in Seq(Entries)
    OBVIOUS
  <2>2. QED
    BY <2>1 DEF Init, TypeOK, Phases
<1>3. ReadableSnapshots(lines) = {}
  BY <1>1 DEF ReadableSnapshots, SnapshotsIn, IterEvents
<1>4. Numbered /\ CutTail /\ InHand /\ TotalCovers
  BY <1>1 DEF Numbered, CutTail, InHand, TotalCovers
<1>5. OnlyStartsAreSwallowed /\ SessionsAreBlocks /\ MetaFollowsLog
  BY <1>1 DEF OnlyStartsAreSwallowed, SessionsAreBlocks, MetaFollowsLog
<1>6. TotalNeverRegresses
  BY <1>3 DEF TotalNeverRegresses
<1>7. QED
  BY <1>2, <1>4, <1>5, <1>6 DEF IInv

\* The numbers on record while a session runs: none above its own, its own
\* session_end not among them.
LEMMA RunningIsNewest ==
  ASSUME IInv, pc = "run"
  PROVE  /\ n \in Nat /\ n \in DOMAIN entries
         /\ \A i \in DOMAIN lines : /\ lines[i].ev.n \in Nat /\ lines[i].ev.n <= n
                                    /\ lines[i].ev.kind = "end" => lines[i].ev.n < n
         /\ ~OpenTail(lines)
<1>1. DOMAIN entries = 1 .. Len(entries) /\ Len(entries) \in Nat /\ n = Len(entries) /\ n > 0
  BY DEF IInv, TypeOK, Numbered
<1>2. ~OpenTail(lines)
  BY DEF IInv, CutTail, OpenTail
<1>3. QED
  BY <1>1, <1>2 DEF IInv, InHand, MetaFollowsLog

\* A write while a session runs, complete or the monitor's last.
LEMMA RunWrites ==
  ASSUME IInv, pc = "run", NEW ev \in Events, NEW form \in Forms, form # "glued",
         PutLast(lines, lines', ev, form), entries' = entries,
         ev.n = n, ev.kind \in {"end", "snapshot"},
         ev.kind = "snapshot" => ev.cum \in Nat /\ total <= ev.cum
  PROVE  /\ OnlyStartsAreSwallowed' /\ SessionsAreBlocks' /\ TotalNeverRegresses'
         /\ MetaFollowsLog'
         /\ \A i \in DOMAIN lines' : i < Len(lines') => Terminated(lines'[i])
<1>1. \A i \in DOMAIN lines : lines[i].ev.n <= n
                             /\ (lines[i].ev.kind = "end" => lines[i].ev.n < n)
  BY RunningIsNewest
<1>2. ev.kind = "snapshot" => \A i \in ReadableSnapshots(lines) : lines[i].ev.cum <= ev.cum
  <2> SUFFICES ASSUME ev.kind = "snapshot", NEW i \in ReadableSnapshots(lines)
               PROVE  lines[i].ev.cum <= ev.cum
    OBVIOUS
  <2>1. lines[i].ev.cum <= total
    BY DEF IInv, TotalCovers
  <2>2. i \in DOMAIN lines /\ lines[i].ev.kind = "snapshot" /\ lines[i] \in Lines
    BY DEF ReadableSnapshots, SnapshotsIn, IInv, TypeOK
  <2>3. lines[i].ev \in Events
    BY <2>2 DEF Lines
  <2>4. lines[i].ev.cum \in Nat
    BY <2>2, <2>3 DEF Events
  <2>5. total \in Nat
    BY DEF IInv, TypeOK
  <2>6. QED
    BY <2>1, <2>4, <2>5
<1>3. n \in DOMAIN entries
  BY RunningIsNewest
<1>4. QED
  BY <1>1, <1>2, <1>3, LogGrows, MetaStillFollows DEF IInv

\* Opening a session, up to its entry in meta.json.
LEMMA OpenSteps ==
  ASSUME IInv, ConstantsTyped,
         \/ Begin \/ SetAside \/ Hydrate \/ EnsureMeta \/ AddEntry
         \/ \E tx \in Tx, rss \in Rss : ObserveUnsaved(tx, rss)
  PROVE  IInv'
<1>1. CASE Begin
  <2>1. TypeOK'
    BY <1>1 DEF Begin, IInv, TypeOK, Phases, meta
  <2>2. lines' = lines /\ entries' = entries /\ metaExists' = metaExists /\ pc' = "init"
    BY <1>1 DEF Begin, meta
  <2>3. Numbered' /\ CutTail' /\ InHand' /\ TotalCovers' /\ MetaFollowsLog'
    BY <2>2 DEF IInv, Numbered, CutTail, InHand, TotalCovers, MetaFollowsLog, Terminated
  <2>4. QED
    BY <2>1, <2>2, <2>3, QuietLog DEF IInv
<1>2. CASE SetAside
  <2>1. TypeOK'
    <3>1. <<>> \in Seq(Lines) /\ <<>> \in Seq(Entries)
      OBVIOUS
    <3>2. QED
      BY <1>2, <3>1 DEF SetAside, IInv, TypeOK, Phases, counters
  <2>2. lines' = <<>> /\ entries' = <<>> /\ pc' = "hydrate"
        /\ DOMAIN lines' = {} /\ DOMAIN entries' = {}
    BY <1>2 DEF SetAside
  <2>3. ReadableSnapshots(lines') = {}
    BY <2>2 DEF ReadableSnapshots, SnapshotsIn, IterEvents
  <2>4. Numbered' /\ CutTail' /\ InHand' /\ TotalCovers' /\ TotalNeverRegresses'
    BY <2>2, <2>3 DEF Numbered, CutTail, InHand, TotalCovers, TotalNeverRegresses
  <2>5. OnlyStartsAreSwallowed' /\ SessionsAreBlocks' /\ MetaFollowsLog'
    BY <2>2 DEF OnlyStartsAreSwallowed, SessionsAreBlocks, MetaFollowsLog
  <2>6. QED
    BY <2>1, <2>4, <2>5 DEF IInv
<1>3. CASE Hydrate
  <2>1. lines' = lines /\ entries' = entries /\ metaExists' = metaExists /\ pc' = "hydrate"
    BY <1>3 DEF Hydrate, meta
  <2>2. \A i \in ReadableSnapshots(lines) : lines[i].ev.cum \in Nat
    <3> SUFFICES ASSUME NEW i \in ReadableSnapshots(lines) PROVE lines[i].ev.cum \in Nat
      OBVIOUS
    <3>1. i \in DOMAIN lines /\ lines[i].ev.kind = "snapshot" /\ lines[i] \in Lines
      BY DEF ReadableSnapshots, SnapshotsIn, IInv, TypeOK
    <3>2. lines[i].ev \in Events
      BY <3>1 DEF Lines
    <3>3. QED
      BY <3>1, <3>2 DEF Events
  <2>3. total' \in Nat /\ \A i \in ReadableSnapshots(lines) : lines[i].ev.cum <= total'
    <3>1. CASE ReadableSnapshots(lines) = {}
      BY <1>3, <3>1 DEF Hydrate, IInv, TypeOK
    <3>2. CASE ReadableSnapshots(lines) # {}
      <4>1. PICK l \in ReadableSnapshots(lines) :
              /\ \A j \in ReadableSnapshots(lines) : j <= l
              /\ total' = lines[l].ev.cum
        BY <1>3, <3>2 DEF Hydrate, IsLatest
      <4>2. \A i \in ReadableSnapshots(lines) : i = l \/ i < l
        <5>1. ReadableSnapshots(lines) \subseteq Nat
          BY DEF ReadableSnapshots, SnapshotsIn, IInv, TypeOK
        <5>2. QED
          BY <4>1, <5>1
      <4>3. QED
        BY <2>2, <4>1, <4>2 DEF IInv, TotalNeverRegresses
    <3>3. QED
      BY <3>1, <3>2
  <2>4. TypeOK'
    BY <1>3, <2>3 DEF Hydrate, IInv, TypeOK, Phases, meta
  <2>5. TotalCovers'
    BY <2>1, <2>3, QuietLog DEF TotalCovers
  <2>6. Numbered' /\ CutTail' /\ InHand' /\ MetaFollowsLog'
    BY <2>1 DEF IInv, Numbered, CutTail, InHand, MetaFollowsLog, Terminated
  <2>7. QED
    BY <2>1, <2>4, <2>5, <2>6, QuietLog DEF IInv
<1>4. CASE EnsureMeta
  <2>1. TypeOK'
    BY <1>4 DEF EnsureMeta, Larger, IInv, TypeOK, Phases
  <2>2. lines' = lines /\ entries' = entries /\ metaExists' = TRUE
        /\ pc = "hydrate" /\ pc' = "entry" /\ total' = total
    BY <1>4 DEF EnsureMeta
  <2>3. Numbered' /\ CutTail' /\ InHand' /\ MetaFollowsLog'
    BY <2>2 DEF IInv, Numbered, CutTail, InHand, MetaFollowsLog, Terminated
  <2>4. TotalCovers'
    BY <2>2, QuietLog DEF IInv, TotalCovers
  <2>5. QED
    BY <2>1, <2>2, <2>3, <2>4, QuietLog DEF IInv
<1>5. CASE AddEntry
  <2>1. lines' = lines /\ total' = total /\ metaExists' = TRUE
        /\ pc = "entry" /\ pc' = "start"
    BY <1>5 DEF AddEntry
  <2>2. n' = Len(entries) + 1 /\ entries \in Seq(Entries)
    BY <1>5 DEF AddEntry, NextSessionNumber, IInv, Numbered, TypeOK
  <2>3. NewEntry(n') \in Entries /\ NewEntry(n').n = n' /\ NewEntry(n').status = "running"
    BY <2>2 DEF NewEntry, Entries
  <2>4. entries' = Append(entries, NewEntry(n'))
    BY <1>5 DEF AddEntry
  <2>5. /\ entries' \in Seq(Entries) /\ Len(entries') = n' /\ n' \in Nat
        /\ DOMAIN entries = 1 .. (n' - 1) /\ DOMAIN entries' = 1 .. n'
        /\ \A k \in DOMAIN entries : entries'[k] = entries[k]
        /\ entries'[n'] = NewEntry(n')
    BY <2>2, <2>3, <2>4
  <2>6. TypeOK'
    BY <1>5, <2>5 DEF AddEntry, IInv, TypeOK, Phases
  <2>7. \A k \in DOMAIN entries' : k \in DOMAIN entries \/ k = n'
    BY <2>5
  <2>8. Numbered'
    <3>1. n' = Len(entries') /\ n' > 0
      BY <2>2, <2>5
    <3>2. \A k \in DOMAIN entries' : entries'[k].n = k
      BY <2>3, <2>5, <2>7 DEF IInv, Numbered
    <3>3. QED
      BY <2>1, <3>1, <3>2 DEF Numbered
  <2>9. CutTail' /\ TotalCovers'
    BY <2>1, QuietLog DEF IInv, CutTail, TotalCovers, Terminated
  <2>10. InHand'
    <3>1. \A i \in DOMAIN lines : lines[i].ev.n \in 1 .. (n' - 1)
      BY <2>5 DEF IInv, MetaFollowsLog
    <3>2. QED
      BY <2>1, <2>5, <3>1 DEF InHand
  <2>11. MetaFollowsLog'
    BY <2>1, <2>3, <2>5, <2>7 DEF IInv, MetaFollowsLog
  <2>12. QED
    BY <2>1, <2>6, <2>8, <2>9, <2>10, <2>11, QuietLog DEF IInv
<1>6. ASSUME NEW tx \in Tx, NEW rss \in Rss, ObserveUnsaved(tx, rss)
      PROVE  IInv'
  <2>1. tx \in Nat /\ rss \in Nat
    BY DEF ConstantsTyped
  <2>2. TypeOK'
    BY <1>6, <2>1 DEF ObserveUnsaved, Larger, IInv, TypeOK, Phases, meta
  <2>3. lines' = lines /\ entries' = entries /\ metaExists' = metaExists
        /\ pc' = pc /\ pc \in {"init", "hydrate"} /\ total' = total + tx
    BY <1>6 DEF ObserveUnsaved, meta
  <2>4. Numbered' /\ CutTail' /\ InHand' /\ MetaFollowsLog'
    BY <2>3 DEF IInv, Numbered, CutTail, InHand, MetaFollowsLog, Terminated
  <2>5. TotalCovers'
    <3> SUFFICES ASSUME pc = "hydrate", NEW i \in ReadableSnapshots(lines)
                 PROVE  lines[i].ev.cum <= total'
      BY <2>3, QuietLog DEF TotalCovers
    <3>1. lines[i].ev.cum <= total
      BY DEF IInv, TotalCovers
    <3>2. i \in DOMAIN lines /\ lines[i].ev.kind = "snapshot" /\ lines[i] \in Lines
      BY DEF ReadableSnapshots, SnapshotsIn, IInv, TypeOK
    <3>3. lines[i].ev \in Events
      BY <3>2 DEF Lines
    <3>4. lines[i].ev.cum \in Nat
      BY <3>2, <3>3 DEF Events
    <3>5. QED
      BY <2>1, <2>3, <3>1, <3>4 DEF IInv, TypeOK
  <2>6. QED
    BY <2>2, <2>3, <2>4, <2>5, QuietLog DEF IInv
<1>7. QED
  BY <1>1, <1>2, <1>3, <1>4, <1>5, <1>6

\* The writes to the log that complete.
LEMMA LogSteps ==
  ASSUME IInv, ConstantsTyped,
         \/ WriteStart
         \/ \E tx \in Tx, rss \in Rss : WriteSnapshot(tx, rss)
         \/ \E s \in Statuses \cup {"running"} : WriteEnd(s)
  PROVE  IInv'
<1>1. CASE WriteStart
  <2> DEFINE ev == StartEvent(n)
             form == IF OpenTail(lines) THEN "glued" ELSE "line"
  <2>1. pc = "start" /\ pc' = "run" /\ entries' = entries /\ metaExists' = metaExists
        /\ n' = n /\ total' = total /\ lines' = Append1(lines, ev)
    BY <1>1 DEF WriteStart, meta
  <2>2. n \in Nat /\ n = Len(entries) /\ n > 0 /\ n \in DOMAIN entries
    BY <2>1 DEF IInv, TypeOK, Numbered
  <2>3. ev \in Events /\ ev.n = n /\ ev.kind = "start" /\ form \in Forms
    BY <2>2 DEF StartEvent, Events, Forms
  <2>4. PutLast(lines, lines', ev, form)
    BY <2>1, <2>3, Append1Puts DEF IInv, TypeOK
  <2>5. \A i \in DOMAIN lines : lines[i].ev.n \in Nat /\ lines[i].ev.n < n
    BY <2>1, <2>2 DEF IInv, InHand, MetaFollowsLog, TypeOK
  <2>6. /\ OnlyStartsAreSwallowed' /\ SessionsAreBlocks' /\ TotalNeverRegresses'
        /\ \A i \in DOMAIN lines' : i < Len(lines') => Terminated(lines'[i])
    <3> HIDE DEF ev, form
    <3>1. \A i \in DOMAIN lines :
            /\ lines[i].ev.n <= ev.n
            /\ lines[i].ev.kind = "end" \/ ev.kind = "start" => lines[i].ev.n < ev.n
      BY <2>2, <2>3, <2>5
    <3>2. QED
      BY <2>3, <2>4, <3>1, LogGrows DEF IInv
  <2>7. MetaFollowsLog'
    BY <2>1, <2>2, <2>3, <2>4, MetaStillFollows DEF IInv
  <2>8. TypeOK'
    <3>1. lines' \in Seq(Lines)
      BY <2>4 DEF PutLast
    <3>2. QED
      BY <1>1, <3>1 DEF WriteStart, IInv, TypeOK, Phases, meta
  <2>9. lines' # <<>> /\ lines'[Len(lines')] = [ev |-> ev, form |-> form]
        /\ form \in {"line", "glued"} /\ DOMAIN lines' = 1 .. Len(lines')
        /\ Len(lines') \in Nat
    BY <2>4 DEF PutLast
  <2>10. CutTail'
    BY <2>1, <2>6, <2>9 DEF CutTail, Terminated
  <2>11. \A i \in DOMAIN lines' :
           i = Len(lines') \/ (i \in DOMAIN lines /\ lines'[i] = lines[i])
    BY <2>4, <2>9 DEF PutLast
  <2>12. InHand'
    <3>1. lines'[Len(lines')].ev.kind = "start"
      BY <2>3, <2>9
    <3>2. QED
      BY <2>1, <2>5, <2>11, <3>1 DEF InHand
  <2>13. TotalCovers'
    <3> SUFFICES ASSUME NEW i \in ReadableSnapshots(lines') PROVE lines'[i].ev.cum <= total
      BY <2>1 DEF TotalCovers
    <3>1. i \in DOMAIN lines /\ lines'[i] = lines[i] /\ i \in DOMAIN lines'
      BY <2>3, <2>9, <2>11 DEF ReadableSnapshots, SnapshotsIn
    <3>2. i \in ReadableSnapshots(lines)
      BY <3>1 DEF ReadableSnapshots, SnapshotsIn, IterEvents
    <3>3. QED
      BY <2>1, <3>1, <3>2 DEF IInv, TotalCovers
  <2>14. Numbered'
    BY <2>1, <2>2 DEF IInv, Numbered
  <2>15. QED
    BY <2>6, <2>7, <2>8, <2>10, <2>12, <2>13, <2>14 DEF IInv
<1>2. ASSUME NEW tx \in Tx, NEW rss \in Rss, WriteSnapshot(tx, rss)
      PROVE  IInv'
  <2> DEFINE ev == Snapshot(n, tx, total', rss)
  <2>1. pc = "run" /\ pc' = "run" /\ entries' = entries /\ metaExists' = metaExists
        /\ n' = n /\ total' = total + tx /\ lines' = Append1(lines, ev)
    BY <1>2 DEF WriteSnapshot, meta
  <2>2. tx \in Nat /\ rss \in Nat /\ total \in Nat /\ n \in Nat /\ total' \in Nat
        /\ total <= total'
    BY <2>1 DEF ConstantsTyped, IInv, TypeOK
  <2>3. ev \in Events /\ ev.n = n /\ ev.kind = "snapshot" /\ ev.cum = total'
    BY <2>2 DEF Snapshot, Events
  <2>4. PutLast(lines, lines', ev, "line")
    BY <2>1, <2>3, Append1Puts, RunningIsNewest DEF IInv, TypeOK
  <2>5. /\ OnlyStartsAreSwallowed' /\ SessionsAreBlocks' /\ TotalNeverRegresses'
        /\ MetaFollowsLog'
        /\ \A i \in DOMAIN lines' : i < Len(lines') => Terminated(lines'[i])
    <3> HIDE DEF ev
    <3>1. QED
      BY <2>1, <2>2, <2>3, <2>4, RunWrites DEF Forms
  <2>6. lines' \in Seq(Lines) /\ lines' # <<>> /\ lines'[Len(lines')] = [ev |-> ev, form |-> "line"]
        /\ DOMAIN lines' = 1 .. Len(lines') /\ Len(lines') \in Nat
        /\ \A i \in DOMAIN lines' :
             i = Len(lines') \/ (i \in DOMAIN lines /\ lines'[i] = lines[i])
    BY <2>4 DEF PutLast
  <2> HIDE DEF ev
  <2>7. TypeOK'
    BY <1>2, <2>1, <2>2, <2>6 DEF WriteSnapshot, Larger, IInv, TypeOK, Phases, meta
  <2>8. CutTail'
    BY <2>1, <2>5, <2>6 DEF CutTail, Terminated
  <2>9. InHand'
    <3>1. lines'[Len(lines')].ev.kind # "end"
      BY <2>3, <2>6
    <3>2. QED
      BY <2>1, <2>6, <3>1 DEF IInv, InHand
  <2>10. TotalCovers'
    <3> SUFFICES ASSUME NEW i \in ReadableSnapshots(lines') PROVE lines'[i].ev.cum <= total'
      BY DEF TotalCovers
    <3>1. CASE i = Len(lines')
      BY <2>2, <2>3, <2>6, <3>1
    <3>2. CASE i # Len(lines')
      <4>1. i \in DOMAIN lines /\ lines'[i] = lines[i]
        BY <2>6, <3>2 DEF ReadableSnapshots, SnapshotsIn
      <4>2. i \in ReadableSnapshots(lines)
        BY <4>1 DEF ReadableSnapshots, SnapshotsIn, IterEvents
      <4>3. lines[i].ev.cum <= total
        BY <2>1, <4>2 DEF IInv, TotalCovers
      <4>4. lines[i] \in Lines /\ lines[i].ev.kind = "snapshot"
        BY <4>2 DEF ReadableSnapshots, SnapshotsIn, IInv, TypeOK
      <4>5. lines[i].ev \in Events
        BY <4>4 DEF Lines
      <4>6. lines[i].ev.cum \in Nat
        BY <4>4, <4>5 DEF Events
      <4>7. QED
        BY <2>2, <4>1, <4>3, <4>6
    <3>3. QED
      BY <3>1, <3>2
  <2>11. Numbered'
    BY <2>1 DEF IInv, Numbered
  <2>12. QED
    BY <2>5, <2>7, <2>8, <2>9, <2>10, <2>11 DEF IInv
<1>3. ASSUME NEW s \in Statuses \cup {"running"}, WriteEnd(s)
      PROVE  IInv'
  <2> DEFINE st == EndStatus(s)
             ev == EndEvent(n, st)
  <2>1. pc = "run" /\ pc' = "ended" /\ entries' = entries /\ metaExists' = metaExists
        /\ n' = n /\ lines' = Append1(lines, ev)
    BY <1>3 DEF WriteEnd, meta, counters
  <2>2. st \in Statuses /\ n \in Nat
    BY DEF ConstantsTyped, EndStatus, IInv, TypeOK
  <2>3. ev \in Events /\ ev.n = n /\ ev.kind = "end"
    BY <2>2 DEF EndEvent, Events
  <2>4. PutLast(lines, lines', ev, "line")
    BY <2>1, <2>3, Append1Puts, RunningIsNewest DEF IInv, TypeOK
  <2>5. /\ OnlyStartsAreSwallowed' /\ SessionsAreBlocks' /\ TotalNeverRegresses'
        /\ MetaFollowsLog'
        /\ \A i \in DOMAIN lines' : i < Len(lines') => Terminated(lines'[i])
    <3> HIDE DEF ev
    <3>1. QED
      BY <2>1, <2>3, <2>4, RunWrites DEF Forms
  <2>6. lines' \in Seq(Lines) /\ lines' # <<>> /\ lines'[Len(lines')] = [ev |-> ev, form |-> "line"]
    BY <2>4 DEF PutLast
  <2>7. InHand'
    BY <2>1, <2>2, <2>6 DEF InHand
  <2> HIDE DEF ev
  <2>8. TypeOK'
    BY <1>3, <2>6 DEF WriteEnd, IInv, TypeOK, Phases, meta, counters
  <2>9. CutTail'
    BY <2>5, <2>6 DEF CutTail, Terminated
  <2>10. TotalCovers' /\ Numbered'
    BY <2>1 DEF IInv, TotalCovers, Numbered
  <2>11. QED
    BY <2>5, <2>7, <2>8, <2>9, <2>10 DEF IInv
<1>4. QED
  BY <1>1, <1>2, <1>3

\* The two writes of a close that go to meta.json.
LEMMA CloseSteps ==
  ASSUME IInv, UpdateEntry \/ SaveSummary
  PROVE  IInv'
<1>1. CASE UpdateEntry
  <2>1. lines' = lines /\ metaExists' = metaExists /\ n' = n
        /\ pc = "ended" /\ pc' = "updated"
    BY <1>1 DEF UpdateEntry, counters
  <2>2. PICK s \in Statuses :
          lines[Len(lines)] = [ev |-> EndEvent(n, s), form |-> "line"]
    BY <2>1 DEF IInv, InHand
  <2>3. entries' = UpdateSession(n, s, sPeak, sTxns)
    BY <1>1, <2>2 DEF UpdateEntry, EndEvent
  <2>4. n = Len(entries) /\ n \in DOMAIN entries
    BY <2>1 DEF IInv, Numbered, TypeOK
  <2>5. /\ entries' \in Seq(Entries) /\ Len(entries') = Len(entries)
        /\ DOMAIN entries' = DOMAIN entries
        /\ \A k \in DOMAIN entries :
             entries'[k].n = k /\ (k # n => entries'[k] = entries[k])
        /\ entries'[n].status = s
    BY <2>3, <2>4, UpdateSessionReaches DEF IInv
  <2>6. TypeOK'
    BY <1>1, <2>5 DEF UpdateEntry, IInv, TypeOK, Phases, counters
  <2>7. Numbered'
    BY <2>1, <2>4, <2>5 DEF IInv, Numbered
  <2>8. CutTail' /\ InHand' /\ TotalCovers'
    BY <2>1 DEF IInv, CutTail, InHand, TotalCovers, Terminated
  <2>9. MetaFollowsLog'
    <3>1. Len(lines) \in DOMAIN lines
      BY <2>1 DEF IInv, CutTail, TypeOK
    <3>2. ASSUME NEW k \in DOMAIN entries', entries'[k].status # "running"
          PROVE  \E i \in DOMAIN lines :
                   lines[i] = [ev |-> EndEvent(k, entries'[k].status), form |-> "line"]
      <4>1. CASE k = n
        BY <2>2, <2>5, <3>1, <4>1
      <4>2. CASE k # n
        BY <2>5, <3>2, <4>2 DEF IInv, MetaFollowsLog
      <4>3. QED
        BY <4>1, <4>2
    <3>3. QED
      BY <2>1, <2>5, <3>2 DEF IInv, MetaFollowsLog
  <2>10. QED
    BY <2>1, <2>6, <2>7, <2>8, <2>9, QuietLog DEF IInv
<1>2. CASE SaveSummary
  <2>1. lines' = lines /\ metaExists' = metaExists /\ entries' = entries
        /\ pc' = "down"
    BY <1>2 DEF SaveSummary, counters
  <2>2. TypeOK'
    BY <1>2 DEF SaveSummary, Larger, IInv, TypeOK, Phases, counters
  <2>3. Numbered' /\ CutTail' /\ InHand' /\ TotalCovers' /\ MetaFollowsLog'
    BY <2>1 DEF IInv, Numbered, CutTail, InHand, TotalCovers, MetaFollowsLog, Terminated
  <2>4. QED
    BY <2>1, <2>2, <2>3, QuietLog DEF IInv
<1>3. QED
  BY <1>1, <1>2

\* The deaths of the monitor, between two writes and in the middle of one.
LEMMA DeathSteps ==
  ASSUME IInv, ConstantsTyped, Abandon \/ DieWriting
  PROVE  IInv'
<1>1. CASE Abandon
  <2>1. lines' = lines /\ metaExists' = metaExists /\ entries' = entries /\ pc' = "down"
    BY <1>1 DEF Abandon, meta
  <2>2. TypeOK'
    BY <1>1 DEF Abandon, Forget, IInv, TypeOK, Phases, meta
  <2>3. Numbered' /\ CutTail' /\ InHand' /\ TotalCovers' /\ MetaFollowsLog'
    BY <2>1 DEF IInv, Numbered, CutTail, InHand, TotalCovers, MetaFollowsLog, Terminated
  <2>4. QED
    BY <2>1, <2>2, <2>3, QuietLog DEF IInv
<1>2. CASE DieWriting
  <2>1. PICK ev \in InFlight, cut \in {"torn", "bare"} : lines' = AppendCut(lines, ev, cut)
    BY <1>2 DEF DieWriting
  <2>2. metaExists' = metaExists /\ entries' = entries /\ pc' = "down"
        /\ pc \in {"start", "run"}
    BY <1>2 DEF DieWriting, InFlight, meta
  <2> DEFINE form == IF OpenTail(lines) THEN "torn" ELSE cut
  <2>3. n \in Nat /\ n = Len(entries) /\ n > 0 /\ n \in DOMAIN entries /\ total \in Nat
    BY <2>2 DEF IInv, TypeOK, Numbered
  <2>4. /\ ev \in Events /\ ev.n = n
        /\ pc = "start" => ev.kind = "start"
        /\ pc = "run" => ev.kind \in {"end", "snapshot"}
        /\ ev.kind = "snapshot" => ev.cum \in Nat /\ total <= ev.cum
    <3>1. CASE pc = "start"
      BY <2>1, <2>3, <3>1 DEF InFlight, StartEvent, Events
    <3>2. CASE pc = "run"
      <4>1. CASE \E s \in Statuses : ev = EndEvent(n, s)
        BY <2>3, <3>2, <4>1 DEF EndEvent, Events
      <4>2. ASSUME NEW tx \in Tx, NEW rss \in Rss, ev = Snapshot(n, tx, total + tx, rss)
            PROVE  /\ ev \in Events /\ ev.n = n /\ ev.kind = "snapshot"
                   /\ ev.cum \in Nat /\ total <= ev.cum
        <5>1. tx \in Nat /\ rss \in Nat /\ total + tx \in Nat /\ total <= total + tx
          BY <2>3 DEF ConstantsTyped
        <5>2. QED
          BY <2>3, <4>2, <5>1 DEF Snapshot, Events
      <4>3. QED
        BY <2>1, <3>2, <4>1, <4>2 DEF InFlight
    <3>3. QED
      BY <2>2, <3>1, <3>2
  <2>5. PutLast(lines, lines', ev, form) /\ form \in Forms /\ form # "glued"
    BY <2>1, <2>4, AppendCutPuts DEF IInv, TypeOK, Forms
  <2> HIDE DEF form
  <2>6. /\ OnlyStartsAreSwallowed' /\ SessionsAreBlocks' /\ TotalNeverRegresses'
        /\ MetaFollowsLog'
        /\ \A i \in DOMAIN lines' : i < Len(lines') => Terminated(lines'[i])
    <3>1. CASE pc = "start"
      <4>1. \A i \in DOMAIN lines : lines[i].ev.n \in Nat /\ lines[i].ev.n < n
        BY <2>3, <3>1 DEF IInv, InHand, MetaFollowsLog, TypeOK
      <4>2. \A i \in DOMAIN lines :
              /\ lines[i].ev.n <= ev.n
              /\ lines[i].ev.kind = "end" \/ ev.kind = "start" => lines[i].ev.n < ev.n
        BY <2>3, <2>4, <4>1
      <4>3. ev.kind # "snapshot"
        BY <2>4, <3>1
      <4>4. QED
        BY <2>2, <2>3, <2>4, <2>5, <4>2, <4>3, LogGrows, MetaStillFollows DEF IInv
    <3>2. CASE pc = "run"
      BY <2>2, <2>4, <2>5, <3>2, RunWrites
    <3>3. QED
      BY <2>2, <3>1, <3>2
  <2>7. TypeOK'
    <3>1. lines' \in Seq(Lines)
      BY <2>5 DEF PutLast
    <3>2. QED
      BY <1>2, <3>1 DEF DieWriting, Forget, IInv, TypeOK, Phases, meta
  <2>8. Numbered' /\ InHand' /\ TotalCovers'
    BY <2>2 DEF IInv, Numbered, InHand, TotalCovers
  <2>9. CutTail'
    BY <2>2, <2>6 DEF CutTail
  <2>10. QED
    BY <2>6, <2>7, <2>8, <2>9 DEF IInv
<1>3. QED
  BY <1>1, <1>2

\* The strengthened invariant holds in every state of the directory.
THEOREM Invariance == Spec => []IInv
<1>1. IInv /\ [Next]_vars => IInv'
  <2> SUFFICES ASSUME IInv, [Next]_vars PROVE IInv'
    OBVIOUS
  <2>1. CASE UNCHANGED vars
    <3>1. lines' = lines /\ metaExists' = metaExists /\ entries' = entries /\ pc' = pc
          /\ n' = n /\ total' = total
      BY <2>1 DEF vars
    <3>2. TypeOK'
      BY <2>1 DEF vars, IInv, TypeOK
    <3>3. Numbered' /\ CutTail' /\ InHand' /\ MetaFollowsLog'
      BY <3>1 DEF IInv, Numbered, CutTail, InHand, MetaFollowsLog, Terminated
    <3>4. TotalCovers'
      BY <3>1, QuietLog DEF IInv, TotalCovers
    <3>5. QED
      BY <3>1, <3>2, <3>3, <3>4, QuietLog DEF IInv
  <2>2. CASE Next
    BY <2>2, ConstantsTyped, OpenSteps, LogSteps, CloseSteps, DeathSteps
       DEF Next, Open, Close
  <2>3. QED
    BY <2>1, <2>2
<1>2. QED
  BY <1>1, InitEstablishes, PTL DEF Spec

\* Every variable keeps its type, whatever dies when.
THEOREM TypeCorrect == Spec => []TypeOK
BY Invariance, PTL DEF IInv

\* However many monitors die in however many writes, no acknowledged snapshot
\* and no acknowledged session_end becomes unreadable.
THEOREM AcknowledgedDataSurvives == Spec => []OnlyStartsAreSwallowed
BY Invariance, PTL DEF IInv

\* The log is a concatenation of sessions with rising numbers.
THEOREM SessionOrder == Spec => []SessionsAreBlocks
BY Invariance, PTL DEF IInv

\* meta.json never claims more than the log proves.
THEOREM MetaIsBacked == Spec => []MetaFollowsLog
BY Invariance, PTL DEF IInv

\* The recorded total never goes back, across any number of reattaches.
THEOREM TotalMonotone == Spec => []TotalNeverRegresses
BY Invariance, PTL DEF IInv

-------------------------------------------------------------------------------
(* The peak *)

\* The saved peak covers the sessions that were closed, and a monitor's own covers
\* the saved one from the moment it is adopted, and what its session logged. The
\* session in hand is not among the closed ones.
Peaks ==
  /\ ~metaExists => savedPeak = 0
  /\ closed \subseteq DOMAIN entries
  /\ pc \in {"entry", "start", "run", "ended", "updated"} => metaExists /\ savedPeak <= peak
  /\ pc \in {"start", "run", "ended", "updated"} => n \notin closed
  /\ \A i \in SnapshotsIn(lines) :
       /\ lines[i].ev.n \in closed => lines[i].ev.rss <= savedPeak
       /\ lines[i].ev.n = n /\ pc \in {"run", "ended", "updated"} => lines[i].ev.rss <= peak

\* A write adds one event and keeps or drops the others.
LEMMA SnapshotsComeFrom ==
  ASSUME NEW ev \in Events, NEW form \in Forms, PutLast(lines, lines', ev, form)
  PROVE  \A i \in SnapshotsIn(lines') :
           \/ i \in SnapshotsIn(lines) /\ lines'[i] = lines[i]
           \/ lines'[i].ev = ev
<1>1. DOMAIN lines' = 1 .. Len(lines') /\ Len(lines') \in Nat
  BY DEF PutLast
<1>2. QED
  BY <1>1 DEF PutLast, SnapshotsIn

\* A snapshot's session and reading are numbers.
LEMMA SnapshotTyped ==
  ASSUME TypeOK, NEW i \in SnapshotsIn(lines)
  PROVE  lines[i].ev.n \in Nat /\ lines[i].ev.rss \in Nat
<1>1. lines[i] \in Lines /\ lines[i].ev.kind = "snapshot"
  BY DEF TypeOK, SnapshotsIn
<1>2. lines[i].ev \in Events
  BY <1>1 DEF Lines
<1>3. QED
  BY <1>1, <1>2 DEF Events

\* The steps that leave the log as it is keep the peaks.
LEMMA PeaksWithoutWrites ==
  ASSUME IInv, Peaks, ConstantsTyped,
         \/ Begin \/ SetAside \/ Hydrate \/ EnsureMeta \/ AddEntry
         \/ UpdateEntry \/ SaveSummary \/ Abandon \/ UNCHANGED vars
         \/ \E tx \in Tx, rss \in Rss : ObserveUnsaved(tx, rss)
  PROVE  Peaks'
<1>1. /\ TypeOK /\ savedPeak \in Nat /\ peak \in Nat
      /\ \A i \in SnapshotsIn(lines) : lines[i].ev.n \in Nat /\ lines[i].ev.rss \in Nat
  BY SnapshotTyped DEF IInv, TypeOK
<1>2. CASE \/ Begin \/ Hydrate \/ Abandon \/ UNCHANGED vars
           \/ \E tx \in Tx, rss \in Rss : ObserveUnsaved(tx, rss)
  <2>1. /\ UNCHANGED <<lines, entries, metaExists, savedPeak, closed>>
        /\ \/ pc' \in {"down", "init", "hydrate"}
           \/ UNCHANGED <<pc, n, peak>>
    BY <1>2 DEF Begin, Hydrate, Abandon, ObserveUnsaved, vars, meta
  <2>2. QED
    BY <2>1 DEF Peaks
<1>3. CASE SetAside
  <2>1. /\ DOMAIN lines' = {} /\ closed' = {} /\ savedPeak' = 0 /\ pc' = "hydrate"
    BY <1>3 DEF SetAside
  <2>2. SnapshotsIn(lines') = {}
    BY <2>1 DEF SnapshotsIn
  <2>3. QED
    BY <2>1, <2>2 DEF Peaks
<1>4. CASE EnsureMeta
  <2>1. /\ UNCHANGED <<lines, entries, savedPeak, closed>> /\ metaExists' /\ pc' = "entry"
        /\ savedPeak <= peak'
    BY <1>1, <1>4 DEF EnsureMeta, Larger, Peaks
  <2>2. QED
    BY <2>1 DEF Peaks
<1>5. CASE AddEntry
  <2>1. /\ UNCHANGED <<lines, savedPeak, peak, closed>> /\ metaExists' /\ pc' = "start"
        /\ pc = "entry" /\ n' = Len(entries) + 1 /\ entries' = Append(entries, NewEntry(n'))
    BY <1>5 DEF AddEntry, NextSessionNumber, IInv, Numbered
  <2>2. /\ DOMAIN entries = 1 .. Len(entries) /\ Len(entries) \in Nat
        /\ DOMAIN entries' = 1 .. Len(entries) + 1
    BY <1>1, <2>1 DEF TypeOK
  <2>3. QED
    BY <2>1, <2>2 DEF Peaks
<1>6. CASE UpdateEntry
  <2>1. /\ UNCHANGED <<lines, metaExists, savedPeak, n, peak, closed>>
        /\ pc = "ended" /\ pc' = "updated" /\ DOMAIN entries' = DOMAIN entries
    BY <1>6 DEF UpdateEntry, UpdateSession, counters
  <2>2. QED
    BY <2>1 DEF Peaks
<1>7. CASE SaveSummary
  <2>1. /\ UNCHANGED <<lines, metaExists, entries, n, peak>> /\ pc = "updated" /\ pc' = "down"
        /\ savedPeak' = Larger(savedPeak, peak) /\ closed' = closed \cup {n}
    BY <1>7 DEF SaveSummary, counters
  <2>2. savedPeak <= savedPeak' /\ peak <= savedPeak' /\ savedPeak' \in Nat
    BY <1>1, <2>1 DEF Larger
  <2>3. n \in DOMAIN entries
    BY <1>1, <2>1 DEF IInv, Numbered, TypeOK
  <2>4. \A i \in SnapshotsIn(lines) : lines[i].ev.n \in closed' => lines[i].ev.rss <= savedPeak'
    BY <1>1, <2>1, <2>2 DEF Peaks
  <2>5. QED
    BY <2>1, <2>3, <2>4 DEF Peaks
<1>8. QED
  BY <1>2, <1>3, <1>4, <1>5, <1>6, <1>7

\* What a monitor that dies writes is of the session in hand.
LEMMA CutIsOwn ==
  ASSUME TypeOK, ConstantsTyped, NEW ev \in InFlight
  PROVE  ev \in Events /\ ev.n = n /\ pc \in {"start", "run"}
<1>1. n \in Nat /\ total \in Nat
  BY DEF TypeOK
<1>2. CASE pc = "start"
  BY <1>1, <1>2 DEF InFlight, StartEvent, Events
<1>3. CASE pc = "run"
  <2>1. CASE ev \in {EndEvent(n, s) : s \in Statuses}
    BY <1>1, <1>3, <2>1 DEF EndEvent, Events
  <2>2. CASE ev \in {Snapshot(n, tx, total + tx, rss) : tx \in Tx, rss \in Rss}
    <3>1. PICK tx \in Tx, rss \in Rss : ev = Snapshot(n, tx, total + tx, rss)
      BY <2>2
    <3>2. tx \in Nat /\ rss \in Nat /\ total + tx \in Nat
      BY <1>1 DEF ConstantsTyped
    <3>3. QED
      BY <1>1, <1>3, <3>1, <3>2 DEF Snapshot, Events
  <2>3. QED
    BY <1>3, <2>1, <2>2 DEF InFlight
<1>4. CASE pc \notin {"start", "run"}
  BY <1>4 DEF InFlight
<1>5. QED
  BY <1>2, <1>3, <1>4

\* The steps that write to the log keep the peaks.
LEMMA PeaksWithWrites ==
  ASSUME IInv, Peaks, ConstantsTyped,
         \/ WriteStart \/ DieWriting
         \/ \E tx \in Tx, rss \in Rss : WriteSnapshot(tx, rss)
         \/ \E s \in Statuses \cup {"running"} : WriteEnd(s)
  PROVE  Peaks'
<1>1. /\ TypeOK /\ savedPeak \in Nat /\ peak \in Nat /\ n \in Nat /\ total \in Nat
      /\ lines \in Seq(Lines)
      /\ \A i \in SnapshotsIn(lines) : lines[i].ev.n \in Nat /\ lines[i].ev.rss \in Nat
  BY SnapshotTyped DEF IInv, TypeOK
<1>2. CASE WriteStart
  <2> DEFINE ev == StartEvent(n)
             form == IF OpenTail(lines) THEN "glued" ELSE "line"
  <2>1. /\ UNCHANGED <<metaExists, entries, savedPeak, n, peak, closed>>
        /\ pc = "start" /\ pc' = "run" /\ lines' = Append1(lines, ev)
    BY <1>2 DEF WriteStart, meta
  <2>2. ev \in Events /\ form \in Forms /\ ev.kind = "start"
    BY <1>1 DEF StartEvent, Events, Forms
  <2>3. PutLast(lines, lines', ev, form)
    BY <1>1, <2>1, <2>2, Append1Puts
  <2> HIDE DEF ev, form
  <2>4. \A i \in SnapshotsIn(lines') : i \in SnapshotsIn(lines) /\ lines'[i] = lines[i]
    BY <2>2, <2>3, SnapshotsComeFrom DEF SnapshotsIn
  <2>5. \A i \in SnapshotsIn(lines) : lines[i].ev.n < n
    BY <2>1 DEF IInv, InHand, SnapshotsIn
  <2>6. QED
    BY <1>1, <2>1, <2>4, <2>5 DEF Peaks
<1>3. ASSUME NEW tx \in Tx, NEW rss \in Rss, WriteSnapshot(tx, rss)
      PROVE  Peaks'
  <2> DEFINE ev == Snapshot(n, tx, total', rss)
  <2>1. /\ UNCHANGED <<metaExists, entries, savedPeak, n, closed>>
        /\ pc = "run" /\ pc' = "run" /\ lines' = Append1(lines, ev)
        /\ peak' = Larger(peak, rss) /\ total' = total + tx
    BY <1>3 DEF WriteSnapshot, meta
  <2>2. ev \in Events /\ ev.n = n /\ ev.rss = rss /\ rss \in Nat
    <3>1. tx \in Nat /\ rss \in Nat /\ total' \in Nat
      BY <1>1, <2>1, ConstantsTyped
    <3>2. QED
      BY <1>1, <3>1 DEF Snapshot, Events
  <2>3. PutLast(lines, lines', ev, "line")
    BY <1>1, <2>1, <2>2, Append1Puts, RunningIsNewest
  <2> HIDE DEF ev
  <2>4. \A i \in SnapshotsIn(lines') :
          \/ i \in SnapshotsIn(lines) /\ lines'[i] = lines[i]
          \/ lines'[i].ev = ev
    BY <2>2, <2>3, SnapshotsComeFrom DEF Forms
  <2>5. peak <= peak' /\ rss <= peak' /\ peak' \in Nat
    BY <1>1, <2>1, <2>2 DEF Larger
  <2>6. \A i \in SnapshotsIn(lines) : lines[i].ev.n = n => lines[i].ev.rss <= peak'
    BY <1>1, <2>1, <2>5 DEF Peaks
  <2>7. savedPeak <= peak'
    BY <1>1, <2>1, <2>5 DEF Peaks
  <2>8. QED
    BY <2>1, <2>2, <2>4, <2>5, <2>6, <2>7 DEF Peaks
<1>4. ASSUME NEW s \in Statuses \cup {"running"}, WriteEnd(s)
      PROVE  Peaks'
  <2> DEFINE ev == EndEvent(n, EndStatus(s))
  <2>1. /\ UNCHANGED <<metaExists, entries, savedPeak, n, peak, closed>>
        /\ pc = "run" /\ pc' = "ended" /\ lines' = Append1(lines, ev)
    BY <1>4 DEF WriteEnd, meta, counters
  <2>2. ev \in Events /\ ev.kind = "end"
    BY <1>1, ConstantsTyped DEF EndEvent, EndStatus, Events
  <2>3. PutLast(lines, lines', ev, "line")
    BY <1>1, <2>1, <2>2, Append1Puts, RunningIsNewest
  <2> HIDE DEF ev
  <2>4. \A i \in SnapshotsIn(lines') : i \in SnapshotsIn(lines) /\ lines'[i] = lines[i]
    BY <2>2, <2>3, SnapshotsComeFrom DEF SnapshotsIn, Forms
  <2>5. QED
    BY <2>1, <2>4 DEF Peaks
<1>5. CASE DieWriting
  <2>1. PICK ev \in InFlight, form \in {"torn", "bare"} : lines' = AppendCut(lines, ev, form)
    BY <1>5 DEF DieWriting
  <2>2. /\ UNCHANGED <<metaExists, entries, savedPeak, closed>> /\ pc' = "down"
    BY <1>5 DEF DieWriting, meta
  <2>3. ev \in Events /\ ev.n = n /\ pc \in {"start", "run"}
    BY <1>1, <2>1, CutIsOwn, ConstantsTyped
  <2>4. PICK f \in Forms : PutLast(lines, lines', ev, f)
    BY <1>1, <2>1, <2>3, AppendCutPuts DEF Forms
  <2>5. \A i \in SnapshotsIn(lines') :
          \/ i \in SnapshotsIn(lines) /\ lines'[i] = lines[i]
          \/ lines'[i].ev = ev
    BY <2>3, <2>4, SnapshotsComeFrom
  <2>6. n \notin closed
    BY <2>3 DEF Peaks
  <2>7. QED
    BY <2>2, <2>3, <2>5, <2>6 DEF Peaks
<1>6. QED
  BY <1>2, <1>3, <1>4, <1>5

\* Whatever dies when, the peak of a running session covers what it and every closed
\* session logged (the adoption in _open_session, the maximum in _close_session).
THEOREM PeakIsKept == Spec => []PeakCoversClosed
<1>1. Init => Peaks
  <2> SUFFICES ASSUME Init PROVE Peaks
    OBVIOUS
  <2>1. DOMAIN lines = {} /\ SnapshotsIn(lines) = {}
    BY DEF Init, SnapshotsIn
  <2>2. QED
    BY <2>1 DEF Init, Peaks
<1>2. IInv /\ Peaks /\ [Next]_vars => Peaks'
  BY ConstantsTyped, PeaksWithoutWrites, PeaksWithWrites DEF Next, Open, Close
<1>3. IInv /\ Peaks => PeakCoversClosed
  <2> SUFFICES ASSUME IInv, Peaks, pc = "run", NEW i \in SnapshotsIn(lines),
                      lines[i].ev.n \in closed \cup {n}
               PROVE  lines[i].ev.rss <= peak
    BY DEF PeakCoversClosed
  <2>1. savedPeak \in Nat /\ peak \in Nat /\ lines[i].ev.rss \in Nat
    BY SnapshotTyped DEF IInv, TypeOK
  <2>2. CASE lines[i].ev.n = n
    BY <2>2 DEF Peaks
  <2>3. CASE lines[i].ev.n \in closed
    <3>1. lines[i].ev.rss <= savedPeak /\ savedPeak <= peak
      BY <2>3 DEF Peaks
    <3>2. QED
      BY <2>1, <3>1
  <2>4. QED
    BY <2>2, <2>3
<1>4. QED
  BY <1>1, <1>2, <1>3, Invariance, PTL DEF Spec
-------------------------------------------------------------------------------
(* What the entries say of their sessions *)

SnapshotsOf(log, k) == {i \in SnapshotsIn(log) : log[i].ev.n = k}
TxnsIn(log) == [i \in SnapshotsIn(log) |-> log[i].ev.tx]

\* The transactions and the peak of the snapshots that session k has in a log.
SumsUp(log, k, txns, rss) ==
  /\ txns = SumOf(TxnsIn(log), SnapshotsOf(log, k))
  /\ \A i \in SnapshotsOf(log, k) : log[i].ev.rss <= rss
  /\ rss # 0 => \E i \in SnapshotsOf(log, k) : log[i].ev.rss = rss

\* The counters of a running session sum up its snapshots, as do the entries of the
\* finished ones. Whatever the next line may land on is of a session that did not
\* finish, as is the session in hand.
Summed ==
  /\ \A k \in DOMAIN entries :
       entries[k].status # "running" => SumsUp(lines, k, entries[k].txns, entries[k].peak)
  /\ pc \in {"run", "ended"} => SumsUp(lines, n, sTxns, sPeak)
  /\ pc \in {"start", "run", "ended"} => entries[n].status = "running"
  /\ OpenTail(lines) => entries[lines[Len(lines)].ev.n].status = "running"

\* A log has finitely many snapshots, each with numbers.
LEMMA SnapshotsAreFew ==
  ASSUME NEW log \in Seq(Lines), NEW k
  PROVE  /\ IsFiniteSet(SnapshotsOf(log, k))
         /\ \A i \in SnapshotsIn(log) :
              i \in DOMAIN log /\ log[i].ev.n \in Nat /\ log[i].ev.tx \in Nat /\ log[i].ev.rss \in Nat
<1>1. DOMAIN log = 1 .. Len(log) /\ Len(log) \in Nat
  OBVIOUS
<1>2. IsFiniteSet(1 .. Len(log))
  BY <1>1, FS_Interval
<1>3. SnapshotsOf(log, k) \subseteq 1 .. Len(log)
  BY <1>1 DEF SnapshotsOf, SnapshotsIn
<1>4. ASSUME NEW i \in SnapshotsIn(log)
      PROVE  i \in DOMAIN log /\ log[i].ev.n \in Nat /\ log[i].ev.tx \in Nat /\ log[i].ev.rss \in Nat
  <2>1. i \in DOMAIN log /\ log[i] \in Lines /\ log[i].ev.kind = "snapshot"
    BY <1>1 DEF SnapshotsIn
  <2>2. log[i].ev \in Events
    BY <2>1 DEF Lines
  <2>3. QED
    BY <2>1, <2>2 DEF Events
<1>5. QED
  BY <1>2, <1>3, <1>4, FS_Subset

\* A write that neither adds a snapshot of a session nor takes one away leaves its
\* sum as it is.
LEMMA SumStays ==
  ASSUME lines \in Seq(Lines), NEW ev \in Events, NEW form \in Forms,
         PutLast(lines, lines', ev, form), NEW k,
         ~(ev.kind = "snapshot" /\ ev.n = k),
         OpenTail(lines) => lines[Len(lines)].ev.n # k
  PROVE  \A txns, rss : SumsUp(lines, k, txns, rss) => SumsUp(lines', k, txns, rss)
<1> DEFINE own == SnapshotsOf(lines, k)
<1>1. /\ lines' \in Seq(Lines) /\ DOMAIN lines' = 1 .. Len(lines') /\ Len(lines') \in Nat
      /\ DOMAIN lines = 1 .. Len(lines) /\ Len(lines) \in Nat
      /\ lines'[Len(lines')].ev = ev
  BY DEF PutLast
<1>2. ASSUME NEW i \in SnapshotsOf(lines', k)
      PROVE  i \in own /\ lines'[i] = lines[i]
  <2>1. i \in DOMAIN lines' /\ lines'[i].ev.kind = "snapshot" /\ lines'[i].ev.n = k
    BY DEF SnapshotsOf, SnapshotsIn
  <2>2. i < Len(lines')
    BY <1>1, <2>1
  <2>3. i \in DOMAIN lines /\ lines'[i] = lines[i]
    BY <2>1, <2>2 DEF PutLast
  <2>4. QED
    BY <2>1, <2>3 DEF SnapshotsOf, SnapshotsIn
<1>3. ASSUME NEW i \in own
      PROVE  i \in SnapshotsOf(lines', k) /\ lines'[i] = lines[i]
  <2>1. i \in DOMAIN lines /\ lines[i].ev.kind = "snapshot" /\ lines[i].ev.n = k
    BY DEF SnapshotsOf, SnapshotsIn
  <2>2. i < Len(lines) \/ Terminated(lines[i])
    BY <1>1, <2>1 DEF OpenTail
  <2>3. i \in DOMAIN lines' /\ lines'[i] = lines[i]
    BY <2>1, <2>2 DEF PutLast
  <2>4. QED
    BY <2>1, <2>3 DEF SnapshotsOf, SnapshotsIn
<1>4. SnapshotsOf(lines', k) = own
  BY <1>2, <1>3
<1>5. \A i \in own : TxnsIn(lines)[i] = TxnsIn(lines')[i]
  BY <1>3 DEF TxnsIn, SnapshotsOf
<1>6. SumOf(TxnsIn(lines), own) = SumOf(TxnsIn(lines'), own)
  BY <1>5, SnapshotsAreFew, SumOfSame
<1>7. QED
  BY <1>3, <1>4, <1>6 DEF SumsUp

\* A snapshot more of a session adds its transactions and its reading.
LEMMA SumGrows ==
  ASSUME lines \in Seq(Lines), NEW k \in Nat, NEW tx \in Nat, NEW cum \in Nat, NEW rss \in Nat,
         PutLast(lines, lines', Snapshot(k, tx, cum, rss), "line"), ~OpenTail(lines),
         NEW txns \in Nat, NEW high \in Nat, SumsUp(lines, k, txns, high)
  PROVE  SumsUp(lines', k, txns + tx, Larger(high, rss))
<1> DEFINE own == SnapshotsOf(lines, k)
           all == SnapshotsOf(lines', k)
           last == Len(lines')
<1>1. /\ lines' \in Seq(Lines) /\ DOMAIN lines' = 1 .. last /\ last \in DOMAIN lines' /\ last \in Nat
      /\ DOMAIN lines = 1 .. Len(lines) /\ Len(lines) \in Nat
      /\ lines'[last].ev = Snapshot(k, tx, cum, rss)
  BY DEF PutLast
<1>2. last \in all /\ lines'[last].ev.tx = tx /\ lines'[last].ev.rss = rss
  BY <1>1 DEF SnapshotsOf, SnapshotsIn, Snapshot
<1>3. ASSUME NEW i \in own
      PROVE  i \in all \ {last} /\ lines'[i] = lines[i]
  <2>1. i \in DOMAIN lines /\ lines[i].ev.kind = "snapshot" /\ lines[i].ev.n = k
    BY DEF SnapshotsOf, SnapshotsIn
  <2>2. i < Len(lines) \/ Terminated(lines[i])
    BY <1>1, <2>1 DEF OpenTail
  <2>3. i \in DOMAIN lines' /\ i < last /\ lines'[i] = lines[i]
    BY <2>1, <2>2 DEF PutLast
  <2>4. QED
    BY <1>1, <2>1, <2>3 DEF SnapshotsOf, SnapshotsIn
<1>4. ASSUME NEW i \in all \ {last}
      PROVE  i \in own
  <2>1. i \in DOMAIN lines' /\ lines'[i].ev.kind = "snapshot" /\ lines'[i].ev.n = k
    BY DEF SnapshotsOf, SnapshotsIn
  <2>2. i < last
    BY <1>1, <2>1
  <2>3. i \in DOMAIN lines /\ lines'[i] = lines[i]
    BY <2>1, <2>2 DEF PutLast
  <2>4. QED
    BY <2>1, <2>3 DEF SnapshotsOf, SnapshotsIn
<1>5. all \ {last} = own
  BY <1>3, <1>4
<1>6. \A i \in own : TxnsIn(lines)[i] = TxnsIn(lines')[i]
  BY <1>3 DEF TxnsIn, SnapshotsOf
<1>7. SumOf(TxnsIn(lines'), own) = txns
  <2>1. SumOf(TxnsIn(lines), own) = SumOf(TxnsIn(lines'), own)
    BY <1>6, SnapshotsAreFew, SumOfSame
  <2>2. QED
    BY <2>1 DEF SumsUp
<1>8. SumOf(TxnsIn(lines'), all) = tx + txns
  <2>1. IsFiniteSet(all) /\ \A i \in all : TxnsIn(lines')[i] \in Int
    <3>1. IsFiniteSet(all)
      BY <1>1, SnapshotsAreFew
    <3>2. \A i \in SnapshotsIn(lines') : lines'[i].ev.tx \in Nat
      BY <1>1, SnapshotsAreFew
    <3>3. all \subseteq SnapshotsIn(lines')
      BY DEF SnapshotsOf
    <3> HIDE DEF all
    <3>4. QED
      BY <3>1, <3>2, <3>3 DEF TxnsIn
  <2>2. TxnsIn(lines')[last] = tx
    BY <1>2 DEF TxnsIn, SnapshotsOf
  <2> HIDE DEF all, last, own
  <2>3. SumOf(TxnsIn(lines'), all) = TxnsIn(lines')[last] + SumOf(TxnsIn(lines'), all \ {last})
    BY <1>2, <2>1, SumWithout
  <2>4. QED
    BY <1>5, <1>7, <2>2, <2>3
<1>9. \A i \in own : lines[i].ev.rss \in Nat /\ lines[i].ev.rss <= high
  BY SnapshotsAreFew DEF SumsUp, SnapshotsOf
<1>10. \A i \in all : lines'[i].ev.rss <= Larger(high, rss)
  <2> SUFFICES ASSUME NEW i \in all PROVE lines'[i].ev.rss <= Larger(high, rss)
    OBVIOUS
  <2>1. CASE i = last
    BY <1>2, <2>1 DEF Larger
  <2>2. CASE i # last
    <3>1. i \in own /\ lines'[i] = lines[i]
      BY <1>3, <1>4, <2>2
    <3> HIDE DEF own, all, last
    <3>2. QED
      BY <1>9, <3>1 DEF Larger
  <2>3. QED
    BY <2>1, <2>2
<1>11. Larger(high, rss) # 0 => \E i \in all : lines'[i].ev.rss = Larger(high, rss)
  <2>1. CASE high >= rss
    <3> SUFFICES ASSUME high # 0 PROVE \E i \in all : lines'[i].ev.rss = high
      BY <2>1 DEF Larger
    <3>1. PICK i \in own : lines[i].ev.rss = high
      BY DEF SumsUp
    <3>2. QED
      BY <1>3, <3>1
  <2>2. CASE ~(high >= rss)
    BY <1>2, <2>2 DEF Larger
  <2>3. QED
    BY <2>1, <2>2
<1>12. tx + txns = txns + tx
  OBVIOUS
<1> HIDE DEF own, all, last
<1>13. QED
  BY <1>8, <1>10, <1>11, <1>12 DEF SumsUp, all

\* The update writes the counters of the session into its entry.
LEMMA UpdateSessionSums ==
  ASSUME TypeOK, Numbered, NEW s, n \in DOMAIN entries
  PROVE  UpdateSession(n, s, sPeak, sTxns)[n] = Finished(entries[n], s, sPeak, sTxns)
<1>1. \A j \in DOMAIN entries : j < n => entries[j].n # n
  BY DEF TypeOK, Numbered
<1>2. QED
  BY <1>1 DEF UpdateSession, Numbered

\* The steps that leave the log as it is keep the sums.
LEMMA SummedWithoutWrites ==
  ASSUME IInv, Summed,
         \/ Begin \/ SetAside \/ Hydrate \/ EnsureMeta \/ AddEntry
         \/ UpdateEntry \/ SaveSummary \/ Abandon \/ UNCHANGED vars
         \/ \E tx \in Tx, rss \in Rss : ObserveUnsaved(tx, rss)
  PROVE  Summed'
<1>1. /\ lines \in Seq(Lines) /\ entries \in Seq(Entries) /\ TypeOK /\ Numbered
      /\ DOMAIN entries = 1 .. Len(entries) /\ Len(entries) \in Nat
  BY DEF IInv, TypeOK
<1>2. OpenTail(lines) => lines[Len(lines)].ev.n \in DOMAIN entries
  BY <1>1 DEF OpenTail, IInv, MetaFollowsLog
<1>3. CASE \/ Begin \/ Hydrate \/ EnsureMeta \/ SaveSummary \/ Abandon \/ UNCHANGED vars
           \/ \E tx \in Tx, rss \in Rss : ObserveUnsaved(tx, rss)
  <2>1. /\ lines' = lines /\ entries' = entries
        /\ \/ pc' \in {"down", "init", "hydrate", "entry"}
           \/ pc' = pc /\ n' = n /\ sTxns' = sTxns /\ sPeak' = sPeak
    BY <1>3 DEF Begin, Hydrate, EnsureMeta, SaveSummary, Abandon, ObserveUnsaved, vars, meta,
                counters
  <2>2. QED
    BY <2>1 DEF Summed
<1>4. CASE SetAside
  <2>1. lines' = <<>> /\ DOMAIN entries' = {} /\ pc' = "hydrate"
    BY <1>4 DEF SetAside
  <2>2. QED
    BY <2>1 DEF Summed, OpenTail
<1>5. CASE AddEntry
  <2>1. /\ lines' = lines /\ pc' = "start"
        /\ n' = Len(entries) + 1 /\ entries' = Append(entries, NewEntry(n'))
    BY <1>5 DEF AddEntry, NextSessionNumber, IInv, Numbered
  <2>2. NewEntry(n') \in Entries /\ NewEntry(n').status = "running"
    BY <1>1, <2>1 DEF NewEntry, Entries
  <2>3. /\ entries'[n'].status = "running"
        /\ \A k \in DOMAIN entries : entries'[k] = entries[k]
        /\ \A k \in DOMAIN entries' : k \in DOMAIN entries \/ k = n'
    BY <1>1, <2>1, <2>2
  <2>4. QED
    BY <1>2, <2>1, <2>3 DEF Summed
<1>6. CASE UpdateEntry
  <2>1. /\ lines' = lines /\ pc = "ended" /\ pc' = "updated"
    BY <1>6 DEF UpdateEntry
  <2>2. PICK s \in Statuses : lines[Len(lines)] = [ev |-> EndEvent(n, s), form |-> "line"]
    BY <2>1 DEF IInv, InHand
  <2>3. entries' = UpdateSession(n, s, sPeak, sTxns)
    BY <1>6, <2>2 DEF UpdateEntry, EndEvent
  <2>4. n \in DOMAIN entries
    BY <1>1, <2>1 DEF Numbered
  <2>5. /\ DOMAIN entries' = DOMAIN entries
        /\ \A k \in DOMAIN entries : k # n => entries'[k] = entries[k]
    BY <1>1, <2>3, <2>4, UpdateSessionReaches
  <2>6. entries'[n] = Finished(entries[n], s, sPeak, sTxns)
    BY <1>1, <2>3, <2>4, UpdateSessionSums
  <2>7. entries'[n].txns = sTxns /\ entries'[n].peak = sPeak
    BY <2>6 DEF Finished
  <2>8. ~OpenTail(lines)
    BY <2>1 DEF IInv, CutTail, OpenTail
  <2>9. \A k \in DOMAIN entries' :
          entries'[k].status # "running" => SumsUp(lines, k, entries'[k].txns, entries'[k].peak)
    <3> SUFFICES ASSUME NEW k \in DOMAIN entries', entries'[k].status # "running"
                 PROVE  SumsUp(lines, k, entries'[k].txns, entries'[k].peak)
      OBVIOUS
    <3>1. CASE k = n
      BY <2>1, <2>7, <3>1 DEF Summed
    <3>2. CASE k # n
      BY <2>5, <3>2 DEF Summed
    <3>3. QED
      BY <3>1, <3>2
  <2>10. QED
    BY <2>1, <2>8, <2>9 DEF Summed
<1>7. QED
  BY <1>3, <1>4, <1>5, <1>6

\* The finished sessions keep their sums through every write of a session in hand.
LEMMA FinishedKeepSums ==
  ASSUME IInv, Summed, pc \in {"start", "run"}, entries' = entries,
         NEW ev \in Events, NEW form \in Forms, PutLast(lines, lines', ev, form), ev.n = n
  PROVE  \A k \in DOMAIN entries' :
           entries'[k].status # "running" => SumsUp(lines', k, entries'[k].txns, entries'[k].peak)
<1> SUFFICES ASSUME NEW k \in DOMAIN entries, entries[k].status # "running"
             PROVE  SumsUp(lines', k, entries[k].txns, entries[k].peak)
  OBVIOUS
<1>1. k # n /\ (OpenTail(lines) => lines[Len(lines)].ev.n # k)
  BY DEF Summed
<1>2. SumsUp(lines, k, entries[k].txns, entries[k].peak)
  BY DEF Summed
<1>3. QED
  BY <1>1, <1>2, SumStays DEF IInv, TypeOK

\* The steps that write to the log keep the sums.
LEMMA SummedWithWrites ==
  ASSUME IInv, Summed, ConstantsTyped,
         \/ WriteStart \/ DieWriting
         \/ \E tx \in Tx, rss \in Rss : WriteSnapshot(tx, rss)
         \/ \E s \in Statuses \cup {"running"} : WriteEnd(s)
  PROVE  Summed'
<1>1. /\ TypeOK /\ lines \in Seq(Lines) /\ n \in Nat /\ total \in Nat /\ sTxns \in Nat /\ sPeak \in Nat
  BY DEF IInv, TypeOK
<1>2. CASE WriteStart
  <2> DEFINE ev == StartEvent(n)
             form == IF OpenTail(lines) THEN "glued" ELSE "line"
  <2>1. /\ entries' = entries /\ n' = n /\ sTxns' = 0 /\ sPeak' = 0
        /\ pc = "start" /\ pc' = "run" /\ lines' = Append1(lines, ev)
    BY <1>2 DEF WriteStart, meta
  <2>2. ev \in Events /\ form \in Forms /\ ev.kind = "start" /\ ev.n = n /\ form \in {"line", "glued"}
    BY <1>1 DEF StartEvent, Events, Forms
  <2>3. PutLast(lines, lines', ev, form)
    BY <1>1, <2>1, <2>2, Append1Puts
  <2> HIDE DEF ev, form
  <2>4. ~OpenTail(lines')
    BY <2>2, <2>3 DEF PutLast, OpenTail, Terminated
  <2>5. \A i \in DOMAIN lines : lines[i].ev.n # n
    BY <1>1, <2>1 DEF IInv, InHand
  <2>6. SnapshotsOf(lines, n) = {}
    BY <2>5 DEF SnapshotsOf, SnapshotsIn
  <2>7. SumsUp(lines, n, 0, 0)
    BY <2>6, SumOfNone DEF SumsUp
  <2>8. OpenTail(lines) => lines[Len(lines)].ev.n # n
    BY <1>1, <2>5 DEF OpenTail
  <2>9. SumsUp(lines', n, 0, 0)
    BY <1>1, <2>2, <2>3, <2>7, <2>8, SumStays
  <2>10. entries[n].status = "running"
    BY <2>1 DEF Summed
  <2>11. \A k \in DOMAIN entries' :
           entries'[k].status # "running" => SumsUp(lines', k, entries'[k].txns, entries'[k].peak)
    BY <2>1, <2>2, <2>3, FinishedKeepSums
  <2>12. QED
    BY <2>1, <2>4, <2>9, <2>10, <2>11 DEF Summed
<1>3. ASSUME NEW tx \in Tx, NEW rss \in Rss, WriteSnapshot(tx, rss)
      PROVE  Summed'
  <2> DEFINE ev == Snapshot(n, tx, total', rss)
  <2>1. /\ entries' = entries /\ n' = n /\ pc = "run" /\ pc' = "run" /\ lines' = Append1(lines, ev)
        /\ total' = total + tx /\ sTxns' = sTxns + tx /\ sPeak' = Larger(sPeak, rss)
    BY <1>3 DEF WriteSnapshot, meta
  <2>2. tx \in Nat /\ rss \in Nat /\ total' \in Nat
    BY <1>1, <2>1, ConstantsTyped
  <2>3. ev \in Events /\ ev.n = n
    BY <1>1, <2>2 DEF Snapshot, Events
  <2>4. ~OpenTail(lines)
    BY <2>1, RunningIsNewest
  <2>5. PutLast(lines, lines', ev, "line")
    BY <1>1, <2>1, <2>3, <2>4, Append1Puts
  <2>6. ~OpenTail(lines')
    BY <2>5 DEF PutLast, OpenTail, Terminated
  <2>7. SumsUp(lines, n, sTxns, sPeak)
    BY <2>1 DEF Summed
  <2>8. SumsUp(lines', n, sTxns + tx, Larger(sPeak, rss))
    BY <1>1, <2>2, <2>4, <2>5, <2>7, SumGrows
  <2> HIDE DEF ev
  <2>9. \A k \in DOMAIN entries' :
          entries'[k].status # "running" => SumsUp(lines', k, entries'[k].txns, entries'[k].peak)
    BY <2>1, <2>3, <2>5, FinishedKeepSums DEF Forms
  <2>10. entries[n].status = "running"
    BY <2>1 DEF Summed
  <2>11. QED
    BY <2>1, <2>6, <2>8, <2>9, <2>10 DEF Summed
<1>4. ASSUME NEW s \in Statuses \cup {"running"}, WriteEnd(s)
      PROVE  Summed'
  <2> DEFINE ev == EndEvent(n, EndStatus(s))
  <2>1. /\ entries' = entries /\ n' = n /\ sTxns' = sTxns /\ sPeak' = sPeak
        /\ pc = "run" /\ pc' = "ended" /\ lines' = Append1(lines, ev)
    BY <1>4 DEF WriteEnd, meta, counters
  <2>2. ev \in Events /\ ev.kind = "end" /\ ev.n = n
    BY <1>1, ConstantsTyped DEF EndEvent, EndStatus, Events
  <2>3. ~OpenTail(lines)
    BY <2>1, RunningIsNewest
  <2>4. PutLast(lines, lines', ev, "line")
    BY <1>1, <2>1, <2>2, <2>3, Append1Puts
  <2> HIDE DEF ev
  <2>5. ~OpenTail(lines')
    BY <2>4 DEF PutLast, OpenTail, Terminated
  <2>6. SumsUp(lines, n, sTxns, sPeak)
    BY <2>1 DEF Summed
  <2>7. SumsUp(lines', n, sTxns, sPeak)
    BY <1>1, <2>2, <2>3, <2>4, <2>6, SumStays DEF Forms
  <2>8. \A k \in DOMAIN entries' :
          entries'[k].status # "running" => SumsUp(lines', k, entries'[k].txns, entries'[k].peak)
    BY <2>1, <2>2, <2>4, FinishedKeepSums DEF Forms
  <2>9. entries[n].status = "running"
    BY <2>1 DEF Summed
  <2>10. QED
    BY <2>1, <2>5, <2>7, <2>8, <2>9 DEF Summed
<1>5. CASE DieWriting
  <2>1. PICK ev \in InFlight, cut \in {"torn", "bare"} : lines' = AppendCut(lines, ev, cut)
    BY <1>5 DEF DieWriting
  <2>2. entries' = entries /\ pc' = "down"
    BY <1>5 DEF DieWriting, meta
  <2>3. ev \in Events /\ ev.n = n /\ pc \in {"start", "run"}
    BY <1>1, <2>1, CutIsOwn
  <2>4. PICK f \in Forms : PutLast(lines, lines', ev, f)
    BY <1>1, <2>1, <2>3, AppendCutPuts DEF Forms
  <2>5. lines'[Len(lines')].ev.n = n
    BY <2>3, <2>4 DEF PutLast
  <2>6. entries[n].status = "running"
    BY <2>3 DEF Summed
  <2>7. \A k \in DOMAIN entries' :
          entries'[k].status # "running" => SumsUp(lines', k, entries'[k].txns, entries'[k].peak)
    BY <2>2, <2>3, <2>4, FinishedKeepSums
  <2>8. QED
    BY <2>2, <2>5, <2>6, <2>7 DEF Summed
<1>6. QED
  BY <1>2, <1>3, <1>4, <1>5

\* The sum the property speaks of is the sum of these terms.
LEMMA TxnsAreSummed ==
  ASSUME NEW S, IsFiniteSet(S), \A i \in S : TxnsIn(lines)[i] = lines[i].ev.tx
  PROVE  MapThenSumSet(LAMBDA i : lines[i].ev.tx, S) = SumOf(TxnsIn(lines), S)
<1> DEFINE Taken(g) == [s \in SUBSET S |-> IF s = {} THEN 0 ELSE lines[One(s)].ev.tx + g[s \ {One(s)}]]
           h == CHOOSE g : g = Taken(g)
<1>1. \A g : Taken(g) = [s \in SUBSET S |-> SumFrom(TxnsIn(lines), g, s)]
  <2> SUFFICES ASSUME NEW g, NEW s \in SUBSET S, s # {}
               PROVE  lines[One(s)].ev.tx = TxnsIn(lines)[One(s)]
    BY DEF SumFrom
  <2>1. QED
    BY OneIsTaken
<1>2. \A g : g = Taken(g) <=> IsSum(g, TxnsIn(lines), S)
  BY <1>1 DEF IsSum
<1> HIDE DEF Taken
<1>3. PICK g : IsSum(g, TxnsIn(lines), S)
  BY SumsExist
<1>4. h = Taken(h)
  BY <1>2, <1>3
<1>5. SumOf(TxnsIn(lines), S) = h[S]
  BY <1>2, <1>4, SumIsUnique
<1> USE DEF Taken
<1>6. MapThenSumSet(LAMBDA i : lines[i].ev.tx, S) = h[S]
  BY DEF MapThenSumSet, MapThenFoldSet, One
<1>7. QED
  BY <1>5, <1>6

\* Whatever dies when, a finished entry of meta.json has the transactions and the
\* peak of the snapshots its session has in the log, and of no others
\* (_session_total_txns, _session_peak_rss_mb and their reset).
THEOREM EntriesAreSums == Spec => []EntrySummarisesLog
<1>1. Init => Summed
  <2>1. Init => DOMAIN entries = {} /\ lines = <<>> /\ pc = "down"
    BY DEF Init
  <2>2. QED
    BY <2>1 DEF Summed, OpenTail
<1>2. IInv /\ Summed /\ [Next]_vars => Summed'
  BY ConstantsTyped, SummedWithoutWrites, SummedWithWrites DEF Next, Open, Close
<1>3. IInv /\ Summed => EntrySummarisesLog
  <2> SUFFICES ASSUME IInv, Summed, NEW k \in DOMAIN entries, entries[k].status # "running"
               PROVE  LET own == SnapshotsOf(lines, k)
                      IN  /\ entries[k].txns = MapThenSumSet(LAMBDA i : lines[i].ev.tx, own)
                          /\ \A i \in own : lines[i].ev.rss <= entries[k].peak
                          /\ entries[k].peak # 0 => \E i \in own : lines[i].ev.rss = entries[k].peak
    BY DEF EntrySummarisesLog, SnapshotsOf
  <2> DEFINE own == SnapshotsOf(lines, k)
  <2>1. SumsUp(lines, k, entries[k].txns, entries[k].peak)
    BY DEF Summed
  <2>2. IsFiniteSet(own) /\ \A i \in own : TxnsIn(lines)[i] = lines[i].ev.tx
    BY SnapshotsAreFew DEF IInv, TypeOK, TxnsIn, SnapshotsOf
  <2>3. MapThenSumSet(LAMBDA i : lines[i].ev.tx, own) = SumOf(TxnsIn(lines), own)
    BY <2>2, TxnsAreSummed
  <2>4. QED
    BY <2>1, <2>3 DEF SumsUp
<1>4. QED
  BY <1>1, <1>2, <1>3, Invariance, PTL DEF Spec

-------------------------------------------------------------------------------
(* SessionStore implements SessionHistory: the initial state maps to the   *)
(* empty history; AddEntry maps to Start, WriteSnapshot to Record,         *)
(* WriteEnd and a death during "start" or "run" to Leave, SetAside to      *)
(* SetAside, and every other step changes neither the list of sessions     *)
(* nor the total.                                                          *)

Sessions == [k \in DOMAIN entries |-> SessionStatus(k)]

\* A write that is not a completed session_end adds none to the log.
LEMMA EndsStay ==
  ASSUME NEW ev \in Events, NEW form \in Forms, PutLast(lines, lines', ev, form),
         form # "line" \/ ev.kind # "end", NEW k
  PROVE  LoggedEnds(k)' = LoggedEnds(k)
<1>1. DOMAIN lines' = 1 .. Len(lines') /\ Len(lines') \in Nat
      /\ lines'[Len(lines')] = [ev |-> ev, form |-> form]
      /\ \A i \in DOMAIN lines' : i < Len(lines') => i \in DOMAIN lines /\ lines'[i] = lines[i]
  BY DEF PutLast
<1>2. ASSUME NEW s \in Statuses, NEW i \in DOMAIN lines,
             lines[i] = [ev |-> EndEvent(k, s), form |-> "line"]
      PROVE  i \in DOMAIN lines' /\ lines'[i] = lines[i]
  BY <1>2 DEF PutLast, Terminated
<1>3. ASSUME NEW s \in Statuses, NEW i \in DOMAIN lines',
             lines'[i] = [ev |-> EndEvent(k, s), form |-> "line"]
      PROVE  i \in DOMAIN lines /\ lines[i] = lines'[i]
  <2>1. i # Len(lines')
    BY <1>1, <1>3 DEF EndEvent
  <2>2. QED
    BY <1>1, <2>1
<1>4. QED
  BY <1>2, <1>3 DEF LoggedEnds

\* A write that is not a completed snapshot leaves the recorded total.
LEMMA TotalStays ==
  ASSUME NEW ev \in Events, NEW form \in Forms, PutLast(lines, lines', ev, form),
         form # "line" \/ ev.kind # "snapshot"
  PROVE  LatestTotal' = LatestTotal
<1>1. DOMAIN lines' = 1 .. Len(lines') /\ Len(lines') \in Nat
      /\ lines'[Len(lines')] = [ev |-> ev, form |-> form]
      /\ \A i \in DOMAIN lines' : i < Len(lines') => i \in DOMAIN lines /\ lines'[i] = lines[i]
  BY DEF PutLast
<1>2. ASSUME NEW i \in KeptSnapshots
      PROVE  i \in KeptSnapshots' /\ lines'[i] = lines[i]
  BY <1>1 DEF KeptSnapshots, SnapshotsIn, PutLast, Terminated
<1>3. ASSUME NEW i \in KeptSnapshots'
      PROVE  i \in KeptSnapshots
  <2>1. i \in DOMAIN lines' /\ lines'[i].form = "line" /\ lines'[i].ev.kind = "snapshot"
    BY DEF KeptSnapshots, SnapshotsIn
  <2>2. i # Len(lines')
    BY <1>1, <2>1
  <2>3. i \in DOMAIN lines /\ lines[i] = lines'[i]
    BY <1>1, <2>1, <2>2
  <2>4. QED
    BY <2>1, <2>3 DEF KeptSnapshots, SnapshotsIn
<1>4. KeptSnapshots' = KeptSnapshots
  BY <1>2, <1>3
<1>5. LatestKept' = LatestKept /\ LatestKept \subseteq KeptSnapshots
  BY <1>4 DEF LatestKept
<1>6. \A i \in LatestKept : lines'[i] = lines[i]
  BY <1>2, <1>5
<1>7. QED
  BY <1>5, <1>6 DEF LatestTotal

\* A session's status comes from its session_end, or from the monitor that has
\* it in hand.
LEMMA StatusCases ==
  ASSUME ConstantsTyped, NEW k
  PROVE  /\ SessionStatus(k) \in Statuses \cup {"open", "abandoned"}
         /\ SessionStatus(k) = "open" => pc \in {"start", "run"}
         /\ LoggedEnds(k) # {} => SessionStatus(k) \in LoggedEnds(k)
<1>1. LoggedEnds(k) \subseteq Statuses
  BY DEF LoggedEnds
<1>2. "open" \notin Statuses
  BY DEF ConstantsTyped
<1>3. LoggedEnds(k) # {} => (CHOOSE s \in LoggedEnds(k) : TRUE) \in LoggedEnds(k)
  OBVIOUS
<1>4. QED
  BY <1>1, <1>2, <1>3 DEF SessionStatus

\* The session in hand is the newest entry and the log has no end of it.
LEMMA InHandIsOpen ==
  ASSUME IInv, ConstantsTyped, pc \in {"start", "run"}
  PROVE  /\ n = Len(entries) /\ n \in Nat /\ n > 0 /\ DOMAIN entries = 1 .. n
         /\ LoggedEnds(n) = {} /\ SessionStatus(n) = "open"
         /\ Len(Sessions) = n /\ Sessions # <<>> /\ Sessions[Len(Sessions)] = "open"
<1>1. n = Len(entries) /\ n \in Nat /\ n > 0 /\ DOMAIN entries = 1 .. n
  BY DEF IInv, Numbered, TypeOK
<1>2. LoggedEnds(n) = {}
  <2>1. \A i \in DOMAIN lines : lines[i].ev.kind = "end" => lines[i].ev.n # n
    <3>1. \A i \in DOMAIN lines : lines[i].ev.n \in Nat
      BY <1>1 DEF IInv, MetaFollowsLog
    <3>2. QED
      BY <1>1, <3>1 DEF IInv, InHand
  <2>2. QED
    BY <2>1 DEF LoggedEnds, EndEvent
<1>3. SessionStatus(n) = "open"
  BY <1>2 DEF SessionStatus
<1>4. Sessions = [k \in 1 .. n |-> SessionStatus(k)]
  BY <1>1 DEF Sessions
<1>5. Len(Sessions) = n /\ DOMAIN Sessions = 1 .. n /\ Sessions[n] = "open"
  BY <1>1, <1>3, <1>4
<1>6. QED
  BY <1>1, <1>2, <1>3, <1>5

Stutter == UNCHANGED <<Sessions, LatestTotal>>

\* When neither the list of entries nor the ends in the log change, nor the
\* session in hand, the history does not change.
LEMMA SameSessions ==
  ASSUME DOMAIN entries' = DOMAIN entries,
         \A k \in DOMAIN entries : LoggedEnds(k)' = LoggedEnds(k),
         \A k \in DOMAIN entries :
           (k = n /\ pc \in {"start", "run"}) <=> (k = n' /\ pc' \in {"start", "run"})
  PROVE  Sessions' = Sessions
<1>1. \A k \in DOMAIN entries : SessionStatus(k)' = SessionStatus(k)
  BY DEF SessionStatus
<1>2. QED
  BY <1>1 DEF Sessions

\* The same, for a step that does not write to the log at all.
LEMMA SameLog ==
  ASSUME lines' = lines
  PROVE  LatestTotal' = LatestTotal /\ \A k : LoggedEnds(k)' = LoggedEnds(k)
BY DEF LatestTotal, LatestKept, KeptSnapshots, SnapshotsIn, LoggedEnds

\* The steps no reader of the history can tell.
LEMMA QuietSteps ==
  ASSUME IInv, ConstantsTyped,
         \/ Begin \/ Hydrate \/ EnsureMeta \/ WriteStart \/ UpdateEntry \/ SaveSummary
         \/ \E tx \in Tx, rss \in Rss : ObserveUnsaved(tx, rss)
         \/ UNCHANGED vars
  PROVE  Stutter
<1>1. CASE WriteStart
  <2>1. pc = "start" /\ pc' = "run" /\ n' = n /\ entries' = entries
        /\ lines' = Append1(lines, StartEvent(n)) /\ n \in Nat
    BY <1>1 DEF WriteStart, meta, IInv, TypeOK
  <2> DEFINE ev == StartEvent(n)
             form == IF OpenTail(lines) THEN "glued" ELSE "line"
  <2>2. ev \in Events /\ ev.kind = "start" /\ form \in Forms
    BY <2>1 DEF StartEvent, Events, Forms
  <2>3. PutLast(lines, lines', ev, form)
    BY <2>1, <2>2, Append1Puts DEF IInv, TypeOK
  <2> HIDE DEF ev, form
  <2>4. LatestTotal' = LatestTotal
    BY <2>2, <2>3, TotalStays
  <2>5. \A k \in DOMAIN entries : LoggedEnds(k)' = LoggedEnds(k)
    BY <2>2, <2>3, EndsStay
  <2>6. QED
    BY <2>1, <2>4, <2>5, SameSessions DEF Stutter
<1>2. CASE \/ Begin \/ Hydrate \/ EnsureMeta \/ SaveSummary \/ UNCHANGED vars
           \/ \E tx \in Tx, rss \in Rss : ObserveUnsaved(tx, rss)
  <2>1. /\ lines' = lines /\ entries' = entries
        /\ \/ pc \notin {"start", "run"} /\ pc' \notin {"start", "run"}
           \/ pc' = pc /\ n' = n
    BY <1>2 DEF Begin, Hydrate, EnsureMeta, SaveSummary, ObserveUnsaved, vars, meta, counters
  <2>2. QED
    BY <2>1, SameLog, SameSessions DEF Stutter
<1>3. CASE UpdateEntry
  <2>1. lines' = lines /\ pc = "ended" /\ pc' = "updated"
    BY <1>3 DEF UpdateEntry, counters
  <2>2. PICK s \in Statuses :
          lines[Len(lines)] = [ev |-> EndEvent(n, s), form |-> "line"]
    BY <2>1 DEF IInv, InHand
  <2>3. entries' = UpdateSession(n, s, sPeak, sTxns)
    BY <1>3, <2>2 DEF UpdateEntry, EndEvent
  <2>4. n \in DOMAIN entries
    BY <2>1 DEF IInv, Numbered, TypeOK
  <2>5. DOMAIN entries' = DOMAIN entries
    BY <2>3, <2>4, UpdateSessionReaches DEF IInv
  <2>6. QED
    BY <2>1, <2>5, SameLog, SameSessions DEF Stutter
<1>4. QED
  BY <1>1, <1>2, <1>3

\* A new entry is a new, open session.
LEMMA AddEntryStarts ==
  ASSUME IInv, ConstantsTyped, AddEntry
  PROVE  History!Start
<1>1. lines' = lines /\ pc = "entry" /\ pc' = "start"
      /\ entries' = Append(entries, NewEntry(n'))
  BY DEF AddEntry
<1>2. n' = Len(entries) + 1 /\ entries \in Seq(Entries)
  BY DEF AddEntry, NextSessionNumber, IInv, Numbered, TypeOK
<1>3. Len(entries) \in Nat /\ DOMAIN entries = 1 .. Len(entries)
      /\ DOMAIN entries' = 1 .. Len(entries) + 1
  BY <1>1, <1>2
<1>4. \A k \in DOMAIN Sessions : Sessions[k] # "open"
  BY <1>1, StatusCases DEF Sessions
<1>5. LatestTotal' = LatestTotal /\ \A k : LoggedEnds(k)' = LoggedEnds(k)
  BY <1>1, SameLog
<1> PICK m \in Nat : m = n'
  BY <1>2, <1>3
<1>6. \A k \in DOMAIN entries : SessionStatus(k)' = SessionStatus(k)
  <2>1. \A k \in DOMAIN entries : k # m
    BY <1>2, <1>3
  <2>2. QED
    BY <1>1, <1>5, <2>1 DEF SessionStatus
<1>7. SessionStatus(m)' = "open"
  <2>1. m \notin DOMAIN entries
    BY <1>2, <1>3
  <2>2. LoggedEnds(m) = {}
    BY <2>1 DEF LoggedEnds, EndEvent, IInv, MetaFollowsLog
  <2>3. LoggedEnds(m)' = {}
    BY <1>5, <2>2
  <2>4. QED
    BY <1>1, <2>3 DEF SessionStatus
<1>8. Sessions' = Append(Sessions, "open")
  <2> DEFINE All == Statuses \cup {"open", "abandoned"}
             one == Append(Sessions, "open")
  <2>1. Sessions \in Seq(All) /\ Len(Sessions) = Len(entries) /\ DOMAIN Sessions = DOMAIN entries
        /\ \A k \in DOMAIN entries : Sessions[k] = SessionStatus(k)
    <3>1. \A k \in 1 .. Len(entries) : SessionStatus(k) \in All
      BY StatusCases
    <3>2. Sessions = [k \in 1 .. Len(entries) |-> SessionStatus(k)]
      BY <1>3 DEF Sessions
    <3> HIDE DEF All
    <3>3. QED
      BY <1>3, <3>1, <3>2
  <2>2. /\ one = [k \in 1 .. m |-> one[k]] /\ one[m] = "open"
        /\ \A k \in DOMAIN entries : one[k] = SessionStatus(k)
    <3>1. one \in Seq(All) /\ Len(one) = m /\ one[m] = "open"
          /\ \A k \in DOMAIN Sessions : one[k] = Sessions[k]
      <4> HIDE DEF All
      <4>1. "open" \in All
        BY DEF All
      <4>2. QED
        BY <1>2, <1>3, <2>1, <4>1
    <3> HIDE DEF All, one
    <3>2. one = [k \in 1 .. Len(one) |-> one[k]]
      BY <3>1
    <3>3. QED
      BY <2>1, <3>1, <3>2
  <2>3. Sessions' = [k \in 1 .. m |-> SessionStatus(k)']
    BY <1>2, <1>3 DEF Sessions
  <2>4. \A k \in 1 .. m : SessionStatus(k)' = one[k]
    BY <1>2, <1>3, <1>6, <1>7, <2>2
  <2>5. [k \in 1 .. m |-> SessionStatus(k)'] = [k \in 1 .. m |-> one[k]]
    BY <2>4
  <2>6. QED
    BY <2>2, <2>3, <2>5
<1>9. QED
  BY <1>4, <1>5, <1>8 DEF History!Start, History!NoneOpen, Sessions

\* The latest total is covered by the total of the monitor at work.
LEMMA LatestIsCovered ==
  ASSUME IInv, pc \in {"start", "run"}
  PROVE  LatestTotal \in Nat /\ LatestTotal <= total
<1>1. total \in Nat
  BY DEF IInv, TypeOK
<1>2. CASE LatestKept = {}
  BY <1>1, <1>2 DEF LatestTotal
<1>3. CASE LatestKept # {}
  <2>1. PICK i \in LatestKept : LatestTotal = lines[i].ev.cum
    BY <1>3 DEF LatestTotal
  <2>2. i \in DOMAIN lines /\ lines[i].form = "line" /\ lines[i].ev.kind = "snapshot"
    BY <2>1 DEF LatestKept, KeptSnapshots, SnapshotsIn
  <2>3. i \in ReadableSnapshots(lines)
    BY <2>2 DEF ReadableSnapshots, SnapshotsIn, IterEvents, Readable
  <2>4. lines[i] \in Lines
    BY <2>2 DEF IInv, TypeOK
  <2>5. lines[i].ev \in Events
    BY <2>4 DEF Lines
  <2>6. lines[i].ev.cum \in Nat
    BY <2>2, <2>5 DEF Events
  <2>7. QED
    BY <2>1, <2>3, <2>6 DEF IInv, TotalCovers
<1>4. QED
  BY <1>2, <1>3

\* A snapshot records a total on the open session.
LEMMA WriteSnapshotRecords ==
  ASSUME IInv, ConstantsTyped, NEW tx \in Tx, NEW rss \in Rss, WriteSnapshot(tx, rss)
  PROVE  History!Record
<1> DEFINE ev == Snapshot(n, tx, total', rss)
<1>1. pc = "run" /\ pc' = "run" /\ entries' = entries /\ n' = n
      /\ total' = total + tx /\ lines' = Append1(lines, ev)
  BY DEF WriteSnapshot, meta
<1>2. tx \in Nat /\ rss \in Nat /\ total \in Nat /\ n \in Nat /\ total' \in Nat
      /\ total <= total'
  BY <1>1 DEF ConstantsTyped, IInv, TypeOK
<1>3. ev \in Events /\ ev.kind = "snapshot" /\ ev.cum = total'
  BY <1>2 DEF Snapshot, Events
<1>4. PutLast(lines, lines', ev, "line")
  BY <1>1, <1>3, Append1Puts, RunningIsNewest DEF IInv, TypeOK
<1> HIDE DEF ev
<1>5. Sessions' = Sessions
  <2>1. \A k \in DOMAIN entries : LoggedEnds(k)' = LoggedEnds(k)
    BY <1>3, <1>4, EndsStay DEF Forms
  <2>2. QED
    BY <1>1, <2>1, SameSessions
<1>6. LatestTotal' = total'
  <2>1. /\ DOMAIN lines' = 1 .. Len(lines') /\ Len(lines') \in DOMAIN lines' /\ Len(lines') \in Nat
        /\ lines'[Len(lines')] = [ev |-> ev, form |-> "line"]
    BY <1>4 DEF PutLast
  <2>2. Len(lines') \in KeptSnapshots'
    BY <1>3, <2>1 DEF KeptSnapshots, SnapshotsIn
  <2>3. \A i \in KeptSnapshots' : i <= Len(lines') /\ i \in Nat
    BY <2>1 DEF KeptSnapshots, SnapshotsIn
  <2>4. LatestKept' = {Len(lines')}
    BY <2>1, <2>2, <2>3 DEF LatestKept
  <2>5. QED
    BY <1>3, <2>1, <2>4 DEF LatestTotal
<1>7. QED
  BY <1>1, <1>2, <1>5, <1>6, InHandIsOpen, LatestIsCovered
     DEF History!Record, History!IsOpen, Sessions

\* The session in hand becomes s, the others and the total stay.
LEMMA LeaveFrom ==
  ASSUME IInv, ConstantsTyped, pc \in {"start", "run"},
         NEW s \in Statuses \cup {"abandoned"},
         entries' = entries, LatestTotal' = LatestTotal,
         \A k \in DOMAIN entries : k # n => SessionStatus(k)' = SessionStatus(k),
         NEW k0, k0 = n, SessionStatus(k0)' = s
  PROVE  History!Leave
<1>1. DOMAIN entries = 1 .. n /\ n \in Nat /\ n > 0 /\ Len(Sessions) = n
      /\ Sessions # <<>> /\ Sessions[n] = "open"
  BY InHandIsOpen
<1>2. Sessions' = [Sessions EXCEPT ![Len(Sessions)] = s]
  <2>1. Sessions' = [k \in DOMAIN entries |-> SessionStatus(k)']
    BY DEF Sessions
  <2>2. [Sessions EXCEPT ![Len(Sessions)] = s]
          = [k \in DOMAIN entries |-> IF k = n THEN s ELSE SessionStatus(k)]
    BY <1>1 DEF Sessions
  <2>3. \A k \in DOMAIN entries :
          SessionStatus(k)' = IF k = n THEN s ELSE SessionStatus(k)
    OBVIOUS
  <2>4. QED
    BY <2>1, <2>2, <2>3
<1>3. QED
  BY <1>1, <1>2 DEF History!Leave, History!IsOpen, Sessions

\* A session_end leaves the open session with its status.
LEMMA WriteEndLeaves ==
  ASSUME IInv, ConstantsTyped, NEW s \in Statuses \cup {"running"}, WriteEnd(s)
  PROVE  History!Leave
<1> DEFINE st == EndStatus(s)
           ev == EndEvent(n, st)
<1>1. pc = "run" /\ pc' = "ended" /\ entries' = entries /\ n' = n
      /\ lines' = Append1(lines, ev)
  BY DEF WriteEnd, meta, counters
<1>2. st \in Statuses /\ n \in Nat
  BY DEF ConstantsTyped, EndStatus, IInv, TypeOK
<1>3. ev \in Events /\ ev.kind = "end" /\ ev.n = n /\ ev.status = st
  BY <1>2 DEF EndEvent, Events
<1>4. PutLast(lines, lines', ev, "line")
  BY <1>1, <1>3, Append1Puts, RunningIsNewest DEF IInv, TypeOK
<1>5. LatestTotal' = LatestTotal
  <2> HIDE DEF ev
  <2>1. QED
    BY <1>3, <1>4, TotalStays DEF Forms
<1>6. /\ DOMAIN lines' = 1 .. Len(lines') /\ Len(lines') \in DOMAIN lines'
      /\ lines'[Len(lines')] = [ev |-> ev, form |-> "line"]
      /\ \A i \in DOMAIN lines' :
           i = Len(lines') \/ (i \in DOMAIN lines /\ lines'[i] = lines[i])
      /\ \A i \in DOMAIN lines : lines[i].form = "line" => i \in DOMAIN lines' /\ lines'[i] = lines[i]
  BY <1>4 DEF PutLast, Terminated
<1> HIDE DEF ev, st
<1>7. ASSUME NEW k \in DOMAIN entries, k # n
      PROVE  SessionStatus(k)' = SessionStatus(k)
  <2>1. \A t \in Statuses : [ev |-> ev, form |-> "line"] # [ev |-> EndEvent(k, t), form |-> "line"]
    BY <1>3, <1>7 DEF EndEvent
  <2>2. LoggedEnds(k)' = LoggedEnds(k)
    BY <1>6, <2>1 DEF LoggedEnds
  <2>3. QED
    BY <1>1, <1>7, <2>2 DEF SessionStatus
<1> PICK k0 \in Nat : k0 = n
  BY <1>2
<1>8. SessionStatus(k0)' = st
  <2>1. LoggedEnds(k0) = {}
    BY <1>1, InHandIsOpen
  <2>2. \A t \in Statuses, i \in DOMAIN lines :
          lines[i] # [ev |-> EndEvent(k0, t), form |-> "line"]
    BY <2>1 DEF LoggedEnds
  <2>3. \A t \in Statuses :
          [ev |-> ev, form |-> "line"] = [ev |-> EndEvent(k0, t), form |-> "line"] <=> t = st
    BY DEF ev, EndEvent
  <2>4. LoggedEnds(k0)' = {st}
    BY <1>2, <1>6, <2>2, <2>3 DEF LoggedEnds
  <2>5. QED
    BY <2>4 DEF SessionStatus
<1>9. QED
  BY <1>1, <1>2, <1>5, <1>7, <1>8, LeaveFrom

\* A dead monitor's session is abandoned, if it had one in hand.
LEMMA DeathsLeave ==
  ASSUME IInv, ConstantsTyped, Abandon \/ DieWriting
  PROVE  History!Leave \/ Stutter
<1>1. /\ LatestTotal' = LatestTotal /\ entries' = entries /\ pc' = "down"
      /\ \A k \in DOMAIN entries : LoggedEnds(k)' = LoggedEnds(k)
  <2>1. CASE Abandon
    BY <2>1, SameLog DEF Abandon, meta
  <2>2. CASE DieWriting
    <3>1. PICK ev \in InFlight, cut \in {"torn", "bare"} : lines' = AppendCut(lines, ev, cut)
      BY <2>2 DEF DieWriting
    <3>2. entries' = entries /\ pc' = "down"
      BY <2>2 DEF DieWriting, meta
    <3>3. ev \in Events
      <4>1. n \in Nat /\ total \in Nat /\ Tx \subseteq Nat /\ Rss \subseteq Nat
        BY DEF IInv, TypeOK, ConstantsTyped
      <4>2. CASE pc = "start"
        BY <3>1, <4>1, <4>2 DEF InFlight, StartEvent, Events
      <4>3. CASE pc = "run"
        <5>1. CASE \E s \in Statuses : ev = EndEvent(n, s)
          BY <4>1, <5>1 DEF EndEvent, Events
        <5>2. CASE \E tx \in Tx, rss \in Rss : ev = Snapshot(n, tx, total + tx, rss)
          BY <4>1, <5>2 DEF Snapshot, Events
        <5>3. QED
          BY <3>1, <4>3, <5>1, <5>2 DEF InFlight
      <4>4. QED
        BY <3>1, <4>2, <4>3 DEF InFlight
    <3> DEFINE form == IF OpenTail(lines) THEN "torn" ELSE cut
    <3>4. PutLast(lines, lines', ev, form) /\ form \in Forms /\ form # "line"
      BY <3>1, <3>3, AppendCutPuts DEF IInv, TypeOK, Forms
    <3> HIDE DEF form
    <3>5. QED
      BY <3>2, <3>3, <3>4, EndsStay, TotalStays
  <2>3. QED
    BY <2>1, <2>2
<1>2. CASE pc \notin {"start", "run"}
  BY <1>1, <1>2, SameSessions DEF Stutter
<1>3. CASE pc \in {"start", "run"}
  <2>1. n \in DOMAIN entries /\ LoggedEnds(n) = {}
    BY <1>3, InHandIsOpen
  <2> PICK k0 \in DOMAIN entries : k0 = n
    BY <2>1
  <2>2. LoggedEnds(k0)' = {}
    BY <1>1, <2>1
  <2>3. SessionStatus(k0)' = "abandoned"
    BY <1>1, <2>2 DEF SessionStatus
  <2>4. \A k \in DOMAIN entries : k # n => SessionStatus(k)' = SessionStatus(k)
    BY <1>1 DEF SessionStatus
  <2>5. QED
    BY <1>1, <1>3, <2>3, <2>4, LeaveFrom
<1>4. QED
  BY <1>2, <1>3

\* --fresh empties the history.
LEMMA SetAsideSetsAside ==
  ASSUME IInv, ConstantsTyped, SetAside
  PROVE  History!SetAside
<1>1. pc = "init" /\ lines' = <<>> /\ entries' = <<>>
      /\ DOMAIN lines' = {} /\ DOMAIN entries' = {}
  BY DEF SetAside
<1>2. \A k \in DOMAIN Sessions : Sessions[k] # "open"
  BY <1>1, StatusCases DEF Sessions
<1>3. LatestTotal' = 0
  BY <1>1 DEF LatestTotal, LatestKept, KeptSnapshots, SnapshotsIn
<1>4. Sessions' = <<>>
  BY <1>1 DEF Sessions
<1>5. QED
  BY <1>2, <1>3, <1>4 DEF History!SetAside, History!NoneOpen, Sessions

\* A session directory, with all its crash windows, is a session history.
THEOREM Refinement == Spec => ImplementsHistory
<1>1. Init => History!HInit
  <2> SUFFICES ASSUME Init PROVE History!HInit
    OBVIOUS
  <2>1. DOMAIN lines = {} /\ DOMAIN entries = {}
    BY DEF Init
  <2>2. LatestTotal = 0
    BY <2>1 DEF LatestTotal, LatestKept, KeptSnapshots, SnapshotsIn
  <2>3. Sessions = <<>>
    BY <2>1 DEF Sessions
  <2>4. QED
    BY <2>2, <2>3 DEF History!HInit, Sessions
<1>2. IInv /\ [Next]_vars => [History!HNext]_(History!hvars)
  <2> SUFFICES ASSUME IInv, [Next]_vars PROVE History!HNext \/ Stutter
    BY DEF History!hvars, Stutter, Sessions
  <2>1. CASE \/ Begin \/ Hydrate \/ EnsureMeta \/ WriteStart \/ UpdateEntry \/ SaveSummary
             \/ \E tx \in Tx, rss \in Rss : ObserveUnsaved(tx, rss)
             \/ UNCHANGED vars
    BY <2>1, ConstantsTyped, QuietSteps
  <2>2. CASE AddEntry
    BY <2>2, ConstantsTyped, AddEntryStarts DEF History!HNext
  <2>3. CASE \E tx \in Tx, rss \in Rss : WriteSnapshot(tx, rss)
    BY <2>3, ConstantsTyped, WriteSnapshotRecords DEF History!HNext
  <2>4. CASE \E s \in Statuses \cup {"running"} : WriteEnd(s)
    BY <2>4, ConstantsTyped, WriteEndLeaves DEF History!HNext
  <2>5. CASE Abandon \/ DieWriting
    BY <2>5, ConstantsTyped, DeathsLeave DEF History!HNext
  <2>6. CASE SetAside
    BY <2>6, ConstantsTyped, SetAsideSetsAside DEF History!HNext
  <2>7. QED
    BY <2>1, <2>2, <2>3, <2>4, <2>5, <2>6 DEF Next, Open, Close
<1>3. QED
  BY <1>1, <1>2, Invariance, PTL DEF Spec, ImplementsHistory, History!HSpec
===============================================================================

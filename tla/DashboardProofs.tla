---------------------------- MODULE DashboardProofs -----------------------------
(***************************************************************************)
(* What the dashboard shows after any number of notifications, polls,      *)
(* processes and acquisitions: DashboardSpec and InboundSpec are the parts *)
(* without the bounds a run of TLC needs.                                  *)
(***************************************************************************)
EXTENDS MCDashboard, SequenceTheorems, FiniteSetTheorems, TLAPS

\* The widgets that are of the process attached to or of one of its own successors.
Widgets ==
  {"counts", "countsStats", "pools", "poolsStats", "heap", "timeline", "graph", "shown"}

OwnWidgets(me, n, u) ==
  /\ DOMAIN u = Widgets
  /\ DOMAIN u.shown = Panels \cup {"counts", "pools", "heap"}
  /\ \A p \in DOMAIN u.shown \ {"heap"} : u.shown[p] \in me.own
  /\ u.shown["memory_breakdown"] \in {0, me.process}
  /\ u.graph \subseteq {me.process}

\* The observer is folded over the states that are told.
Observing == INSTANCE FoldLaws WITH Op <- Observe, Keeps <- OwnWidgets

-------------------------------------------------------------------------------
(* Finite sets of numbers *)

\* A finite set of numbers has a greatest one.
LEMMA GreatestOfSet ==
  ASSUME NEW S \in SUBSET Nat, IsFiniteSet(S), S # {}
  PROVE  \E m \in S : \A x \in S : x <= m
  <1> DEFINE Above(q) == {x \in S : x > q}
             T == {Cardinality(Above(q)) : q \in S}
  <1>1. \A q \in S : IsFiniteSet(Above(q)) /\ Cardinality(Above(q)) \in Nat
    <2> SUFFICES ASSUME NEW q \in S PROVE IsFiniteSet(Above(q)) /\ Cardinality(Above(q)) \in Nat
      OBVIOUS
    <2>1. Above(q) \in SUBSET S OBVIOUS
    <2>2. QED BY <2>1, FS_Subset, FS_CardinalityType
  <1>2. T \subseteq Nat /\ T # {} BY <1>1
  <1>3. PICK n \in T : \A k \in T : n <= k BY <1>2, Observing!LeastNat
  <1>4. PICK m \in S : n = Cardinality(Above(m)) OBVIOUS
  <1>5. ASSUME NEW x \in S, x > m PROVE FALSE
    <2>0. x \in Nat /\ m \in Nat /\ \A y \in S : y \in Nat OBVIOUS
    <2>1. /\ x \in Above(m) /\ x \notin Above(x)
          /\ \A y \in Above(x) : y \in Above(m)
      BY <1>5, <2>0
    <2>2. Above(x) # Above(m) /\ Above(x) \subseteq Above(m) BY <2>1
    <2> HIDE DEF Above
    <2>3. Cardinality(Above(x)) < Cardinality(Above(m)) BY <1>1, <2>1, <2>2, FS_Subset
    <2>4. Cardinality(Above(x)) \in T BY <1>5 DEF T
    <2>5. QED BY <1>1, <1>3, <1>4, <2>3, <2>4
  <1>6. \A x \in S : x <= m BY <1>4, <1>5
  <1>7. QED BY <1>6

\* The maximum is in the set and no element is greater.
LEMMA MaxOfSet ==
  ASSUME NEW S \in SUBSET Nat, IsFiniteSet(S), S # {}
  PROVE  Max(S) \in S /\ \A x \in S : x <= Max(S)
  <1>1. PICK m \in S : \A x \in S : x <= m BY GreatestOfSet
  <1>2. \A x \in S : m >= x BY <1>1
  <1>3. QED BY <1>2 DEF Max

-------------------------------------------------------------------------------
(* The inbound table *)

Acquisition == [counter : Nat, request : Nat \cup {NoTime}, response : Nat \cup {NoTime}]

\* Acquisitions by ledger.
IsDetails(f) ==
  /\ f = [q \in DOMAIN f |-> f[q]] /\ IsFiniteSet(DOMAIN f) /\ DOMAIN f \subseteq Ledgers
  /\ \A q \in DOMAIN f : f[q] \in Acquisition

\* Two finite sets of numbers, and 0.
LEMMA WithZero ==
  ASSUME NEW A \in SUBSET Nat, IsFiniteSet(A), NEW B \in SUBSET Nat, IsFiniteSet(B)
  PROVE  A \cup B \cup {0} \in SUBSET Nat /\ IsFiniteSet(A \cup B \cup {0}) /\ A \cup B \cup {0} # {}
  <1>1. IsFiniteSet(A \cup B) BY FS_Union
  <1>2. IsFiniteSet({0}) BY FS_Singleton
  <1>3. IsFiniteSet((A \cup B) \cup {0}) BY <1>1, <1>2, FS_Union
  <1>4. QED BY <1>3

\* A gap is no negative time.
LEMMA GapIsTime ==
  ASSUME NEW ibl \in Acquisition
  PROVE  Gap(ibl) \subseteq Nat /\ IsFiniteSet(Gap(ibl)) /\ \A g, h \in Gap(ibl) : g = h
  <1>1. CASE ibl.request = NoTime
    <2>1. Gap(ibl) = {} BY <1>1 DEF Gap
    <2>2. QED BY <2>1, FS_EmptySet
  <1>2. CASE ibl.request # NoTime /\ ibl.response = NoTime
    <2>1. Gap(ibl) = {ibl.request} /\ ibl.request \in Nat BY <1>2 DEF Gap, Acquisition
    <2>2. QED BY <2>1, FS_Singleton
  <1>3. CASE ibl.request # NoTime /\ ibl.response # NoTime
    <2> DEFINE d == ibl.request - ibl.response
    <2>1. Gap(ibl) = {Max({0, d})} BY <1>3 DEF Gap
    <2>2. d \in Int BY <1>3 DEF Acquisition
    <2> HIDE DEF d
    <2>3. Max({0, d}) = IF d > 0 THEN d ELSE 0 BY <2>2 DEF Max
    <2>4. Max({0, d}) \in Nat BY <2>2, <2>3
    <2> DEFINE g == Max({0, d})
    <2> HIDE DEF g
    <2>5. Gap(ibl) = {g} /\ g \in Nat BY <2>1, <2>4 DEF g, d
    <2>6. QED BY <2>5, FS_Singleton
  <1>4. QED BY <1>1, <1>2, <1>3

\* How the details may be listed.
Listings(details) == {<<>>} \cup SetToSeqs(DOMAIN details)

\* The lowest ledgers are not more than the table has rows.
LEMMA LowestAreFew ==
  ASSUME NEW D \in SUBSET Nat, IsFiniteSet(D), NEW R \in SUBSET D,
         \A q \in R : Cardinality({r \in D : r < q}) < RowMax
  PROVE  IsFiniteSet(R) /\ Cardinality(R) <= RowMax
  <1> DEFINE Below(q) == {r \in D : r < q}
  <1>1. RowMax \in Nat BY DisplayBounds
  <1>2. IsFiniteSet(R) BY FS_Subset
  <1>3. CASE R = {} BY <1>1, <1>2, <1>3, FS_EmptySet
  <1>4. CASE R # {}
    <2>1. R \in SUBSET Nat OBVIOUS
    <2>2. PICK m \in R : \A x \in R : x <= m BY <1>2, <1>4, <2>1, GreatestOfSet
    <2>3. \A x \in R \ {m} : x \in D /\ x < m BY <2>1, <2>2
    <2>4. R \ {m} \subseteq Below(m) /\ Below(m) \subseteq D BY <2>3
    <2>5. IsFiniteSet(Below(m)) BY <2>4, FS_Subset
    <2>6. Cardinality(R \ {m}) <= Cardinality(Below(m)) BY <2>4, <2>5, FS_Subset
    <2>7. Cardinality(R \ {m}) = Cardinality(R) - 1 BY <1>2, <2>2, FS_RemoveElement
    <2>8. Cardinality(Below(m)) \in Nat /\ Cardinality(R) \in Nat BY <1>2, <2>5, FS_CardinalityType
    <2>9. Cardinality(Below(m)) < RowMax BY <2>2
    <2>10. QED BY <1>1, <1>2, <2>6, <2>7, <2>8, <2>9
  <1>5. QED BY <1>3, <1>4

\* What a list begins with.
FirstRows(list) == {list[i] : i \in 1 .. Min({RowMax, Len(list)})}

\* These are not more, either.
LEMMA FirstAreFew ==
  ASSUME NEW D, NEW n \in Nat, NEW list, list \in [1 .. n -> D]
  PROVE  /\ FirstRows(list) \subseteq D /\ IsFiniteSet(FirstRows(list))
         /\ Cardinality(FirstRows(list)) <= RowMax
  <1>1. RowMax \in Nat BY DisplayBounds
  <1>2. Len(list) = n
    <2>1. list = [i \in 1 .. n |-> list[i]] /\ \A i \in 1 .. n : list[i] \in D OBVIOUS
    <2>2. QED BY <2>1
  <1> DEFINE m == Min({RowMax, Len(list)})
             R == {list[i] : i \in 1 .. m}
             f == [i \in 1 .. m |-> list[i]]
  <1>3. m \in Nat /\ m <= n /\ m <= RowMax
    <2>1. m = Min({RowMax, n}) BY <1>2
    <2>2. PICK k \in {RowMax, n} : k <= RowMax /\ k <= n BY <1>1
    <2>3. Min({RowMax, n}) = k BY <1>1, <2>2 DEF Min
    <2>4. QED BY <1>1, <2>1, <2>2, <2>3
  <1> HIDE DEF m
  <1>4. R \subseteq D BY <1>3
  <1>5. f \in Surjection(1 .. m, R) BY DEF Surjection
  <1>6. ExistsSurjection(1 .. m, R) BY <1>5 DEF ExistsSurjection
  <1> HIDE DEF R
  <1>7. Cardinality(R) <= m BY <1>3, <1>6, FS_SurjCardinalityBound
  <1>8. IsFiniteSet(R) BY <1>3, <1>6, FS_NatSurjection
  <1>9. Cardinality(R) \in Nat BY <1>8, FS_CardinalityType
  <1>10. QED BY <1>1, <1>3, <1>4, <1>7, <1>8, <1>9 DEF FirstRows, R, m

\* The rows are some of the ledgers, and not more than the table has.
LEMMA RowsAreFew ==
  ASSUME NEW details, IsDetails(details), NEW list \in Listings(details)
  PROVE  LET R == Rows(details, list)
         IN /\ R \subseteq DOMAIN details /\ IsFiniteSet(R) /\ Cardinality(R) <= RowMax
            /\ DOMAIN details = {} => R = {}
  <1> DEFINE D == DOMAIN details
             R == Rows(details, list)
  <1>1. IsFiniteSet(D) /\ D \in SUBSET Nat BY InboundBounds DEF IsDetails
  <1>2. R \subseteq D /\ IsFiniteSet(R) /\ Cardinality(R) <= RowMax
    <2>1. CASE list = <<>>
      <3>1. R = {q \in D : Cardinality({r \in D : r < q}) < RowMax} BY <2>1 DEF Rows
      <3> HIDE DEF D, R
      <3>2. QED BY <1>1, <3>1, LowestAreFew
    <2>2. CASE list # <<>>
      <3>1. list \in [1 .. Cardinality(D) -> D] BY <2>2 DEF Listings, SetToSeqs
      <3>2. R = FirstRows(list) BY <2>2 DEF Rows, FirstRows
      <3>3. Cardinality(D) \in Nat BY <1>1, FS_CardinalityType
      <3> HIDE DEF D, R
      <3>4. QED BY <3>1, <3>2, <3>3, FirstAreFew
    <2>3. QED BY <2>1, <2>2
  <1>3. D = {} => R = {} BY <1>2
  <1>4. QED BY <1>2, <1>3

\* A peak is at least the gap and what it was before.
LEMMA PeakCovers ==
  ASSUME NEW ibl \in Acquisition, NEW old \in SUBSET Nat, IsFiniteSet(old)
  PROVE  /\ Peak(old, ibl) \in Nat
         /\ \A x \in Gap(ibl) \cup old : x <= Peak(old, ibl)
  <1> DEFINE all == Gap(ibl) \cup old \cup {0}
  <1>1. all \in SUBSET Nat /\ IsFiniteSet(all) /\ all # {}
    <2>1. Gap(ibl) \in SUBSET Nat /\ IsFiniteSet(Gap(ibl)) BY GapIsTime
    <2>2. QED BY <2>1, WithZero
  <1> HIDE DEF all
  <1>2. Max(all) \in Nat /\ \A x \in all : x <= Max(all) BY <1>1, MaxOfSet
  <1>3. QED BY <1>2 DEF Peak, all

\* The caches of the table and of the raw JSON, and the gaps there have been.
InboundInv ==
  /\ IsDetails(ibls) /\ IsDetails(held.details) /\ held.list \in Listings(held.details)
  /\ IsFiniteSet(DOMAIN panel.prev) /\ Cardinality(DOMAIN panel.prev) <= RowMax
  /\ DOMAIN panel.peak \cup DOMAIN panel.delta \subseteq DOMAIN panel.prev
  /\ \A q \in DOMAIN panel.peak : panel.peak[q] \in Nat
  /\ \A q \in DOMAIN high : high[q] \in Nat
  /\ PeakIsHighWater
  /\ held.id \in {0} \cup Addresses /\ (held = NoPayload <=> held.id = 0)
  /\ resets \in 0 .. 1
  /\ resets = 0 => raw.id = held.id /\ raw.text = held.text

\* A table is drawn.
LEMMA DrawnInv ==
  ASSUME InboundInv, NEW payload, IsDetails(payload.details),
         payload.list \in Listings(payload.details), Drawn(payload)
  PROVE  /\ IsFiniteSet(DOMAIN panel'.prev) /\ Cardinality(DOMAIN panel'.prev) <= RowMax
         /\ DOMAIN panel'.peak \cup DOMAIN panel'.delta \subseteq DOMAIN panel'.prev
         /\ \A q \in DOMAIN panel'.peak : panel'.peak[q] \in Nat
         /\ \A q \in DOMAIN high' : high'[q] \in Nat
         /\ PeakIsHighWater'
  <1> DEFINE details == payload.details
             R == Rows(details, payload.list)
             Since(q) == IF q \in DOMAIN high THEN {high[q]} ELSE {}
             Gaps(q) == Gap(details[q]) \cup {0} \cup Since(q)
  <1>1. /\ panel' = InboundPanel(panel, details, R)
        /\ high' = [q \in R |-> Max(Gaps(q))]
    BY DEF Drawn
  <1>2. /\ R \subseteq DOMAIN details /\ IsFiniteSet(R) /\ Cardinality(R) <= RowMax
        /\ DOMAIN details = {} => R = {}
    BY RowsAreFew
  <1>3. \A q \in R : details[q] \in Acquisition BY <1>2 DEF IsDetails
  <1> HIDE DEF details, R
  <1>4. \A q \in R : Max(Gaps(q)) \in Gaps(q) /\ Gaps(q) \in SUBSET Nat
    <2> SUFFICES ASSUME NEW q \in R PROVE Max(Gaps(q)) \in Gaps(q) /\ Gaps(q) \in SUBSET Nat
      OBVIOUS
    <2>1. Since(q) \in SUBSET Nat /\ IsFiniteSet(Since(q))
      <3>1. CASE q \in DOMAIN high
        <4>1. Since(q) = {high[q]} /\ high[q] \in Nat BY <3>1 DEF InboundInv
        <4>2. QED BY <4>1, FS_Singleton
      <3>2. CASE q \notin DOMAIN high
        <4>1. Since(q) = {} BY <3>2
        <4>2. QED BY <4>1, FS_EmptySet
      <3>3. QED BY <3>1, <3>2
    <2>2. Gap(details[q]) \in SUBSET Nat /\ IsFiniteSet(Gap(details[q])) BY <1>3, GapIsTime
    <2> HIDE DEF Since
    <2>3. Gaps(q) = Gap(details[q]) \cup Since(q) \cup {0} OBVIOUS
    <2>4. Gaps(q) \in SUBSET Nat /\ Gaps(q) # {} /\ IsFiniteSet(Gaps(q))
      BY <2>1, <2>2, <2>3, WithZero
    <2> HIDE DEF Gaps
    <2>5. QED BY <2>4, MaxOfSet
  <1>5. DOMAIN high' = R /\ \A q \in R : high'[q] \in Nat BY <1>1, <1>4
  <1>6. CASE DOMAIN details = {}
    <2>1. panel' = panel BY <1>1, <1>6 DEF InboundPanel
    <2>2. R = {} BY <1>2, <1>6
    <2>3. PeakIsHighWater' BY <1>5, <2>2 DEF PeakIsHighWater
    <2>4. QED BY <1>5, <2>1, <2>3 DEF InboundInv
  <1>7. CASE DOMAIN details # {}
    <2> DEFINE P == {r \in R : Gap(details[r]) # {} \/ r \in DOMAIN panel.peak}
    <2>1. /\ DOMAIN panel'.prev = R /\ DOMAIN panel'.delta \subseteq R
          /\ panel'.peak = [q \in P |-> Peak(Cached(panel.peak, q), details[q])]
      BY <1>1, <1>7 DEF InboundPanel, Deltas, Peaks, R
    <2>2. ASSUME NEW q \in P
          PROVE  /\ panel'.peak[q] \in Nat
                 /\ \A x \in Gap(details[q]) \cup Cached(panel.peak, q) : x <= panel'.peak[q]
      <3>1. Cached(panel.peak, q) \in SUBSET Nat /\ IsFiniteSet(Cached(panel.peak, q))
        BY FS_Singleton, FS_EmptySet DEF Cached, InboundInv
      <3>2. details[q] \in Acquisition BY <1>3
      <3>3. QED BY <2>1, <3>1, <3>2, PeakCovers
    <2>3. ASSUME NEW q \in R, high'[q] > 0
          PROVE  q \in P /\ panel'.peak[q] >= high'[q]
      <3>1. high'[q] \in Gap(details[q]) \cup {0} \cup Since(q) BY <1>1, <1>4
      <3>2. CASE high'[q] \in Gap(details[q])
        <4>1. q \in P BY <3>2
        <4>2. QED BY <1>5, <2>2, <3>2, <4>1
      <3>3. CASE high'[q] \in Since(q)
        <4>1. q \in DOMAIN high /\ high[q] = high'[q] BY <3>3
        <4>2. q \in DOMAIN panel.peak /\ panel.peak[q] >= high[q]
          BY <2>3, <4>1 DEF InboundInv, PeakIsHighWater
        <4>3. q \in P /\ panel.peak[q] \in Cached(panel.peak, q) BY <4>2 DEF Cached
        <4>4. panel.peak[q] \in Nat /\ high[q] \in Nat BY <4>1, <4>2 DEF InboundInv
        <4>5. panel.peak[q] <= panel'.peak[q] /\ panel'.peak[q] \in Nat BY <2>2, <4>3
        <4>6. QED BY <4>1, <4>2, <4>3, <4>4, <4>5
      <3>4. QED BY <2>3, <3>1, <3>2, <3>3
    <2>4. DOMAIN panel'.peak = P BY <2>1
    <2> HIDE DEF P
    <2>5. PeakIsHighWater' BY <1>5, <2>3, <2>4 DEF PeakIsHighWater
    <2>6. P \subseteq R BY DEF P
    <2>7. QED BY <1>2, <1>5, <2>1, <2>2, <2>4, <2>5, <2>6
  <1>8. QED BY <1>6, <1>7

\* Nothing is acquired and nothing was shown.
LEMMA InboundInitInv == InboundInit => InboundInv
  <1> SUFFICES ASSUME InboundInit PROVE InboundInv
    OBVIOUS
  <1>1. DOMAIN NoLedgers = {} /\ IsDetails(NoLedgers) BY FS_EmptySet DEF NoLedgers, IsDetails
  <1>2. Cardinality({}) = 0 /\ IsFiniteSet({}) BY FS_EmptySet
  <1>3. QED
    BY <1>1, <1>2, DisplayBounds
       DEF InboundInit, InboundInv, NoInbound, NoPayload, NoRaw, PeakIsHighWater, Listings

\* Every step keeps the caches.
LEMMA InboundNextInv == InboundInv /\ [InboundNext]_inboundVars => InboundInv'
  <1> SUFFICES ASSUME InboundInv, [InboundNext]_inboundVars PROVE InboundInv'
    OBVIOUS
  <1>1. ASSUME UNCHANGED <<held, panel, raw, high, resets>>, IsDetails(ibls') PROVE InboundInv'
    BY <1>1 DEF InboundInv, PeakIsHighWater
  <1>2. CASE AcquisitionBegins
    <2>1. PICK q \in Ledgers \ DOMAIN ibls :
            ibls' = [r \in DOMAIN ibls \cup {q} |->
                      IF r = q THEN [counter |-> 0, request |-> NoTime, response |-> NoTime]
                      ELSE ibls[r]]
      BY <1>2 DEF AcquisitionBegins
    <2>2. IsFiniteSet(DOMAIN ibls \cup {q}) BY FS_AddElement DEF InboundInv, IsDetails
    <2>3. IsDetails(ibls') BY <2>1, <2>2 DEF InboundInv, IsDetails, Acquisition
    <2>4. QED BY <1>1, <1>2, <2>3 DEF AcquisitionBegins
  <1>3. CASE Progress
    <2>1. PICK q \in DOMAIN ibls :
            \/ ibls' = [ibls EXCEPT ![q].request = Now(ibls[q]) + 1]
            \/ ibls' = [ibls EXCEPT ![q].response = Now(ibls[q]) + 1, ![q].counter = @ + 1]
      BY <1>3 DEF Progress
    <2>2. ibls[q] \in Acquisition BY DEF InboundInv, IsDetails
    <2>3. Now(ibls[q]) \in Nat
      <3>1. DEFINE a == ibls[q].request
      <3>2. DEFINE b == ibls[q].response
      <3>3. a \in Int /\ b \in Int BY <2>2 DEF Acquisition, NoTime
      <3> HIDE DEF a, b
      <3>4. PICK m \in {0, a, b} : m >= 0 /\ m >= a /\ m >= b BY <3>3
      <3>5. Max({0, a, b}) = m BY <3>3, <3>4 DEF Max
      <3>6. QED BY <3>3, <3>4, <3>5 DEF Now, a, b
    <2>4. IsDetails(ibls') BY <2>1, <2>2, <2>3 DEF InboundInv, IsDetails, Acquisition
    <2>5. QED BY <1>1, <1>3, <2>4 DEF Progress
  <1>4. CASE AcquisitionEnds
    <2>1. PICK q \in DOMAIN ibls : ibls' = [r \in DOMAIN ibls \ {q} |-> ibls[r]]
      BY <1>4 DEF AcquisitionEnds
    <2>2. IsFiniteSet(DOMAIN ibls \ {q}) BY FS_RemoveElement DEF InboundInv, IsDetails
    <2>3. IsDetails(ibls') BY <2>1, <2>2 DEF InboundInv, IsDetails
    <2>4. QED BY <1>1, <1>4, <2>3 DEF AcquisitionEnds
  <1>5. CASE PollLedgersInfo
    <2>1. PICK a \in Addresses \ {held.id}, list \in Listings(ibls) :
            held' = [id |-> a, text |-> polls + 1, details |-> ibls, list |-> list]
      BY <1>5 DEF PollLedgersInfo, AddressFor, Listings
    <2>2. Drawn(held') /\ UNCHANGED <<ibls, resets>> BY <1>5 DEF PollLedgersInfo
    <2>3. IsDetails(held'.details) /\ held'.list \in Listings(held'.details)
      BY <2>1 DEF InboundInv
    <2>4. a # 0 /\ a \in Addresses /\ a # held.id BY <2>1 DEF Addresses
    <2>5. raw' = RawJson(raw, held'.id, held'.text) BY <2>2 DEF Drawn
    <2>6. resets = 0 => raw'.id = held'.id /\ raw'.text = held'.text
      BY <2>1, <2>4, <2>5 DEF RawJson, InboundInv
    <2>7. held' # NoPayload BY <2>1, <2>4 DEF NoPayload
    <2>8. /\ IsFiniteSet(DOMAIN panel'.prev) /\ Cardinality(DOMAIN panel'.prev) <= RowMax
          /\ DOMAIN panel'.peak \cup DOMAIN panel'.delta \subseteq DOMAIN panel'.prev
          /\ \A q \in DOMAIN panel'.peak : panel'.peak[q] \in Nat
          /\ \A q \in DOMAIN high' : high'[q] \in Nat
          /\ PeakIsHighWater'
      BY <2>2, <2>3, DrawnInv
    <2>9. QED BY <2>1, <2>2, <2>3, <2>4, <2>6, <2>7, <2>8 DEF InboundInv
  <1>6. CASE NotifyLedgersInfo
    <2>1. Drawn(held) /\ UNCHANGED <<ibls, held, resets>> BY <1>6 DEF NotifyLedgersInfo
    <2>2. resets = 0 => raw'.id = held.id /\ raw'.text = held.text
      BY <2>1 DEF Drawn, RawJson, InboundInv
    <2>3. /\ IsFiniteSet(DOMAIN panel'.prev) /\ Cardinality(DOMAIN panel'.prev) <= RowMax
          /\ DOMAIN panel'.peak \cup DOMAIN panel'.delta \subseteq DOMAIN panel'.prev
          /\ \A q \in DOMAIN panel'.peak : panel'.peak[q] \in Nat
          /\ \A q \in DOMAIN high' : high'[q] \in Nat
          /\ PeakIsHighWater'
      BY <2>1, DrawnInv DEF InboundInv
    <2>4. QED BY <2>1, <2>2, <2>3 DEF InboundInv
  <1>7. CASE ResetLedgersInfo
    <2>1. DOMAIN NoLedgers = {} /\ IsDetails(NoLedgers) BY FS_EmptySet DEF NoLedgers, IsDetails
    <2>2. QED
      BY <1>7, <2>1 DEF ResetLedgersInfo, InboundInv, NoPayload, PeakIsHighWater, Listings
  <1>8. CASE UNCHANGED inboundVars
    BY <1>1, <1>8 DEF inboundVars, InboundInv
  <1>9. QED BY <1>2, <1>3, <1>4, <1>5, <1>6, <1>7, <1>8 DEF InboundNext

\* The caches in every reachable state.
LEMMA InboundInvariance == InboundSpec => []InboundInv
  BY InboundInitInv, InboundNextInv, PTL DEF InboundSpec

\* However often the table is drawn, for any number of ledgers and rows, the peak beside
\* a ledger stays at or above the longest gap drawn of it (_inbound_panel).
THEOREM PeakCoversEveryGap == InboundSpec => []PeakIsHighWater
  <1>1. InboundInv => PeakIsHighWater BY DEF InboundInv
  <1>2. QED BY <1>1, InboundInvariance, PTL

\* As long as a payload replaces a payload, the cache by id() cannot show the text of
\* another one (update_ledgers_info).
THEOREM RawJsonIsCurrent == InboundSpec => []RawIsCurrent
  <1>1. InboundInv => RawIsCurrent BY DEF InboundInv, RawIsCurrent
  <1>2. QED BY <1>1, InboundInvariance, PTL
-------------------------------------------------------------------------------
(* The shared state and what is shown of it *)

Servers == NodeStates \cup {"none"}
Counters == [NodeStates -> Nat] \cup {NoTransitions}
Data(own) == [of : own, val : Nat]

\* A process and its successors so far, and what the monitor takes for the process
\* attached to.
From(p) == {0} \cup p .. started
Mine == From(attached)
Me == [own |-> Mine, process |-> attached]

Nodes == [counter : Nat, state : NodeStates, moves : Nat, transitions : [NodeStates -> Nat]]

States(me) ==
  {s \in [counts : Data(me.own), heap : Data(0 .. MaxProcs), server : Servers,
          transitions : Counters, serverOf : me.own, accountingOf : me.own,
          panel : [Panels -> me.own]] :
     s.panel["memory_breakdown"] \in {0, me.process}}

Snapshots(own) ==
  [counts : Data(own), heap : Data(0 .. MaxProcs), panels : SUBSET Panels,
   server : Servers, transitions : Counters]

Latests(own) == [counts : Data(own), heap : Data(0 .. MaxProcs), panels : SUBSET Panels]

\* The node, and what its processes left on disk.
NodeInv ==
  /\ started \in 0 .. MaxProcs /\ running \in {0, started}
  /\ node \in [Procs -> Nodes]
  /\ DOMAIN log = Procs
  /\ \A p \in Procs : log[p] \in Seq(Snapshots(From(p))) /\ Len(log[p]) <= MaxSnapshots

\* The monitor: what it holds is of the process attached to or of a successor, but for
\* the heap. The counts and the accounting are empty until a session is open, and all of
\* it is while the monitor is off.
MonitorInv ==
  /\ phase \in Phases
  /\ attached \in 0 .. started /\ (attached = 0 <=> phase = "off")
  /\ latest \in Latests(Mine)
  /\ state \in States(Me)
  /\ OwnWidgets(Me, 0, ui)
  /\ sampling \in BOOLEAN /\ samples \subseteq {None} \cup Data(Procs)
  /\ phase = "attaching" =>
       state.counts = None /\ state.transitions = NoTransitions /\ state.accountingOf = 0
  /\ phase = "off" => state = InitialState /\ ui = FreshWidgets /\ samples = {} /\ fed = NothingFed

\* A sequence over a set is one over a larger set.
LEMMA SeqGrows ==
  ASSUME NEW A, NEW B, A \subseteq B, NEW q \in Seq(A)
  PROVE  q \in Seq(B)
  OBVIOUS

\* What is of some processes is of more of them.
LEMMA OwnGrows ==
  ASSUME NEW a, NEW b, a.own \subseteq b.own, a.process = b.process
  PROVE  /\ \A l \in Latests(a.own) : l \in Latests(b.own)
         /\ \A s \in States(a) : s \in States(b)
         /\ \A u : OwnWidgets(a, 0, u) => OwnWidgets(b, 0, u)
  <1>1. \A d \in Data(a.own) : d \in Data(b.own) BY DEF Data
  <1>2. \A l \in Latests(a.own) : l \in Latests(b.own) BY <1>1 DEF Latests
  <1>3. \A s \in States(a) : s \in States(b) BY <1>1 DEF States
  <1>4. \A u : OwnWidgets(a, 0, u) => OwnWidgets(b, 0, u) BY DEF OwnWidgets
  <1>5. QED BY <1>2, <1>3, <1>4

\* One notification more.
LEMMA ObserveOwn ==
  ASSUME NEW me, NEW s \in States(me), NEW u, NEW n, OwnWidgets(me, n, u)
  PROVE  OwnWidgets(me, n + 1, Observe(u, s))
  <1> DEFINE w == Observe(u, s)
  <1>1. DOMAIN w = Widgets /\ w.graph = u.graph BY DEF Observe, Widgets
  <1>2. DOMAIN w.shown = DOMAIN u.shown BY DEF Observe
  <1>3. ASSUME NEW p \in DOMAIN u.shown, p \in Panels
        PROVE  w.shown[p] = IF s.panel[p] # 0 THEN s.panel[p] ELSE u.shown[p]
    BY <1>3 DEF Observe, Panels
  <1>4. ASSUME NEW p \in DOMAIN u.shown \ {"heap"} PROVE w.shown[p] \in me.own
    <2>1. u.shown[p] \in me.own BY DEF OwnWidgets
    <2>2. s.counts.of \in me.own /\ \A q \in Panels : s.panel[q] \in me.own BY DEF States, Data
    <2>3. CASE p \in Panels BY <1>3, <2>1, <2>2, <2>3
    <2>4. CASE p \notin Panels
      <3>1. w.shown[p] = IF s.counts.of # 0 THEN s.counts.of ELSE u.shown[p]
        BY <1>4, <2>4 DEF Observe
      <3>2. QED BY <2>1, <2>2, <3>1
    <2>5. QED BY <2>3, <2>4
  <1>5. w.shown["memory_breakdown"] \in {0, me.process}
    <2>1. "memory_breakdown" \in DOMAIN u.shown /\ "memory_breakdown" \in Panels
      BY DEF OwnWidgets, Panels
    <2>2. s.panel["memory_breakdown"] \in {0, me.process} BY DEF States
    <2>3. u.shown["memory_breakdown"] \in {0, me.process} BY DEF OwnWidgets
    <2>4. QED BY <1>3, <2>1, <2>2, <2>3
  <1>6. QED BY <1>1, <1>2, <1>4, <1>5 DEF OwnWidgets

\* A notification is a step of the fold.
LEMMA NotifiedFolds == \A u, ss : Notified(u, ss) = Observing!Folded(u, ss)
  BY DEF Notified, Observing!Folded, FoldLeft, Observing!FoldLeft, MapThenFoldSet,
         Observing!MapThenFoldSet, Max, Observing!Max

\* However often it is told.
LEMMA NotifiedOwn ==
  ASSUME NEW me, NEW ss \in Seq(States(me)), NEW u, OwnWidgets(me, 0, u)
  PROVE  OwnWidgets(me, 0, Notified(u, ss))
  <1>1. \A i \in 1 .. Len(ss) : \A y : OwnWidgets(me, i - 1, y) => OwnWidgets(me, i, Observe(y, ss[i]))
    <2> SUFFICES ASSUME NEW i \in 1 .. Len(ss), NEW y, OwnWidgets(me, i - 1, y)
                 PROVE  OwnWidgets(me, i, Observe(y, ss[i]))
      OBVIOUS
    <2>1. ss[i] \in States(me) BY ElementOfSeq
    <2>2. OwnWidgets(me, (i - 1) + 1, Observe(y, ss[i])) BY <2>1, ObserveOwn
    <2>3. QED BY <2>2 DEF OwnWidgets
  <1>2. OwnWidgets(me, Len(ss), Observing!Folded(u, ss)) BY <1>1, Observing!FoldKeeps
  <1>3. QED BY <1>2, NotifiedFolds DEF OwnWidgets

\* A single state.
LEMMA ToldOwn ==
  ASSUME NEW me, NEW s \in States(me), NEW u, OwnWidgets(me, 0, u)
  PROVE  OwnWidgets(me, 0, Notified(u, <<s>>))
  <1>1. <<s>> \in Seq(States(me)) OBVIOUS
  <1>2. QED BY <1>1, NotifiedOwn

\* Whoever answers is the process attached to or a successor.
LEMMA SourcesAreMine ==
  ASSUME NodeInv, MonitorInv, phase # "off", NEW p \in Sources
  PROVE  p \in Mine /\ p \in Procs /\ node[p] \in Nodes /\ (p = attached \/ p = running)
  <1>1. p = attached \/ p = running BY DEF Sources
  <1>2. p # 0 BY DEF Sources
  <1>3. attached \in 1 .. started BY DashboardBounds DEF NodeInv, MonitorInv
  <1>4. started \in 0 .. MaxProcs /\ running \in {0, started} BY DEF NodeInv
  <1>5. p \in attached .. started /\ p \in 1 .. MaxProcs
    BY <1>1, <1>2, <1>3, <1>4, DashboardBounds
  <1>6. p \in Mine BY <1>5 DEF Mine, From
  <1>7. QED BY <1>1, <1>5, <1>6 DEF NodeInv, Procs

\* What server_info brings is of whoever answered.
LEMMA IngestedOwn ==
  ASSUME NodeInv, MonitorInv, phase # "off", NEW p \in Sources
  PROVE  /\ Ingested(p) \in States(Me)
         /\ Ingested(p).counts = state.counts /\ Ingested(p).heap = state.heap
         /\ Ingested(p).transitions = node[p].transitions /\ Ingested(p).server = node[p].state
         /\ Ingested(p).accountingOf = p
  <1>1. p \in Mine /\ node[p] \in Nodes BY SourcesAreMine
  <1>2. state \in States(Me) BY DEF MonitorInv
  <1>3. Me.own = Mine /\ Me.process = attached BY DEF Me
  <1> HIDE DEF Me, Mine
  <1>4. QED BY <1>1, <1>2, <1>3 DEF Ingested, States, Nodes, Servers, Counters

\* What a poll leaves in the state after each of its answers.
Answering(by) == \A r \in DOMAIN by : by[r] \in Sources

Informed(by) ==
  IF ~("server_info" \in DOMAIN by) THEN state
  ELSE [Ingested(by["server_info"]) EXCEPT !.panel["job_types"] = by["server_info"]]

Counted(by) ==
  IF ~("get_counts" \in DOMAIN by) THEN Informed(by)
  ELSE [Informed(by) EXCEPT !.counts = [of |-> by["get_counts"],
                                        val |-> node[by["get_counts"]].counter]]

Finished(by) ==
  IF ~("ledgers_info" \in DOMAIN by) THEN Counted(by)
  ELSE [Counted(by) EXCEPT !.panel["ledgers_info"] = by["ledgers_info"]]

\* What it tells the observers before, with and after the counts.
ToldFirst(by) ==
  IF "server_info" \in DOMAIN by THEN <<Informed(by), Informed(by)>> ELSE <<>>
ToldNext(by) == IF "get_counts" \in DOMAIN by THEN <<Counted(by)>> ELSE <<>>
ToldLast(by) == IF "ledgers_info" \in DOMAIN by THEN <<Finished(by)>> ELSE <<>>

\* Those who answer the requests of a round.
LEMMA AnswersAreOfSources ==
  /\ \A by \in Answers : Answering(by)
  /\ \A by \in [{"server_info"} -> Sources] : Answering(by) /\ ~("get_counts" \in DOMAIN by)
  BY DEF Answers, Answering

\* A poll, answer by answer.
LEMMA PolledInSteps ==
  ASSUME NEW by
  PROVE  /\ Polled(by).states = ToldFirst(by) \o ToldNext(by) \o ToldLast(by)
         /\ Polled(by).last = Finished(by)
         /\ Polled(by).latest =
              [latest EXCEPT
                 !.counts = IF "get_counts" \in DOMAIN by THEN Finished(by).counts ELSE @,
                 !.panels = @ \cup (IF "server_info" \in DOMAIN by THEN {"job_types"} ELSE {})]
  <1>1. Polled(by) =
          [states |-> (IF "server_info" \in DOMAIN by THEN <<Informed(by), Informed(by)>> ELSE <<>>)
                      \o (IF "get_counts" \in DOMAIN by THEN <<Counted(by)>> ELSE <<>>)
                      \o (IF "ledgers_info" \in DOMAIN by THEN <<Finished(by)>> ELSE <<>>),
           last |-> Finished(by),
           latest |->
             [latest EXCEPT
                !.counts = IF "get_counts" \in DOMAIN by THEN Finished(by).counts ELSE @,
                !.panels = @ \cup (IF "server_info" \in DOMAIN by THEN {"job_types"} ELSE {})]]
    BY Zenon DEF Polled, Informed, Counted, Finished
  <1>2. QED BY <1>1 DEF ToldFirst, ToldNext, ToldLast

\* What a poll brings is of the process attached to or of a successor.
LEMMA PolledOwn ==
  ASSUME NodeInv, MonitorInv, phase # "off", NEW by, Answering(by)
  PROVE  /\ Informed(by) \in States(Me) /\ Counted(by) \in States(Me)
         /\ Finished(by) \in States(Me)
         /\ ToldFirst(by) \in Seq(States(Me)) /\ ToldNext(by) \in Seq(States(Me))
         /\ ToldLast(by) \in Seq(States(Me))
         /\ Polled(by).states \in Seq(States(Me))
         /\ Polled(by).last \in States(Me)
         /\ Polled(by).latest \in Latests(Mine)
  <1>1. Me.own = Mine /\ Me.process = attached BY DEF Me
  <1>2. \A r \in DOMAIN by : by[r] \in Mine /\ node[by[r]].counter \in Nat
    <2> SUFFICES ASSUME NEW r \in DOMAIN by PROVE by[r] \in Mine /\ node[by[r]].counter \in Nat
      OBVIOUS
    <2>1. by[r] \in Sources BY DEF Answering
    <2>2. by[r] \in Mine /\ node[by[r]] \in Nodes BY <2>1, SourcesAreMine
    <2>3. QED BY <2>2 DEF Nodes
  <1>3. state \in States(Me) /\ latest \in Latests(Mine) BY DEF MonitorInv
  <1> HIDE DEF Mine, Me
  <1>4. Informed(by) \in States(Me)
    <2>1. CASE "server_info" \in DOMAIN by
      <3> DEFINE p == by["server_info"]
                 g == Ingested(p)
      <3>1. g \in States(Me) BY <2>1, IngestedOwn DEF Answering
      <3>2. p \in Mine BY <1>2, <2>1
      <3>3. Informed(by) = [g EXCEPT !.panel["job_types"] = p] BY <2>1 DEF Informed
      <3> HIDE DEF g, p
      <3>4. QED BY <1>1, <3>1, <3>2, <3>3 DEF States, Panels
    <2>2. CASE ~("server_info" \in DOMAIN by) BY <1>3, <2>2 DEF Informed
    <2>3. QED BY <2>1, <2>2
  <1>5. Counted(by) \in States(Me)
    <2> DEFINE d == [of |-> by["get_counts"], val |-> node[by["get_counts"]].counter]
    <2>1. "get_counts" \in DOMAIN by => d \in Data(Mine) BY <1>2 DEF Data
    <2>2. Counted(by) = IF ~("get_counts" \in DOMAIN by) THEN Informed(by)
                        ELSE [Informed(by) EXCEPT !.counts = d]
      BY DEF Counted
    <2> HIDE DEF d
    <2>3. QED BY <1>1, <1>4, <2>1, <2>2 DEF States
  <1>6. Finished(by) \in States(Me) BY <1>1, <1>2, <1>5 DEF Finished, States, Panels
  <1> HIDE DEF Informed, Counted, Finished
  <1>7. /\ ToldFirst(by) \in Seq(States(Me)) /\ ToldNext(by) \in Seq(States(Me))
        /\ ToldLast(by) \in Seq(States(Me))
    <2> DEFINE S == States(Me)
    <2>1. Informed(by) \in S /\ Counted(by) \in S /\ Finished(by) \in S BY <1>4, <1>5, <1>6
    <2> HIDE DEF S
    <2>2. <<Informed(by), Informed(by)>> \in Seq(S) /\ <<Counted(by)>> \in Seq(S)
          /\ <<Finished(by)>> \in Seq(S) /\ <<>> \in Seq(S)
      BY <2>1
    <2>3. QED BY <2>2 DEF S, ToldFirst, ToldNext, ToldLast
  <1>8. Polled(by).states \in Seq(States(Me))
    <2>1. ToldFirst(by) \o ToldNext(by) \in Seq(States(Me)) BY <1>7, ConcatProperties
    <2>2. (ToldFirst(by) \o ToldNext(by)) \o ToldLast(by) \in Seq(States(Me))
      BY <1>7, <2>1, ConcatProperties
    <2>3. QED BY <2>2, PolledInSteps
  <1>9. Polled(by).latest \in Latests(Mine)
    <2>1. Finished(by).counts \in Data(Mine) BY <1>1, <1>6 DEF States
    <2>2. "job_types" \in Panels BY DEF Panels
    <2> DEFINE c == IF "get_counts" \in DOMAIN by THEN Finished(by).counts ELSE latest.counts
               k == latest.panels \cup (IF "server_info" \in DOMAIN by THEN {"job_types"} ELSE {})
    <2>3. Polled(by).latest = [latest EXCEPT !.counts = c, !.panels = k]
      BY PolledInSteps
    <2>4. c \in Data(Mine) /\ k \in SUBSET Panels BY <1>3, <2>1, <2>2 DEF Latests
    <2> HIDE DEF c, k
    <2>5. QED BY <1>3, <2>3, <2>4 DEF Latests
  <1>10. QED BY <1>4, <1>5, <1>6, <1>7, <1>8, <1>9, PolledInSteps

-------------------------------------------------------------------------------
(* Hydration *)

\* The last heap sample of the snapshots so far.
IsHeap(c, n, heap) == heap \in Data(0 .. MaxProcs)

Keeping == INSTANCE FoldLaws WITH Op <- LaterHeap, Keeps <- IsHeap

\* What the events refill.
LastHeap(snapshots) == FoldLeft(LaterHeap, None, snapshots)
RefilledCounts(h, snapshots) == FoldLeft(HydrateCounts, h, snapshots)
RefilledHeap(snapshots) == FoldLeft(HydrateSample, NoHistory, snapshots)
RefilledShown(shown, snapshots, p) ==
  [shown EXCEPT
    !["counts"] = IF \E i \in DOMAIN snapshots : Has(snapshots[i], "counts") THEN p ELSE @,
    !["heap"] = IF LastHeap(snapshots) = None THEN @ ELSE LastHeap(snapshots).of]
RefilledTimeline(snapshots) == FoldLeft(HydrateTimeline, NoTimeline, snapshots)

\* It is some sample.
LEMMA LastHeapIsSample ==
  ASSUME NEW own, NEW ss \in Seq(Snapshots(own))
  PROVE  LastHeap(ss) \in Data(0 .. MaxProcs)
  <1>1. LastHeap(ss) = Keeping!Folded(None, ss)
    BY DEF LastHeap, Keeping!Folded, FoldLeft, Keeping!FoldLeft, MapThenFoldSet,
           Keeping!MapThenFoldSet, Max, Keeping!Max
  <1>2. IsHeap(0, 0, None) BY DashboardBounds DEF IsHeap, None, Data
  <1>3. \A i \in 1 .. Len(ss) : \A y : IsHeap(0, i - 1, y) => IsHeap(0, i, LaterHeap(y, ss[i]))
    <2> SUFFICES ASSUME NEW i \in 1 .. Len(ss), NEW y, IsHeap(0, i - 1, y)
                 PROVE  IsHeap(0, i, LaterHeap(y, ss[i]))
      OBVIOUS
    <2>1. ss[i] \in Snapshots(own) BY ElementOfSeq
    <2>2. QED BY <2>1 DEF IsHeap, LaterHeap, Has, Snapshots
  <1>4. IsHeap(0, Len(ss), Keeping!Folded(None, ss)) BY <1>2, <1>3, Keeping!FoldKeeps
  <1>5. QED BY <1>1, <1>4 DEF IsHeap

\* The widgets that are refilled, one by one.
LEMMA HydratedFields ==
  ASSUME NEW u, DOMAIN u = Widgets, NEW ss, NEW p, NEW w, w = HydratedWidgets(u, ss, p)
  PROVE  /\ DOMAIN w = Widgets
         /\ w.graph = u.graph \cup {p}
         /\ w.counts = RefilledCounts(u.counts, ss)
         /\ w.countsStats = RefilledCounts(u.countsStats, ss)
         /\ w.pools = u.pools /\ w.poolsStats = u.poolsStats
         /\ w.heap = RefilledHeap(ss)
         /\ w.timeline = RefilledTimeline(ss)
         /\ w.shown = RefilledShown(u.shown, ss, p)
  <1> DEFINE g == u.graph \cup {p}
             c == RefilledCounts(u.counts, ss)
             d == RefilledCounts(u.countsStats, ss)
             h == RefilledHeap(ss)
             t == RefilledTimeline(ss)
             o == RefilledShown(u.shown, ss, p)
  <1>1. w = [u EXCEPT !.graph = g, !.counts = c, !.countsStats = d, !.heap = h,
                      !.timeline = t, !.shown = o]
    BY Zenon DEF HydratedWidgets, LastHeap, RefilledCounts, RefilledHeap, RefilledShown, RefilledTimeline
  <1> HIDE DEF g, c, d, h, t, o
  <1>2. /\ DOMAIN w = Widgets /\ w.pools = u.pools /\ w.poolsStats = u.poolsStats
        /\ w.graph = g /\ w.counts = c /\ w.countsStats = d /\ w.heap = h
        /\ w.timeline = t /\ w.shown = o
    BY <1>1 DEF Widgets
  <1>3. QED BY <1>2 DEF g, c, d, h, t, o

\* What is filled in from the events of a process is of that process or of its
\* successors.
LEMMA HydratedOwn ==
  ASSUME NEW me, me.process \in me.own, NEW s \in States(me),
         NEW ss \in Seq(Snapshots(me.own)), ss # <<>>,
         NEW u, OwnWidgets(me, 0, u), NEW p, p = me.process
  PROVE  /\ HydratedState(s, ss, p) \in States(me)
         /\ HydratedState(s, ss, p).transitions = s.transitions
         /\ HydratedState(s, ss, p).counts =
              IF Last(ss).counts.of # 0 THEN Last(ss).counts ELSE s.counts
         /\ HydratedState(s, ss, p).heap = IF LastHeap(ss) # None THEN LastHeap(ss) ELSE s.heap
         /\ OwnWidgets(me, 0, HydratedWidgets(u, ss, p))
  <1>1. Len(ss) \in 1 .. Len(ss) BY LenProperties, EmptySeq
  <1>2. Last(ss) \in Snapshots(me.own) BY <1>1, ElementOfSeq DEF Last
  <1> DEFINE r == HydratedState(s, ss, p)
             l == Last(ss)
             h == LastHeap(ss)
             w == HydratedWidgets(u, ss, p)
  <1>3. r = [s EXCEPT
        !.counts = IF l.counts.of # 0 THEN l.counts ELSE @,
        !.heap = IF h # None THEN h ELSE @,
        !.server = IF l.server # "none" THEN l.server ELSE @,
        !.serverOf = IF l.server # "none" THEN p ELSE @,
        !.panel = [q \in Panels |-> IF q \in l.panels THEN p ELSE @[q]]]
    BY DEF HydratedState, LastHeap
  <1>4. h \in Data(0 .. MaxProcs) BY LastHeapIsSample
  <1>5. l \in Snapshots(me.own) BY <1>2
  <1> HIDE DEF l, h, r
  <1>6. r \in States(me)
    <2> DEFINE a == IF l.counts.of # 0 THEN l.counts ELSE s.counts
               b == IF h # None THEN h ELSE s.heap
               c == IF l.server # "none" THEN l.server ELSE s.server
               d == IF l.server # "none" THEN p ELSE s.serverOf
               e == [q \in Panels |-> IF q \in l.panels THEN p ELSE s.panel[q]]
    <2>1. r = [s EXCEPT !.counts = a, !.heap = b, !.server = c, !.serverOf = d, !.panel = e]
      BY <1>3
    <2>2. a \in Data(me.own) /\ b \in Data(0 .. MaxProcs) /\ c \in Servers /\ d \in me.own
      BY <1>4, <1>5 DEF States, Snapshots
    <2>3. e \in [Panels -> me.own] /\ e["memory_breakdown"] \in {0, me.process}
      BY DEF States, Panels
    <2> HIDE DEF a, b, c, d, e
    <2>4. QED BY <2>1, <2>2, <2>3 DEF States
  <1>7. /\ r.transitions = s.transitions
        /\ r.counts = IF l.counts.of # 0 THEN l.counts ELSE s.counts
        /\ r.heap = IF h # None THEN h ELSE s.heap
    BY <1>3 DEF States
  <1>8. DOMAIN w = Widgets /\ w.graph \subseteq {me.process} /\ DOMAIN w.shown = DOMAIN u.shown
    <2>1. DOMAIN u = Widgets /\ u.graph \subseteq {me.process} BY DEF OwnWidgets
    <2>2. w = HydratedWidgets(u, ss, p) OBVIOUS
    <2> HIDE DEF w
    <2>3. DOMAIN w = Widgets /\ w.graph = u.graph \cup {p} BY <2>1, <2>2, HydratedFields
    <2>4. w.shown = RefilledShown(u.shown, ss, p) BY <2>1, <2>2, HydratedFields
    <2>5. DOMAIN w.shown = DOMAIN u.shown BY <2>4 DEF RefilledShown
    <2>6. QED BY <2>1, <2>3, <2>5
  <1>9. /\ \A q \in DOMAIN u.shown \ {"heap"} : w.shown[q] \in me.own
        /\ w.shown["memory_breakdown"] \in {0, me.process}
    <2>1. /\ \A q \in DOMAIN u.shown \ {"heap"} : u.shown[q] \in me.own
          /\ u.shown["memory_breakdown"] \in {0, me.process}
          /\ "memory_breakdown" \in DOMAIN u.shown
      BY DEF OwnWidgets, Panels
    <2> DEFINE E == \E i \in DOMAIN ss : Has(ss[i], "counts")
               g == LastHeap(ss)
    <2>2. w.shown = [u.shown EXCEPT !["counts"] = IF E THEN p ELSE @,
                                    !["heap"] = IF g = None THEN @ ELSE g.of]
      BY HydratedFields DEF OwnWidgets, RefilledShown
    <2> HIDE DEF E, g, w
    <2>3. \A q \in DOMAIN u.shown \ {"heap"} :
            w.shown[q] = IF q = "counts" /\ E THEN p ELSE u.shown[q]
      BY <2>2
    <2>4. QED BY <2>1, <2>3
  <1>10. OwnWidgets(me, 0, w) BY <1>8, <1>9 DEF OwnWidgets
  <1>11. QED BY <1>6, <1>7, <1>10 DEF r, l, h

-------------------------------------------------------------------------------
(* Every step *)

\* What is attached to anew starts from nothing.
LEMMA EmptyIsOwn ==
  ASSUME NEW me, 0 \in me.own
  PROVE  /\ None \in Data(me.own) /\ NoLatest \in Latests(me.own) /\ InitialState \in States(me)
         /\ OwnWidgets(me, 0, FreshWidgets)
         /\ \A u : OwnWidgets(me, 0, Reset(u))
  <1>1. None \in Data(me.own) /\ None \in Data(0 .. MaxProcs)
    BY DashboardBounds DEF None, Data
  <1>2. NoLatest \in Latests(me.own) BY <1>1 DEF NoLatest, Latests
  <1>3. InitialState \in States(me)
    BY <1>1 DEF InitialState, States, Servers, Counters, Panels
  <1>4. OwnWidgets(me, 0, FreshWidgets) BY DEF OwnWidgets, FreshWidgets, Widgets, Panels
  <1>5. ASSUME NEW u PROVE OwnWidgets(me, 0, Reset(u))
    BY DEF OwnWidgets, FreshWidgets, Reset, Widgets, Panels
  <1>6. QED BY <1>1, <1>2, <1>3, <1>4, <1>5

\* The node is off and the monitor too.
LEMMA DataInitInv == Init => NodeInv /\ MonitorInv
  <1> SUFFICES ASSUME Init PROVE NodeInv /\ MonitorInv
    OBVIOUS
  <1>1. NewProcesses \subseteq Nodes BY DEF NewProcesses, Nodes
  <1>2. NodeInv
    <2>1. node \in [Procs -> Nodes] BY <1>1 DEF Init
    <2>2. \A p \in Procs : log[p] = <<>> /\ <<>> \in Seq(Snapshots(From(p))) /\ Len(<<>>) = 0
      BY DEF Init
    <2>3. QED BY <2>1, <2>2, DashboardBounds DEF Init, NodeInv
  <1>3. MonitorInv
    <2>1. Me.own = Mine /\ Me.process = attached /\ 0 \in Mine BY DEF Me, Mine, From
    <2>2. /\ attached = 0 /\ started = 0 /\ phase = "off" /\ sampling = FALSE /\ samples = {}
          /\ latest = NoLatest /\ state = InitialState /\ ui = FreshWidgets /\ fed = NothingFed
      BY DEF Init
    <2> HIDE DEF Me, Mine
    <2>3. latest \in Latests(Mine) /\ state \in States(Me) /\ OwnWidgets(Me, 0, ui)
      BY <2>1, <2>2, EmptyIsOwn
    <2>4. phase \in Phases /\ attached \in 0 .. started BY <2>2 DEF Phases
    <2>5. QED BY <2>2, <2>3, <2>4 DEF MonitorInv
  <1>4. QED BY <1>2, <1>3

\* A snapshot that is logged is of the process attached to or of a successor, and fits.
LEMMA LoggedInv ==
  ASSUME NodeInv, attached \in Procs, NEW s \in Snapshots(Mine), Logged(s)
  PROVE  /\ DOMAIN log' = Procs
         /\ \A p \in Procs : log'[p] \in Seq(Snapshots(From(p))) /\ Len(log'[p]) <= MaxSnapshots
  <1>1. CASE Len(log[attached]) < MaxSnapshots
    <2>1. log' = [log EXCEPT ![attached] = Append(@, s)] BY <1>1 DEF Logged
    <2>2. log[attached] \in Seq(Snapshots(Mine)) BY DEF NodeInv, Mine
    <2>3. /\ Append(log[attached], s) \in Seq(Snapshots(Mine))
          /\ Len(Append(log[attached], s)) = Len(log[attached]) + 1
          /\ Len(log[attached]) \in Nat
      BY <2>2, AppendProperties, LenProperties
    <2>4. DOMAIN log' = Procs BY <2>1 DEF NodeInv
    <2>5. ASSUME NEW p \in Procs
          PROVE  log'[p] \in Seq(Snapshots(From(p))) /\ Len(log'[p]) <= MaxSnapshots
      <3>1. CASE p = attached
        <4>1. log'[p] = Append(log[attached], s) BY <2>1, <3>1 DEF NodeInv
        <4>2. Mine = From(p) BY <3>1 DEF Mine
        <4> HIDE DEF Mine
        <4>3. log'[p] \in Seq(Snapshots(From(p))) BY <2>3, <4>1, <4>2
        <4>4. QED BY <1>1, <2>3, <4>1, <4>3, DashboardBounds
      <3>2. CASE p # attached
        <4>1. log'[p] = log[p] BY <2>1, <3>2 DEF NodeInv
        <4>2. QED BY <4>1 DEF NodeInv
      <3>3. QED BY <3>1, <3>2
    <2>6. QED BY <2>4, <2>5
  <1>2. CASE ~(Len(log[attached]) < MaxSnapshots)
    BY <1>2 DEF Logged, NodeInv
  <1>3. QED BY <1>1, <1>2

\* What goes into a snapshot is what the service and the state hold.
LEMMA SnapshotIsOwn ==
  ASSUME NEW me, NEW l \in Latests(me.own), NEW s \in States(me)
  PROVE  SnapshotOf(l, s) \in Snapshots(me.own)
  BY DEF SnapshotOf, Latests, States, Snapshots

\* A node that works is a node.
LEMMA WorkedNode ==
  ASSUME NEW x \in Nodes
  PROVE  /\ \A n \in Nat : [x EXCEPT !.counter = n, !.moves = @ + 1] \in Nodes
         /\ \A s \in NodeStates :
              [x EXCEPT !.state = s, !.moves = @ + 1, !.transitions[s] = @ + 1] \in Nodes
  <1> SUFFICES ASSUME NEW n \in Nat, NEW s \in NodeStates
               PROVE  /\ [x EXCEPT !.counter = n, !.moves = @ + 1] \in Nodes
                      /\ [x EXCEPT !.state = s, !.moves = @ + 1, !.transitions[s] = @ + 1]
                           \in Nodes
    BY StatesOfLadder
  <1> DEFINE m == x.moves + 1
             t == [x.transitions EXCEPT ![s] = @ + 1]
             y == [x EXCEPT !.counter = n, !.moves = @ + 1]
             z == [x EXCEPT !.state = s, !.moves = @ + 1, !.transitions[s] = @ + 1]
  <1>1. m \in Nat /\ t \in [NodeStates -> Nat] BY DEF Nodes
  <1>2. y = [x EXCEPT !.counter = n, !.moves = m] OBVIOUS
  <1>3. z = [x EXCEPT !.state = s, !.moves = m, !.transitions = t] BY DEF Nodes
  <1> HIDE DEF m, t, y, z
  <1>4. y \in Nodes BY <1>1, <1>2 DEF Nodes
  <1>5. z \in Nodes BY <1>1, <1>3 DEF Nodes
  <1>6. QED BY <1>4, <1>5 DEF y, z

\* The node comes, works and goes; the log grows.
LEMMA NodeNextInv == NodeInv /\ MonitorInv /\ [DashboardNext]_vars => NodeInv'
  <1> SUFFICES ASSUME NodeInv, MonitorInv, [DashboardNext]_vars PROVE NodeInv'
    OBVIOUS
  <1>1. ASSUME UNCHANGED <<nodeVars, log>> PROVE NodeInv'
    BY <1>1 DEF NodeInv, nodeVars, From
  <1>2. ASSUME UNCHANGED nodeVars, attached \in Procs, NEW s \in Snapshots(Mine), Logged(s)
        PROVE  NodeInv'
    <2>1. \A p : From(p)' = From(p) BY <1>2 DEF nodeVars, From
    <2> HIDE DEF Mine
    <2>2. /\ DOMAIN log' = Procs
          /\ \A p \in Procs : log'[p] \in Seq(Snapshots(From(p))) /\ Len(log'[p]) <= MaxSnapshots
      BY <1>2, LoggedInv
    <2>3. \A p \in Procs : log'[p] \in Seq(Snapshots(From(p)')) BY <2>1, <2>2
    <2>4. \A p \in Procs : log'[p] \in Seq(Snapshots(From(p)))' BY <2>3 DEF Snapshots, Data
    <2>5. QED BY <1>2, <2>2, <2>4 DEF NodeInv, nodeVars
  <1>3. CASE Start
    <2>1. /\ started' = started + 1 /\ running' = started' /\ UNCHANGED <<node, log>>
          /\ started < MaxProcs /\ started \in Nat
      BY <1>3, DashboardBounds DEF Start, NodeInv
    <2>2. ASSUME NEW p \in Procs PROVE log[p] \in Seq(Snapshots(From(p)'))
      <3>1. From(p) \subseteq From(p)' BY <2>1 DEF From, Procs
      <3>2. Snapshots(From(p)) \subseteq Snapshots(From(p)') BY <3>1 DEF Snapshots, Data
      <3>3. log[p] \in Seq(Snapshots(From(p))) BY DEF NodeInv
      <3>4. QED BY <3>2, <3>3, SeqGrows
    <2>3. started' \in 0 .. MaxProcs BY <2>1, DashboardBounds
    <2>4. \A p \in Procs : log'[p] \in Seq(Snapshots(From(p)))' /\ Len(log'[p]) <= MaxSnapshots
      BY <2>1, <2>2 DEF NodeInv, Snapshots, Data
    <2>5. QED BY <2>1, <2>3, <2>4 DEF NodeInv
  <1>4. CASE Die BY <1>4, DashboardBounds DEF Die, NodeInv, From
  <1>5. CASE Works
    <2>0. running # 0 /\ running \in 0 .. MaxProcs BY <1>5 DEF Works, NodeInv
    <2>1. running \in Procs BY <2>0, DashboardBounds DEF Procs
    <2>2. node[running] \in Nodes BY <2>1 DEF NodeInv
    <2>3. CASE \E n \in {node[running].counter - 1, node[running].counter + 1} \cap Nat :
                 node' = [node EXCEPT ![running].counter = n, ![running].moves = @ + 1]
      <3>1. PICK n \in Nat :
              node' = [node EXCEPT ![running].counter = n, ![running].moves = @ + 1]
        BY <2>3
      <3>2. node' = [node EXCEPT ![running] =
                       [node[running] EXCEPT !.counter = n, !.moves = @ + 1]]
        BY <2>1, <2>2, <3>1 DEF NodeInv
      <3>3. [node[running] EXCEPT !.counter = n, !.moves = @ + 1] \in Nodes
        BY <2>2, WorkedNode
      <3>4. node' \in [Procs -> Nodes] BY <2>1, <3>2, <3>3 DEF NodeInv
      <3>5. QED BY <1>5, <3>4 DEF Works, NodeInv, From
    <2>4. CASE \E s \in NodeStates \ {node[running].state} :
                 node' = [node EXCEPT ![running].state = s, ![running].moves = @ + 1,
                                      ![running].transitions[s] = @ + 1]
      <3>1. PICK s \in NodeStates :
              node' = [node EXCEPT ![running].state = s, ![running].moves = @ + 1,
                                   ![running].transitions[s] = @ + 1]
        BY <2>4
      <3>2. node' = [node EXCEPT ![running] =
                       [node[running] EXCEPT !.state = s, !.moves = @ + 1,
                                             !.transitions[s] = @ + 1]]
        BY <2>1, <2>2, <3>1 DEF NodeInv
      <3>3. [node[running] EXCEPT !.state = s, !.moves = @ + 1, !.transitions[s] = @ + 1]
              \in Nodes
        BY <2>2, WorkedNode
      <3>4. node' \in [Procs -> Nodes] BY <2>1, <3>2, <3>3 DEF NodeInv
      <3>5. QED BY <1>5, <3>4 DEF Works, NodeInv, From
    <2>5. QED BY <1>5, <2>3, <2>4 DEF Works
  <1>6. CASE Launch \/ Reattach \/ OpenSession \/ FirstInfo \/ EndIncarnation \/ Quit
    BY <1>1, <1>6 DEF Launch, Reattach, OpenSession, FirstInfo, EndIncarnation, Quit
  <1>7. CASE BeginRound \/ Synced \/ Refresh \/ HeapSample \/ RefreshBreakdown
             \/ UpdateMemoryStats \/ Tell
    BY <1>1, <1>7
       DEF BeginRound, Synced, Refresh, HeapSample, RefreshBreakdown, UpdateMemoryStats, Tell
  <1>8. phase # "off" => attached \in Procs
    <2>1. attached \in 0 .. started /\ started \in 0 .. MaxProcs BY DEF MonitorInv, NodeInv
    <2>2. QED BY <2>1, DashboardBounds DEF MonitorInv, Procs
  <1>9. Me.own = Mine BY DEF Me
  <1>10. CASE Poll
    <2>1. phase # "off" BY <1>10 DEF Poll
    <2>2. PICK by \in Answers : Logged(SnapshotOf(Polled(by).latest, Polled(by).last))
      BY <1>10 DEF Poll
    <2>3. Polled(by).latest \in Latests(Mine) /\ Polled(by).last \in States(Me)
      BY <2>1, AnswersAreOfSources, PolledOwn
    <2> HIDE DEF Mine, Me
    <2>4. SnapshotOf(Polled(by).latest, Polled(by).last) \in Snapshots(Mine)
      BY <1>9, <2>3, SnapshotIsOwn
    <2>5. QED BY <1>2, <1>8, <1>10, <2>1, <2>2, <2>4 DEF Poll
  <1>11. CASE LedgerClosed
    <2>1. attached \in Procs BY <1>8, <1>11 DEF LedgerClosed, Awake
    <2>2. latest \in Latests(Mine) /\ state \in States(Me) BY DEF MonitorInv
    <2> HIDE DEF Mine, Me
    <2>3. SnapshotOf(latest, state) \in Snapshots(Mine) BY <1>9, <2>2, SnapshotIsOwn
    <2>4. QED BY <1>2, <1>11, <2>1, <2>3 DEF LedgerClosed
  <1>12. CASE UNCHANGED vars BY <1>1, <1>12 DEF vars
  <1>13. QED
    BY <1>3, <1>4, <1>5, <1>6, <1>7, <1>10, <1>11, <1>12 DEF DashboardNext

\* Attaching, asking and telling keep to the process attached to and its successors.
LEMMA MonitorNextInv == NodeInv /\ MonitorInv /\ [DashboardNext]_vars => MonitorInv'
  <1> SUFFICES ASSUME NodeInv, MonitorInv, [DashboardNext]_vars PROVE MonitorInv'
    OBVIOUS
  <1>0. /\ latest \in Latests(Mine) /\ state \in States(Me) /\ OwnWidgets(Me, 0, ui)
        /\ attached \in 0 .. started /\ (attached = 0 <=> phase = "off") /\ phase \in Phases
        /\ sampling \in BOOLEAN /\ samples \subseteq {None} \cup Data(Procs)
        /\ started \in 0 .. MaxProcs /\ running \in {0, started}
    BY DEF MonitorInv, NodeInv
  <1>a. Me.own = Mine /\ Me.process = attached /\ 0 \in Mine /\ attached \in Mine
    BY <1>0, DashboardBounds DEF Me, Mine, From
  <1>b. Me'.own = Mine' /\ Me'.process = attached' /\ 0 \in Mine' BY DEF Me, Mine, From
  <1>c. UNCHANGED <<attached, started>> => Mine' = Mine /\ Me' = Me BY DEF Me, Mine, From
  <1>d. phase # "off" => attached \in Procs
    BY <1>0, DashboardBounds DEF Procs
  <1> HIDE DEF Me, Mine
  \* The monitor goes on with the process it has.
  <1>1. ASSUME UNCHANGED <<attached, nodeVars>>, phase # "off", phase' # "off", phase' \in Phases,
               latest' \in Latests(Mine), state' \in States(Me), OwnWidgets(Me, 0, ui'),
               sampling' \in BOOLEAN, samples' \subseteq {None} \cup Data(Procs),
               phase' = "attaching" =>
                 phase = "attaching" /\ state'.counts = state.counts
                 /\ state'.transitions = state.transitions
                 /\ state'.accountingOf = state.accountingOf
        PROVE  MonitorInv'
    <2>1. Mine' = Mine /\ Me' = Me BY <1>1, <1>c DEF nodeVars
    <2>2. phase' = "attaching" =>
            /\ state'.counts = None /\ state'.transitions = NoTransitions
            /\ state'.accountingOf = 0
      BY <1>1 DEF MonitorInv
    <2>3. latest' \in Latests(Mine') /\ state' \in States(Me') /\ OwnWidgets(Me', 0, ui')
      BY <1>1, <2>1
    <2>4. attached' \in 0 .. started' /\ (attached' = 0 <=> phase' = "off")
      BY <1>0, <1>1 DEF nodeVars
    <2>5. QED BY <1>1, <2>2, <2>3, <2>4 DEF MonitorInv, States, Latests, OwnWidgets, Data
  \* It begins with another one.
  <1>2. ASSUME running # 0, phase' = "attaching", attached' = running, latest' = NoLatest,
               sampling' = FALSE, samples' = samples, state' = InitialState,
               UNCHANGED nodeVars, OwnWidgets(Me', 0, ui')
        PROVE  MonitorInv'
    <2>1. latest' \in Latests(Mine') /\ state' \in States(Me') BY <1>2, <1>b, EmptyIsOwn
    <2>2. /\ state'.counts = None /\ state'.transitions = NoTransitions
          /\ state'.accountingOf = 0
      BY <1>2 DEF InitialState
    <2>3. attached' \in 0 .. started' /\ attached' # 0
      BY <1>0, <1>2, DashboardBounds DEF nodeVars
    <2>4. phase' \in Phases BY <1>2 DEF Phases
    <2>5. QED
      BY <1>0, <1>2, <2>1, <2>2, <2>3, <2>4 DEF MonitorInv, States, Latests, OwnWidgets, Data
  <1>3. ASSUME UNCHANGED <<phase, attached, latest, state, ui, taskVars, fed, started>>
        PROVE  MonitorInv'
    BY <1>3, <1>c DEF MonitorInv, taskVars, States, Latests, OwnWidgets, Data
  <1>4. CASE Start
    <2>1. /\ UNCHANGED <<phase, attached, latest, state, ui, taskVars, fed>>
          /\ started' = started + 1
      BY <1>4 DEF Start
    <2>2. Mine \subseteq Mine' BY <1>0, <2>1, DashboardBounds DEF Mine, From
    <2>3. latest \in Latests(Mine') /\ state \in States(Me') /\ OwnWidgets(Me', 0, ui)
      <3> DEFINE a == Me
                 b == Me'
      <3>1. a.own \subseteq b.own /\ a.process = b.process BY <1>a, <1>b, <2>1, <2>2
      <3>2. latest \in Latests(a.own) /\ state \in States(a) /\ OwnWidgets(a, 0, ui)
        BY <1>0, <1>a
      <3> HIDE DEF a, b
      <3>3. latest \in Latests(b.own) /\ state \in States(b) /\ OwnWidgets(b, 0, ui)
        BY <3>1, <3>2, OwnGrows
      <3>4. QED BY <1>b, <3>3 DEF b
    <2>4. attached \in 0 .. started' BY <1>0, <2>1, DashboardBounds
    <2>5. QED
      BY <2>1, <2>3, <2>4 DEF MonitorInv, taskVars, States, Latests, OwnWidgets, Data
  <1>5. CASE Die BY <1>3, <1>5 DEF Die
  <1>6. CASE Works BY <1>3, <1>6 DEF Works
  <1>7. CASE Launch
    <2>1. state = InitialState /\ ui = FreshWidgets BY <1>7 DEF Launch, MonitorInv
    <2>2. OwnWidgets(Me', 0, ui') BY <1>7, <1>b, <2>1, EmptyIsOwn DEF Launch
    <2>3. QED BY <1>2, <1>7, <2>1, <2>2 DEF Launch, Initialized
  <1>8. CASE Reattach
    <2> DEFINE b == Me'
    <2>1. InitialState \in States(b) /\ OwnWidgets(b, 0, Reset(ui)) BY <1>b, EmptyIsOwn
    <2> HIDE DEF b
    <2>2. OwnWidgets(b, 0, Notified(Reset(ui), <<InitialState>>)) BY <2>1, ToldOwn
    <2>3. OwnWidgets(Me', 0, ui') BY <1>8, <2>2 DEF Reattach, b
    <2>4. QED BY <1>2, <1>8, <2>3 DEF Reattach, Initialized, taskVars
  <1>9. CASE OpenSession
    <2> DEFINE ss == log[attached]
               told == Notified(ui, <<state>>)
               filled == IF ss = <<>> THEN state ELSE HydratedState(state, ss, attached)
    <2>0. phase # "off" /\ phase' = "opening" /\ state' = filled BY <1>9 DEF OpenSession
    <2>1. ss \in Seq(Snapshots(Me.own))
      <3>1. attached \in Procs /\ From(attached) = Mine BY <1>d, <2>0 DEF Mine
      <3>2. QED BY <1>a, <3>1 DEF NodeInv
    <2>2. OwnWidgets(Me, 0, told) BY <1>0, ToldOwn
    <2>3. /\ filled \in States(Me)
          /\ ss # <<>> => OwnWidgets(Me, 0, HydratedWidgets(told, ss, attached))
      BY <1>0, <1>a, <2>1, <2>2, HydratedOwn
    <2>4. OwnWidgets(Me, 0, ui')
      <3>1. CASE ss = <<>>
        <4>1. ui' = Notified(told, <<state>>) BY <1>9, <3>1 DEF OpenSession
        <4>2. QED BY <1>0, <2>2, <4>1, ToldOwn
      <3>2. CASE ss # <<>>
        <4>1. ui' = Notified(HydratedWidgets(told, ss, attached), <<filled>>)
          BY <1>9, <3>2 DEF OpenSession
        <4>2. QED BY <2>3, <3>2, <4>1, ToldOwn
      <3>3. QED BY <3>1, <3>2
    <2> HIDE DEF filled, told
    <2>5. QED BY <1>0, <1>1, <1>9, <2>0, <2>3, <2>4 DEF OpenSession, taskVars, Phases, Awake
  <1>10. CASE FirstInfo
    <2>1. phase # "off" /\ phase' = "syncing" BY <1>10 DEF FirstInfo
    <2>2. state' \in States(Me) BY <1>0, <1>10, <2>1, IngestedOwn DEF FirstInfo
    <2>3. QED BY <1>0, <1>1, <1>10, <2>1, <2>2 DEF FirstInfo, taskVars, Phases, Awake
  <1>11. CASE EndIncarnation
    <2>1. ui' = Notified(ui, <<state>>) BY <1>11 DEF EndIncarnation
    <2>2. OwnWidgets(Me, 0, ui') BY <1>0, <2>1, ToldOwn
    <2>3. phase # "off" BY <1>11 DEF EndIncarnation, Awake
    <2>4. QED BY <1>0, <1>1, <1>11, <2>2, <2>3 DEF EndIncarnation, taskVars, Phases
  <1>12. CASE Quit
    <2>1. attached' = 0 /\ phase' = "off" /\ sampling' = FALSE /\ samples' = {}
          /\ state' = InitialState /\ ui' = FreshWidgets /\ fed' = NothingFed /\ latest' = NoLatest
          /\ started' = started
      BY <1>12 DEF Quit, nodeVars
    <2>2. latest' \in Latests(Mine') /\ state' \in States(Me') /\ OwnWidgets(Me', 0, ui')
      BY <1>b, <2>1, EmptyIsOwn
    <2>3. attached' \in 0 .. started' /\ phase' \in Phases
      BY <1>0, <2>1, DashboardBounds DEF Phases
    <2>4. QED BY <2>1, <2>2, <2>3 DEF MonitorInv, States, Latests, OwnWidgets, Data
  <1>13. CASE BeginRound
    <2>1. phase # "off" /\ phase' \in {"polling", "refreshing"} BY <1>13 DEF BeginRound
    <2>2. QED BY <1>0, <1>1, <1>13, <2>1 DEF BeginRound, taskVars, Phases, Awake
  <1>14. ASSUME phase \in {"polling", "refreshing"}, UNCHANGED <<attached, nodeVars, taskVars>>,
                phase' \in {"syncing", "monitoring"},
                NEW by, Answering(by), latest' = Polled(by).latest, state' = Polled(by).last,
                NEW ss \in Seq(States(Me)), ui' = Notified(ui, ss)
         PROVE  MonitorInv'
    <2>1. latest' \in Latests(Mine) /\ state' \in States(Me) BY <1>14, PolledOwn
    <2>2. OwnWidgets(Me, 0, ui') BY <1>0, <1>14, NotifiedOwn
    <2>3. QED BY <1>0, <1>1, <1>14, <2>1, <2>2 DEF taskVars, Phases, Awake
  <1>15. CASE Poll
    <2>1. PICK by \in Answers :
            /\ latest' = Polled(by).latest /\ state' = Polled(by).last
            /\ ui' = Notified(ui, Polled(by).states \o <<Polled(by).last, Polled(by).last>>)
      BY <1>15 DEF Poll
    <2>2. phase = "polling" /\ Answering(by) BY <1>15, AnswersAreOfSources DEF Poll
    <2>3. Polled(by).states \in Seq(States(Me)) /\ Polled(by).last \in States(Me)
      BY <2>2, PolledOwn
    <2>4. <<Polled(by).last, Polled(by).last>> \in Seq(States(Me)) BY <2>3
    <2>5. Polled(by).states \o <<Polled(by).last, Polled(by).last>> \in Seq(States(Me))
      BY <2>3, <2>4, ConcatProperties
    <2>6. QED BY <1>14, <1>15, <2>1, <2>2, <2>5 DEF Poll, nodeVars
  <1>16. CASE Synced
    <2>1. PICK by \in [{"server_info"} -> Sources] :
            /\ latest' = Polled(by).latest /\ state' = Polled(by).last
            /\ ui' = Notified(ui, Polled(by).states)
      BY <1>16 DEF Synced
    <2>2. phase = "polling" /\ Answering(by) BY <1>16, AnswersAreOfSources DEF Synced
    <2>3. Polled(by).states \in Seq(States(Me)) BY <2>2, PolledOwn
    <2>4. QED BY <1>14, <1>16, <2>1, <2>2, <2>3 DEF Synced, nodeVars
  <1>17. CASE Refresh
    <2>1. PICK by \in Answers :
            /\ latest' = Polled(by).latest /\ state' = Polled(by).last
            /\ ui' = Notified(ui, Polled(by).states)
      BY <1>17 DEF Refresh
    <2>2. phase = "refreshing" /\ Answering(by) BY <1>17, AnswersAreOfSources DEF Refresh
    <2>3. Polled(by).states \in Seq(States(Me)) BY <2>2, PolledOwn
    <2>4. QED BY <1>14, <1>17, <2>1, <2>2, <2>3 DEF Refresh, nodeVars
  <1>18. CASE LedgerClosed
    <2>1. phase # "off" BY <1>18 DEF LedgerClosed, Awake
    <2>2. [of |-> attached, val |-> node[attached].counter] \in Data(Procs)
      BY <1>d, <2>1 DEF NodeInv, Nodes, Data
    <2>3. sampling' \in BOOLEAN /\ samples' \subseteq {None} \cup Data(Procs)
      BY <1>0, <1>18, <2>2 DEF LedgerClosed, taskVars
    <2>4. QED BY <1>0, <1>1, <1>18, <2>1, <2>3 DEF LedgerClosed
  <1>19. CASE HeapSample
    <2>1. PICK s \in samples :
            /\ samples' = samples \ {s} /\ sampling' = FALSE
            /\ \/ UNCHANGED <<latest, state, ui, fed>>
               \/ /\ s # None
                  /\ latest' = [latest EXCEPT !.heap = s]
                  /\ state' = [state EXCEPT !.heap = s]
                  /\ ui' = Notified(ui, <<state'>>)
      BY <1>19 DEF HeapSample
    <2>2. s \in Data(0 .. MaxProcs)
      BY <1>0, DashboardBounds DEF Data, Procs, None
    <2>3. phase # "off" BY DEF MonitorInv
    <2>4. latest' \in Latests(Mine) BY <1>0, <2>1, <2>2 DEF Latests
    <2>5. /\ state' \in States(Me) /\ state'.counts = state.counts
          /\ state'.transitions = state.transitions /\ state'.accountingOf = state.accountingOf
      BY <1>0, <2>1, <2>2 DEF States
    <2>6. OwnWidgets(Me, 0, ui') BY <1>0, <2>1, <2>5, ToldOwn
    <2>7. UNCHANGED <<attached, nodeVars, phase>> BY <1>19 DEF HeapSample
    <2>8. QED BY <1>0, <1>1, <2>1, <2>3, <2>4, <2>5, <2>6, <2>7
  <1>20. CASE RefreshBreakdown
    <2>1. "memory_breakdown" \in Panels BY DEF Panels
    <2>2. latest' \in Latests(Mine)
      <3> DEFINE k == latest.panels \cup {"memory_breakdown"}
      <3>1. latest' = [latest EXCEPT !.panels = k] BY <1>20 DEF RefreshBreakdown
      <3>2. k \in SUBSET Panels BY <1>0, <2>1 DEF Latests
      <3> HIDE DEF k
      <3>3. QED BY <1>0, <3>1, <3>2 DEF Latests
    <2>3. /\ state' \in States(Me) /\ state'.counts = state.counts
          /\ state'.transitions = state.transitions /\ state'.accountingOf = state.accountingOf
      BY <1>0, <1>20, <1>a, <2>1 DEF RefreshBreakdown, States
    <2>4. OwnWidgets(Me, 0, ui') BY <1>0, <1>20, <2>3, ToldOwn DEF RefreshBreakdown
    <2>5. phase # "off" BY <1>20 DEF RefreshBreakdown, Awake
    <2>6. QED BY <1>0, <1>1, <1>20, <2>2, <2>3, <2>4, <2>5 DEF RefreshBreakdown, taskVars
  <1>21. CASE UpdateMemoryStats
    <2> DEFINE u == Notified(ui, <<state>>)
               g == u.graph \cup {attached}
    <2>1. OwnWidgets(Me, 0, u) BY <1>0, ToldOwn
    <2>2. ui' = [u EXCEPT !.graph = g] BY <1>21 DEF UpdateMemoryStats
    <2>3. g \subseteq {Me.process} BY <1>a, <2>1 DEF OwnWidgets
    <2>4. phase # "off" BY <1>21 DEF UpdateMemoryStats, Awake
    <2> HIDE DEF u, g
    <2>5. OwnWidgets(Me, 0, ui') BY <2>1, <2>2, <2>3 DEF OwnWidgets, Widgets
    <2>6. QED BY <1>0, <1>1, <1>21, <2>4, <2>5 DEF UpdateMemoryStats, taskVars
  <1>22. CASE Tell
    <2>1. OwnWidgets(Me, 0, ui') BY <1>0, <1>22, ToldOwn DEF Tell
    <2>2. QED BY <1>0, <1>1, <1>22, <2>1 DEF Tell, taskVars
  <1>23. CASE UNCHANGED vars BY <1>3, <1>23 DEF vars, nodeVars
  <1>24. QED
    BY <1>4, <1>5, <1>6, <1>7, <1>8, <1>9, <1>10, <1>11, <1>12, <1>13, <1>15, <1>16, <1>17,
       <1>18, <1>19, <1>20, <1>21, <1>22, <1>23
       DEF DashboardNext

\* In every reachable state.
LEMMA DataInvariance == DashboardSpec => [](NodeInv /\ MonitorInv)
  BY DataInitInv, NodeNextInv, MonitorNextInv, PTL DEF DashboardSpec

\* For any number of processes, reattaches and notifications, and whichever process
\* answers, the shared state and the widgets hold nothing of a process before the one
\* attached to but a late heap sample, and what is asked by pid is of that one alone
\* (_reset_ui_for_new_incarnation, on_state_change, _hydrate_ui_from_events).
THEOREM NothingOfAnEarlierProcess == DashboardSpec => []NothingStale
  <1>1. MonitorInv => NothingStale
    <2> SUFFICES ASSUME MonitorInv PROVE NothingStale
      OBVIOUS
    <2>1. Me.own = {0} \cup attached .. started /\ Me.process = attached
      BY DEF Me, Mine, From
    <2>2. state \in States(Me) /\ OwnWidgets(Me, 0, ui) BY DEF MonitorInv
    <2> HIDE DEF Me
    <2>3. QED BY <2>1, <2>2 DEF NothingStale, States, Data, OwnWidgets
  <1>2. QED BY <1>1, DataInvariance, PTL

-------------------------------------------------------------------------------
(* Counting visits *)

Visit == [state : Ladder, source : {"inferred", "observed"}]

\* Numbers that are moved are no more than they were.
LEMMA MovedAreAsMany ==
  ASSUME NEW S \in SUBSET Int, IsFiniteSet(S), NEW k \in Int, NEW T, T \subseteq {i + k : i \in S}
  PROVE  IsFiniteSet(T) /\ Cardinality(T) <= Cardinality(S)
  <1> DEFINE M == {i + k : i \in S}
             f == [i \in S |-> i + k]
  <1>1. f \in Surjection(S, M) BY DEF Surjection
  <1>2. IsFiniteSet(M) /\ Cardinality(M) <= Cardinality(S) BY <1>1, FS_Surjection
  <1>3. T \in SUBSET M OBVIOUS
  <1> HIDE DEF M, f
  <1>4. IsFiniteSet(T) /\ Cardinality(T) <= Cardinality(M) BY <1>2, <1>3, FS_Subset
  <1>5. Cardinality(T) \in Nat /\ Cardinality(M) \in Nat /\ Cardinality(S) \in Nat
    BY <1>2, <1>4, FS_CardinalityType
  <1>6. QED BY <1>2, <1>4, <1>5

\* No more visits than entries.
LEMMA VisitsAreFew ==
  ASSUME NEW l \in Seq(Visit), NEW s
  PROVE  /\ {i \in DOMAIN l : l[i].state = s} \in SUBSET Int
         /\ IsFiniteSet({i \in DOMAIN l : l[i].state = s})
         /\ Visits(l, s) \in Nat /\ Visits(l, s) <= Len(l)
         /\ (\A i \in 1 .. Len(l) : l[i].state # s) => Visits(l, s) = 0
  <1> DEFINE V == {i \in DOMAIN l : l[i].state = s}
  <1>1. DOMAIN l = 1 .. Len(l) /\ Len(l) \in Nat BY LenProperties
  <1>2. V \in SUBSET (1 .. Len(l)) BY <1>1
  <1>3. IsFiniteSet(1 .. Len(l)) /\ Cardinality(1 .. Len(l)) = Len(l) BY <1>1, FS_Interval
  <1>4. IsFiniteSet(V) /\ Cardinality(V) <= Len(l) BY <1>2, <1>3, FS_Subset
  <1>5. Cardinality(V) \in Nat BY <1>4, FS_CardinalityType
  <1>6. ASSUME \A i \in 1 .. Len(l) : l[i].state # s PROVE Cardinality(V) = 0
    <2>1. V = {} BY <1>1, <1>6
    <2>2. QED BY <2>1, FS_EmptySet
  <1>7. Visits(l, s) = Cardinality(V) BY DEF Visits
  <1>8. V \in SUBSET Int BY <1>1, <1>2
  <1>9. QED BY <1>4, <1>5, <1>6, <1>7, <1>8

\* Of two logs no more than of both.
LEMMA VisitsOfBoth ==
  ASSUME NEW a \in Seq(Visit), NEW b \in Seq(Visit), NEW s
  PROVE  Visits(a \o b, s) <= Visits(a, s) + Visits(b, s)
  <1> DEFINE n == Len(a)
             c == a \o b
             A == {i \in DOMAIN a : a[i].state = s}
             B == {i \in DOMAIN b : b[i].state = s}
             C == {i \in DOMAIN c : c[i].state = s}
             M == {i + n : i \in B}
  <1>1. /\ c \in Seq(Visit) /\ Len(c) = Len(a) + Len(b)
        /\ \A i \in 1 .. Len(a) + Len(b) : c[i] = IF i <= Len(a) THEN a[i] ELSE b[i - Len(a)]
    BY ConcatProperties
  <1>2. /\ Len(a) \in Nat /\ Len(b) \in Nat
        /\ DOMAIN a = 1 .. Len(a) /\ DOMAIN b = 1 .. Len(b) /\ DOMAIN c = 1 .. Len(c)
    BY <1>1, LenProperties
  <1> HIDE DEF c
  <1>3. C \subseteq A \cup M
    <2> SUFFICES ASSUME NEW i \in C, i \notin A PROVE i \in M
      OBVIOUS
    <2>1. i \in 1 .. Len(a) + Len(b) /\ c[i].state = s BY <1>1, <1>2
    <2>2. i > Len(a) BY <1>1, <1>2, <2>1
    <2>3. i - n \in 1 .. Len(b) /\ b[i - n].state = s BY <1>1, <1>2, <2>1, <2>2
    <2>4. i - n \in B /\ i = (i - n) + n BY <1>2, <2>1, <2>3
    <2>5. QED BY <2>4
  <1>4. /\ A \in SUBSET Int /\ IsFiniteSet(A) /\ B \in SUBSET Int /\ IsFiniteSet(B)
        /\ Visits(a, s) = Cardinality(A) /\ Visits(b, s) = Cardinality(B)
        /\ Visits(c, s) = Cardinality(C)
    BY VisitsAreFew DEF Visits
  <1>5. n \in Int BY <1>2
  <1> HIDE DEF A, B, C, n
  <1>6. IsFiniteSet(M) /\ Cardinality(M) <= Cardinality(B) BY <1>4, <1>5, MovedAreAsMany
  <1> HIDE DEF M
  <1>7. /\ IsFiniteSet(A \cup M)
        /\ Cardinality(A \cup M) = Cardinality(A) + Cardinality(M) - Cardinality(A \cap M)
    BY <1>4, <1>6, FS_Union
  <1>8. Cardinality(C) <= Cardinality(A \cup M) BY <1>3, <1>7, FS_Subset
  <1>9. IsFiniteSet(A \cap M) /\ IsFiniteSet(C)
    <2>1. A \cap M \in SUBSET A /\ C \in SUBSET (A \cup M) BY <1>3
    <2>2. QED BY <1>4, <1>7, <2>1, FS_Subset
  <1>10. /\ Cardinality(A) \in Nat /\ Cardinality(B) \in Nat /\ Cardinality(C) \in Nat
         /\ Cardinality(M) \in Nat /\ Cardinality(A \cap M) \in Nat
    BY <1>4, <1>6, <1>9, FS_CardinalityType
  <1>11. QED BY <1>4, <1>6, <1>7, <1>8, <1>10 DEF c

\* Cutting a log adds no visit.
LEMMA VisitsOfCut ==
  ASSUME NEW l \in Seq(Visit), NEW n \in Nat \ {0}, NEW s
  PROVE  /\ Cut(l, n) \in Seq(Visit) /\ Len(Cut(l, n)) <= n
         /\ l # <<>> => Cut(l, n) # <<>>
         /\ Visits(Cut(l, n), s) <= Visits(l, s)
  <1>1. Len(l) \in Nat /\ DOMAIN l = 1 .. Len(l) BY LenProperties
  <1>2. CASE Len(l) <= n
    <2>1. Cut(l, n) = l BY <1>2 DEF Cut
    <2>2. Visits(l, s) \in Nat BY VisitsAreFew
    <2>3. QED BY <1>2, <2>1, <2>2
  <1>3. CASE ~(Len(l) <= n)
    <2> DEFINE d == Len(l) - n
               c == Cut(l, n)
    <2>1. c = SubSeq(l, d + 1, Len(l)) BY <1>3 DEF Cut
    <2>2. d \in Nat /\ \A i \in d + 1 .. Len(l) : l[i] \in Visit
      BY <1>1, <1>3, ElementOfSeq
    <2>3. /\ c \in Seq(Visit) /\ Len(c) = n
          /\ \A i \in 1 .. n : c[i] = l[i + d]
      <3> DEFINE a == d + 1
                 b == Len(l)
      <3>1. a \in Int /\ b \in Int /\ b - a + 1 = n /\ a <= b BY <1>1, <1>3
      <3>2. /\ SubSeq(l, a, b) \in Seq(Visit) /\ Len(SubSeq(l, a, b)) = n
            /\ \A i \in 1 .. n : SubSeq(l, a, b)[i] = l[a + i - 1]
        BY <2>2, <3>1, SubSeqProperties
      <3>3. \A i \in 1 .. n : a + i - 1 = i + d BY <1>1, <2>2
      <3>4. QED BY <2>1, <3>2, <3>3
    <2> DEFINE L == {i \in DOMAIN l : l[i].state = s}
               C == {i \in DOMAIN c : c[i].state = s}
    <2>4. DOMAIN c = 1 .. n BY <2>3, LenProperties
    <2> HIDE DEF c
    <2>5. C \subseteq {i + (-d) : i \in L}
      <3> SUFFICES ASSUME NEW i \in C PROVE i \in {j + (-d) : j \in L}
        OBVIOUS
      <3>1. i \in 1 .. n /\ l[i + d].state = s BY <2>3, <2>4
      <3>2. i + d \in L /\ i = (i + d) + (-d) BY <1>1, <1>3, <2>2, <3>1
      <3>3. QED BY <3>2
    <2>6. L \in SUBSET Int /\ IsFiniteSet(L) BY VisitsAreFew
    <2>7. -d \in Int BY <2>2
    <2> HIDE DEF L, C, d
    <2>8. Cardinality(C) <= Cardinality(L) BY <2>5, <2>6, <2>7, MovedAreAsMany
    <2>9. Visits(c, s) <= Visits(l, s) BY <2>8 DEF Visits, L, C
    <2>10. c # <<>> BY <2>3
    <2>11. QED BY <2>3, <2>9, <2>10 DEF c
  <1>4. QED BY <1>2, <1>3

-------------------------------------------------------------------------------
(* The timeline *)

\* How far the accounting of a node has come: what a state, a snapshot, the node and
\* the timeline know of it.
Told(a) == a.transitions # NoTransitions
AccountOf(a) == [transitions |-> a.transitions, server |-> a.server]
Truth(p) == [transitions |-> node[p].transitions, server |-> node[p].state]
Seen(tl) == [transitions |-> tl.prev, server |-> tl.last]
Accounts == [transitions : Counters, server : Servers]

\* The state a node is in has been entered.
Valid(a) == Told(a) => a.server \in NodeStates /\ a.transitions[a.server] >= 1

\* What is known later counts no less, and a state that is another one was entered since.
Before(a, b) ==
  Told(a) /\ Told(b) =>
    /\ \A s \in NodeStates : a.transitions[s] <= b.transitions[s]
    /\ a.server # b.server => a.transitions[b.server] + 1 <= b.transitions[b.server]

Timelines == [log : Seq(Visit), prev : Counters, last : Servers]

\* The timeline shows no more visits than the counters it has seen.
Fine(tl) ==
  /\ tl \in Timelines
  /\ Len(tl.log) <= StateLogMax
  /\ Valid(Seen(tl))
  /\ tl.prev = NoTransitions <=> tl.log = <<>>
  /\ tl.prev # NoTransitions => \A s \in NodeStates : Visits(tl.log, s) <= tl.prev[s]

\* Knowing nothing is a function of its own.
LEMMA CountersAreTold ==
  ASSUME NEW t \in Counters
  PROVE  /\ DOMAIN t = {} <=> t = NoTransitions
         /\ t # NoTransitions => t \in [NodeStates -> Nat]
  BY StatesOfLadder DEF Counters, NoTransitions

\* The order of what is known.
LEMMA BeforeIsTransitive ==
  ASSUME NEW a, NEW b, NEW c, a.transitions \in Counters, b.transitions \in Counters,
         c.transitions \in Counters, Valid(b), Valid(c), Told(b), Before(a, b), Before(b, c)
  PROVE  Before(a, c)
  <1> SUFFICES ASSUME Told(a), Told(c) PROVE Before(a, c)
    BY DEF Before
  <1>1. /\ a.transitions \in [NodeStates -> Nat] /\ b.transitions \in [NodeStates -> Nat]
        /\ c.transitions \in [NodeStates -> Nat]
    BY CountersAreTold DEF Told
  <1>2. b.server \in NodeStates /\ c.server \in NodeStates BY DEF Valid
  <1>3. \A s \in NodeStates : a.transitions[s] <= b.transitions[s] /\ b.transitions[s] <= c.transitions[s]
    BY DEF Before
  <1>4. \A s \in NodeStates : a.transitions[s] <= c.transitions[s] BY <1>1, <1>3
  <1>5. ASSUME a.server # c.server
        PROVE  a.transitions[c.server] + 1 <= c.transitions[c.server]
    <2> DEFINE s == c.server
    <2>1. CASE b.server = s
      <3>1. a.transitions[s] + 1 <= b.transitions[s] BY <1>5, <2>1 DEF Before
      <3>2. QED BY <1>1, <1>2, <1>3, <3>1
    <2>2. CASE b.server # s
      <3>1. b.transitions[s] + 1 <= c.transitions[s] BY <2>2 DEF Before
      <3>2. QED BY <1>1, <1>2, <1>3, <3>1
    <2>3. QED BY <2>1, <2>2
  <1>6. QED BY <1>4, <1>5 DEF Before

\* Nothing comes before itself by more than nothing.
LEMMA BeforeIsReflexive ==
  ASSUME NEW a, NEW b, a.transitions \in Counters, b.transitions = a.transitions,
         b.server = a.server
  PROVE  Before(a, b)
  BY CountersAreTold DEF Before, Told

\* What a poll adds for one state.
NewVisits(tl, transitions, server, s) ==
  LET Bump(r) == IF r \in DOMAIN tl.prev \cap DOMAIN transitions /\ r # server
                 THEN Max({0, transitions[r] - tl.prev[r]})
                 ELSE 0
      Inferred(r) == [i \in 1 .. Bump(r) |-> [state |-> r, source |-> "inferred"]]
      Observed(r) == IF r = server /\ server # tl.last
                     THEN <<[state |-> r, source |-> "observed"]>> ELSE <<>>
  IN Inferred(s) \o Observed(s)

\* The greater of a number and 0.
LEMMA NotNegative == ASSUME NEW d \in Int PROVE Max({0, d}) = IF d > 0 THEN d ELSE 0
  BY DEF Max

\* No state is added more often than this.
Adds(tl, t, sv, more) ==
  /\ tl.prev \in [NodeStates -> Nat] /\ t \in [NodeStates -> Nat]
  /\ more \in [NodeStates -> Nat]
  /\ \A x \in NodeStates \ {sv} : t[x] - tl.prev[x] <= more[x]
  /\ tl.last # sv => 1 <= more[sv]

\* One state is added only as often as its counter tells of.
LEMMA NewVisitsAreTold ==
  ASSUME NEW tl, NEW t, NEW sv \in NodeStates, NEW more, Adds(tl, t, sv, more),
         NEW y \in Ladder
  PROVE  /\ NewVisits(tl, t, sv, y) \in Seq(Visit)
         /\ \A x \in NodeStates :
              Visits(NewVisits(tl, t, sv, y), x) <= IF y = x THEN more[x] ELSE 0
  <1> DEFINE b == IF y \in DOMAIN tl.prev \cap DOMAIN t /\ y # sv
                  THEN Max({0, t[y] - tl.prev[y]}) ELSE 0
             I == [i \in 1 .. b |-> [state |-> y, source |-> "inferred"]]
             O == IF y = sv /\ sv # tl.last THEN <<[state |-> y, source |-> "observed"]>> ELSE <<>>
             N == NewVisits(tl, t, sv, y)
  <1>1. N = I \o O BY DEF NewVisits
  <1>2. /\ tl.prev \in [NodeStates -> Nat] /\ t \in [NodeStates -> Nat]
        /\ more \in [NodeStates -> Nat]
        /\ \A x \in NodeStates \ {sv} : t[x] - tl.prev[x] <= more[x]
        /\ tl.last # sv => 1 <= more[sv]
    BY DEF Adds
  <1>3. b \in Nat /\ (y \in NodeStates /\ y # sv => b <= more[y])
                  /\ (y \notin NodeStates \/ y = sv => b = 0)
    <2>1. CASE y \in NodeStates /\ y # sv
      <3> DEFINE d == t[y] - tl.prev[y]
      <3>1. d \in Int /\ d <= more[y] /\ more[y] \in Nat BY <1>2, <2>1
      <3>2. b = Max({0, d}) BY <1>2, <2>1
      <3> HIDE DEF d, b
      <3>3. b = IF d > 0 THEN d ELSE 0 BY <3>1, <3>2, NotNegative
      <3>4. QED BY <2>1, <3>1, <3>3
    <2>2. CASE ~(y \in NodeStates /\ y # sv)
      <3>1. b = 0 BY <1>2, <2>2
      <3>2. QED BY <2>2, <3>1
    <2>3. QED BY <2>1, <2>2
  <1> HIDE DEF b, N
  <1>4. I \in Seq(Visit) /\ Len(I) = b /\ \A i \in 1 .. b : I[i].state = y
    <2> DEFINE r == [state |-> y, source |-> "inferred"]
    <2>1. r \in Visit /\ r.state = y BY DEF Visit
    <2>2. I = [i \in 1 .. b |-> r] OBVIOUS
    <2> HIDE DEF r, I
    <2>3. I \in Seq(Visit) /\ Len(I) = b BY <1>3, <2>1, <2>2
    <2>4. QED BY <2>1, <2>2, <2>3
  <1>5. /\ O \in Seq(Visit) /\ \A i \in 1 .. Len(O) : O[i].state = y
        /\ Len(O) = IF y = sv /\ sv # tl.last THEN 1 ELSE 0
    <2>1. CASE y = sv /\ sv # tl.last
      <3>1. O = <<[state |-> y, source |-> "observed"]>> BY <2>1
      <3>2. [state |-> y, source |-> "observed"] \in Visit BY DEF Visit
      <3>3. QED BY <2>1, <3>1, <3>2
    <2>2. CASE ~(y = sv /\ sv # tl.last)
      <3>1. O = <<>> BY <2>2
      <3>2. QED BY <2>2, <3>1
    <2>3. QED BY <2>1, <2>2
  <1> HIDE DEF I, O
  <1>6. N \in Seq(Visit) /\ Len(N) = b + Len(O) /\ \A i \in 1 .. Len(N) : N[i].state = y
    <2>1. /\ I \o O \in Seq(Visit) /\ Len(I \o O) = Len(I) + Len(O)
          /\ \A i \in 1 .. Len(I) + Len(O) : (I \o O)[i] = IF i <= Len(I) THEN I[i] ELSE O[i - Len(I)]
      BY <1>4, <1>5, ConcatProperties
    <2>2. Len(O) \in Nat BY <1>5
    <2>3. QED BY <1>1, <1>3, <1>4, <1>5, <2>1, <2>2
  <1>7. ASSUME NEW x \in NodeStates
        PROVE  Visits(N, x) <= IF y = x THEN more[x] ELSE 0
    <2>1. CASE y # x
      <3>1. \A i \in 1 .. Len(N) : N[i].state # x BY <1>6, <2>1
      <3>2. Visits(N, x) = 0 BY <1>6, <3>1, VisitsAreFew
      <3>3. QED BY <2>1, <3>2
    <2>2. CASE y = x
      <3>1. Visits(N, x) \in Nat /\ Visits(N, x) <= b + Len(O) BY <1>6, VisitsAreFew
      <3>2. more[x] \in Nat BY <1>2
      <3>3. b + Len(O) <= more[x]
        <4>1. CASE x # sv BY <1>3, <1>5, <2>2, <4>1
        <4>2. CASE x = sv /\ sv # tl.last BY <1>2, <1>3, <1>5, <2>2, <3>2, <4>2
        <4>3. CASE x = sv /\ sv = tl.last BY <1>3, <1>5, <2>2, <3>2, <4>3
        <4>4. QED BY <4>1, <4>2, <4>3
      <3>4. QED BY <1>3, <1>5, <2>2, <3>1, <3>2, <3>3
    <2>3. QED BY <2>1, <2>2
  <1>8. QED BY <1>6, <1>7 DEF N

\* All a poll adds.
LEMMA PendingIsTold ==
  ASSUME NEW tl, NEW t, NEW sv \in NodeStates, NEW more, Adds(tl, t, sv, more)
  PROVE  /\ Pending(tl, t, sv) \in Seq(Visit)
         /\ \A x \in NodeStates : Visits(Pending(tl, t, sv), x) <= more[x]
  <1> DEFINE a == NewVisits(tl, t, sv, "disconnected")
             b == NewVisits(tl, t, sv, "connected")
             c == NewVisits(tl, t, sv, "syncing")
             d == NewVisits(tl, t, sv, "tracking")
             e == NewVisits(tl, t, sv, "full")
  <1>1. Pending(tl, t, sv) = a \o b \o c \o d \o e BY Zenon DEF Pending, NewVisits
  <1>2. /\ "disconnected" \in Ladder /\ "connected" \in Ladder /\ "syncing" \in Ladder
        /\ "tracking" \in Ladder /\ "full" \in Ladder
    BY DEF Ladder
  <1>3. more \in [NodeStates -> Nat] BY DEF Adds
  <1> DEFINE More(y, x) == IF y = x THEN more[x] ELSE 0
  <1>4. /\ a \in Seq(Visit) /\ \A x \in NodeStates : Visits(a, x) <= More("disconnected", x)
        /\ b \in Seq(Visit) /\ \A x \in NodeStates : Visits(b, x) <= More("connected", x)
        /\ c \in Seq(Visit) /\ \A x \in NodeStates : Visits(c, x) <= More("syncing", x)
        /\ d \in Seq(Visit) /\ \A x \in NodeStates : Visits(d, x) <= More("tracking", x)
        /\ e \in Seq(Visit) /\ \A x \in NodeStates : Visits(e, x) <= More("full", x)
    BY <1>2, NewVisitsAreTold
  <1> HIDE DEF a, b, c, d, e
  <1>5. a \o b \in Seq(Visit) BY <1>4, ConcatProperties
  <1>6. a \o b \o c \in Seq(Visit) BY <1>4, <1>5, ConcatProperties
  <1>7. a \o b \o c \o d \in Seq(Visit) BY <1>4, <1>6, ConcatProperties
  <1>8. a \o b \o c \o d \o e \in Seq(Visit) BY <1>4, <1>7, ConcatProperties
  <1>9. ASSUME NEW x \in NodeStates
        PROVE  Visits(a \o b \o c \o d \o e, x) <= more[x]
    <2> DEFINE V(l) == Visits(l, x)
    <2>1. /\ V(a) \in Nat /\ V(b) \in Nat /\ V(c) \in Nat /\ V(d) \in Nat /\ V(e) \in Nat
          /\ V(a \o b) \in Nat /\ V(a \o b \o c) \in Nat /\ V(a \o b \o c \o d) \in Nat
          /\ V(a \o b \o c \o d \o e) \in Nat
      BY <1>4, <1>5, <1>6, <1>7, <1>8, VisitsAreFew
    <2>2. V(a \o b) <= V(a) + V(b) BY <1>4, VisitsOfBoth
    <2>3. V(a \o b \o c) <= V(a \o b) + V(c) BY <1>4, <1>5, VisitsOfBoth
    <2>4. V(a \o b \o c \o d) <= V(a \o b \o c) + V(d) BY <1>4, <1>6, VisitsOfBoth
    <2>5. V(a \o b \o c \o d \o e) <= V(a \o b \o c \o d) + V(e) BY <1>4, <1>7, VisitsOfBoth
    <2>6. /\ V(a) <= More("disconnected", x) /\ V(b) <= More("connected", x)
          /\ V(c) <= More("syncing", x) /\ V(d) <= More("tracking", x)
          /\ V(e) <= More("full", x)
      BY <1>4
    <2> DEFINE m == more[x]
    <2>7. m \in Int BY <1>3
    <2>8. x \in {"disconnected", "connected", "syncing", "tracking", "full"}
      BY StatesOfLadder DEF Ladder
    <2> HIDE DEF V, m
    <2>9. More("disconnected", x) + More("connected", x) + More("syncing", x)
            + More("tracking", x) + More("full", x) = m
      BY <2>7, <2>8 DEF m
    <2>10. /\ More("disconnected", x) \in Int /\ More("connected", x) \in Int
           /\ More("syncing", x) \in Int /\ More("tracking", x) \in Int
           /\ More("full", x) \in Int
      BY <2>7 DEF m
    <2> HIDE DEF More
    <2>11. V(a \o b \o c \o d \o e) <= m
      BY <2>1, <2>2, <2>3, <2>4, <2>5, <2>6, <2>7, <2>9, <2>10
    <2>12. QED BY <2>11 DEF V, m
  <1>10. QED BY <1>1, <1>8, <1>9

\* An empty timeline is begun with the state the node is in.
LEMMA AccountingBegins ==
  ASSUME NEW tl, tl.log = <<>>, NEW a \in Accounts, Valid(a), Told(a),
         NEW u, u = UpdateStateAccounting(tl, a.transitions, a.server)
  PROVE  /\ u \in Timelines /\ Len(u.log) <= StateLogMax /\ u.log # <<>> /\ Seen(u) = a
         /\ \A x \in NodeStates : Visits(u.log, x) <= a.transitions[x]
  <1> DEFINE t == a.transitions
             sv == a.server
             v == [state |-> sv, source |-> "observed"]
  <1>0. a = [transitions |-> t, server |-> sv] /\ t \in Counters BY DEF Accounts
  <1>1. DOMAIN t # {} /\ t \in [NodeStates -> Nat]
    BY <1>0, CountersAreTold DEF Told
  <1>2. sv \in NodeStates /\ t[sv] >= 1 BY DEF Valid
  <1>3. sv # "none" /\ sv \in Ladder BY <1>2, StatesOfLadder DEF Ladder
  <1>4. v \in Visit /\ v.state = sv BY <1>3 DEF Visit
  <1>5. u = [log |-> <<v>>, prev |-> t, last |-> sv]
    BY <1>1, <1>3 DEF UpdateStateAccounting
  <1> HIDE DEF v
  <1>6. <<v>> \in Seq(Visit) /\ Len(<<v>>) = 1 /\ <<v>> # <<>> BY <1>4
  <1>7. ASSUME NEW x \in NodeStates PROVE Visits(<<v>>, x) <= t[x]
    <2>1. Visits(<<v>>, x) \in Nat /\ Visits(<<v>>, x) <= 1 BY <1>6, VisitsAreFew
    <2>2. t[x] \in Nat BY <1>1
    <2>3. CASE x = sv BY <1>2, <2>1, <2>2, <2>3
    <2>4. CASE x # sv
      <3>1. \A i \in 1 .. Len(<<v>>) : <<v>>[i].state # x BY <1>4, <2>4
      <3>2. Visits(<<v>>, x) = 0 BY <1>6, <3>1, VisitsAreFew
      <3>3. QED BY <2>2, <3>2
    <2>5. QED BY <2>3, <2>4
  <1>8. Seen(u) = a BY <1>0, <1>5 DEF Seen
  <1>9. u \in Timelines BY <1>0, <1>2, <1>5, <1>6 DEF Timelines, Servers
  <1>10. Len(u.log) <= StateLogMax BY <1>5, <1>6, DisplayBounds
  <1>11. QED BY <1>5, <1>6, <1>7, <1>8, <1>9, <1>10

\* A timeline that has begun grows by what is added.
LEMMA AccountingAdds ==
  ASSUME NEW tl \in Timelines, tl.log # <<>>, NEW a \in Accounts, Valid(a), Told(a),
         NEW more, Adds(tl, a.transitions, a.server, more),
         NEW u, u = UpdateStateAccounting(tl, a.transitions, a.server)
  PROVE  /\ u \in Timelines /\ Len(u.log) <= StateLogMax /\ u.log # <<>> /\ Seen(u) = a
         /\ \A x \in NodeStates : Visits(u.log, x) <= Visits(tl.log, x) + more[x]
  <1> DEFINE t == a.transitions
             sv == a.server
             p == Pending(tl, t, sv)
             l == Cut(tl.log \o p, StateLogMax)
  <1>0. a = [transitions |-> t, server |-> sv] /\ t \in Counters BY DEF Accounts
  <1>1. DOMAIN t # {} BY <1>0, CountersAreTold DEF Told
  <1>2. sv \in NodeStates BY DEF Valid
  <1>3. sv # "none" BY <1>2, StatesOfLadder DEF Ladder
  <1>4. tl.log \in Seq(Visit) /\ StateLogMax \in Nat \ {0} BY DisplayBounds DEF Timelines
  <1>5. u = [log |-> l, prev |-> t, last |-> sv] BY <1>1, <1>3 DEF UpdateStateAccounting
  <1>6. /\ p \in Seq(Visit)
        /\ \A x \in NodeStates : Visits(p, x) <= more[x]
    BY <1>2, PendingIsTold
  <1> HIDE DEF p
  <1>7. tl.log \o p \in Seq(Visit) BY <1>4, <1>6, ConcatProperties
  <1>8. tl.log \o p # <<>>
    <2>1. Len(tl.log \o p) = Len(tl.log) + Len(p) /\ Len(p) \in Nat /\ Len(tl.log) \in Nat
      BY <1>4, <1>6, ConcatProperties, LenProperties
    <2>2. Len(tl.log) # 0 BY <1>4, EmptySeq
    <2>3. QED BY <2>1, <2>2
  <1>9. l \in Seq(Visit) /\ Len(l) <= StateLogMax /\ l # <<>>
    BY <1>4, <1>7, <1>8, VisitsOfCut
  <1>10. ASSUME NEW x \in NodeStates PROVE Visits(l, x) <= Visits(tl.log, x) + more[x]
    <2>1. Visits(l, x) <= Visits(tl.log \o p, x) BY <1>4, <1>7, VisitsOfCut
    <2>2. Visits(tl.log \o p, x) <= Visits(tl.log, x) + Visits(p, x)
      BY <1>4, <1>6, VisitsOfBoth
    <2>3. /\ Visits(l, x) \in Nat /\ Visits(tl.log \o p, x) \in Nat
          /\ Visits(tl.log, x) \in Nat /\ Visits(p, x) \in Nat
      BY <1>4, <1>6, <1>7, <1>9, VisitsAreFew
    <2>4. more[x] \in Nat BY DEF Adds
    <2>5. QED BY <1>6, <2>1, <2>2, <2>3, <2>4
  <1> HIDE DEF l
  <1>11. Seen(u) = a BY <1>0, <1>5 DEF Seen
  <1>12. u \in Timelines BY <1>0, <1>2, <1>5, <1>9 DEF Timelines, Servers
  <1>13. QED BY <1>5, <1>9, <1>10, <1>11, <1>12

\* A timeline that is told something it comes before is fine, and has seen it.
LEMMA AccountingIsFine ==
  ASSUME NEW tl, Fine(tl), NEW a \in Accounts, Valid(a), Before(Seen(tl), a)
  PROVE  /\ Fine(UpdateStateAccounting(tl, a.transitions, a.server))
         /\ Told(a) => Seen(UpdateStateAccounting(tl, a.transitions, a.server)) = a
         /\ ~Told(a) => UpdateStateAccounting(tl, a.transitions, a.server) = tl
  <1> DEFINE t == a.transitions
             sv == a.server
             u == UpdateStateAccounting(tl, t, sv)
  <1>0. t \in Counters BY DEF Accounts
  <1>1. CASE ~Told(a)
    <2>1. DOMAIN t = {} BY <1>0, <1>1, CountersAreTold DEF Told
    <2>2. u = tl BY <2>1 DEF UpdateStateAccounting
    <2>3. QED BY <1>1, <2>2
  <1>2. CASE Told(a)
    <2>1. t \in [NodeStates -> Nat] /\ t # NoTransitions BY <1>0, <1>2, CountersAreTold DEF Told
    <2>2. tl \in Timelines BY DEF Fine
    <2>3. u = UpdateStateAccounting(tl, a.transitions, a.server) OBVIOUS
    <2> HIDE DEF u
    <2>4. CASE tl.log = <<>>
      <3>1. /\ u \in Timelines /\ Len(u.log) <= StateLogMax /\ u.log # <<>> /\ Seen(u) = a
            /\ \A x \in NodeStates : Visits(u.log, x) <= t[x]
        BY <1>2, <2>3, <2>4, AccountingBegins
      <3>2. u.prev = t BY <3>1 DEF Seen
      <3>3. Fine(u) BY <2>1, <3>1, <3>2 DEF Fine
      <3>4. QED BY <1>2, <2>3, <3>1, <3>3
    <2>5. CASE tl.log # <<>>
      <3> DEFINE more == [x \in NodeStates |-> t[x] - tl.prev[x]]
      <3>1. tl.prev # NoTransitions /\ tl.prev \in [NodeStates -> Nat]
        BY <2>2, <2>5, CountersAreTold DEF Fine, Timelines
      <3>2. /\ \A x \in NodeStates : tl.prev[x] <= t[x]
            /\ tl.last # sv => tl.prev[sv] + 1 <= t[sv]
        BY <1>2, <3>1 DEF Before, Told, Seen
      <3>3. Adds(tl, t, sv, more)
        <4>1. \A x \in NodeStates : t[x] \in Nat /\ tl.prev[x] \in Nat BY <2>1, <3>1
        <4>2. sv \in NodeStates BY <1>2 DEF Valid
        <4>3. more \in [NodeStates -> Nat] BY <3>2, <4>1
        <4>4. \A x \in NodeStates : t[x] - tl.prev[x] <= more[x] BY <4>1
        <4>5. tl.last # sv => 1 <= more[sv] BY <3>2, <4>1, <4>2
        <4>6. QED BY <2>1, <3>1, <4>3, <4>4, <4>5 DEF Adds
      <3>4. \A x \in NodeStates : more[x] = t[x] - tl.prev[x] OBVIOUS
      <3> HIDE DEF more
      <3>5. /\ u \in Timelines /\ Len(u.log) <= StateLogMax /\ u.log # <<>> /\ Seen(u) = a
            /\ \A x \in NodeStates : Visits(u.log, x) <= Visits(tl.log, x) + more[x]
        BY <1>2, <2>2, <2>3, <2>5, <3>3, AccountingAdds
      <3>6. u.prev = t BY <3>5 DEF Seen
      <3>7. ASSUME NEW x \in NodeStates PROVE Visits(u.log, x) <= t[x]
        <4>1. Visits(tl.log, x) <= tl.prev[x] BY <3>1 DEF Fine
        <4>2. u.log \in Seq(Visit) /\ tl.log \in Seq(Visit) BY <2>2, <3>5 DEF Timelines
        <4>3. Visits(u.log, x) \in Nat /\ Visits(tl.log, x) \in Nat BY <4>2, VisitsAreFew
        <4>4. t[x] \in Nat /\ tl.prev[x] \in Nat BY <2>1, <3>1
        <4>5. Visits(u.log, x) <= Visits(tl.log, x) + (t[x] - tl.prev[x]) BY <3>4, <3>5
        <4>6. QED BY <4>1, <4>3, <4>4, <4>5
      <3>8. Fine(u) BY <2>1, <3>5, <3>6, <3>7 DEF Fine
      <3>9. QED BY <1>2, <2>3, <3>5, <3>8
    <2>6. QED BY <2>4, <2>5
  <1>3. QED BY <1>1, <1>2

-------------------------------------------------------------------------------
(* The timeline over notifications and replayed events *)

\* A timeline that is behind what it will be told next, and behind the node.
Behind(c, n, tl) == Fine(tl) /\ Before(Seen(tl), c.now) /\ Before(Seen(tl), c.truth)
TimelineBehind(c, n, u) == Behind(c, n, u.timeline)

\* One that is behind the snapshots that are not yet replayed, and behind the node.
ReplaysBehind(c, n, tl) ==
  /\ Fine(tl) /\ Before(Seen(tl), c.truth)
  /\ \A j \in n + 1 .. Len(c.snapshots) : Before(Seen(tl), c.snapshots[j])

ObservingTimeline == INSTANCE FoldLaws WITH Op <- Observe, Keeps <- TimelineBehind
Replaying == INSTANCE FoldLaws WITH Op <- HydrateTimeline, Keeps <- ReplaysBehind

\* Told of where it is, it stays behind.
LEMMA ToldStaysBehind ==
  ASSUME NEW c, c.now \in Accounts, c.truth \in Accounts, Valid(c.now), Valid(c.truth),
         Told(c.now) => Before(c.now, c.truth),
         NEW n, NEW m, NEW tl, Behind(c, n, tl)
  PROVE  Behind(c, m, UpdateStateAccounting(tl, c.now.transitions, c.now.server))
  <1> DEFINE v == UpdateStateAccounting(tl, c.now.transitions, c.now.server)
             a == c.now
  <1>1. Fine(tl) /\ Before(Seen(tl), a) BY DEF Behind
  <1>2. Fine(v) /\ (Told(a) => Seen(v) = a) /\ (~Told(a) => v = tl) BY <1>1, AccountingIsFine
  <1>3. CASE Told(a)
    <2>1. a.transitions \in Counters BY DEF Accounts
    <2>2. Before(a, a) BY <2>1, BeforeIsReflexive
    <2>3. QED BY <1>2, <1>3, <2>2 DEF Behind
  <1>4. CASE ~Told(a) BY <1>2, <1>4 DEF Behind
  <1>5. QED BY <1>3, <1>4

\* However often the observers are told of it.
LEMMA NotifiedStaysBehind ==
  ASSUME NEW c, c.now \in Accounts, c.truth \in Accounts, Valid(c.now), Valid(c.truth),
         Told(c.now) => Before(c.now, c.truth),
         NEW S, NEW ss \in Seq(S), \A i \in 1 .. Len(ss) : AccountOf(ss[i]) = c.now,
         NEW u, TimelineBehind(c, 0, u)
  PROVE  TimelineBehind(c, 0, Notified(u, ss))
  <1>1. \A i \in 1 .. Len(ss) : \A y :
          TimelineBehind(c, i - 1, y) => TimelineBehind(c, i, Observe(y, ss[i]))
    <2> SUFFICES ASSUME NEW i \in 1 .. Len(ss), NEW y, TimelineBehind(c, i - 1, y)
                 PROVE  TimelineBehind(c, i, Observe(y, ss[i]))
      OBVIOUS
    <2>1. AccountOf(ss[i]) = c.now OBVIOUS
    <2>2. ss[i].transitions = c.now.transitions /\ ss[i].server = c.now.server
      BY <2>1 DEF AccountOf
    <2>3. Observe(y, ss[i]).timeline
            = UpdateStateAccounting(y.timeline, ss[i].transitions, ss[i].server)
      BY DEF Observe
    <2>4. Behind(c, i - 1, y.timeline) BY DEF TimelineBehind
    <2>5. Behind(c, i, UpdateStateAccounting(y.timeline, c.now.transitions, c.now.server))
      BY <2>4, ToldStaysBehind
    <2>6. QED BY <2>2, <2>3, <2>5 DEF TimelineBehind
  <1>2. TimelineBehind(c, Len(ss), ObservingTimeline!Folded(u, ss))
    BY <1>1, ObservingTimeline!FoldKeeps
  <1>3. Notified(u, ss) = ObservingTimeline!Folded(u, ss)
    BY DEF Notified, ObservingTimeline!Folded, FoldLeft, ObservingTimeline!FoldLeft,
           MapThenFoldSet, ObservingTimeline!MapThenFoldSet, Max, ObservingTimeline!Max
  <1>4. QED BY <1>2, <1>3 DEF TimelineBehind, Behind

\* What a fine timeline shows is no more than what comes after it counts.
LEMMA ShowsNoMore ==
  ASSUME NEW tl, Fine(tl), NEW a \in Accounts, Told(a), Before(Seen(tl), a)
  PROVE  \A s \in NodeStates :
           /\ Visits(tl.log, s) \in Nat /\ a.transitions[s] \in Nat
           /\ Visits(tl.log, s) <= a.transitions[s]
  <1> SUFFICES ASSUME NEW s \in NodeStates
               PROVE  /\ Visits(tl.log, s) \in Nat /\ a.transitions[s] \in Nat
                      /\ Visits(tl.log, s) <= a.transitions[s]
    OBVIOUS
  <1>1. tl.log \in Seq(Visit) /\ tl.prev \in Counters BY DEF Fine, Timelines
  <1>2. a.transitions \in [NodeStates -> Nat] BY CountersAreTold DEF Accounts, Told
  <1>3. Visits(tl.log, s) \in Nat /\ Visits(tl.log, s) <= Len(tl.log) BY <1>1, VisitsAreFew
  <1>4. CASE tl.prev = NoTransitions
    <2>1. Len(tl.log) = 0 BY <1>4 DEF Fine
    <2>2. QED BY <1>2, <1>3, <2>1
  <1>5. CASE tl.prev # NoTransitions
    <2>1. Visits(tl.log, s) <= tl.prev[s] BY <1>5 DEF Fine
    <2>2. tl.prev[s] <= a.transitions[s] BY <1>5 DEF Before, Told, Seen
    <2>3. tl.prev[s] \in Nat BY <1>1, <1>5, CountersAreTold
    <2>4. QED BY <1>2, <1>3, <2>1, <2>2, <2>3
  <1>6. QED BY <1>4, <1>5

\* A timeline that was behind the node and has at most seen the account of a successor
\* since.
Mixed(c, n, tl) ==
  \/ Fine(tl) /\ Before(Seen(tl), c.truth)
  \/ /\ tl \in Timelines /\ Len(tl.log) <= StateLogMax /\ tl.log # <<>> /\ Seen(tl) = c.now
     /\ \A s \in NodeStates :
          Visits(tl.log, s) <= c.truth.transitions[s] + c.now.transitions[s]
TimelineMixed(c, n, u) == Mixed(c, n, u.timeline)

ObservingMixed == INSTANCE FoldLaws WITH Op <- Observe, Keeps <- TimelineMixed

\* What it is told of the successor adds what the successor counts, once.
LEMMA ToldStaysMixed ==
  ASSUME NEW c, c.now \in Accounts, c.truth \in Accounts, Valid(c.now), Told(c.now),
         Told(c.truth), NEW n, NEW m, NEW tl, Mixed(c, n, tl)
  PROVE  Mixed(c, m, UpdateStateAccounting(tl, c.now.transitions, c.now.server))
  <1> DEFINE a == c.now
             t == a.transitions
             sv == a.server
             b == c.truth.transitions
             u == UpdateStateAccounting(tl, t, sv)
             nothing == [x \in NodeStates |-> 0]
  <1>1. t \in [NodeStates -> Nat] /\ b \in [NodeStates -> Nat]
    BY CountersAreTold DEF Accounts, Told
  <1>2. sv \in NodeStates /\ t[sv] >= 1 BY DEF Valid
  <1>3. u = UpdateStateAccounting(tl, a.transitions, a.server) /\ a \in Accounts
        /\ Valid(a) /\ Told(a) /\ Seen(u) = Seen(u)
    OBVIOUS
  <1> HIDE DEF u
  <1>4. CASE Fine(tl) /\ Before(Seen(tl), c.truth) /\ tl.log = <<>>
    <2>1. /\ u \in Timelines /\ Len(u.log) <= StateLogMax /\ u.log # <<>> /\ Seen(u) = a
          /\ \A x \in NodeStates : Visits(u.log, x) <= t[x]
      BY <1>3, <1>4, AccountingBegins
    <2>2. ASSUME NEW x \in NodeStates PROVE Visits(u.log, x) <= b[x] + t[x]
      <3>1. u.log \in Seq(Visit) BY <2>1 DEF Timelines
      <3>2. Visits(u.log, x) \in Nat BY <3>1, VisitsAreFew
      <3>3. b[x] \in Nat /\ t[x] \in Nat /\ Visits(u.log, x) <= t[x] BY <1>1, <2>1
      <3>4. QED BY <3>2, <3>3
    <2>3. QED BY <2>1, <2>2 DEF Mixed, u
  <1>5. CASE Fine(tl) /\ Before(Seen(tl), c.truth) /\ tl.log # <<>>
    <2>1. tl \in Timelines BY <1>5 DEF Fine
    <2>2. tl.prev \in [NodeStates -> Nat] BY <1>5, <2>1, CountersAreTold DEF Fine, Timelines
    <2>3. Adds(tl, t, sv, t)
      <3>1. \A x \in NodeStates : t[x] \in Nat /\ tl.prev[x] \in Nat BY <1>1, <2>2
      <3>2. \A x \in NodeStates : t[x] - tl.prev[x] <= t[x] BY <3>1
      <3>3. 1 <= t[sv] BY <1>2, <3>1
      <3>4. QED BY <1>1, <2>2, <3>2, <3>3 DEF Adds
    <2>4. /\ u \in Timelines /\ Len(u.log) <= StateLogMax /\ u.log # <<>> /\ Seen(u) = a
          /\ \A x \in NodeStates : Visits(u.log, x) <= Visits(tl.log, x) + t[x]
      BY <1>3, <1>5, <2>1, <2>3, AccountingAdds
    <2>5. ASSUME NEW x \in NodeStates PROVE Visits(u.log, x) <= b[x] + t[x]
      <3>1. u.log \in Seq(Visit) BY <2>4 DEF Timelines
      <3>2. Visits(u.log, x) \in Nat BY <3>1, VisitsAreFew
      <3>3. Visits(tl.log, x) \in Nat /\ Visits(tl.log, x) <= b[x] BY <1>5, ShowsNoMore
      <3>4. b[x] \in Nat /\ t[x] \in Nat BY <1>1
      <3>5. Visits(u.log, x) <= Visits(tl.log, x) + t[x] BY <2>4
      <3>6. QED BY <3>2, <3>3, <3>4, <3>5
    <2>6. QED BY <2>4, <2>5 DEF Mixed, u
  <1>6. CASE /\ tl \in Timelines /\ tl.log # <<>> /\ Seen(tl) = c.now
             /\ \A s \in NodeStates : Visits(tl.log, s) <= b[s] + t[s]
    <2>1. tl.prev = t /\ tl.last = sv BY <1>6 DEF Seen
    <2>2. Adds(tl, t, sv, nothing)
      <3>1. \A x \in NodeStates : t[x] - tl.prev[x] <= nothing[x] BY <1>1, <2>1
      <3>2. nothing \in [NodeStates -> Nat] OBVIOUS
      <3> HIDE DEF nothing
      <3>3. QED BY <1>1, <2>1, <3>1, <3>2 DEF Adds
    <2>3. \A x \in NodeStates : nothing[x] = 0 OBVIOUS
    <2> HIDE DEF nothing
    <2>4. /\ u \in Timelines /\ Len(u.log) <= StateLogMax /\ u.log # <<>> /\ Seen(u) = a
          /\ \A x \in NodeStates : Visits(u.log, x) <= Visits(tl.log, x) + nothing[x]
      BY <1>3, <1>6, <2>2, AccountingAdds
    <2>5. ASSUME NEW x \in NodeStates PROVE Visits(u.log, x) <= b[x] + t[x]
      <3>1. u.log \in Seq(Visit) /\ tl.log \in Seq(Visit) BY <1>6, <2>4 DEF Timelines
      <3>2. Visits(u.log, x) \in Nat /\ Visits(tl.log, x) \in Nat BY <3>1, VisitsAreFew
      <3>3. Visits(u.log, x) <= Visits(tl.log, x) BY <2>3, <2>4, <3>2
      <3>4. b[x] \in Nat /\ t[x] \in Nat /\ Visits(tl.log, x) <= b[x] + t[x] BY <1>1, <1>6
      <3>5. QED BY <3>2, <3>3, <3>4
    <2>6. QED BY <2>4, <2>5 DEF Mixed, u
  <1>7. QED BY <1>4, <1>5, <1>6 DEF Mixed

\* However often the observers are told of it.
LEMMA NotifiedStaysMixed ==
  ASSUME NEW c, c.now \in Accounts, c.truth \in Accounts, Valid(c.now), Told(c.now),
         Told(c.truth),
         NEW S, NEW ss \in Seq(S), \A i \in 1 .. Len(ss) : AccountOf(ss[i]) = c.now,
         NEW u, TimelineMixed(c, 0, u)
  PROVE  TimelineMixed(c, 0, Notified(u, ss))
  <1>1. \A i \in 1 .. Len(ss) : \A y :
          TimelineMixed(c, i - 1, y) => TimelineMixed(c, i, Observe(y, ss[i]))
    <2> SUFFICES ASSUME NEW i \in 1 .. Len(ss), NEW y, TimelineMixed(c, i - 1, y)
                 PROVE  TimelineMixed(c, i, Observe(y, ss[i]))
      OBVIOUS
    <2>1. AccountOf(ss[i]) = c.now OBVIOUS
    <2>2. ss[i].transitions = c.now.transitions /\ ss[i].server = c.now.server
      BY <2>1 DEF AccountOf
    <2>3. Observe(y, ss[i]).timeline
            = UpdateStateAccounting(y.timeline, ss[i].transitions, ss[i].server)
      BY DEF Observe
    <2>4. Mixed(c, i - 1, y.timeline) BY DEF TimelineMixed
    <2>5. Mixed(c, i, UpdateStateAccounting(y.timeline, c.now.transitions, c.now.server))
      BY <2>4, ToldStaysMixed
    <2>6. QED BY <2>2, <2>3, <2>5 DEF TimelineMixed
  <1>2. TimelineMixed(c, Len(ss), ObservingMixed!Folded(u, ss))
    BY <1>1, ObservingMixed!FoldKeeps
  <1>3. Notified(u, ss) = ObservingMixed!Folded(u, ss)
    BY DEF Notified, ObservingMixed!Folded, FoldLeft, ObservingMixed!FoldLeft,
           MapThenFoldSet, ObservingMixed!MapThenFoldSet, Max, ObservingMixed!Max
  <1>4. QED BY <1>2, <1>3 DEF TimelineMixed, Mixed

\* What the events of a process tell, one after the other, and the node after them.
InOrder(snapshots, truth) ==
  \A i \in 1 .. Len(snapshots) :
    /\ Valid(snapshots[i]) /\ Before(snapshots[i], truth)
    /\ \A j \in i + 1 .. Len(snapshots) : Before(snapshots[i], snapshots[j])

\* Nothing was seen yet.
LEMMA NoTimelineIsFine == Fine(NoTimeline) /\ \A a : Before(Seen(NoTimeline), a)
  <1>1. NoTimeline \in Timelines
    BY DEF NoTimeline, Timelines, Counters, Servers
  <1>2. Len(NoTimeline.log) <= StateLogMax /\ NoTimeline.log = <<>> /\ NoTimeline.prev = NoTransitions
    BY DisplayBounds DEF NoTimeline
  <1>3. ~Told(Seen(NoTimeline)) BY <1>2 DEF Told, Seen
  <1>4. QED BY <1>1, <1>2, <1>3 DEF Fine, Valid, Before

\* The timeline replayed from the events of a process is behind the node.
LEMMA ReplayedIsBehind ==
  ASSUME NEW own, NEW ss \in Seq(Snapshots(own)), NEW truth, InOrder(ss, truth)
  PROVE  Fine(RefilledTimeline(ss)) /\ Before(Seen(RefilledTimeline(ss)), truth)
  <1> DEFINE c == [snapshots |-> ss, truth |-> truth]
  <1>1. ReplaysBehind(c, 0, NoTimeline) BY NoTimelineIsFine DEF ReplaysBehind
  <1>2. ASSUME NEW i \in 1 .. Len(ss), NEW y, ReplaysBehind(c, i - 1, y)
        PROVE  ReplaysBehind(c, i, HydrateTimeline(y, ss[i]))
    <2> DEFINE s == ss[i]
               a == AccountOf(s)
               v == HydrateTimeline(y, s)
    <2>0. i \in Nat /\ Len(ss) \in Nat /\ i <= Len(ss) BY LenProperties
    <2>1. s \in Snapshots(own) BY ElementOfSeq
    <2>2. a \in Accounts /\ a.transitions = s.transitions /\ a.server = s.server
      BY <2>1 DEF Snapshots, Accounts, AccountOf
    <2>3. i \in (i - 1) + 1 .. Len(c.snapshots) BY <2>0
    <2>4. Fine(y) /\ Before(Seen(y), s) BY <1>2, <2>3 DEF ReplaysBehind
    <2>5. Valid(s) /\ Before(s, truth) /\ \A j \in i + 1 .. Len(ss) : Before(s, ss[j])
      BY DEF InOrder
    <2>6. Valid(a) /\ Before(Seen(y), a) BY <2>2, <2>4, <2>5 DEF Valid, Before, Told
    <2>7. /\ Fine(v) /\ (Told(a) => Seen(v) = a) /\ (~Told(a) => v = y)
      BY <2>2, <2>4, <2>6, AccountingIsFine DEF HydrateTimeline
    <2> HIDE DEF a, v
    <2>8. CASE Told(a)
      <3>1. Before(a, truth) /\ \A j \in i + 1 .. Len(ss) : Before(a, ss[j])
        BY <2>2, <2>5 DEF Before, Told
      <3>2. QED BY <2>7, <2>8, <3>1 DEF ReplaysBehind, v
    <2>9. CASE ~Told(a)
      <3>1. v = y BY <2>7, <2>9
      <3>2. \A j \in i + 1 .. Len(ss) : j \in (i - 1) + 1 .. Len(ss) BY <2>0
      <3>3. ReplaysBehind(c, i, y) BY <1>2, <3>2 DEF ReplaysBehind
      <3>4. QED BY <3>1, <3>3 DEF v
    <2>10. QED BY <2>8, <2>9
  <1> HIDE DEF c
  <1>3. ReplaysBehind(c, Len(ss), Replaying!Folded(NoTimeline, ss))
    BY <1>1, <1>2, Replaying!FoldKeeps
  <1>4. RefilledTimeline(ss) = Replaying!Folded(NoTimeline, ss)
    BY DEF RefilledTimeline, Replaying!Folded, FoldLeft, Replaying!FoldLeft,
           MapThenFoldSet, Replaying!MapThenFoldSet, Max, Replaying!Max
  <1>5. QED BY <1>3, <1>4 DEF ReplaysBehind, c

-------------------------------------------------------------------------------
(* The order in which the node, the events, the state and the timeline follow *)

\* The accounting is the attached process's own: the events, the state and the timeline
\* follow it.
OwnAccount ==
  /\ state.accountingOf \in {0, attached}
  /\ Fine(ui.timeline) /\ Before(state, Truth(attached))
  /\ Before(Seen(ui.timeline), state) /\ Before(Seen(ui.timeline), Truth(attached))
  /\ running = attached => \A i \in 1 .. Len(log[attached]) : Before(log[attached][i], state)

\* A successor has answered, in the first server_info or in the last round: there is no
\* other.
Heard(now) == [now |-> now, truth |-> Truth(attached)]
ForeignAccount ==
  /\ state.accountingOf \in Procs \ {attached}
  /\ phase \in {"syncing", "monitoring", "ended"}
  /\ Told(state)
  /\ \A s \in NodeStates : state.transitions[s] <= Truth(state.accountingOf).transitions[s]
  /\ Mixed(Heard(AccountOf(state)), 0, ui.timeline)

TimelineInv ==
  /\ \A p \in Procs : Valid(Truth(p)) /\ (started < p => log[p] = <<>>)
  /\ running # 0 => InOrder(log[running], Truth(running))
  /\ Valid(state)
  /\ phase # "off" => OwnAccount \/ ForeignAccount

\* What the node knows of itself.
LEMMA TruthIsAccount ==
  ASSUME NodeInv, NEW p \in Procs
  PROVE  Truth(p) \in Accounts /\ Told(Truth(p))
  <1>1. node[p] \in Nodes BY DEF NodeInv
  <1>2. Truth(p) \in Accounts BY <1>1 DEF Truth, Nodes, Accounts, Counters, Servers
  <1>3. node[p].transitions # NoTransitions
    BY <1>1, StatesOfLadder DEF Nodes, NoTransitions
  <1>4. QED BY <1>2, <1>3 DEF Told, Truth

\* Nothing is known at first.
LEMMA TimelineInitInv == Init => TimelineInv
  <1> SUFFICES ASSUME Init PROVE TimelineInv
    OBVIOUS
  <1>1. ASSUME NEW p \in Procs PROVE Valid(Truth(p)) /\ log[p] = <<>>
    <2>1. node[p] \in NewProcesses /\ log[p] = <<>> BY DEF Init
    <2>2. PICK s \in NodeStates :
            node[p] = [counter |-> 1, state |-> s, moves |-> 0,
                       transitions |-> [t \in NodeStates |-> IF t \in {s, "connected"} THEN 1 ELSE 0]]
      BY <2>1 DEF NewProcesses
    <2>3. node[p].state = s /\ node[p].transitions[s] = 1 BY <2>2
    <2>4. Valid(Truth(p)) BY <2>3 DEF Valid, Truth
    <2>5. QED BY <2>1, <2>4
  <1>2. Valid(state) BY DEF Init, InitialState, Valid, Told
  <1>3. phase = "off" /\ running = 0 BY DEF Init
  <1>4. QED BY <1>1, <1>2, <1>3 DEF TimelineInv

\* Told of an account it is behind, the timeline is behind it and the node.
LEMMA TellingKeepsBehind ==
  ASSUME NodeInv, TimelineInv, attached \in Procs,
         NEW now \in Accounts, Valid(now), Before(now, Truth(attached)),
         NEW S, NEW ss \in Seq(S), \A i \in 1 .. Len(ss) : AccountOf(ss[i]) = now,
         NEW u, Fine(u.timeline), Before(Seen(u.timeline), now),
         Before(Seen(u.timeline), Truth(attached))
  PROVE  LET v == Notified(u, ss)
         IN /\ Fine(v.timeline) /\ Before(Seen(v.timeline), now)
            /\ Before(Seen(v.timeline), Truth(attached))
  <1> DEFINE c == [now |-> now, truth |-> Truth(attached)]
  <1>1. c.now = now /\ c.truth = Truth(attached) OBVIOUS
  <1>2. c.truth \in Accounts /\ Valid(c.truth) BY <1>1, TruthIsAccount DEF TimelineInv
  <1> HIDE DEF c
  <1>3. TimelineBehind(c, 0, u) BY <1>1 DEF TimelineBehind, Behind
  <1>4. TimelineBehind(c, 0, Notified(u, ss)) BY <1>1, <1>2, <1>3, NotifiedStaysBehind
  <1>5. QED BY <1>1, <1>4 DEF TimelineBehind, Behind

\* Told of a successor's account, it stays one that has seen no other.
LEMMA TellingKeepsMixed ==
  ASSUME NodeInv, attached \in Procs, NEW now \in Accounts, Valid(now), Told(now),
         NEW S, NEW ss \in Seq(S), \A i \in 1 .. Len(ss) : AccountOf(ss[i]) = now,
         NEW u, Mixed(Heard(now), 0, u.timeline)
  PROVE  Mixed(Heard(now), 0, Notified(u, ss).timeline)
  <1> DEFINE c == Heard(now)
  <1>1. c.now = now /\ c.truth = Truth(attached) BY DEF Heard
  <1>2. c.truth \in Accounts /\ Told(c.truth) BY <1>1, TruthIsAccount
  <1> HIDE DEF c
  <1>3. TimelineMixed(c, 0, u) BY DEF TimelineMixed, c
  <1>4. TimelineMixed(c, 0, Notified(u, ss)) BY <1>1, <1>2, <1>3, NotifiedStaysMixed
  <1>5. QED BY <1>4 DEF TimelineMixed, c

\* A snapshot at the end of others that it comes after.
LEMMA AppendedInOrder ==
  ASSUME NEW own, NEW l \in Seq(Snapshots(own)), NEW s \in Snapshots(own), NEW truth,
         InOrder(l, truth), Valid(s), Before(s, truth),
         \A i \in 1 .. Len(l) : Before(l[i], s),
         NEW t, t.transitions = s.transitions, t.server = s.server
  PROVE  /\ InOrder(Append(l, s), truth)
         /\ \A i \in 1 .. Len(Append(l, s)) : Before(Append(l, s)[i], t)
         /\ \A i \in 1 .. Len(l) : Before(l[i], t)
  <1> DEFINE r == Append(l, s)
             n == Len(l)
  <1>1. s.transitions \in Counters BY DEF Snapshots
  <1>2. Before(s, t) BY <1>1, BeforeIsReflexive
  <1>3. \A i \in 1 .. n : Before(l[i], t) BY DEF Before, Told
  <1>4. /\ Len(r) = n + 1 /\ r[n + 1] = s /\ n \in Nat
        /\ \A i \in 1 .. n : r[i] = l[i]
    BY AppendProperties, LenProperties
  <1>5. \A i \in 1 .. n : Valid(l[i]) /\ Before(l[i], truth) /\ Before(l[i], s)
                         /\ \A j \in i + 1 .. n : Before(l[i], l[j])
    BY DEF InOrder
  <1> HIDE DEF r, n
  <1>6. ASSUME NEW i \in 1 .. n + 1
        PROVE  /\ Valid(r[i]) /\ Before(r[i], truth) /\ Before(r[i], t)
               /\ \A j \in i + 1 .. n + 1 : Before(r[i], r[j])
    <2>1. CASE i = n + 1
      <3>1. r[i] = s /\ \A j \in i + 1 .. n + 1 : FALSE BY <1>4, <2>1
      <3>2. QED BY <1>2, <3>1
    <2>2. CASE i # n + 1
      <3>1. i \in 1 .. n /\ r[i] = l[i] BY <1>4, <2>2
      <3>2. ASSUME NEW j \in i + 1 .. n + 1 PROVE Before(r[i], r[j])
        <4>1. CASE j = n + 1 BY <1>4, <1>5, <3>1, <4>1
        <4>2. CASE j # n + 1
          <5>1. j \in i + 1 .. n /\ j \in 1 .. n /\ r[j] = l[j] BY <1>4, <3>1, <4>2
          <5>2. QED BY <1>5, <3>1, <5>1
        <4>3. QED BY <4>1, <4>2
      <3>3. QED BY <1>3, <1>5, <3>1, <3>2
    <2>3. QED BY <2>1, <2>2
  <1>7. InOrder(r, truth) BY <1>4, <1>6 DEF InOrder
  <1>8. \A i \in 1 .. Len(r) : Before(r[i], t) BY <1>4, <1>6
  <1>9. QED BY <1>3, <1>7, <1>8 DEF r, n

\* A snapshot that is logged comes after those before it, if it is of the process that
\* runs.
LEMMA LoggedInOrder ==
  ASSUME NodeInv, TimelineInv, attached \in Procs, attached <= started, UNCHANGED nodeVars,
         NEW s \in Snapshots(Mine), Logged(s),
         NEW t, t.transitions = s.transitions, t.server = s.server,
         running = attached =>
           /\ Valid(s) /\ Before(s, Truth(attached))
           /\ \A i \in 1 .. Len(log[attached]) : Before(log[attached][i], s)
  PROVE  /\ \A p \in Procs : started < p => log'[p] = <<>>
         /\ running # 0 => InOrder(log'[running], Truth(running))
         /\ running = attached => \A i \in 1 .. Len(log'[attached]) : Before(log'[attached][i], t)
  <1>1. \A p \in Procs \ {attached} : log'[p] = log[p] BY DEF Logged, NodeInv
  <1>2. ASSUME NEW p \in Procs, started < p PROVE log'[p] = <<>>
    <2>1. p # attached /\ log[p] = <<>>
      BY <1>2, DashboardBounds DEF TimelineInv, NodeInv, Procs
    <2>2. QED BY <1>1, <2>1
  <1>3. running # 0 => running \in Procs BY DashboardBounds DEF NodeInv, Procs
  <1>4. CASE running # attached
    <2>1. running # 0 => log'[running] = log[running] BY <1>1, <1>3, <1>4
    <2>2. QED BY <1>2, <1>4, <2>1 DEF TimelineInv
  <1>5. CASE running = attached
    <2> DEFINE l == log[attached]
    <2>1. l \in Seq(Snapshots(Mine)) /\ attached # 0
      BY DashboardBounds DEF NodeInv, Mine, Procs
    <2>2. InOrder(l, Truth(attached)) BY <1>5, <2>1 DEF TimelineInv
    <2>3. \A i \in 1 .. Len(l) : Before(l[i], s) BY <1>5
    <2>4. log'[attached] = Append(l, s) \/ log'[attached] = l BY DEF Logged, NodeInv
    <2> HIDE DEF l, Mine
    <2>5. /\ InOrder(Append(l, s), Truth(attached))
          /\ \A i \in 1 .. Len(Append(l, s)) : Before(Append(l, s)[i], t)
          /\ \A i \in 1 .. Len(l) : Before(l[i], t)
      BY <1>5, <2>1, <2>2, <2>3, AppendedInOrder
    <2>6. QED BY <1>2, <1>5, <2>2, <2>4, <2>5
  <1>6. QED BY <1>4, <1>5

\* A poll is told of nothing but where it leaves the state, and that is what was known
\* or what whoever answered counts.
LEMMA PolledAccount ==
  ASSUME NodeInv, MonitorInv, TimelineInv, phase # "off", NEW by, Answering(by)
  PROVE  LET f == Finished(by)
             now == AccountOf(f)
         IN /\ now \in Accounts /\ Valid(now)
            /\ \/ now = AccountOf(state) /\ f.accountingOf = state.accountingOf
               \/ f.accountingOf \in Sources /\ now = Truth(f.accountingOf)
            /\ \A i \in 1 .. Len(Polled(by).states) : AccountOf(Polled(by).states[i]) = now
  <1>1. state \in States(Me) BY DEF MonitorInv
  <1>2. AccountOf(state) \in Accounts /\ Valid(AccountOf(state))
    BY <1>1 DEF TimelineInv, States, AccountOf, Accounts, Valid, Told
  <1>3. \/ /\ AccountOf(Informed(by)) = AccountOf(state)
           /\ Informed(by).accountingOf = state.accountingOf
        \/ /\ Informed(by).accountingOf \in Sources
           /\ AccountOf(Informed(by)) = Truth(Informed(by).accountingOf)
    <2>1. CASE "server_info" \in DOMAIN by
      <3> DEFINE p == by["server_info"]
                 g == Ingested(p)
      <3>1. p \in Sources BY <2>1 DEF Answering
      <3>2. /\ g \in States(Me) /\ g.transitions = node[p].transitions
            /\ g.server = node[p].state /\ g.accountingOf = p
        BY <3>1, IngestedOwn
      <3>3. Informed(by) = [g EXCEPT !.panel["job_types"] = p] BY <2>1 DEF Informed
      <3> HIDE DEF g, p
      <3>4. /\ Informed(by).transitions = g.transitions /\ Informed(by).server = g.server
            /\ Informed(by).accountingOf = g.accountingOf
        BY <3>2, <3>3 DEF States
      <3>5. QED BY <3>1, <3>2, <3>4 DEF AccountOf, Truth
    <2>2. CASE ~("server_info" \in DOMAIN by) BY <2>2 DEF Informed
    <2>3. QED BY <2>1, <2>2
  <1>4. /\ Informed(by) \in States(Me) /\ Counted(by) \in States(Me)
        /\ Finished(by) \in States(Me)
        /\ ToldFirst(by) \in Seq(States(Me)) /\ ToldNext(by) \in Seq(States(Me))
        /\ ToldLast(by) \in Seq(States(Me))
    BY PolledOwn
  <1>5. /\ AccountOf(Counted(by)) = AccountOf(Informed(by))
        /\ Counted(by).accountingOf = Informed(by).accountingOf
    BY <1>4 DEF Counted, AccountOf, States
  <1>6. /\ AccountOf(Finished(by)) = AccountOf(Counted(by))
        /\ Finished(by).accountingOf = Counted(by).accountingOf
    BY <1>4 DEF Finished, AccountOf, States
  <1> DEFINE f == Finished(by)
             now == AccountOf(f)
             S == States(Me)
             A == ToldFirst(by)
             B == ToldNext(by)
             C == ToldLast(by)
  <1>7. \/ now = AccountOf(state) /\ f.accountingOf = state.accountingOf
        \/ f.accountingOf \in Sources /\ now = Truth(f.accountingOf)
    BY <1>3, <1>5, <1>6
  <1>8. now \in Accounts /\ Valid(now)
    <2>1. CASE now = AccountOf(state) BY <1>2, <2>1
    <2>2. CASE f.accountingOf \in Sources /\ now = Truth(f.accountingOf)
      <3>1. f.accountingOf \in Procs BY <2>2, SourcesAreMine
      <3>2. QED BY <2>2, <3>1, TruthIsAccount DEF TimelineInv
    <2>3. QED BY <1>7, <2>1, <2>2
  <1>9. /\ \A i \in 1 .. Len(A) : AccountOf(A[i]) = now
        /\ \A i \in 1 .. Len(B) : AccountOf(B[i]) = now
        /\ \A i \in 1 .. Len(C) : AccountOf(C[i]) = now
    <2> DEFINE x == Informed(by)
               y == Counted(by)
               z == Finished(by)
    <2>1. AccountOf(x) = now /\ AccountOf(y) = now /\ AccountOf(z) = now BY <1>5, <1>6
    <2> HIDE DEF x, y, z, now, f
    <2>2. (A = <<x, x>> \/ A = <<>>) /\ (B = <<y>> \/ B = <<>>) /\ (C = <<z>> \/ C = <<>>)
      BY DEF ToldFirst, ToldNext, ToldLast, x, y, z
    <2>3. QED BY <2>1, <2>2
  <1> HIDE DEF now, f, S, A, B, C
  <1>10. \A i \in 1 .. Len(A \o B \o C) : AccountOf((A \o B \o C)[i]) = now
    <2>1. A \in Seq(S) /\ B \in Seq(S) /\ C \in Seq(S) BY <1>4 DEF A, B, C, S
    <2>2. /\ A \o B \in Seq(S) /\ Len(A \o B) = Len(A) + Len(B)
          /\ \A i \in 1 .. Len(A) + Len(B) : (A \o B)[i] = IF i <= Len(A) THEN A[i] ELSE B[i - Len(A)]
      BY <2>1, ConcatProperties
    <2>3. Len(A) \in Nat /\ Len(B) \in Nat /\ Len(C) \in Nat BY <2>1, LenProperties
    <2>4. \A i \in 1 .. Len(A \o B) : AccountOf((A \o B)[i]) = now BY <1>9, <2>2, <2>3
    <2> DEFINE D == A \o B
    <2>5. D \in Seq(S) /\ Len(D) \in Nat /\ \A i \in 1 .. Len(D) : AccountOf(D[i]) = now
      BY <2>2, <2>3, <2>4
    <2> HIDE DEF D
    <2>6. /\ D \o C \in Seq(S) /\ Len(D \o C) = Len(D) + Len(C)
          /\ \A i \in 1 .. Len(D) + Len(C) : (D \o C)[i] = IF i <= Len(D) THEN D[i] ELSE C[i - Len(D)]
      BY <2>1, <2>5, ConcatProperties
    <2>7. \A i \in 1 .. Len(D \o C) : AccountOf((D \o C)[i]) = now
      BY <1>9, <2>3, <2>5, <2>6
    <2>8. QED BY <2>7 DEF D
  <1>11. Polled(by).states = A \o B \o C BY PolledInSteps DEF A, B, C
  <1>12. QED BY <1>7, <1>8, <1>10, <1>11 DEF now, f

\* A process that works counts on.
LEMMA WorkedTruth ==
  ASSUME NodeInv, TimelineInv, Works
  PROVE  /\ running \in Procs /\ Truth(running)' \in Accounts
         /\ Truth(running)'.transitions \in [NodeStates -> Nat]
         /\ Valid(Truth(running)') /\ Before(Truth(running), Truth(running)')
         /\ \A s \in NodeStates :
              Truth(running).transitions[s] <= Truth(running)'.transitions[s]
         /\ \A p \in Procs \ {running} : Truth(p)' = Truth(p)
  <1>0. running # 0 /\ running \in 0 .. MaxProcs BY DEF Works, NodeInv
  <1>1. running \in Procs BY <1>0, DashboardBounds DEF Procs
  <1>2. node \in [Procs -> Nodes] /\ node[running] \in Nodes BY <1>1 DEF NodeInv
  <1> DEFINE x == node[running]
             y == node'[running]
  <1>3. /\ \A p \in Procs \ {running} : node'[p] = node[p]
        /\ \/ y.transitions = x.transitions /\ y.state = x.state
           \/ \E s \in NodeStates \ {x.state} :
                y.state = s /\ y.transitions = [x.transitions EXCEPT ![s] = @ + 1]
    <2>1. CASE \E n \in {x.counter - 1, x.counter + 1} \cap Nat :
                 node' = [node EXCEPT ![running].counter = n, ![running].moves = @ + 1]
      BY <1>1, <1>2, <2>1 DEF Nodes
    <2>2. CASE \E s \in NodeStates \ {x.state} :
                 node' = [node EXCEPT ![running].state = s, ![running].moves = @ + 1,
                                      ![running].transitions[s] = @ + 1]
      <3>1. PICK s \in NodeStates \ {x.state} :
                 node' = [node EXCEPT ![running].state = s, ![running].moves = @ + 1,
                                      ![running].transitions[s] = @ + 1]
        BY <2>2
      <3>2. \A p \in Procs \ {running} : node'[p] = node[p] BY <1>2, <3>1
      <3>3. y.state = s BY <1>1, <1>2, <3>1 DEF Nodes
      <3>4. y.transitions = [x.transitions EXCEPT ![s] = @ + 1]
        BY <1>1, <1>2, <3>1 DEF Nodes
      <3>5. QED BY <3>2, <3>3, <3>4
    <2>3. QED BY <2>1, <2>2 DEF Works
  <1>4. x.transitions \in [NodeStates -> Nat] /\ x.state \in NodeStates BY <1>2 DEF Nodes
  <1>5. Truth(running) = [transitions |-> x.transitions, server |-> x.state]
    BY DEF Truth
  <1>6. Truth(running)' = [transitions |-> y.transitions, server |-> y.state]
    BY DEF Truth, Works
  <1> HIDE DEF x, y
  <1>7. y.transitions \in [NodeStates -> Nat] /\ y.state \in NodeStates
    <2>1. CASE y.transitions = x.transitions /\ y.state = x.state BY <1>4, <2>1
    <2>2. CASE \E s \in NodeStates \ {x.state} :
                 y.state = s /\ y.transitions = [x.transitions EXCEPT ![s] = @ + 1]
      <3>1. PICK s \in NodeStates \ {x.state} :
              y.state = s /\ y.transitions = [x.transitions EXCEPT ![s] = @ + 1]
        BY <2>2
      <3>2. x.transitions[s] + 1 \in Nat BY <1>4
      <3>3. QED BY <1>4, <3>1, <3>2
    <2>3. QED BY <1>3, <2>1, <2>2
  <1>8. /\ \A s \in NodeStates : x.transitions[s] <= y.transitions[s]
        /\ x.state # y.state => x.transitions[y.state] + 1 <= y.transitions[y.state]
    <2>1. CASE y.transitions = x.transitions /\ y.state = x.state BY <1>4, <2>1
    <2>2. CASE \E s \in NodeStates \ {x.state} :
                 y.state = s /\ y.transitions = [x.transitions EXCEPT ![s] = @ + 1]
      <3>1. PICK s \in NodeStates \ {x.state} :
              y.state = s /\ y.transitions = [x.transitions EXCEPT ![s] = @ + 1]
        BY <2>2
      <3>2. \A r \in NodeStates : x.transitions[r] \in Nat BY <1>4
      <3>3. y.transitions[s] = x.transitions[s] + 1 BY <1>4, <3>1
      <3>4. \A r \in NodeStates \ {s} : y.transitions[r] = x.transitions[r] BY <1>4, <3>1
      <3>5. QED BY <3>1, <3>2, <3>3, <3>4
    <2>3. QED BY <1>3, <2>1, <2>2
  <1>9. Before(Truth(running), Truth(running)') BY <1>5, <1>6, <1>8 DEF Before
  <1>10. Valid(Truth(running)')
    <2>1. x.transitions[x.state] >= 1
      <3>1. Valid(Truth(running)) /\ Told(Truth(running)) BY <1>1, TruthIsAccount DEF TimelineInv
      <3>2. QED BY <1>5, <3>1 DEF Valid
    <2>2. y.transitions[y.state] >= 1 BY <1>4, <1>7, <1>8, <2>1
    <2>3. QED BY <1>6, <1>7, <2>2 DEF Valid
  <1>11. Truth(running)' \in Accounts
    BY <1>6, <1>7 DEF Accounts, Counters, Servers
  <1>12. \A p \in Procs \ {running} : Truth(p)' = Truth(p) BY <1>3 DEF Truth
  <1>13. QED BY <1>1, <1>5, <1>6, <1>7, <1>8, <1>9, <1>10, <1>11, <1>12

\* What comes before it comes before it still.
LEMMA WorksInOrder ==
  ASSUME NodeInv, MonitorInv, TimelineInv, Works
  PROVE  TimelineInv'
  <1>0. /\ UNCHANGED <<running, started, log, phase, attached, state, ui>>
        /\ running # 0 /\ started \in 0 .. MaxProcs /\ running = started
        /\ attached \in 0 .. started /\ (phase # "off" => attached # 0)
    BY DEF Works, NodeInv, MonitorInv
  <1>1. state \in States(Me) BY DEF MonitorInv
  <1>2. \A p \in Procs : Truth(p) \in Accounts /\ Told(Truth(p)) BY TruthIsAccount
  <1>3. /\ running \in Procs /\ Truth(running)' \in Accounts
        /\ Truth(running)'.transitions \in [NodeStates -> Nat]
        /\ Valid(Truth(running)') /\ Before(Truth(running), Truth(running)')
        /\ \A s \in NodeStates :
             Truth(running).transitions[s] <= Truth(running)'.transitions[s]
        /\ \A p \in Procs \ {running} : Truth(p)' = Truth(p)
    BY WorkedTruth
  <1>4. \A p \in Procs : p = running => Truth(p)' = Truth(running)' BY <1>0 DEF Truth
  <1>5. phase # "off" => Truth(attached)' = [transitions |-> node'[attached].transitions,
                                             server |-> node'[attached].state]
    BY <1>0 DEF Truth
  <1>6. \A p : Truth(p)' = [transitions |-> node'[p].transitions, server |-> node'[p].state]
    BY DEF Truth
  <1>7. ASSUME NEW p \in Procs, NEW b, b.transitions \in Counters, Before(b, Truth(p))
        PROVE  Before(b, Truth(p)')
    <2>1. CASE p = running
      <3>1. Before(b, Truth(running)) BY <1>7, <2>1
      <3>2. /\ Truth(running).transitions \in Counters /\ Valid(Truth(running))
            /\ Told(Truth(running)) /\ Truth(running)'.transitions \in Counters
        BY <1>2, <1>3 DEF Accounts, TimelineInv
      <3>3. Before(b, Truth(running)') BY <1>3, <1>7, <3>1, <3>2, BeforeIsTransitive
      <3>4. Truth(p)' = Truth(running)' BY <1>4, <2>1
      <3>5. QED BY <3>3, <3>4
    <2>2. CASE p # running
      <3>1. Truth(p)' = Truth(p) BY <1>3, <2>2
      <3>2. QED BY <1>7, <3>1
    <2>3. QED BY <2>1, <2>2
  <1>8. ASSUME NEW p \in Procs PROVE Valid(Truth(p)')
    <2>1. CASE p = running
      <3>1. Truth(p)' = Truth(running)' BY <1>4, <2>1
      <3>2. QED BY <1>3, <3>1
    <2>2. CASE p # running
      <3>1. Truth(p)' = Truth(p) BY <1>3, <2>2
      <3>2. QED BY <3>1 DEF TimelineInv
    <2>3. QED BY <2>1, <2>2
  <1>9. InOrder(log[running], Truth(running)')
    <2>1. InOrder(log[running], Truth(running)) BY <1>0 DEF TimelineInv
    <2>2. ASSUME NEW i \in 1 .. Len(log[running]) PROVE Before(log[running][i], Truth(running)')
      <3>1. log[running] \in Seq(Snapshots(From(running))) BY <1>3 DEF NodeInv
      <3>2. log[running][i] \in Snapshots(From(running)) BY <3>1, ElementOfSeq
      <3>3. log[running][i].transitions \in Counters BY <3>2 DEF Snapshots
      <3>4. QED BY <1>3, <1>4, <1>7, <2>1, <3>3 DEF InOrder
    <2>3. QED BY <2>1, <2>2 DEF InOrder
  <1>10. ASSUME phase # "off", OwnAccount PROVE OwnAccount'
    <2>1. attached \in Procs BY <1>0, <1>10, DashboardBounds DEF Procs
    <2>2. /\ state.transitions \in Counters
          /\ Seen(ui.timeline).transitions \in Counters
      BY <1>1, <1>10 DEF States, OwnAccount, Fine, Timelines, Seen
    <2>3. Before(state, Truth(attached)) /\ Before(Seen(ui.timeline), Truth(attached))
      BY <1>10 DEF OwnAccount
    <2>4. \A b : b.transitions \in Counters /\ Before(b, Truth(attached)) =>
                Before(b, [transitions |-> node'[attached].transitions,
                           server |-> node'[attached].state])
      BY <1>6, <1>7, <2>1
    <2>5. /\ Before(state, Truth(attached)')
          /\ Before(Seen(ui.timeline), Truth(attached)')
      BY <1>5, <1>10, <2>2, <2>3, <2>4
    <2>6. QED BY <1>0, <1>10, <2>5 DEF OwnAccount
  <1>11. ASSUME phase # "off", ForeignAccount PROVE ForeignAccount'
    <2> DEFINE q == state.accountingOf
    <2>1. q \in Procs \ {attached} /\ q \in Mine BY <1>1, <1>11 DEF ForeignAccount, States, Me
    <2>2. attached # running /\ attached \in Procs
      BY <1>0, <1>11, <2>1, DashboardBounds DEF Mine, From, Procs
    <2>3. Truth(attached)' = Truth(attached) BY <1>3, <1>5, <1>6, <1>11, <2>2
    <2>4. Heard(AccountOf(state))' = Heard(AccountOf(state))
      BY <1>0, <2>3 DEF Heard, AccountOf
    <2>5. \A s \in NodeStates : state.transitions[s] <= Truth(q).transitions[s]
      BY <1>11 DEF ForeignAccount
    <2>6. \A s \in NodeStates :
            state.transitions[s] <= node'[q].transitions[s]
      <3>1. state.transitions \in [NodeStates -> Nat]
        BY <1>1, <1>11, CountersAreTold DEF ForeignAccount, States, Told
      <3>2. CASE q = running
        <4>1. /\ Truth(running).transitions \in [NodeStates -> Nat]
              /\ Truth(running)'.transitions \in [NodeStates -> Nat]
          BY <1>2, <1>3, CountersAreTold DEF Accounts, Told
        <4>2. Truth(running)'.transitions = node'[q].transitions BY <1>0, <3>2 DEF Truth
        <4>3. \A s \in NodeStates :
                /\ state.transitions[s] <= Truth(running).transitions[s]
                /\ Truth(running).transitions[s] <= Truth(running)'.transitions[s]
          BY <1>3, <2>5, <3>2
        <4>4. QED BY <3>1, <4>1, <4>2, <4>3
      <3>3. CASE q # running
        <4>1. \A p \in Procs \ {running} : node'[p].transitions = node[p].transitions
          BY <1>3, <1>6 DEF Truth
        <4>2. node'[q].transitions = node[q].transitions BY <2>1, <3>3, <4>1
        <4>3. QED BY <2>5, <4>2 DEF Truth
      <3>4. QED BY <3>2, <3>3
    <2>7. \A s \in NodeStates : state'.transitions[s] <= Truth(state.accountingOf)'.transitions[s]
      BY <1>0, <2>6 DEF Truth
    <2>8. QED BY <1>0, <1>11, <2>4, <2>7 DEF ForeignAccount, Procs
  <1>12. QED
    BY <1>0, <1>8, <1>9, <1>10, <1>11 DEF TimelineInv, Procs

\* The monitor goes on, and nobody but the process attached to has answered.
LEMMA OwnGoesOn ==
  ASSUME TimelineInv, UNCHANGED <<nodeVars, attached>>, phase # "off", Valid(state'),
         \A p \in Procs : started < p => log'[p] = <<>>,
         running # 0 => InOrder(log'[running], Truth(running)),
         running = attached => \A i \in 1 .. Len(log'[attached]) : Before(log'[attached][i], state'),
         state'.accountingOf \in {0, attached},
         Fine(ui'.timeline), Before(state', Truth(attached)),
         Before(Seen(ui'.timeline), state'), Before(Seen(ui'.timeline), Truth(attached))
  PROVE  TimelineInv'
  <1>1. \A p : Truth(p)' = Truth(p) BY DEF Truth, nodeVars
  <1>2. \A p \in Procs : Valid(Truth(p)) BY DEF TimelineInv
  <1>3. Truth(attached)' = Truth(attached) /\ Truth(running)' = Truth(running)
    BY DEF Truth, nodeVars
  <1>4. OwnAccount' BY <1>3 DEF OwnAccount, nodeVars
  <1>5. QED BY <1>1, <1>2, <1>3, <1>4 DEF TimelineInv, Procs, nodeVars

\* It goes on, and a successor has answered.
LEMMA ForeignGoesOn ==
  ASSUME TimelineInv, UNCHANGED <<nodeVars, attached>>, Valid(state'),
         phase' \in {"syncing", "monitoring", "ended"},
         \A p \in Procs : started < p => log'[p] = <<>>,
         running # 0 => InOrder(log'[running], Truth(running)),
         state'.accountingOf \in Procs \ {attached}, Told(state'),
         \A s \in NodeStates : state'.transitions[s] <= Truth(state'.accountingOf).transitions[s],
         Mixed(Heard(AccountOf(state')), 0, ui'.timeline)
  PROVE  TimelineInv'
  <1>1. \A p : Truth(p)' = Truth(p) BY DEF Truth, nodeVars
  <1>2. \A p \in Procs : Valid(Truth(p)) BY DEF TimelineInv
  <1>3. Truth(attached)' = Truth(attached) /\ Truth(running)' = Truth(running)
    BY DEF Truth, nodeVars
  <1>4. Heard(AccountOf(state))' = Heard(AccountOf(state')) BY <1>3 DEF Heard, AccountOf
  <1>5. \A s \in NodeStates :
          state'.transitions[s] <= Truth(state.accountingOf)'.transitions[s]
    BY DEF Truth, nodeVars
  <1>6. ForeignAccount' BY <1>4, <1>5 DEF ForeignAccount, Procs
  <1>7. QED BY <1>1, <1>2, <1>3, <1>6 DEF TimelineInv, Procs, nodeVars

\* The state is told, and knows what it knew.
LEMMA TellingInOrder ==
  ASSUME NodeInv, MonitorInv, TimelineInv, UNCHANGED <<nodeVars, attached, log>>,
         phase # "off", phase' = phase \/ phase' = "ended", state' \in States(Me),
         AccountOf(state') = AccountOf(state), state'.accountingOf = state.accountingOf,
         ui'.timeline = Notified(ui, <<state'>>).timeline
  PROVE  TimelineInv'
  <1> DEFINE now == AccountOf(state)
  <1>1. /\ state.transitions = now.transitions /\ state.server = now.server
        /\ state'.transitions = now.transitions /\ state'.server = now.server
    BY DEF AccountOf
  <1>2. state \in States(Me) /\ attached \in Procs
    BY DashboardBounds DEF MonitorInv, NodeInv, Procs
  <1>3. now \in Accounts BY <1>2 DEF States, Accounts, AccountOf
  <1>4. <<state'>> \in Seq(States(Me)) /\ Len(<<state'>>) = 1 /\ <<state'>>[1] = state'
    OBVIOUS
  <1>5. \A i \in 1 .. Len(<<state'>>) : AccountOf(<<state'>>[i]) = now BY <1>4
  <1>6. AccountOf(state') = now OBVIOUS
  <1> HIDE DEF now
  <1>7. Valid(now) /\ Valid(state') BY <1>1 DEF TimelineInv, Valid, Told
  <1>8. /\ \A p \in Procs : started < p => log'[p] = <<>>
        /\ running # 0 => InOrder(log'[running], Truth(running))
    BY DEF TimelineInv
  <1>9. CASE OwnAccount
    <2>1. /\ Before(now, Truth(attached)) /\ Fine(ui.timeline)
          /\ Before(Seen(ui.timeline), now) /\ Before(Seen(ui.timeline), Truth(attached))
          /\ running = attached => \A i \in 1 .. Len(log[attached]) : Before(log[attached][i], now)
      BY <1>1, <1>9 DEF OwnAccount, Before, Told
    <2>2. /\ Fine(ui'.timeline) /\ Before(Seen(ui'.timeline), now)
          /\ Before(Seen(ui'.timeline), Truth(attached))
      BY <1>2, <1>3, <1>4, <1>5, <1>7, <2>1, TellingKeepsBehind
    <2>3. /\ Before(state', Truth(attached)) /\ Before(Seen(ui'.timeline), state')
          /\ running = attached => \A i \in 1 .. Len(log'[attached]) : Before(log'[attached][i], state')
      BY <1>1, <2>1, <2>2 DEF Before, Told
    <2>4. state'.accountingOf \in {0, attached} BY <1>9 DEF OwnAccount
    <2>5. QED BY <1>7, <1>8, <2>2, <2>3, <2>4, OwnGoesOn
  <1>10. CASE ForeignAccount
    <2>1. /\ Told(now) /\ Told(state') /\ Mixed(Heard(now), 0, ui.timeline)
          /\ state'.accountingOf \in Procs \ {attached}
          /\ phase' \in {"syncing", "monitoring", "ended"}
      BY <1>1, <1>10 DEF ForeignAccount, Told, now
    <2>2. Mixed(Heard(now), 0, ui'.timeline)
      BY <1>2, <1>3, <1>4, <1>5, <1>7, <2>1, TellingKeepsMixed
    <2>3. \A s \in NodeStates : state'.transitions[s] <= Truth(state'.accountingOf).transitions[s]
      BY <1>1, <1>10 DEF ForeignAccount
    <2>4. Mixed(Heard(AccountOf(state')), 0, ui'.timeline) BY <1>6, <2>2
    <2>5. QED BY <1>7, <1>8, <2>1, <2>3, <2>4, ForeignGoesOn
  <1>11. QED BY <1>9, <1>10 DEF TimelineInv

\* The first answer comes before anyone else's.
LEMMA FirstInOrder ==
  ASSUME NodeInv, MonitorInv, TimelineInv, FirstInfo
  PROVE  TimelineInv'
  <1>0. /\ phase = "opening" /\ phase' = "syncing"
        /\ UNCHANGED <<nodeVars, attached, log, ui>>
    BY DEF FirstInfo
  <1>1. OwnAccount BY <1>0 DEF TimelineInv, ForeignAccount
  <1>2. attached \in Procs BY <1>0, DashboardBounds DEF MonitorInv, NodeInv, Procs
  <1>3. /\ \A p \in Procs : started < p => log'[p] = <<>>
        /\ running # 0 => InOrder(log'[running], Truth(running))
    BY <1>0 DEF TimelineInv
  <1>4. CASE state' = state
    <2>1. Valid(state') BY <1>4 DEF TimelineInv
    <2>2. QED BY <1>0, <1>1, <1>3, <1>4, <2>1, OwnGoesOn DEF OwnAccount
  <1>5. CASE state' \in {Ingested(p) : p \in Sources}
    <2>1. PICK p \in Sources : state' = Ingested(p) BY <1>5
    <2>2. p \in Procs /\ (p = attached \/ p = running) BY <1>0, SourcesAreMine
    <2>3. /\ state'.transitions = Truth(p).transitions /\ state'.server = Truth(p).server
          /\ state'.accountingOf = p
      BY <1>0, <2>1, IngestedOwn DEF Truth
    <2>4. Truth(p) \in Accounts /\ Told(Truth(p)) /\ Valid(Truth(p))
      BY <2>2, TruthIsAccount DEF TimelineInv
    <2>5. Valid(state') /\ Told(state') BY <2>3, <2>4 DEF Valid, Told
    <2>6. CASE p = attached
      <3> DEFINE b == Truth(attached)
      <3>1. /\ state'.transitions = b.transitions /\ state'.server = b.server
            /\ b.transitions \in Counters
        BY <2>3, <2>4, <2>6 DEF Accounts
      <3>2. /\ Fine(ui.timeline) /\ Before(Seen(ui.timeline), b)
            /\ running = attached => InOrder(log[attached], b)
        BY <1>1, <1>2, DashboardBounds DEF OwnAccount, TimelineInv, Procs
      <3> HIDE DEF b
      <3>3. Before(state', b) BY <3>1, BeforeIsReflexive
      <3>4. Before(Seen(ui.timeline), state') BY <3>1, <3>2 DEF Before, Told
      <3>5. running = attached => \A i \in 1 .. Len(log[attached]) : Before(log[attached][i], state')
        BY <3>1, <3>2 DEF Before, Told, InOrder
      <3>6. QED
        BY <1>0, <1>3, <2>3, <2>5, <2>6, <3>2, <3>3, <3>4, <3>5, OwnGoesOn DEF b
    <2>7. CASE p # attached
      <3>1. Truth(p).transitions \in [NodeStates -> Nat]
        BY <2>4, CountersAreTold DEF Accounts, Told
      <3>2. \A s \in NodeStates : state'.transitions[s] <= Truth(state'.accountingOf).transitions[s]
        BY <2>3, <3>1
      <3>3. Mixed(Heard(AccountOf(state')), 0, ui'.timeline)
        BY <1>0, <1>1 DEF Mixed, Heard, OwnAccount
      <3>4. QED BY <1>0, <1>3, <2>2, <2>3, <2>5, <2>7, <3>2, <3>3, ForeignGoesOn
    <2>8. QED BY <2>6, <2>7
  <1>6. QED BY <1>4, <1>5 DEF FirstInfo

\* A round, with or without a snapshot: it was begun when the process attached to ran,
\* so nobody else had answered.
LEMMA RoundInOrder ==
  ASSUME NodeInv, MonitorInv, TimelineInv, phase \in {"polling", "refreshing"},
         UNCHANGED <<nodeVars, attached>>, phase' \in {"syncing", "monitoring"},
         NEW by, Answering(by), state' = Polled(by).last,
         NEW ss \in Seq(States(Me)), ui' = Notified(ui, ss),
         \A i \in 1 .. Len(ss) : AccountOf(ss[i]) = AccountOf(Finished(by)),
         log' = log \/ Logged(SnapshotOf(Polled(by).latest, Polled(by).last))
  PROVE  TimelineInv'
  <1> DEFINE f == Finished(by)
             now == AccountOf(f)
  <1>0. /\ phase # "off" /\ attached \in Procs /\ attached <= started
        /\ Truth(attached) \in Accounts /\ Told(Truth(attached))
    BY DashboardBounds, TruthIsAccount DEF MonitorInv, NodeInv, Procs
  <1>1. OwnAccount BY DEF TimelineInv, ForeignAccount
  <1>2. /\ now \in Accounts /\ Valid(now)
        /\ \/ now = AccountOf(state) /\ f.accountingOf = state.accountingOf
           \/ f.accountingOf \in Sources /\ now = Truth(f.accountingOf)
    BY <1>0, PolledAccount
  <1>3. Polled(by).last = f BY PolledInSteps
  <1>4. Polled(by).latest \in Latests(Mine) /\ Polled(by).last \in States(Me)
    BY <1>0, PolledOwn
  <1>5. \A i \in 1 .. Len(ss) : AccountOf(ss[i]) = now OBVIOUS
  <1>6. /\ state'.transitions = now.transitions /\ state'.server = now.server
        /\ state'.accountingOf = f.accountingOf /\ AccountOf(state') = now
    BY <1>3 DEF AccountOf
  <1> HIDE DEF now, f
  <1>7. Valid(state') BY <1>2, <1>6 DEF Valid, Told
  <1>8. ASSUME running = attached =>
                 /\ Before(now, Truth(attached))
                 /\ \A i \in 1 .. Len(log[attached]) : Before(log[attached][i], now)
        PROVE  /\ \A p \in Procs : started < p => log'[p] = <<>>
               /\ running # 0 => InOrder(log'[running], Truth(running))
               /\ running = attached =>
                    \A i \in 1 .. Len(log'[attached]) : Before(log'[attached][i], state')
    <2>1. CASE log' = log
      <3>1. running = attached => \A i \in 1 .. Len(log[attached]) : Before(log[attached][i], state')
        BY <1>6, <1>8 DEF Before, Told
      <3>2. QED BY <2>1, <3>1 DEF TimelineInv
    <2>2. CASE Logged(SnapshotOf(Polled(by).latest, Polled(by).last))
      <3> DEFINE s == SnapshotOf(Polled(by).latest, Polled(by).last)
      <3>1. Me.own = Mine BY DEF Me
      <3> HIDE DEF Mine, Me
      <3>2. s \in Snapshots(Mine) BY <1>4, <3>1, SnapshotIsOwn
      <3>3. s.transitions = now.transitions /\ s.server = now.server
        BY <1>6 DEF SnapshotOf
      <3>4. Logged(s) BY <2>2
      <3> HIDE DEF s
      <3>5. running = attached =>
              /\ Valid(s) /\ Before(s, Truth(attached))
              /\ \A i \in 1 .. Len(log[attached]) : Before(log[attached][i], s)
        BY <1>2, <1>8, <3>3 DEF Valid, Before, Told
      <3>6. state'.transitions = s.transitions /\ state'.server = s.server BY <1>6, <3>3
      <3>7. UNCHANGED nodeVars OBVIOUS
      <3>8. QED BY <1>0, <3>2, <3>4, <3>5, <3>6, <3>7, LoggedInOrder
    <2>3. QED BY <2>1, <2>2
  <1>9. /\ Fine(ui.timeline) /\ Before(state, Truth(attached))
        /\ Before(Seen(ui.timeline), state) /\ Before(Seen(ui.timeline), Truth(attached))
        /\ running = attached =>
             /\ \A i \in 1 .. Len(log[attached]) : Before(log[attached][i], state)
             /\ InOrder(log[attached], Truth(attached))
    BY <1>0, <1>1, DashboardBounds DEF OwnAccount, TimelineInv, Procs
  <1>10. ASSUME f.accountingOf \in {0, attached}, now = AccountOf(state) \/ now = Truth(attached)
         PROVE  TimelineInv'
    <2>1. /\ Before(now, Truth(attached)) /\ Before(Seen(ui.timeline), now)
          /\ running = attached => \A i \in 1 .. Len(log[attached]) : Before(log[attached][i], now)
      <3>1. CASE now = Truth(attached)
        <4>1. Before(now, now) BY <1>2, BeforeIsReflexive DEF Accounts
        <4>2. QED BY <1>9, <3>1, <4>1 DEF InOrder
      <3>2. CASE now = AccountOf(state)
        <4>1. now.transitions = state.transitions /\ now.server = state.server
          BY <3>2 DEF AccountOf
        <4>2. QED BY <1>9, <4>1 DEF Before, Told
      <3>3. QED BY <1>10, <3>1, <3>2
    <2>2. /\ Fine(ui'.timeline) /\ Before(Seen(ui'.timeline), now)
          /\ Before(Seen(ui'.timeline), Truth(attached))
      BY <1>0, <1>2, <1>5, <1>9, <2>1, TellingKeepsBehind
    <2>3. Before(state', Truth(attached)) /\ Before(Seen(ui'.timeline), state')
      BY <1>6, <2>1, <2>2 DEF Before, Told
    <2>4. state'.accountingOf \in {0, attached} BY <1>6, <1>10
    <2>5. QED BY <1>0, <1>7, <1>8, <2>1, <2>2, <2>3, <2>4, OwnGoesOn
  <1>11. ASSUME f.accountingOf \in Sources \ {attached}, now = Truth(f.accountingOf)
         PROVE  TimelineInv'
    <2>1. f.accountingOf \in Procs /\ f.accountingOf = running /\ running # attached
      BY <1>0, <1>11, SourcesAreMine
    <2>2. Told(now) /\ now.transitions \in [NodeStates -> Nat]
      BY <1>2, <1>11, <2>1, TruthIsAccount, CountersAreTold DEF Accounts, Told
    <2>3. Mixed(Heard(now), 0, ui.timeline) BY <1>9 DEF Mixed, Heard
    <2>4. Mixed(Heard(now), 0, ui'.timeline) BY <1>0, <1>2, <1>5, <2>2, <2>3, TellingKeepsMixed
    <2>5. \A s \in NodeStates : state'.transitions[s] <= Truth(state'.accountingOf).transitions[s]
      BY <1>6, <1>11, <2>2
    <2>6. Told(state') BY <1>6, <2>2 DEF Told
    <2>7. phase' \in {"syncing", "monitoring", "ended"} OBVIOUS
    <2>8. Mixed(Heard(AccountOf(state')), 0, ui'.timeline) BY <1>6, <2>4
    <2>9. state'.accountingOf \in Procs \ {attached} BY <1>6, <1>11, <2>1
    <2>10. QED BY <1>7, <1>8, <2>1, <2>5, <2>6, <2>7, <2>8, <2>9, ForeignGoesOn
  <1>12. state.accountingOf \in {0, attached} BY <1>1 DEF OwnAccount
  <1>13. QED BY <1>2, <1>10, <1>11, <1>12

\* The events are replayed from the first: nothing is known of the accounting yet.
LEMMA OpeningInOrder ==
  ASSUME NodeInv, MonitorInv, TimelineInv, OpenSession
  PROVE  TimelineInv'
  <1> DEFINE ss == log[attached]
             told == Notified(ui, <<state>>)
             filled == IF ss = <<>> THEN state ELSE HydratedState(state, ss, attached)
  <1>0. /\ phase = "attaching" /\ phase # "off" /\ running = attached
        /\ UNCHANGED <<nodeVars, attached, log>> /\ state' = filled
    BY DEF OpenSession
  <1>1. attached \in Procs /\ running # 0
    BY <1>0, DashboardBounds DEF MonitorInv, NodeInv, Procs
  <1>2. ss \in Seq(Snapshots(Mine)) BY <1>1 DEF NodeInv, Mine
  <1>3. Me.own = Mine /\ Me.process = attached /\ attached \in Mine
    BY <1>0, DashboardBounds DEF Me, Mine, From, MonitorInv, NodeInv
  <1>4. /\ state \in States(Me) /\ OwnWidgets(Me, 0, ui)
        /\ state.transitions = NoTransitions /\ state.accountingOf = 0
    BY <1>0 DEF MonitorInv
  <1> HIDE DEF Mine, Me
  <1>5. OwnWidgets(Me, 0, told) BY <1>4, ToldOwn
  <1>6. filled.transitions = NoTransitions /\ filled.accountingOf = 0
    <2>1. CASE ss = <<>> BY <1>4, <2>1
    <2>2. CASE ss # <<>>
      <3> DEFINE r == HydratedState(state, ss, attached)
      <3>1. r.transitions = NoTransitions BY <1>4 DEF HydratedState, States
      <3>2. r.accountingOf = 0 BY <1>4 DEF HydratedState, States
      <3>3. QED BY <2>2, <3>1, <3>2
    <2>3. QED BY <2>1, <2>2
  <1> HIDE DEF filled
  \* Who knows nothing leaves the timeline as it is.
  <1>7. \A u, s : s.transitions = NoTransitions => Notified(u, <<s>>).timeline = u.timeline
    <2> SUFFICES ASSUME NEW u, NEW s, s.transitions = NoTransitions
                 PROVE  Notified(u, <<s>>).timeline = u.timeline
      OBVIOUS
    <2>1. Notified(u, <<s>>) = Observe(u, s) BY NotifiedFolds, Observing!FoldOfOne
    <2>2. Observe(u, s).timeline = UpdateStateAccounting(u.timeline, s.transitions, s.server)
      BY DEF Observe
    <2>3. DOMAIN s.transitions = {} BY DEF NoTransitions
    <2>4. UpdateStateAccounting(u.timeline, s.transitions, s.server) = u.timeline
      BY <2>3 DEF UpdateStateAccounting
    <2>5. QED BY <2>1, <2>2, <2>4
  <1>8. InOrder(ss, Truth(attached)) BY <1>0, <1>1 DEF TimelineInv
  <1>9. OwnAccount BY <1>0 DEF TimelineInv, ForeignAccount
  <1>10. Fine(ui'.timeline) /\ Before(Seen(ui'.timeline), Truth(attached))
    <2>1. CASE ss = <<>>
      <3>1. ui' = Notified(told, <<state>>) BY <2>1 DEF OpenSession
      <3>2. ui'.timeline = ui.timeline BY <1>4, <1>7, <3>1
      <3>3. QED BY <1>9, <3>2 DEF OwnAccount
    <2>2. CASE ss # <<>>
      <3> DEFINE w == HydratedWidgets(told, ss, attached)
      <3>1. ui' = Notified(w, <<filled>>) BY <2>2 DEF OpenSession, filled
      <3>2. w.timeline = RefilledTimeline(ss) BY <1>5, HydratedFields DEF OwnWidgets
      <3>3. ui'.timeline = RefilledTimeline(ss) BY <1>6, <1>7, <3>1, <3>2
      <3>4. QED BY <1>2, <1>8, <3>3, ReplayedIsBehind
    <2>3. QED BY <2>1, <2>2
  <1>11. ~Told(state') /\ state'.accountingOf = 0 BY <1>0, <1>6 DEF Told
  <1>12. /\ Valid(state') /\ \A b : Before(state', b) /\ Before(b, state')
    BY <1>11 DEF Valid, Before
  <1>13. /\ \A p \in Procs : started < p => log'[p] = <<>>
         /\ running # 0 => InOrder(log'[running], Truth(running))
    BY <1>0 DEF TimelineInv
  <1>14. QED BY <1>0, <1>10, <1>11, <1>12, <1>13, OwnGoesOn

\* Every step keeps the order.
LEMMA TimelineNextInv ==
  NodeInv /\ MonitorInv /\ TimelineInv /\ [DashboardNext]_vars => TimelineInv'
  <1> SUFFICES ASSUME NodeInv, MonitorInv, TimelineInv, [DashboardNext]_vars
               PROVE  TimelineInv'
    OBVIOUS
  <1>0. /\ attached \in 0 .. started /\ (attached = 0 <=> phase = "off")
        /\ started \in 0 .. MaxProcs /\ running \in {0, started}
        /\ state \in States(Me) /\ OwnWidgets(Me, 0, ui)
    BY DEF MonitorInv, NodeInv
  <1>1. phase # "off" => attached \in Procs /\ attached <= started
    BY <1>0, DashboardBounds DEF Procs
  <1>2. state.transitions \in Counters BY <1>0 DEF States
  \* Nothing is known, of this process or another one.
  <1>3. ASSUME UNCHANGED <<nodeVars, log>>, state' = InitialState, ui'.timeline = NoTimeline,
               phase' # "off" => attached' \in Procs
        PROVE  TimelineInv'
    <2>1. \A p : Truth(p)' = Truth(p) BY <1>3 DEF Truth, nodeVars
    <2>2. ~Told(state') /\ Valid(state') /\ state'.accountingOf = 0
      BY <1>3 DEF InitialState, Told, Valid
    <2>3. Fine(ui'.timeline) /\ \A b : Before(Seen(ui'.timeline), b)
      BY <1>3, NoTimelineIsFine
    <2>4. \A b : Before(state', b) /\ Before(b, state') BY <2>2 DEF Before
    <2>5. OwnAccount' BY <2>2, <2>3, <2>4 DEF OwnAccount
    <2>6. Truth(running)' = Truth(running) BY <1>3 DEF Truth, nodeVars
    <2>7. QED BY <1>3, <2>1, <2>2, <2>5, <2>6 DEF TimelineInv, Procs, nodeVars
  <1>4. ASSUME UNCHANGED <<nodeVars, log, attached, state, ui>>,
               phase' = phase \/ phase \notin {"off", "syncing", "monitoring", "ended"},
               phase' # "off" => phase # "off"
        PROVE  TimelineInv'
    <2>1. \A p : Truth(p)' = Truth(p) BY <1>4 DEF Truth, nodeVars
    <2>2. Truth(attached)' = Truth(attached) /\ Truth(running)' = Truth(running)
      BY <1>4 DEF Truth, nodeVars
    <2>3. OwnAccount => OwnAccount' BY <1>4, <2>2 DEF OwnAccount, nodeVars
    <2>4. ForeignAccount => ForeignAccount'
      <3>1. Heard(AccountOf(state))' = Heard(AccountOf(state))
        BY <1>4, <2>2 DEF Heard, AccountOf
      <3>2. Truth(state.accountingOf)' = Truth(state.accountingOf)
        BY <1>4 DEF Truth, nodeVars
      <3>3. QED BY <1>4, <3>1, <3>2 DEF ForeignAccount, Procs
    <2>5. QED BY <1>4, <2>1, <2>2, <2>3, <2>4 DEF TimelineInv, Procs, nodeVars
  <1>5. CASE Start
    <2>0. /\ running' = started + 1 /\ started' = started + 1
          /\ UNCHANGED <<node, log, phase, attached, state, ui>>
          /\ started' \in Procs /\ started < started'
      BY <1>0, <1>5, DashboardBounds DEF Start, Procs
    <2>1. \A p : Truth(p)' = Truth(p) BY <2>0 DEF Truth
    <2>2. Truth(attached)' = Truth(attached) BY <2>0 DEF Truth
    <2>3. running' # attached' BY <1>0, <2>0
    <2>4. OwnAccount => OwnAccount' BY <2>0, <2>2, <2>3 DEF OwnAccount
    <2>5. ForeignAccount => ForeignAccount'
      <3>1. Heard(AccountOf(state))' = Heard(AccountOf(state))
        BY <2>0, <2>2 DEF Heard, AccountOf
      <3>2. Truth(state.accountingOf)' = Truth(state.accountingOf) BY <2>0 DEF Truth
      <3>3. QED BY <2>0, <3>1, <3>2 DEF ForeignAccount, Procs
    <2>6. InOrder(log[running], Truth(running))'
      <3>1. log[started'] = <<>> BY <2>0 DEF TimelineInv
      <3>2. log'[running'] = <<>> BY <2>0, <3>1
      <3>3. QED BY <3>2 DEF InOrder
    <2>7. \A p \in Procs : started' < p => log[p] = <<>>
      BY <1>0, <2>0 DEF TimelineInv, Procs
    <2>8. QED BY <2>0, <2>1, <2>4, <2>5, <2>6, <2>7 DEF TimelineInv, Procs
  <1>6. CASE Die
    <2>0. running' = 0 /\ UNCHANGED <<started, node, log, phase, attached, state, ui>>
      BY <1>6 DEF Die
    <2>1. \A p : Truth(p)' = Truth(p) BY <2>0 DEF Truth
    <2>2. Truth(attached)' = Truth(attached) BY <2>0 DEF Truth
    <2>3. phase # "off" => running' # attached' BY <1>0, <2>0
    <2>4. OwnAccount /\ phase # "off" => OwnAccount' BY <2>0, <2>2, <2>3 DEF OwnAccount
    <2>5. ForeignAccount => ForeignAccount'
      <3>1. Heard(AccountOf(state))' = Heard(AccountOf(state))
        BY <2>0, <2>2 DEF Heard, AccountOf
      <3>2. Truth(state.accountingOf)' = Truth(state.accountingOf) BY <2>0 DEF Truth
      <3>3. QED BY <2>0, <3>1, <3>2 DEF ForeignAccount, Procs
    <2>6. QED BY <2>0, <2>1, <2>4, <2>5 DEF TimelineInv, Procs
  <1>7. CASE Works BY <1>7, WorksInOrder
  <1>8. CASE Launch
    <2>1. state = InitialState /\ ui = FreshWidgets BY <1>8 DEF Launch, MonitorInv
    <2>2. attached' \in Procs BY <1>0, <1>8, DashboardBounds DEF Launch, Procs
    <2>3. QED BY <1>3, <1>8, <2>1, <2>2 DEF Launch, FreshWidgets
  <1>9. CASE Reattach
    <2>1. ui' = Notified(Reset(ui), <<InitialState>>) /\ state' = InitialState
      BY <1>9 DEF Reattach
    <2>2. Notified(Reset(ui), <<InitialState>>) = Observe(Reset(ui), InitialState)
      BY NotifiedFolds, Observing!FoldOfOne
    <2>3. Reset(ui).timeline = NoTimeline BY DEF Reset, FreshWidgets
    <2>4. Observe(Reset(ui), InitialState).timeline = NoTimeline
      BY <2>3 DEF Observe, InitialState, UpdateStateAccounting, NoTransitions
    <2>5. attached' \in Procs BY <1>0, <1>9, DashboardBounds DEF Reattach, Procs
    <2>6. QED BY <1>3, <1>9, <2>1, <2>2, <2>4, <2>5 DEF Reattach
  <1>10. CASE OpenSession BY <1>10, OpeningInOrder
  <1>11. CASE FirstInfo BY <1>11, FirstInOrder
  <1>12. CASE EndIncarnation
    <2>1. ui'.timeline = Notified(ui, <<state'>>).timeline /\ state' = state
      BY <1>12 DEF EndIncarnation
    <2>2. phase # "off" /\ phase' = "ended" BY <1>12 DEF EndIncarnation, Awake
    <2>3. QED BY <1>0, <1>12, <2>1, <2>2, TellingInOrder DEF EndIncarnation
  <1>13. CASE Quit
    <2>1. phase' = "off" BY <1>13 DEF Quit
    <2>2. QED BY <1>3, <1>13, <2>1 DEF Quit, FreshWidgets
  <1>14. CASE BeginRound
    <2>1. OwnAccount
      <3>1. phase # "off" /\ running = attached BY <1>14 DEF BeginRound
      <3>2. ~ForeignAccount
        <4>1. SUFFICES ASSUME ForeignAccount PROVE FALSE
          OBVIOUS
        <4>2. state.accountingOf \in Mine /\ state.accountingOf \in Procs \ {attached}
          BY <1>0, <4>1 DEF ForeignAccount, States, Me
        <4>3. QED BY <1>0, <1>1, <3>1, <4>2, DashboardBounds DEF Mine, From, Procs
      <3>3. QED BY <3>1, <3>2 DEF TimelineInv
    <2>2. UNCHANGED <<nodeVars, log, attached, state, ui>> /\ phase # "off"
      BY <1>14 DEF BeginRound
    <2>3. /\ \A p \in Procs : started < p => log'[p] = <<>>
          /\ running # 0 => InOrder(log'[running], Truth(running))
          /\ Valid(state')
      BY <2>2 DEF TimelineInv
    <2>4. QED BY <2>1, <2>2, <2>3, OwnGoesOn DEF OwnAccount
  <1>15. CASE Poll
    <2>1. PICK by \in Answers :
            /\ state' = Polled(by).last
            /\ ui' = Notified(ui, Polled(by).states \o <<Polled(by).last, Polled(by).last>>)
            /\ Logged(SnapshotOf(Polled(by).latest, Polled(by).last))
      BY <1>15 DEF Poll
    <2>2. /\ phase = "polling" /\ phase # "off" /\ UNCHANGED <<nodeVars, attached>>
          /\ phase' = "syncing" /\ Answering(by)
      BY <1>15, AnswersAreOfSources DEF Poll
    <2> DEFINE A == Polled(by).states
               z == Polled(by).last
               B == <<z, z>>
               now == AccountOf(Finished(by))
    <2>3. /\ A \in Seq(States(Me)) /\ z \in States(Me) /\ AccountOf(z) = now
          /\ \A i \in 1 .. Len(A) : AccountOf(A[i]) = now
      BY <2>2, PolledOwn, PolledAccount, PolledInSteps
    <2> HIDE DEF A, z, now
    <2>4. B \in Seq(States(Me)) /\ Len(B) = 2 /\ \A i \in 1 .. 2 : AccountOf(B[i]) = now
      BY <2>3
    <2> HIDE DEF B
    <2>5. /\ A \o B \in Seq(States(Me)) /\ Len(A \o B) = Len(A) + Len(B)
          /\ \A i \in 1 .. Len(A) + Len(B) : (A \o B)[i] = IF i <= Len(A) THEN A[i] ELSE B[i - Len(A)]
      BY <2>3, <2>4, ConcatProperties
    <2>6. Len(A) \in Nat BY <2>3, LenProperties
    <2>7. \A i \in 1 .. Len(A \o B) : AccountOf((A \o B)[i]) = now
      BY <2>3, <2>4, <2>5, <2>6
    <2>8. ui' = Notified(ui, A \o B) BY <2>1 DEF A, B, z
    <2>9. QED BY <2>1, <2>2, <2>5, <2>7, <2>8, RoundInOrder DEF now
  <1>16. CASE Synced
    <2>1. PICK by \in [{"server_info"} -> Sources] :
            state' = Polled(by).last /\ ui' = Notified(ui, Polled(by).states)
      BY <1>16 DEF Synced
    <2>2. /\ phase = "polling" /\ phase # "off" /\ UNCHANGED <<nodeVars, attached, log>>
          /\ phase' = "monitoring" /\ Answering(by)
      BY <1>16, AnswersAreOfSources DEF Synced
    <2>3. /\ Polled(by).states \in Seq(States(Me))
          /\ \A i \in 1 .. Len(Polled(by).states) :
               AccountOf(Polled(by).states[i]) = AccountOf(Finished(by))
      BY <2>2, PolledOwn, PolledAccount
    <2>4. QED BY <2>1, <2>2, <2>3, RoundInOrder
  <1>17. CASE Refresh
    <2>1. PICK by \in Answers :
            state' = Polled(by).last /\ ui' = Notified(ui, Polled(by).states)
      BY <1>17 DEF Refresh
    <2>2. /\ phase = "refreshing" /\ phase # "off" /\ UNCHANGED <<nodeVars, attached, log>>
          /\ phase' = "monitoring" /\ Answering(by)
      BY <1>17, AnswersAreOfSources DEF Refresh
    <2>3. /\ Polled(by).states \in Seq(States(Me))
          /\ \A i \in 1 .. Len(Polled(by).states) :
               AccountOf(Polled(by).states[i]) = AccountOf(Finished(by))
      BY <2>2, PolledOwn, PolledAccount
    <2>4. QED BY <2>1, <2>2, <2>3, RoundInOrder
  <1>18. CASE LedgerClosed
    <2>1. /\ phase # "off" /\ UNCHANGED <<nodeVars, attached, phase, state, ui>>
          /\ Logged(SnapshotOf(latest, state))
      BY <1>18 DEF LedgerClosed, Awake
    <2> DEFINE s == SnapshotOf(latest, state)
    <2>2. latest \in Latests(Mine) /\ Me.own = Mine BY DEF MonitorInv, Me
    <2>3. s.transitions = state.transitions /\ s.server = state.server BY DEF SnapshotOf
    <2> HIDE DEF Mine, Me
    <2>4. s \in Snapshots(Mine) BY <1>0, <2>2, SnapshotIsOwn
    <2>5. Logged(s) BY <2>1
    <2> HIDE DEF s
    <2>6. running = attached => OwnAccount
      <3>1. SUFFICES ASSUME running = attached, ForeignAccount PROVE FALSE
        BY <2>1 DEF TimelineInv
      <3>2. state.accountingOf \in Mine /\ state.accountingOf \in Procs \ {attached}
        BY <1>0, <2>2, <3>1 DEF ForeignAccount, States
      <3>3. QED BY <1>0, <1>1, <2>1, <3>1, <3>2, DashboardBounds DEF Mine, From, Procs
    <2>7. running = attached =>
            /\ Valid(s) /\ Before(s, Truth(attached))
            /\ \A i \in 1 .. Len(log[attached]) : Before(log[attached][i], s)
      BY <2>3, <2>6 DEF TimelineInv, OwnAccount, Valid, Before, Told
    <2>8. /\ \A p \in Procs : started < p => log'[p] = <<>>
          /\ running # 0 => InOrder(log'[running], Truth(running))
          /\ running = attached => \A i \in 1 .. Len(log'[attached]) : Before(log'[attached][i], state)
      BY <1>1, <2>1, <2>3, <2>4, <2>5, <2>7, LoggedInOrder
    <2>9. Valid(state') BY <2>1 DEF TimelineInv
    <2>10. CASE OwnAccount BY <2>1, <2>8, <2>9, <2>10, OwnGoesOn DEF OwnAccount
    <2>11. CASE ForeignAccount BY <2>1, <2>8, <2>9, <2>11, ForeignGoesOn DEF ForeignAccount
    <2>12. QED BY <2>1, <2>10, <2>11 DEF TimelineInv
  <1>19. CASE HeapSample
    <2>1. PICK s \in samples :
            \/ UNCHANGED <<latest, state, ui, fed>>
            \/ /\ s # None /\ state' = [state EXCEPT !.heap = s]
               /\ ui' = Notified(ui, <<state'>>)
      BY <1>19 DEF HeapSample
    <2>2. s \in Data(0 .. MaxProcs) /\ phase # "off"
      BY DashboardBounds DEF MonitorInv, Data, Procs, None
    <2>3. UNCHANGED <<nodeVars, log, phase, attached>> BY <1>19 DEF HeapSample
    <2>4. CASE UNCHANGED <<latest, state, ui, fed>> BY <1>4, <2>3, <2>4
    <2>5. CASE state' = [state EXCEPT !.heap = s] /\ ui' = Notified(ui, <<state'>>)
      <3>1. /\ state' \in States(Me) /\ AccountOf(state') = AccountOf(state)
            /\ state'.accountingOf = state.accountingOf
        BY <1>0, <2>2, <2>5 DEF States, AccountOf
      <3>2. QED BY <2>2, <2>3, <2>5, <3>1, TellingInOrder
    <2>6. QED BY <2>1, <2>4, <2>5
  <1>20. CASE RefreshBreakdown
    <2>1. /\ Me.process = attached /\ attached \in Me.own /\ phase # "off"
      BY <1>0, <1>20, DashboardBounds DEF Me, Mine, From, RefreshBreakdown, Awake
    <2> HIDE DEF Me
    <2>2. /\ state' \in States(Me) /\ AccountOf(state') = AccountOf(state)
          /\ state'.accountingOf = state.accountingOf
      BY <1>0, <1>20, <2>1 DEF RefreshBreakdown, States, AccountOf, Panels
    <2>3. QED BY <1>20, <2>1, <2>2, TellingInOrder DEF RefreshBreakdown
  <1>21. CASE UpdateMemoryStats
    <2> DEFINE u == Notified(ui, <<state>>)
               g == u.graph \cup {attached}
    <2>1. OwnWidgets(Me, 0, u) BY <1>0, ToldOwn
    <2>2. ui' = [u EXCEPT !.graph = g] /\ state' = state BY <1>21 DEF UpdateMemoryStats
    <2> HIDE DEF u, g
    <2>3. ui'.timeline = u.timeline BY <2>1, <2>2 DEF OwnWidgets, Widgets
    <2>4. ui'.timeline = Notified(ui, <<state'>>).timeline BY <2>2, <2>3 DEF u
    <2>5. phase # "off" /\ UNCHANGED <<nodeVars, attached, log, phase>>
      BY <1>21 DEF UpdateMemoryStats, Awake
    <2>6. QED BY <1>0, <2>2, <2>4, <2>5, TellingInOrder
  <1>22. CASE Tell
    <2>1. /\ phase # "off" /\ UNCHANGED <<nodeVars, attached, log, phase>> /\ state' = state
          /\ ui'.timeline = Notified(ui, <<state'>>).timeline
      BY <1>22 DEF Tell
    <2>2. QED BY <1>0, <2>1, TellingInOrder
  <1>23. CASE UNCHANGED vars BY <1>4, <1>23 DEF vars, nodeVars
  <1>24. QED
    BY <1>5, <1>6, <1>7, <1>8, <1>9, <1>10, <1>11, <1>12, <1>13, <1>14, <1>15, <1>16, <1>17,
       <1>18, <1>19, <1>20, <1>21, <1>22, <1>23
       DEF DashboardNext

\* The order in every reachable state.
LEMMA TimelineInvariance == DashboardSpec => []TimelineInv
  BY DataInvariance, TimelineInitInv, TimelineNextInv, PTL DEF DashboardSpec

\* For any states, counters and number of notifications, with a timeline replayed from
\* the events of earlier runs and with answers of a successor, it shows no visit that
\* neither the node nor the successor that answered has made (_update_state_accounting,
\* _hydrate_ui_from_events).
THEOREM TimelineInventsNothing == DashboardSpec => []NoInventedTransitions
  <1>1. NodeInv /\ MonitorInv /\ TimelineInv => NoInventedTransitions
    <2> SUFFICES ASSUME NodeInv, MonitorInv, TimelineInv, phase # "off", NEW s \in NodeStates
                 PROVE  Visits(ui.timeline.log, s) <=
                          Made(attached, s)
                            + IF state.accountingOf = attached THEN 0
                              ELSE Made(state.accountingOf, s)
      BY DEF NoInventedTransitions
    <2> DEFINE tl == ui.timeline
               q == state.accountingOf
               made == node[attached].transitions[s]
    <2>1. attached \in Procs /\ attached # 0 /\ 0 \notin Procs
      BY DashboardBounds DEF MonitorInv, NodeInv, Procs
    <2>2. \A p \in Procs : /\ Truth(p) \in Accounts /\ Told(Truth(p))
                           /\ node[p].transitions[s] \in Nat
      BY TruthIsAccount DEF NodeInv, Nodes
    <2>3. Made(attached, s) = made /\ made \in Nat BY <2>1, <2>2 DEF Made
    <2>4. ASSUME Fine(tl), Before(Seen(tl), Truth(attached))
          PROVE  Visits(tl.log, s) \in Nat /\ Visits(tl.log, s) <= made
      <3>1. \A x \in NodeStates :
              Visits(tl.log, x) \in Nat /\ Visits(tl.log, x) <= Truth(attached).transitions[x]
        BY <2>1, <2>2, <2>4, ShowsNoMore
      <3>2. QED BY <3>1 DEF Truth
    <2> HIDE DEF tl, made
    <2>5. CASE OwnAccount
      <3>1. q \in {0, attached} BY <2>5 DEF OwnAccount
      <3>2. Visits(tl.log, s) \in Nat /\ Visits(tl.log, s) <= made
        BY <2>4, <2>5 DEF OwnAccount, tl
      <3>3. (IF q = attached THEN 0 ELSE Made(q, s)) = 0 BY <3>1 DEF Made
      <3>4. QED BY <2>3, <3>2, <3>3 DEF tl
    <2>6. CASE ForeignAccount
      <3>1. /\ q \in Procs \ {attached} /\ Told(state)
            /\ state.transitions[s] <= node[q].transitions[s]
            /\ Mixed(Heard(AccountOf(state)), 0, tl)
        BY <2>6 DEF ForeignAccount, Truth, tl
      <3>2. Made(q, s) = node[q].transitions[s] /\ node[q].transitions[s] \in Nat
        BY <2>1, <2>2, <3>1 DEF Made
      <3>3. CASE Fine(tl) /\ Before(Seen(tl), Truth(attached))
        <4>1. Visits(tl.log, s) \in Nat /\ Visits(tl.log, s) <= made BY <2>4, <3>3
        <4>2. QED BY <2>3, <3>1, <3>2, <4>1 DEF tl
      <3>4. CASE /\ tl \in Timelines
                 /\ Visits(tl.log, s) <= Truth(attached).transitions[s] + AccountOf(state).transitions[s]
        <4>1. tl.log \in Seq(Visit) BY <3>4 DEF Timelines
        <4>2. Visits(tl.log, s) \in Nat BY <4>1, VisitsAreFew
        <4>3. Truth(attached).transitions[s] = made BY DEF Truth, made
        <4>4. AccountOf(state).transitions[s] = state.transitions[s] BY DEF AccountOf
        <4>5. state.transitions[s] \in Nat
          BY <3>1, CountersAreTold DEF MonitorInv, States, Told
        <4>6. QED BY <2>3, <3>1, <3>2, <3>4, <4>2, <4>3, <4>4, <4>5 DEF tl
      <3>5. QED BY <3>1, <3>3, <3>4 DEF Mixed, Heard
    <2>7. QED BY <2>5, <2>6 DEF TimelineInv
  <1>2. QED BY <1>1, DataInvariance, TimelineInvariance, PTL

-------------------------------------------------------------------------------
(* The histories of the metrics *)

Signs == {-1, 0, 1}
EntryFields == {"first", "last", "everDecreased", "deltas", "trend"}

\* An entry whose window and arrow agree with its never having fallen.
Sane(e) ==
  /\ EntryFields \subseteq DOMAIN e
  /\ e.first \in Nat /\ e.last \in Nat /\ e.everDecreased \in BOOLEAN
  /\ e.deltas \in Seq(Signs) /\ Len(e.deltas) <= TrendWindow
  /\ e.trend \in {"none", "up", "down"}
  /\ ~e.everDecreased => e.trend # "down" /\ \A i \in 1 .. Len(e.deltas) : e.deltas[i] # -1

\* The newest of a sequence are of it.
LEMMA NewestAreFew ==
  ASSUME NEW S, NEW s \in Seq(S), NEW n \in Nat
  PROVE  /\ Newest(s, n) \in Seq(S) /\ Len(Newest(s, n)) <= n
         /\ \A i \in 1 .. Len(Newest(s, n)) : \E j \in 1 .. Len(s) : Newest(s, n)[i] = s[j]
  <1>1. Len(s) \in Nat BY LenProperties
  <1>2. CASE Len(s) <= n
    <2>1. Newest(s, n) = s BY <1>2 DEF Newest
    <2>2. QED BY <1>2, <2>1
  <1>3. CASE ~(Len(s) <= n)
    <2> DEFINE a == Len(s) - n + 1
               b == Len(s)
               r == Newest(s, n)
    <2>1. r = SubSeq(s, a, b) BY <1>3 DEF Newest
    <2>2. a \in Int /\ b \in Int /\ a >= 1 /\ b - a + 1 = n /\ b = Len(s) BY <1>1, <1>3
    <2> HIDE DEF a, b, r
    <2>3. \A i \in a .. b : s[i] \in S BY <2>2, ElementOfSeq
    <2>4. /\ r \in Seq(S) /\ Len(r) = IF a <= b THEN b - a + 1 ELSE 0
          /\ \A i \in 1 .. b - a + 1 : r[i] = s[a + i - 1]
      BY <2>1, <2>2, <2>3, SubSeqProperties
    <2>5. Len(r) <= n BY <2>2, <2>4
    <2>6. ASSUME NEW i \in 1 .. Len(r) PROVE \E j \in 1 .. Len(s) : r[i] = s[j]
      <3>1. i \in 1 .. b - a + 1 BY <2>2, <2>4
      <3>2. a + i - 1 \in 1 .. Len(s) BY <2>2, <3>1
      <3>3. QED BY <2>4, <3>1, <3>2
    <2>7. QED BY <2>4, <2>5, <2>6 DEF r
  <1>4. QED BY <1>2, <1>3

\* A new entry.
LEMMA NewEntryIsSane ==
  ASSUME NEW v \in Nat
  PROVE  /\ Sane(NewEntry(v)) /\ NewEntry(v).first = v /\ NewEntry(v).last = v
         /\ ~NewEntry(v).everDecreased
         /\ Sane(NewPoolEntry(v))
  <1>1. <<>> \in Seq(Signs) /\ Len(<<>>) = 0 /\ 0 <= TrendWindow
    BY TrendBounds
  <1>2. QED BY <1>1 DEF NewEntry, NewPoolEntry, Sane, EntryFields

\* A step of an entry.
LEMMA StepEntryIsSane ==
  ASSUME NEW e, Sane(e), NEW v \in Nat
  PROVE  /\ Sane(StepEntry(e, v))
         /\ StepEntry(e, v).first = e.first /\ StepEntry(e, v).last = v
         /\ StepEntry(e, v).everDecreased <=> e.everDecreased \/ v < e.last
  <1> DEFINE d == Newest(Append(e.deltas, Sign(v - e.last)), TrendWindow)
             g == Sign(v - e.last)
             b == e.everDecreased \/ v < e.last
             r == StepEntry(e, v)
  <1>1. g \in Signs /\ (g = -1 <=> v < e.last) BY DEF Sign, Signs, Sane
  <1>2. e.deltas \in Seq(Signs) /\ TrendWindow \in Nat BY TrendBounds DEF Sane
  <1>3. /\ Append(e.deltas, g) \in Seq(Signs) /\ Len(Append(e.deltas, g)) = Len(e.deltas) + 1
        /\ \A i \in 1 .. Len(e.deltas) : Append(e.deltas, g)[i] = e.deltas[i]
        /\ Append(e.deltas, g)[Len(e.deltas) + 1] = g
        /\ Len(e.deltas) \in Nat
    BY <1>1, <1>2, AppendProperties, LenProperties
  <1>4. /\ d \in Seq(Signs) /\ Len(d) <= TrendWindow
        /\ \A i \in 1 .. Len(d) : \E j \in 1 .. Len(Append(e.deltas, g)) : d[i] = Append(e.deltas, g)[j]
    <2> DEFINE w == Append(e.deltas, g)
    <2>1. w \in Seq(Signs) /\ d = Newest(w, TrendWindow) BY <1>3
    <2> HIDE DEF w, d
    <2>2. /\ d \in Seq(Signs) /\ Len(d) <= TrendWindow
          /\ \A i \in 1 .. Len(d) : \E j \in 1 .. Len(w) : d[i] = w[j]
      BY <1>2, <2>1, NewestAreFew
    <2>3. QED BY <2>2 DEF w
  <1>5. ASSUME ~b, NEW i \in 1 .. Len(d) PROVE d[i] # -1
    <2>1. PICK j \in 1 .. Len(e.deltas) + 1 : d[i] = Append(e.deltas, g)[j] BY <1>3, <1>4
    <2>2. CASE j = Len(e.deltas) + 1 BY <1>1, <1>3, <1>5, <2>1, <2>2
    <2>3. CASE j # Len(e.deltas) + 1
      <3>1. j \in 1 .. Len(e.deltas) BY <1>3, <2>3
      <3>2. QED BY <1>3, <1>5, <2>1, <3>1 DEF Sane
    <2>4. QED BY <2>2, <2>3
  <1>6. r = [e EXCEPT !.last = v, !.everDecreased = b, !.deltas = d] BY DEF StepEntry
  <1>7. b \in BOOLEAN BY DEF Sane
  <1> HIDE DEF d, b, r
  <1>8. /\ EntryFields \subseteq DOMAIN r
        /\ r.first = e.first /\ r.last = v /\ r.everDecreased = b /\ r.deltas = d
        /\ r.trend = e.trend
    BY <1>6 DEF Sane, EntryFields
  <1>9. ~b => ~e.everDecreased BY DEF b
  <1>10. Sane(r) BY <1>4, <1>5, <1>7, <1>8, <1>9 DEF Sane
  <1>11. QED BY <1>8, <1>10 DEF r, b

\* How often something occurs.
LEMMA TimesIsNat ==
  ASSUME NEW S, NEW s \in Seq(S), NEW x
  PROVE  /\ Times(s, x) \in Nat
         /\ (\A i \in 1 .. Len(s) : s[i] # x) => Times(s, x) = 0
  <1> DEFINE V == {i \in DOMAIN s : s[i] = x}
  <1>1. DOMAIN s = 1 .. Len(s) /\ Len(s) \in Nat BY LenProperties
  <1>2. V \in SUBSET (1 .. Len(s)) /\ IsFiniteSet(1 .. Len(s)) BY <1>1, FS_Interval
  <1>3. IsFiniteSet(V) BY <1>2, FS_Subset
  <1>4. Cardinality(V) \in Nat BY <1>3, FS_CardinalityType
  <1>5. ASSUME \A i \in 1 .. Len(s) : s[i] # x PROVE Cardinality(V) = 0
    <2>1. V = {} BY <1>1, <1>5
    <2>2. QED BY <2>1, FS_EmptySet
  <1>6. QED BY <1>4, <1>5 DEF Times

\* The arrow of an entry that never fell does not point down.
LEMMA LatchedIsSane ==
  ASSUME NEW e, Sane(e)
  PROVE  /\ Sane(Latched(e))
         /\ Latched(e).first = e.first /\ Latched(e).last = e.last
         /\ Latched(e).everDecreased = e.everDecreased
  <1> DEFINE ups == Times(e.deltas, 1)
             downs == Times(e.deltas, -1)
             r == Latched(e)
  <1>1. e.deltas \in Seq(Signs) BY DEF Sane
  <1>2. /\ ups \in Nat /\ downs \in Nat
        /\ ~e.everDecreased => downs = 0
    BY <1>1, TimesIsNat DEF Sane
  <1>3. r = IF Len(e.deltas) < TrendSamples \/ ups + downs = 0 THEN e
            ELSE IF 5 * ups >= 3 * (ups + downs) THEN [e EXCEPT !.trend = "up"]
            ELSE IF 5 * downs >= 3 * (ups + downs) THEN [e EXCEPT !.trend = "down"]
            ELSE e
    BY DEF Latched
  <1> HIDE DEF ups, downs, r
  <1>4. CASE r = e BY <1>4 DEF r
  <1>5. ASSUME NEW t \in {"up", "down"}, r = [e EXCEPT !.trend = t], ~e.everDecreased => t = "up"
        PROVE  /\ Sane(r) /\ r.first = e.first /\ r.last = e.last
               /\ r.everDecreased = e.everDecreased
    <2>1. /\ DOMAIN r = DOMAIN e /\ r.trend = t /\ r.first = e.first /\ r.last = e.last
          /\ r.everDecreased = e.everDecreased /\ r.deltas = e.deltas
      BY <1>5 DEF Sane, EntryFields
    <2>2. QED BY <1>5, <2>1 DEF Sane
  <1>6. CASE r = [e EXCEPT !.trend = "up"] BY <1>5, <1>6 DEF r
  <1>7. CASE r = [e EXCEPT !.trend = "down"] /\ r # e /\ ~(5 * ups >= 3 * (ups + downs)) /\ ups + downs # 0
    <2>1. downs # 0 BY <1>2, <1>7
    <2>2. QED BY <1>2, <1>5, <1>7, <2>1 DEF r
  <1>8. QED BY <1>2, <1>3, <1>4, <1>6, <1>7

\* Some value of the series was below the one before it.
Fell(f) == \E i \in 1 .. Len(f) - 1 : f[i + 1] < f[i]

\* An entry that is of this series.
Follows(e, f) ==
  /\ e.first = f[1] /\ e.last = f[Len(f)]
  /\ e.everDecreased <=> Fell(f)

CountsFollow(h, f) ==
  /\ f \in Seq(Nat)
  /\ DOMAIN h = IF f = <<>> THEN {} ELSE {"n"}
  /\ f # <<>> => Sane(h["n"]) /\ Follows(h["n"], f)

\* Of a class the widget also counts the samples: one, or more than one.
HeapFollows(h, f) ==
  /\ f \in Seq(Nat)
  /\ DOMAIN h = IF f = <<>> THEN {} ELSE {"n"}
  /\ f # <<>> =>
       /\ {"first", "last", "everDecreased", "samples"} \subseteq DOMAIN h["n"]
       /\ h["n"].everDecreased \in BOOLEAN
       /\ Follows(h["n"], f)
       /\ h["n"].samples \in Nat
       /\ Len(f) >= 2 => h["n"].samples >= 2

PoolsSane(h) ==
  /\ DOMAIN h \subseteq {"n"}
  /\ "n" \in DOMAIN h => Sane(h["n"]) /\ "lastDelta" \in DOMAIN h["n"]

\* What there is to learn goes at the end of the series, unless it is there.
LEMMA LearntAtTheEnd ==
  ASSUME NEW f \in Seq(Nat), NEW v \in Nat
  PROVE  /\ Learnt(f, v) \in Seq(Nat) /\ Learnt(f, v) # <<>> /\ Learnt(f, v)[Len(Learnt(f, v))] = v
         /\ f = <<>> => /\ Learnt(f, v)[1] = v /\ Len(Learnt(f, v)) = 1
                        /\ ~Fell(Learnt(f, v))
         /\ f # <<>> => /\ Learnt(f, v)[1] = f[1]
                        /\ Fell(Learnt(f, v)) <=> Fell(f) \/ v < f[Len(f)]
  <1> DEFINE g == Learnt(f, v)
  <1>1. Len(f) \in Nat /\ \A i \in 1 .. Len(f) : f[i] \in Nat BY LenProperties, ElementOfSeq
  <1>2. CASE f # <<>> /\ Last(f) = v
    <2>1. g = f BY <1>2 DEF Learnt
    <2>2. Len(f) \in 1 .. Len(f) BY <1>1, <1>2, EmptySeq
    <2>3. f[Len(f)] = v BY <1>2 DEF Last
    <2>4. QED BY <1>2, <2>1, <2>3
  <1>3. CASE ~(f # <<>> /\ Last(f) = v)
    <2>1. g = Append(f, v) BY <1>3 DEF Learnt
    <2> HIDE DEF g
    <2>2. /\ g \in Seq(Nat) /\ Len(g) = Len(f) + 1 /\ g[Len(f) + 1] = v
          /\ \A i \in 1 .. Len(f) : g[i] = f[i]
      BY <2>1, AppendProperties
    <2>3. g # <<>> BY <1>1, <2>2, EmptySeq
    <2>4. CASE f = <<>>
      <3>1. Len(f) = 0 BY <2>4
      <3>2. ~Fell(g) BY <2>2, <3>1 DEF Fell
      <3>3. QED BY <2>2, <2>3, <2>4, <3>1, <3>2 DEF g
    <2>5. CASE f # <<>>
      <3>1. Len(f) >= 1 BY <1>1, <2>5, EmptySeq
      <3>2. g[1] = f[1] BY <1>1, <2>2, <3>1
      <3>3. ASSUME Fell(f) PROVE Fell(g)
        <4>1. PICK i \in 1 .. Len(f) - 1 : f[i + 1] < f[i] BY <3>3 DEF Fell
        <4>2. i \in 1 .. Len(f) /\ i + 1 \in 1 .. Len(f) /\ i \in 1 .. Len(g) - 1
          BY <1>1, <2>2, <4>1
        <4>3. g[i + 1] < g[i] BY <2>2, <4>1, <4>2
        <4>4. QED BY <4>2, <4>3 DEF Fell
      <3>4. ASSUME v < f[Len(f)] PROVE Fell(g)
        <4>1. Len(f) \in 1 .. Len(g) - 1 BY <1>1, <2>2, <3>1
        <4>2. g[Len(f) + 1] < g[Len(f)] BY <1>1, <2>2, <3>1, <3>4
        <4>3. QED BY <4>1, <4>2 DEF Fell
      <3>5. ASSUME Fell(g), ~Fell(f) PROVE v < f[Len(f)]
        <4>1. PICK i \in 1 .. Len(g) - 1 : g[i + 1] < g[i] BY <3>5 DEF Fell
        <4>2. i \in 1 .. Len(f) BY <1>1, <2>2, <4>1
        <4>3. CASE i = Len(f) BY <2>2, <4>1, <4>2, <4>3
        <4>4. CASE i # Len(f)
          <5>1. i \in 1 .. Len(f) - 1 /\ i + 1 \in 1 .. Len(f) BY <1>1, <4>2, <4>4
          <5>2. f[i + 1] < f[i] BY <2>2, <4>1, <4>2, <5>1
          <5>3. QED BY <3>5, <5>1, <5>2 DEF Fell
        <4>5. QED BY <4>3, <4>4
      <3>6. QED BY <2>2, <2>3, <2>5, <3>2, <3>3, <3>4, <3>5 DEF g
    <2>6. QED BY <2>4, <2>5
  <1>4. QED BY <1>2, <1>3

\* The one metric of a history and of a sample.
CountedEntry(h, v) == IF "n" \in DOMAIN h THEN StepEntry(h["n"], v) ELSE NewEntry(v)
CountedPool(h, v) == IF "n" \in DOMAIN h THEN StepPoolEntry(h["n"], v) ELSE NewPoolEntry(v)
SampledClass(h, v) == IF "n" \in DOMAIN h THEN StepClass(h["n"], v) ELSE NewClass(v)

\* One metric of a history at a time.
LEMMA CounterIsOne ==
  ASSUME NEW h, DOMAIN h \subseteq {"n"}, NEW v
  PROVE  /\ UpdateCounts(h, Counter(v)) = [k \in {"n"} |-> Latched(CountedEntry(h, v))]
         /\ UpdatePools(h, Counter(v)) = [k \in {"n"} |-> Latched(CountedPool(h, v))]
         /\ UpdateSample(h, Counter(v)) = [k \in {"n"} |-> SampledClass(h, v)]
  <1> DEFINE m == Counter(v)
  <1>1. DOMAIN m = {"n"} /\ m["n"] = v /\ DOMAIN h \cup DOMAIN m = {"n"} BY DEF Counter
  <1> HIDE DEF m
  <1>2. Recorded(h, m, NewEntry, StepEntry) =
          [k \in {"n"} |-> CountedEntry(h, v)]
    BY <1>1 DEF Recorded, CountedEntry
  <1>3. Recorded(h, m, NewPoolEntry, StepPoolEntry) =
          [k \in {"n"} |-> CountedPool(h, v)]
    BY <1>1 DEF Recorded, CountedPool
  <1>4. Recorded(h, m, NewClass, StepClass) =
          [k \in {"n"} |-> SampledClass(h, v)]
    BY <1>1 DEF Recorded, SampledClass
  <1>5. QED BY <1>2, <1>3, <1>4 DEF UpdateCounts, UpdatePools, UpdateSample, m

\* The history of a counter goes on with its series.
LEMMA CountsGoOn ==
  ASSUME NEW h, NEW f, CountsFollow(h, f), NEW v \in Nat
  PROVE  CountsFollow(UpdateCounts(h, Counter(v)), Learnt(f, v))
  <1> DEFINE e == CountedEntry(h, v)
             g == Learnt(f, v)
             r == UpdateCounts(h, Counter(v))
             z == Latched(e)
  <1>1. f \in Seq(Nat) /\ DOMAIN h \subseteq {"n"} BY DEF CountsFollow
  <1>2. r = [k \in {"n"} |-> z] BY <1>1, CounterIsOne
  <1>3. /\ g \in Seq(Nat) /\ g # <<>> /\ g[Len(g)] = v
        /\ f = <<>> => g[1] = v /\ ~Fell(g)
        /\ f # <<>> => /\ g[1] = f[1]
                       /\ Fell(g) <=> Fell(f) \/ v < f[Len(f)]
    BY <1>1, LearntAtTheEnd
  <1> HIDE DEF g, r
  <1>4. Sane(e) /\ Follows(e, g)
    <2>1. CASE f = <<>>
      <3>1. e = NewEntry(v) BY <2>1 DEF CountsFollow, CountedEntry
      <3> HIDE DEF e
      <3>2. QED BY <1>3, <2>1, <3>1, NewEntryIsSane DEF Follows
    <2>2. CASE f # <<>>
      <3> DEFINE o == h["n"]
      <3>1. e = StepEntry(o, v) /\ Sane(o) /\ Follows(o, f) BY <2>2 DEF CountsFollow, CountedEntry
      <3> HIDE DEF e, o
      <3>2. /\ Sane(e) /\ e.first = o.first /\ e.last = v
            /\ e.everDecreased <=> o.everDecreased \/ v < o.last
        BY <3>1, StepEntryIsSane
      <3>3. QED BY <1>3, <2>2, <3>1, <3>2 DEF Follows
    <2>3. QED BY <2>1, <2>2
  <1> HIDE DEF e
  <1>5. /\ Sane(z) /\ z.first = e.first /\ z.last = e.last /\ z.everDecreased = e.everDecreased
    BY <1>4, LatchedIsSane
  <1> HIDE DEF z
  <1>6. Follows(z, g) BY <1>4, <1>5 DEF Follows
  <1>7. CountsFollow(r, g) BY <1>2, <1>3, <1>5, <1>6 DEF CountsFollow
  <1>8. QED BY <1>7 DEF r, g

\* That of the pools stays sane.
LEMMA PoolsGoOn ==
  ASSUME NEW h, PoolsSane(h), NEW v \in Nat
  PROVE  PoolsSane(UpdatePools(h, Counter(v)))
  <1> DEFINE e == CountedPool(h, v)
             r == UpdatePools(h, Counter(v))
             z == Latched(e)
  <1>1. DOMAIN h \subseteq {"n"} BY DEF PoolsSane
  <1>2. r = [k \in {"n"} |-> z] BY <1>1, CounterIsOne
  <1> HIDE DEF r
  <1>3. Sane(e) /\ "lastDelta" \in DOMAIN e
    <2>1. CASE "n" \notin DOMAIN h
      <3>1. e = NewPoolEntry(v) BY <2>1 DEF CountedPool
      <3>2. "lastDelta" \in DOMAIN NewPoolEntry(v) BY DEF NewPoolEntry
      <3>3. QED BY <3>1, <3>2, NewEntryIsSane
    <2>2. CASE "n" \in DOMAIN h
      <3> DEFINE o == h["n"]
                 w == StepEntry(o, v)
                 d == IF v # o.last THEN v - o.last ELSE w.lastDelta
      <3>1. e = StepPoolEntry(o, v) /\ Sane(o) /\ "lastDelta" \in DOMAIN o BY <2>2 DEF PoolsSane, CountedPool
      <3>2. e = [w EXCEPT !.lastDelta = d] BY <3>1 DEF StepPoolEntry
      <3>3. DOMAIN w = DOMAIN o BY DEF StepEntry
      <3> HIDE DEF e, o
      <3>4. Sane(w) BY <3>1, StepEntryIsSane
      <3> HIDE DEF w, d
      <3>5. /\ DOMAIN e = DOMAIN w /\ e.first = w.first /\ e.last = w.last
            /\ e.everDecreased = w.everDecreased /\ e.deltas = w.deltas /\ e.trend = w.trend
        BY <3>2, <3>4 DEF Sane, EntryFields
      <3>6. QED BY <3>1, <3>3, <3>4, <3>5 DEF Sane
    <2>3. QED BY <2>1, <2>2
  <1> HIDE DEF e
  <1>4. Sane(z) /\ DOMAIN z = DOMAIN e
    <2>1. DOMAIN Latched(e) = DOMAIN e BY DEF Latched
    <2>2. QED BY <1>3, <2>1, LatchedIsSane
  <1> HIDE DEF z
  <1>5. PoolsSane(r) BY <1>2, <1>3, <1>4 DEF PoolsSane
  <1>6. QED BY <1>5 DEF r

\* That of a class goes on with its series.
LEMMA HeapGoesOn ==
  ASSUME NEW h, NEW f, HeapFollows(h, f), NEW v \in Nat
  PROVE  HeapFollows(UpdateSample(h, Counter(v)), Learnt(f, v))
  <1> DEFINE e == SampledClass(h, v)
             g == Learnt(f, v)
             r == UpdateSample(h, Counter(v))
  <1>1. f \in Seq(Nat) /\ DOMAIN h \subseteq {"n"} BY DEF HeapFollows
  <1>2. r = [k \in {"n"} |-> e] BY <1>1, CounterIsOne
  <1>3. /\ g \in Seq(Nat) /\ g # <<>> /\ g[Len(g)] = v
        /\ f = <<>> => g[1] = v /\ Len(g) = 1 /\ ~Fell(g)
        /\ f # <<>> => /\ g[1] = f[1]
                       /\ Fell(g) <=> Fell(f) \/ v < f[Len(f)]
    BY <1>1, LearntAtTheEnd
  <1> HIDE DEF g, r
  <1>4. /\ {"first", "last", "everDecreased", "samples"} \subseteq DOMAIN e
        /\ e.everDecreased \in BOOLEAN /\ Follows(e, g)
        /\ e.samples \in Nat /\ (Len(g) >= 2 => e.samples >= 2)
    <2>1. CASE f = <<>>
      <3>1. e = NewClass(v) BY <2>1 DEF HeapFollows, SampledClass
      <3> HIDE DEF e
      <3>2. QED BY <1>3, <2>1, <3>1 DEF Follows, NewClass
    <2>2. CASE f # <<>>
      <3> DEFINE o == h["n"]
                 b == o.everDecreased \/ v < o.last
      <3>1. /\ e = StepClass(o, v) /\ Follows(o, f) /\ o.everDecreased \in BOOLEAN
            /\ {"first", "last", "everDecreased", "samples"} \subseteq DOMAIN o
        BY <2>2 DEF HeapFollows, SampledClass
      <3>2. e = [o EXCEPT !.last = v, !.everDecreased = b, !.samples = 2]
        BY <3>1 DEF StepClass
      <3>3. b \in BOOLEAN /\ (b <=> o.everDecreased \/ v < o.last) BY <3>1
      <3> HIDE DEF e, o, b
      <3>4. /\ DOMAIN e = DOMAIN o /\ e.first = o.first /\ e.last = v
            /\ e.everDecreased = b /\ e.samples = 2
        BY <3>1, <3>2
      <3>5. Follows(e, g) BY <1>3, <2>2, <3>1, <3>3, <3>4 DEF Follows
      <3>6. QED BY <3>1, <3>3, <3>4, <3>5
    <2>3. QED BY <2>1, <2>2
  <1> HIDE DEF e
  <1>5. HeapFollows(r, g) BY <1>2, <1>3, <1>4 DEF HeapFollows
  <1>6. QED BY <1>5 DEF r, g

\* The widgets follow the series they were to learn of.
Marked(c, n, u) ==
  /\ DOMAIN u = Widgets
  /\ CountsFollow(u.counts, c.counts) /\ HeapFollows(u.heap, c.heap) /\ PoolsSane(u.pools)
  /\ u.counts = u.countsStats /\ u.pools = u.poolsStats

\* The series end with what the state holds.
Known(c, s) ==
  /\ Has(s, "counts") => c.counts # <<>> /\ Last(c.counts) = s.counts.val
  /\ Has(s, "heap") => c.heap # <<>> /\ Last(c.heap) = s.heap.val

LearntOf(c, s) == [counts |-> LearntCounts(c.counts, s), heap |-> LearntHeap(c.heap, s)]

ObservingMarkers == INSTANCE FoldLaws WITH Op <- Observe, Keeps <- Marked

\* A notification teaches the widgets what the state holds.
LEMMA ObserveMarks ==
  ASSUME NEW own, NEW s \in States(own), NEW c, NEW n, NEW u, Marked(c, n, u), NEW m
  PROVE  Marked(LearntOf(c, s), m, Observe(u, s))
  <1> DEFINE w == Observe(u, s)
             g == LearntCounts(c.counts, s)
             h == LearntHeap(c.heap, s)
  <1>1. s.counts.val \in Nat /\ s.heap.val \in Nat BY DEF States, Data
  <1>2. /\ DOMAIN w = Widgets
        /\ w.counts = IF Has(s, "counts") THEN UpdateCounts(u.counts, Counter(s.counts.val)) ELSE u.counts
        /\ w.countsStats = IF Has(s, "counts") THEN UpdateCounts(u.countsStats, Counter(s.counts.val))
                           ELSE u.countsStats
        /\ w.pools = IF Has(s, "counts") THEN UpdatePools(u.pools, Counter(s.counts.val)) ELSE u.pools
        /\ w.poolsStats = IF Has(s, "counts") THEN UpdatePools(u.poolsStats, Counter(s.counts.val))
                          ELSE u.poolsStats
        /\ w.heap = IF Has(s, "heap") THEN UpdateSample(u.heap, Counter(s.heap.val)) ELSE u.heap
    BY DEF Observe, Has, Widgets
  <1> HIDE DEF w
  <1>3. /\ CountsFollow(u.counts, c.counts) /\ HeapFollows(u.heap, c.heap) /\ PoolsSane(u.pools)
        /\ u.counts = u.countsStats /\ u.pools = u.poolsStats
    BY DEF Marked
  <1>4. CountsFollow(w.counts, g) /\ w.counts = w.countsStats /\ PoolsSane(w.pools) /\ w.pools = w.poolsStats
    <2>1. CASE Has(s, "counts")
      <3>1. g = Learnt(c.counts, s.counts.val) BY <2>1 DEF LearntCounts
      <3>2. CountsFollow(UpdateCounts(u.counts, Counter(s.counts.val)), g)
        BY <1>1, <1>3, <3>1, CountsGoOn
      <3>3. PoolsSane(UpdatePools(u.pools, Counter(s.counts.val))) BY <1>1, <1>3, PoolsGoOn
      <3>4. QED BY <1>2, <1>3, <2>1, <3>2, <3>3
    <2>2. CASE ~Has(s, "counts") BY <1>2, <1>3, <2>2 DEF LearntCounts
    <2>3. QED BY <2>1, <2>2
  <1>5. HeapFollows(w.heap, h)
    <2>1. CASE Has(s, "heap")
      <3>1. h = Learnt(c.heap, s.heap.val) BY <2>1 DEF LearntHeap
      <3>2. HeapFollows(UpdateSample(u.heap, Counter(s.heap.val)), h)
        BY <1>1, <1>3, <3>1, HeapGoesOn
      <3>3. QED BY <1>2, <2>1, <3>2
    <2>2. CASE ~Has(s, "heap") BY <1>2, <1>3, <2>2 DEF LearntHeap
    <2>3. QED BY <2>1, <2>2
  <1> HIDE DEF g, h
  <1>6. LearntOf(c, s).counts = g /\ LearntOf(c, s).heap = h BY DEF LearntOf, g, h
  <1>7. QED BY <1>2, <1>4, <1>5, <1>6 DEF Marked, w

\* It is known from then on, and there is nothing to learn of what is known.
LEMMA LearntIsKnown ==
  ASSUME NEW own, NEW s \in States(own), NEW c, c.counts \in Seq(Nat), c.heap \in Seq(Nat)
  PROVE  /\ Known(LearntOf(c, s), s)
         /\ LearntCounts(c.counts, s) \in Seq(Nat) /\ LearntHeap(c.heap, s) \in Seq(Nat)
         /\ Known(c, s) => LearntCounts(c.counts, s) = c.counts /\ LearntHeap(c.heap, s) = c.heap
  <1>1. s.counts.val \in Nat /\ s.heap.val \in Nat BY DEF States, Data
  <1> DEFINE f == c.counts
             x == s.counts.val
             g == Learnt(f, x)
             h == c.heap
             y == s.heap.val
             k == Learnt(h, y)
  <1>2. g \in Seq(Nat) /\ g # <<>> /\ g[Len(g)] = x BY <1>1, LearntAtTheEnd
  <1>3. k \in Seq(Nat) /\ k # <<>> /\ k[Len(k)] = y BY <1>1, LearntAtTheEnd
  <1>4. f # <<>> /\ Last(f) = x => g = f BY DEF Learnt
  <1>5. h # <<>> /\ Last(h) = y => k = h BY DEF Learnt
  <1> HIDE DEF g, k
  <1>6. Last(g) = x /\ Last(k) = y BY <1>2, <1>3 DEF Last
  <1>7. /\ LearntCounts(f, s) = IF Has(s, "counts") THEN g ELSE f
        /\ LearntHeap(h, s) = IF Has(s, "heap") THEN k ELSE h
    BY DEF LearntCounts, LearntHeap, g, k
  <1>8. Known(LearntOf(c, s), s) BY <1>2, <1>3, <1>6, <1>7 DEF Known, LearntOf
  <1>9. LearntCounts(f, s) \in Seq(Nat) /\ LearntHeap(h, s) \in Seq(Nat)
    BY <1>2, <1>3, <1>7
  <1>10. Known(c, s) => LearntCounts(f, s) = f /\ LearntHeap(h, s) = h
    BY <1>4, <1>5, <1>7 DEF Known
  <1>11. QED BY <1>8, <1>9, <1>10

\* Told of what is known any number of times, the widgets follow the same series.
LEMMA NotifiedMarks ==
  ASSUME NEW own, NEW ss \in Seq(States(own)), NEW c, \A i \in 1 .. Len(ss) : Known(c, ss[i]),
         NEW u, Marked(c, 0, u)
  PROVE  Marked(c, 0, Notified(u, ss))
  <1>1. \A i \in 1 .. Len(ss) : \A y : Marked(c, i - 1, y) => Marked(c, i, Observe(y, ss[i]))
    <2> SUFFICES ASSUME NEW i \in 1 .. Len(ss), NEW y, Marked(c, i - 1, y)
                 PROVE  Marked(c, i, Observe(y, ss[i]))
      OBVIOUS
    <2> DEFINE s == ss[i]
    <2>1. s \in States(own) BY ElementOfSeq
    <2>2. c.counts \in Seq(Nat) /\ c.heap \in Seq(Nat) BY DEF Marked, CountsFollow, HeapFollows
    <2>3. Known(c, s) OBVIOUS
    <2> HIDE DEF s
    <2>4. LearntOf(c, s).counts = c.counts /\ LearntOf(c, s).heap = c.heap
      BY <2>1, <2>2, <2>3, LearntIsKnown DEF LearntOf
    <2>5. Marked(LearntOf(c, s), i, Observe(y, s)) BY <2>1, ObserveMarks
    <2>6. QED BY <2>4, <2>5 DEF Marked, s
  <1>2. Marked(c, 0, u) /\ ss \in Seq(States(own)) OBVIOUS
  <1>3. Marked(c, Len(ss), ObservingMarkers!Folded(u, ss))
    BY <1>1, <1>2, ObservingMarkers!FoldKeeps
  <1>4. Notified(u, ss) = ObservingMarkers!Folded(u, ss)
    BY DEF Notified, ObservingMarkers!Folded, FoldLeft, ObservingMarkers!FoldLeft,
           MapThenFoldSet, ObservingMarkers!MapThenFoldSet, Max, ObservingMarkers!Max
  <1>5. QED BY <1>3, <1>4 DEF Marked

\* A single state.
LEMMA ToldMarks ==
  ASSUME NEW own, NEW s \in States(own), NEW c, NEW n, NEW u, Marked(c, n, u)
  PROVE  /\ Marked(LearntOf(c, s), 0, Notified(u, <<s>>))
         /\ Known(c, s) => Marked(c, 0, Notified(u, <<s>>))
  <1>1. Notified(u, <<s>>) = Observe(u, s) BY NotifiedFolds, Observing!FoldOfOne
  <1>2. Marked(LearntOf(c, s), 0, Observe(u, s)) BY ObserveMarks
  <1>3. c.counts \in Seq(Nat) /\ c.heap \in Seq(Nat) BY DEF Marked, CountsFollow, HeapFollows
  <1>4. Known(c, s) => LearntOf(c, s).counts = c.counts /\ LearntOf(c, s).heap = c.heap
    BY <1>3, LearntIsKnown DEF LearntOf
  <1>5. Known(c, s) => Marked(c, 0, Observe(u, s)) BY <1>2, <1>4 DEF Marked
  <1>6. QED BY <1>1, <1>2, <1>5

\* The metrics a poll's states hold.
LEMMA PolledMetrics ==
  ASSUME NodeInv, MonitorInv, phase # "off", NEW by, Answering(by)
  PROVE  /\ Informed(by).counts = state.counts /\ Informed(by).heap = state.heap
         /\ Counted(by).counts = IF "get_counts" \in DOMAIN by
                                 THEN [of |-> by["get_counts"], val |-> node[by["get_counts"]].counter]
                                 ELSE state.counts
         /\ Counted(by).heap = state.heap
         /\ Finished(by).counts = Counted(by).counts /\ Finished(by).heap = state.heap
  <1>1. state \in States(Me) BY DEF MonitorInv
  <1>2. Informed(by).counts = state.counts /\ Informed(by).heap = state.heap
    <2>1. CASE "server_info" \in DOMAIN by
      <3> DEFINE g == Ingested(by["server_info"])
                 q == [g.panel EXCEPT !["job_types"] = by["server_info"]]
      <3>1. by["server_info"] \in Sources BY <2>1 DEF Answering
      <3>2. g \in States(Me) /\ g.counts = state.counts /\ g.heap = state.heap
        BY <3>1, IngestedOwn
      <3>3. Informed(by) = [g EXCEPT !.panel = q] BY <2>1 DEF Informed
      <3> HIDE DEF g, q
      <3>4. QED BY <3>2, <3>3 DEF States
    <2>2. CASE ~("server_info" \in DOMAIN by) BY <2>2 DEF Informed
    <2>3. QED BY <2>1, <2>2
  <1>3. Informed(by) \in States(Me) /\ Counted(by) \in States(Me) BY PolledOwn
  <1> HIDE DEF Informed
  <1>4. /\ Counted(by).counts = IF "get_counts" \in DOMAIN by
                                THEN [of |-> by["get_counts"], val |-> node[by["get_counts"]].counter]
                                ELSE state.counts
        /\ Counted(by).heap = state.heap
    BY <1>2, <1>3 DEF Counted, States
  <1> HIDE DEF Counted
  <1>5. Finished(by).counts = Counted(by).counts /\ Finished(by).heap = Counted(by).heap
    BY <1>3 DEF Finished, States
  <1>6. QED BY <1>2, <1>4, <1>5

\* A poll teaches the widgets its counts, and no notification of it more than that.
LEMMA PollMarks ==
  ASSUME NodeInv, MonitorInv, phase # "off", NEW by, Answering(by),
         fed \in [counts : Seq(Nat), heap : Seq(Nat)], Marked(fed, 0, ui), Known(fed, state),
         NEW rest \in Seq(States(Me)),
         \A i \in 1 .. Len(rest) :
           rest[i].counts = Finished(by).counts /\ rest[i].heap = Finished(by).heap
  PROVE  /\ FedBy(by) \in [counts : Seq(Nat), heap : Seq(Nat)]
         /\ Marked(FedBy(by), 0, Notified(ui, (ToldFirst(by) \o ToldNext(by)) \o rest))
         /\ Known(FedBy(by), Finished(by))
  <1> DEFINE S == States(Me)
             F == ToldFirst(by)
             N == ToldNext(by)
             i == Informed(by)
             k == Counted(by)
             z == Finished(by)
             b == FedBy(by)
             w == by["get_counts"]
  <1>1. /\ i \in S /\ k \in S /\ z \in S /\ F \in Seq(S) /\ N \in Seq(S)
        /\ state \in S
    BY PolledOwn DEF MonitorInv
  <1>2. i.counts = state.counts /\ i.heap = state.heap /\ k.heap = state.heap
        /\ z.counts = k.counts /\ z.heap = state.heap
        /\ k.counts = IF "get_counts" \in DOMAIN by THEN [of |-> w, val |-> node[w].counter]
                      ELSE state.counts
    BY PolledMetrics
  <1> HIDE DEF i, k, z, S
  <1>3. Marked(fed, 0, Notified(ui, F))
    <2>1. Known(fed, i) BY <1>2 DEF Known, Has
    <2>2. F = IF "server_info" \in DOMAIN by THEN <<i, i>> ELSE <<>> BY DEF ToldFirst, i
    <2> HIDE DEF F
    <2>3. \A j \in 1 .. Len(F) : Known(fed, F[j]) BY <2>1, <2>2
    <2>4. F \in Seq(States(Me)) BY <1>1 DEF S
    <2>5. QED BY <2>3, <2>4, NotifiedMarks
  <1> HIDE DEF F
  <1>4. /\ b \in [counts : Seq(Nat), heap : Seq(Nat)]
        /\ Known(b, k)
        /\ Marked(b, 0, Notified(Notified(ui, F), N))
    <2>1. CASE "get_counts" \in DOMAIN by
      <3>1. w # 0 BY <2>1 DEF Answering, Sources
      <3>2. Has(k, "counts") /\ k.counts.val = node[w].counter BY <1>2, <2>1, <3>1 DEF Has
      <3>3. b = [fed EXCEPT !.counts = Learnt(@, node[w].counter)] BY <2>1 DEF FedBy
      <3>4. b.counts = LearntCounts(fed.counts, k) /\ b.heap = fed.heap
            /\ b = [counts |-> b.counts, heap |-> b.heap]
        BY <3>2, <3>3 DEF LearntCounts
      <3>5. LearntHeap(fed.heap, k) = LearntHeap(fed.heap, state) BY <1>2 DEF LearntHeap, Has
      <3>6. LearntHeap(fed.heap, state) = fed.heap BY <1>1, LearntIsKnown DEF S
      <3>7. b = LearntOf(fed, k) BY <3>4, <3>5, <3>6 DEF LearntOf
      <3>8. N = <<k>> BY <2>1 DEF ToldNext, k
      <3>9. Known(b, k) /\ LearntCounts(fed.counts, k) \in Seq(Nat)
        BY <1>1, <3>7, LearntIsKnown DEF S
      <3> HIDE DEF N, b
      <3>10. Marked(b, 0, Notified(Notified(ui, F), N))
        BY <1>1, <1>3, <3>7, <3>8, ToldMarks DEF S
      <3>11. b \in [counts : Seq(Nat), heap : Seq(Nat)] BY <3>4, <3>9
      <3>12. QED BY <3>9, <3>10, <3>11
    <2>2. CASE ~("get_counts" \in DOMAIN by)
      <3>1. b = fed BY <2>2 DEF FedBy
      <3>2. Known(fed, k) BY <1>2, <2>2 DEF Known, Has
      <3>3. N = <<>> BY <2>2 DEF ToldNext
      <3> HIDE DEF N, b
      <3>4. Notified(Notified(ui, F), N) = Notified(ui, F)
        BY <3>3, NotifiedFolds, Observing!FoldOfNone
      <3>5. QED BY <1>3, <3>1, <3>2, <3>4
    <2>3. QED BY <2>1, <2>2
  <1> HIDE DEF N, b
  <1>5. \A j \in 1 .. Len(rest) : Known(b, rest[j])
    BY <1>2, <1>4 DEF Known, Has, z
  <1>6. Marked(b, 0, Notified(Notified(Notified(ui, F), N), rest))
    BY <1>4, <1>5, NotifiedMarks
  <1>7. Notified(ui, (F \o N) \o rest) = Notified(Notified(Notified(ui, F), N), rest)
    <2>1. F \o N \in Seq(S) /\ rest \in Seq(S) BY <1>1, ConcatProperties DEF S
    <2> DEFINE G == F \o N
    <2>2. Observing!Folded(ui, F \o N) = Observing!Folded(Observing!Folded(ui, F), N)
      BY <1>1, Observing!FoldOfBoth
    <2>3. G \in Seq(S) /\ rest \in Seq(S) BY <2>1
    <2> HIDE DEF G
    <2>4. Observing!Folded(ui, G \o rest) = Observing!Folded(Observing!Folded(ui, G), rest)
      BY <2>3, Observing!FoldOfBoth
    <2>5. QED BY <2>2, <2>4, NotifiedFolds DEF G
  <1>8. Known(b, z) BY <1>2, <1>4 DEF Known, Has
  <1>9. QED BY <1>4, <1>6, <1>7, <1>8 DEF F, N, b, z

\* The series the events of a process teach.
CountsLearnt(f, snapshots) == FoldLeft(LearntCounts, f, snapshots)
SamplesLearnt(snapshots) == FoldLeft(LearntHeap, <<>>, snapshots)
FirstOf(snapshots, n) == SubSeq(snapshots, 1, n)

\* The history refilled from the first events follows the series they teach.
RefillsCounts(c, n, h) ==
  /\ CountsFollow(h, CountsLearnt(c.base, FirstOf(c.snapshots, n)))
  /\ n > 0 /\ Has(c.snapshots[n], "counts") =>
       /\ CountsLearnt(c.base, FirstOf(c.snapshots, n)) # <<>>
       /\ Last(CountsLearnt(c.base, FirstOf(c.snapshots, n))) = c.snapshots[n].counts.val
RefillsHeap(c, n, h) == HeapFollows(h, SamplesLearnt(FirstOf(c.snapshots, n)))

LearningCounts == INSTANCE FoldLaws WITH Op <- LearntCounts, Keeps <- RefillsCounts
LearningHeap == INSTANCE FoldLaws WITH Op <- LearntHeap, Keeps <- RefillsHeap
RefillingCounts == INSTANCE FoldLaws WITH Op <- HydrateCounts, Keeps <- RefillsCounts
RefillingHeap == INSTANCE FoldLaws WITH Op <- HydrateSample, Keeps <- RefillsHeap

\* These are folds as the laws have them.
LEMMA HydrationFolds ==
  /\ \A f, ss : CountsLearnt(f, ss) = LearningCounts!Folded(f, ss)
  /\ \A ss : SamplesLearnt(ss) = LearningHeap!Folded(<<>>, ss)
  /\ \A h, ss : RefilledCounts(h, ss) = RefillingCounts!Folded(h, ss)
  /\ \A ss : RefilledHeap(ss) = RefillingHeap!Folded(NoHistory, ss)
  <1>1. \A f, ss : CountsLearnt(f, ss) = LearningCounts!Folded(f, ss)
    BY DEF CountsLearnt, LearningCounts!Folded, FoldLeft, LearningCounts!FoldLeft, MapThenFoldSet,
           LearningCounts!MapThenFoldSet, Max, LearningCounts!Max
  <1>2. \A ss : SamplesLearnt(ss) = LearningHeap!Folded(<<>>, ss)
    BY DEF SamplesLearnt, LearningHeap!Folded, FoldLeft, LearningHeap!FoldLeft, MapThenFoldSet,
           LearningHeap!MapThenFoldSet, Max, LearningHeap!Max
  <1>3. \A h, ss : RefilledCounts(h, ss) = RefillingCounts!Folded(h, ss)
    BY DEF RefilledCounts, RefillingCounts!Folded, FoldLeft, RefillingCounts!FoldLeft,
           MapThenFoldSet, RefillingCounts!MapThenFoldSet, Max, RefillingCounts!Max
  <1>4. \A ss : RefilledHeap(ss) = RefillingHeap!Folded(NoHistory, ss)
    BY DEF RefilledHeap, RefillingHeap!Folded, FoldLeft, RefillingHeap!FoldLeft,
           MapThenFoldSet, RefillingHeap!MapThenFoldSet, Max, RefillingHeap!Max
  <1>5. QED BY <1>1, <1>2, <1>3, <1>4

\* None of the events, all of them, and one more.
LEMMA FirstOnes ==
  ASSUME NEW S, NEW ss \in Seq(S)
  PROVE  /\ FirstOf(ss, 0) = <<>> /\ FirstOf(ss, Len(ss)) = ss
         /\ \A f : CountsLearnt(f, <<>>) = f
         /\ SamplesLearnt(<<>>) = <<>>
         /\ \A f : \A i \in 1 .. Len(ss) :
              CountsLearnt(f, FirstOf(ss, i)) = LearntCounts(CountsLearnt(f, FirstOf(ss, i - 1)), ss[i])
         /\ \A i \in 1 .. Len(ss) :
              SamplesLearnt(FirstOf(ss, i)) = LearntHeap(SamplesLearnt(FirstOf(ss, i - 1)), ss[i])
  <1>1. FirstOf(ss, 0) = <<>>
    <2>1. SubSeq(ss, 1, 0) = <<>> BY SubSeqEmpty
    <2>2. QED BY <2>1 DEF FirstOf
  <1>2. FirstOf(ss, Len(ss)) = ss BY SubSeqFull DEF FirstOf
  <1>3. \A f : CountsLearnt(f, <<>>) = f BY HydrationFolds, LearningCounts!FoldOfNone
  <1>4. SamplesLearnt(<<>>) = <<>> BY HydrationFolds, LearningHeap!FoldOfNone
  <1>5. ASSUME NEW f, NEW i \in 1 .. Len(ss)
        PROVE  CountsLearnt(f, FirstOf(ss, i)) = LearntCounts(CountsLearnt(f, FirstOf(ss, i - 1)), ss[i])
    <2>1. LearningCounts!Folded(f, SubSeq(ss, 1, i)) =
            LearntCounts(LearningCounts!Folded(f, SubSeq(ss, 1, i - 1)), ss[i])
      BY LearningCounts!FoldOfFirst
    <2>2. QED BY <2>1, HydrationFolds DEF FirstOf
  <1>6. ASSUME NEW i \in 1 .. Len(ss)
        PROVE  SamplesLearnt(FirstOf(ss, i)) = LearntHeap(SamplesLearnt(FirstOf(ss, i - 1)), ss[i])
    <2>1. LearningHeap!Folded(<<>>, SubSeq(ss, 1, i)) =
            LearntHeap(LearningHeap!Folded(<<>>, SubSeq(ss, 1, i - 1)), ss[i])
      BY LearningHeap!FoldOfFirst
    <2>2. QED BY <2>1, HydrationFolds DEF FirstOf
  <1>7. QED BY <1>1, <1>2, <1>3, <1>4, <1>5, <1>6

\* One event refills what it teaches.
LEMMA OneEventRefills ==
  ASSUME NEW own, NEW s \in Snapshots(own)
  PROVE  /\ \A h, f : CountsFollow(h, f) =>
              /\ CountsFollow(HydrateCounts(h, s), LearntCounts(f, s))
              /\ Has(s, "counts") => /\ LearntCounts(f, s) # <<>>
                                     /\ Last(LearntCounts(f, s)) = s.counts.val
         /\ \A h, f : HeapFollows(h, f) => HeapFollows(HydrateSample(h, s), LearntHeap(f, s))
  <1>1. s.counts.val \in Nat /\ s.heap.val \in Nat BY DEF Snapshots, Data
  <1>2. ASSUME NEW h, NEW f, CountsFollow(h, f)
        PROVE  /\ CountsFollow(HydrateCounts(h, s), LearntCounts(f, s))
               /\ Has(s, "counts") => /\ LearntCounts(f, s) # <<>>
                                      /\ Last(LearntCounts(f, s)) = s.counts.val
    <2> DEFINE v == s.counts.val
               g == Learnt(f, v)
    <2>1. CountsFollow(UpdateCounts(h, Counter(v)), g) BY <1>1, <1>2, CountsGoOn
    <2>2. f \in Seq(Nat) BY <1>2 DEF CountsFollow
    <2>3. g # <<>> /\ g[Len(g)] = v BY <1>1, <2>2, LearntAtTheEnd
    <2> HIDE DEF g
    <2>4. Last(g) = v BY <2>3 DEF Last
    <2>5. CASE Has(s, "counts")
      <3>1. LearntCounts(f, s) = g /\ HydrateCounts(h, s) = UpdateCounts(h, Counter(v))
        BY <2>5 DEF LearntCounts, HydrateCounts, g
      <3>2. QED BY <2>1, <2>3, <2>4, <3>1
    <2>6. CASE ~Has(s, "counts")
      <3>1. LearntCounts(f, s) = f /\ HydrateCounts(h, s) = h
        BY <2>6 DEF LearntCounts, HydrateCounts
      <3>2. QED BY <1>2, <2>6, <3>1
    <2>7. QED BY <2>5, <2>6
  <1>3. ASSUME NEW h, NEW f, HeapFollows(h, f)
        PROVE  HeapFollows(HydrateSample(h, s), LearntHeap(f, s))
    <2> DEFINE v == s.heap.val
    <2>1. HeapFollows(UpdateSample(h, Counter(v)), Learnt(f, v)) BY <1>1, <1>3, HeapGoesOn
    <2>2. CASE Has(s, "heap")
      <3>1. LearntHeap(f, s) = Learnt(f, v) /\ HydrateSample(h, s) = UpdateSample(h, Counter(v))
        BY <2>2 DEF LearntHeap, HydrateSample
      <3>2. QED BY <2>1, <3>1
    <2>3. CASE ~Has(s, "heap")
      <3>1. LearntHeap(f, s) = f /\ HydrateSample(h, s) = h
        BY <2>3 DEF LearntHeap, HydrateSample
      <3>2. QED BY <1>3, <3>1
    <2>4. QED BY <2>2, <2>3
  <1>4. QED BY <1>2, <1>3

\* All events do.
LEMMA EventsRefill ==
  ASSUME NEW own, NEW ss \in Seq(Snapshots(own)), NEW h, NEW f, CountsFollow(h, f)
  PROVE  /\ CountsFollow(RefilledCounts(h, ss), CountsLearnt(f, ss))
         /\ HeapFollows(RefilledHeap(ss), SamplesLearnt(ss))
         /\ ss # <<>> /\ Has(Last(ss), "counts") =>
              /\ CountsLearnt(f, ss) # <<>>
              /\ Last(CountsLearnt(f, ss)) = Last(ss).counts.val
  <1> DEFINE c == [base |-> f, snapshots |-> ss]
             S == Snapshots(own)
             n == Len(ss)
  <1>0. c.base = f /\ c.snapshots = ss /\ ss \in Seq(S) /\ n \in Nat BY LenProperties
  <1> HIDE DEF c, S
  <1>1. RefillsCounts(c, 0, h)
    <2>1. CountsLearnt(f, FirstOf(ss, 0)) = f BY <1>0, FirstOnes
    <2>2. QED BY <1>0, <2>1 DEF RefillsCounts
  <1>2. RefillsHeap(c, 0, NoHistory)
    <2>1. SamplesLearnt(FirstOf(ss, 0)) = <<>> BY <1>0, FirstOnes
    <2>2. DOMAIN NoHistory = {} /\ <<>> \in Seq(Nat) BY DEF NoHistory
    <2>3. QED BY <1>0, <2>1, <2>2 DEF RefillsHeap, HeapFollows
  <1>3. ASSUME NEW i \in 1 .. n, NEW y, RefillsCounts(c, i - 1, y)
        PROVE  RefillsCounts(c, i, HydrateCounts(y, ss[i]))
    <2> DEFINE g == CountsLearnt(f, FirstOf(ss, i - 1))
               r == CountsLearnt(f, FirstOf(ss, i))
               s == ss[i]
    <2>1. s \in Snapshots(own) /\ i > 0 BY <1>0, ElementOfSeq
    <2>2. CountsFollow(y, g) BY <1>0, <1>3 DEF RefillsCounts
    <2>3. r = LearntCounts(g, s) BY <1>0, FirstOnes
    <2> HIDE DEF g, r, s
    <2>4. /\ CountsFollow(HydrateCounts(y, s), r)
          /\ Has(s, "counts") => r # <<>> /\ Last(r) = s.counts.val
      BY <2>1, <2>2, <2>3, OneEventRefills
    <2>5. QED BY <1>0, <2>4 DEF RefillsCounts, r, s
  <1>4. ASSUME NEW i \in 1 .. n, NEW y, RefillsHeap(c, i - 1, y)
        PROVE  RefillsHeap(c, i, HydrateSample(y, ss[i]))
    <2> DEFINE g == SamplesLearnt(FirstOf(ss, i - 1))
               r == SamplesLearnt(FirstOf(ss, i))
               s == ss[i]
    <2>1. s \in Snapshots(own) BY <1>0, ElementOfSeq
    <2>2. HeapFollows(y, g) BY <1>0, <1>4 DEF RefillsHeap
    <2>3. r = LearntHeap(g, s) BY <1>0, FirstOnes
    <2> HIDE DEF g, r, s
    <2>4. HeapFollows(HydrateSample(y, s), r) BY <2>1, <2>2, <2>3, OneEventRefills
    <2>5. QED BY <1>0, <2>4 DEF RefillsHeap, r, s
  <1>5. RefillsCounts(c, n, RefilledCounts(h, ss))
    <2>1. RefillsCounts(c, n, RefillingCounts!Folded(h, ss))
      BY <1>0, <1>1, <1>3, RefillingCounts!FoldKeeps
    <2>2. QED BY <2>1, HydrationFolds
  <1>6. RefillsHeap(c, n, RefilledHeap(ss))
    <2>1. RefillsHeap(c, n, RefillingHeap!Folded(NoHistory, ss))
      BY <1>0, <1>2, <1>4, RefillingHeap!FoldKeeps
    <2>2. QED BY <2>1, HydrationFolds
  <1>7. FirstOf(ss, n) = ss BY <1>0, FirstOnes
  <1>8. ss # <<>> => n > 0 /\ Last(ss) = ss[n] BY <1>0, EmptySeq DEF Last
  <1>9. QED BY <1>0, <1>5, <1>6, <1>7, <1>8 DEF RefillsCounts, RefillsHeap

-------------------------------------------------------------------------------
(* The widgets follow what they were to learn of *)

MarkersInv ==
  /\ fed \in [counts : Seq(Nat), heap : Seq(Nat)]
  /\ Marked(fed, 0, ui) /\ Known(fed, state)

\* Whatever the pools show, the reset widgets have learnt nothing.
LEMMA NothingIsMarked ==
  /\ NothingFed \in [counts : Seq(Nat), heap : Seq(Nat)]
  /\ Known(NothingFed, InitialState)
  /\ Marked(NothingFed, 0, FreshWidgets)
  /\ \A u : PoolsSane(u.pools) /\ u.pools = u.poolsStats => Marked(NothingFed, 0, Reset(u))
  <1>1. NothingFed.counts = <<>> /\ NothingFed.heap = <<>>
        /\ NothingFed \in [counts : Seq(Nat), heap : Seq(Nat)]
    BY DEF NothingFed
  <1>2. Known(NothingFed, InitialState) BY DEF Known, Has, InitialState, None
  <1>3. DOMAIN NoHistory = {} /\ <<>> \in Seq(Nat) BY DEF NoHistory
  <1>4. CountsFollow(NoHistory, <<>>) /\ HeapFollows(NoHistory, <<>>) /\ PoolsSane(NoHistory)
    BY <1>3 DEF CountsFollow, HeapFollows, PoolsSane
  <1>5. /\ DOMAIN FreshWidgets = Widgets
        /\ FreshWidgets.counts = NoHistory /\ FreshWidgets.countsStats = NoHistory
        /\ FreshWidgets.pools = NoHistory /\ FreshWidgets.poolsStats = NoHistory
        /\ FreshWidgets.heap = NoHistory
    BY DEF FreshWidgets, Widgets
  <1>6. Marked(NothingFed, 0, FreshWidgets) BY <1>1, <1>4, <1>5 DEF Marked
  <1>7. ASSUME NEW u, PoolsSane(u.pools), u.pools = u.poolsStats
        PROVE  Marked(NothingFed, 0, Reset(u))
    <2> DEFINE w == Reset(u)
    <2>1. /\ DOMAIN w = Widgets /\ w.counts = NoHistory /\ w.countsStats = NoHistory
          /\ w.heap = NoHistory /\ w.pools = u.pools /\ w.poolsStats = u.poolsStats
      BY <1>5 DEF Reset, Widgets
    <2> HIDE DEF w
    <2>2. QED BY <1>1, <1>4, <1>7, <2>1 DEF Marked, w
  <1>8. QED BY <1>1, <1>2, <1>6, <1>7

\* It holds at first.
LEMMA MarkersInitInv == Init => MarkersInv
  <1> SUFFICES ASSUME Init PROVE MarkersInv
    OBVIOUS
  <1>1. fed = NothingFed /\ ui = FreshWidgets /\ state = InitialState BY DEF Init
  <1>2. QED BY <1>1, NothingIsMarked DEF MarkersInv

\* A session opens: the histories and the series are those of the events, and what
\* the state is filled with is the end of them.
LEMMA OpeningMarks ==
  ASSUME NodeInv, MonitorInv, MarkersInv, MonitorInv', OpenSession
  PROVE  MarkersInv'
  <1> DEFINE ss == log[attached]
             told == Notified(ui, <<state>>)
             filled == IF ss = <<>> THEN state ELSE HydratedState(state, ss, attached)
             w == HydratedWidgets(told, ss, attached)
             f == CountsLearnt(fed.counts, ss)
             h == SamplesLearnt(ss)
  <1>0. /\ state \in States(Me) /\ OwnWidgets(Me, 0, ui) /\ state.counts = None
        /\ attached \in Procs /\ attached = Me.process /\ Me.process \in Me.own
    <2>1. phase = "attaching" BY DEF OpenSession
    <2>2. attached \in 1 .. started /\ started \in 0 .. MaxProcs
      BY <2>1, DashboardBounds DEF MonitorInv, NodeInv
    <2>3. QED BY <2>1, <2>2, DashboardBounds DEF MonitorInv, Procs, Me, Mine, From
  <1>1. ss \in Seq(Snapshots(Me.own)) BY <1>0 DEF NodeInv, Me, Mine
  <1> HIDE DEF Me, told
  <1>2. /\ fed \in [counts : Seq(Nat), heap : Seq(Nat)]
        /\ Marked(fed, 0, ui) /\ Known(fed, state)
    BY DEF MarkersInv
  <1>3. Marked(fed, 0, told) BY <1>0, <1>2, ToldMarks DEF told
  <1>4. OwnWidgets(Me, 0, told) BY <1>0, ToldOwn DEF told
  <1>5. /\ fed' = [counts |-> f, heap |-> IF ss = <<>> THEN fed.heap ELSE LearntHeap(h, filled)]
        /\ ui' = IF ss = <<>> THEN Notified(told, <<state>>) ELSE Notified(w, <<filled>>)
    BY DEF OpenSession, CountsLearnt, SamplesLearnt, told
  <1>6. state' = filled /\ filled \in States(Me)
    <2>1. filled \in States(Me) BY <1>0, <1>1, <1>4, HydratedOwn
    <2>2. QED BY <2>1 DEF OpenSession
  <1>7. CASE ss = <<>>
    <2>1. f = fed.counts BY <1>1, <1>7, FirstOnes
    <2>2. fed' = fed
      <3>1. fed' = [counts |-> f, heap |-> fed.heap] BY <1>5, <1>7
      <3> HIDE DEF f
      <3>2. QED BY <1>2, <2>1, <3>1
    <2>3. filled = state BY <1>7
    <2>4. ui' = Notified(told, <<state>>) BY <1>5, <1>7
    <2> HIDE DEF filled
    <2>5. Marked(fed, 0, ui') BY <1>0, <1>2, <1>3, <2>4, ToldMarks
    <2>6. Known(fed, state') BY <1>2, <1>6, <2>3 DEF Known, Has
    <2>7. QED BY <1>2, <2>2, <2>5, <2>6 DEF MarkersInv
  <1>8. CASE ss # <<>>
    <2> DEFINE c == [counts |-> f, heap |-> h]
               d == LearntOf(c, filled)
    <2>1. CountsFollow(told.counts, fed.counts) /\ told.counts = told.countsStats
          /\ PoolsSane(told.pools) /\ told.pools = told.poolsStats /\ DOMAIN told = Widgets
      BY <1>3 DEF Marked
    <2>2. /\ CountsFollow(RefilledCounts(told.counts, ss), f) /\ HeapFollows(RefilledHeap(ss), h)
          /\ Has(Last(ss), "counts") => f # <<>> /\ Last(f) = Last(ss).counts.val
      BY <1>1, <1>8, <2>1, EventsRefill
    <2>3. /\ DOMAIN w = Widgets /\ w.counts = RefilledCounts(told.counts, ss)
          /\ w.countsStats = RefilledCounts(told.countsStats, ss)
          /\ w.pools = told.pools /\ w.poolsStats = told.poolsStats /\ w.heap = RefilledHeap(ss)
      BY <2>1, HydratedFields
    <2>4. filled.counts = IF Last(ss).counts.of # 0 THEN Last(ss).counts ELSE state.counts
      BY <1>0, <1>1, <1>4, <1>8, HydratedOwn
    <2>5. fed' = [counts |-> f, heap |-> LearntHeap(h, filled)] /\ ui' = Notified(w, <<filled>>)
      BY <1>5, <1>8
    <2> HIDE DEF filled, w, f, h
    <2>6. c.counts = f /\ c.heap = h OBVIOUS
    <2> HIDE DEF c
    <2>7. Marked(c, 0, w) BY <2>1, <2>2, <2>3, <2>6 DEF Marked
    <2>8. f \in Seq(Nat) /\ h \in Seq(Nat) BY <2>2 DEF CountsFollow, HeapFollows
    <2>9. LearntCounts(f, filled) = f
      <3>1. CASE Has(filled, "counts")
        <4>1. Has(Last(ss), "counts") /\ filled.counts = Last(ss).counts
          BY <1>0, <2>4, <3>1 DEF Has, None
        <4>2. f # <<>> /\ Last(f) = filled.counts.val BY <2>2, <4>1
        <4>3. QED BY <3>1, <4>2 DEF LearntCounts, Learnt
      <3>2. CASE ~Has(filled, "counts") BY <3>2 DEF LearntCounts
      <3>3. QED BY <3>1, <3>2
    <2>10. d = [counts |-> f, heap |-> LearntHeap(h, filled)] BY <2>6, <2>9 DEF LearntOf
    <2>11. fed' = d BY <2>5, <2>10
    <2>12. Known(d, filled) /\ LearntHeap(h, filled) \in Seq(Nat)
      BY <1>6, <2>6, <2>8, LearntIsKnown
    <2>13. d \in [counts : Seq(Nat), heap : Seq(Nat)] BY <2>8, <2>10, <2>12
    <2>14. Marked(d, 0, ui') BY <1>6, <2>5, <2>7, ToldMarks
    <2> HIDE DEF d
    <2>15. Known(d, state') BY <1>6, <2>12 DEF Known, Has
    <2>16. QED BY <2>11, <2>13, <2>14, <2>15 DEF MarkersInv
  <1>9. QED BY <1>7, <1>8

\* It holds after every step.
LEMMA MarkersNextInv ==
  NodeInv /\ MonitorInv /\ MarkersInv /\ [DashboardNext]_vars => MarkersInv'
  <1> SUFFICES ASSUME NodeInv, MonitorInv, MarkersInv, [DashboardNext]_vars PROVE MarkersInv'
    OBVIOUS
  <1>0. /\ MonitorInv' /\ state \in States(Me) /\ state' \in States(Me')
        /\ attached # 0 \/ phase = "off"
    BY MonitorNextInv DEF MonitorInv
  <1>1. /\ fed \in [counts : Seq(Nat), heap : Seq(Nat)]
        /\ Marked(fed, 0, ui) /\ Known(fed, state)
    BY DEF MarkersInv
  <1> HIDE DEF Me
  <1>2. ASSUME UNCHANGED <<ui, state, fed>> PROVE MarkersInv'
    BY <1>1, <1>2 DEF MarkersInv
  \* The observers are told of metrics they have been told of.
  <1>3. ASSUME state'.counts = state.counts, state'.heap = state.heap, fed' = fed,
               ui' = Notified(ui, <<state'>>)
        PROVE  MarkersInv'
    <2>1. Known(fed, state') BY <1>1, <1>3 DEF Known, Has
    <2>2. Marked(fed, 0, ui') BY <1>0, <1>1, <1>3, <2>1, ToldMarks
    <2>3. QED BY <1>1, <1>3, <2>1, <2>2 DEF MarkersInv
  <1>4. CASE Start BY <1>2, <1>4 DEF Start
  <1>5. CASE Die BY <1>2, <1>5 DEF Die
  <1>6. CASE Works BY <1>2, <1>6 DEF Works
  <1>7. CASE Launch BY <1>2, <1>7 DEF Launch
  <1>8. CASE LedgerClosed BY <1>2, <1>8 DEF LedgerClosed
  <1>9. CASE Reattach
    <2> DEFINE r == Reset(ui)
    <2>1. PoolsSane(ui.pools) /\ ui.pools = ui.poolsStats BY <1>1 DEF Marked
    <2>2. Marked(NothingFed, 0, r) BY <2>1, NothingIsMarked
    <2>3. state' = InitialState /\ ui' = Notified(r, <<InitialState>>) /\ fed' = NothingFed
      BY <1>9 DEF Reattach
    <2> HIDE DEF r
    <2>4. Marked(NothingFed, 0, ui')
      BY <1>0, <2>2, <2>3, NothingIsMarked, ToldMarks
    <2>5. QED BY <2>3, <2>4, NothingIsMarked DEF MarkersInv
  <1>10. CASE OpenSession BY <1>0, <1>10, OpeningMarks
  <1>11. CASE EndIncarnation
    <2>1. UNCHANGED <<state, fed>> /\ ui' = Notified(ui, <<state>>) BY <1>11 DEF EndIncarnation
    <2>2. QED BY <1>3, <2>1
  <1>12. CASE Quit
    <2>1. state' = InitialState /\ ui' = FreshWidgets /\ fed' = NothingFed BY <1>12 DEF Quit
    <2>2. QED BY <2>1, NothingIsMarked DEF MarkersInv
  <1>13. ASSUME phase \in {"polling", "refreshing"}, NEW by, Answering(by),
                NEW rest \in Seq(States(Me)),
                \A i \in 1 .. Len(rest) :
                  rest[i].counts = Finished(by).counts /\ rest[i].heap = Finished(by).heap,
                state' = Polled(by).last, fed' = FedBy(by),
                ui' = Notified(ui, (ToldFirst(by) \o ToldNext(by)) \o rest)
         PROVE  MarkersInv'
    <2>1. phase # "off" BY <1>13
    <2>2. /\ FedBy(by) \in [counts : Seq(Nat), heap : Seq(Nat)]
          /\ Marked(FedBy(by), 0, Notified(ui, (ToldFirst(by) \o ToldNext(by)) \o rest))
          /\ Known(FedBy(by), Finished(by))
      BY <1>1, <1>13, <2>1, PollMarks
    <2>3. state' = Finished(by) BY <1>13, PolledInSteps
    <2>4. QED BY <1>13, <2>2, <2>3 DEF MarkersInv
  <1>14. ASSUME phase # "off", NEW by, Answering(by)
         PROVE  /\ ToldFirst(by) \in Seq(States(Me)) /\ ToldNext(by) \in Seq(States(Me))
                /\ ToldLast(by) \in Seq(States(Me))
                /\ \A i \in 1 .. Len(ToldLast(by)) :
                     ToldLast(by)[i].counts = Finished(by).counts /\ ToldLast(by)[i].heap = Finished(by).heap
                /\ Polled(by).states = (ToldFirst(by) \o ToldNext(by)) \o ToldLast(by)
                /\ Polled(by).last = Finished(by) /\ Finished(by) \in States(Me)
    <2> DEFINE L == ToldLast(by)
               z == Finished(by)
    <2>1. L = IF "ledgers_info" \in DOMAIN by THEN <<z>> ELSE <<>> BY DEF ToldLast
    <2> HIDE DEF L, z
    <2>2. \A i \in 1 .. Len(L) : L[i] = z BY <2>1
    <2>3. QED BY <1>14, <2>2, PolledOwn, PolledInSteps DEF L, z
  <1>15. CASE Poll
    <2>1. PICK by \in Answers :
            /\ state' = Polled(by).last /\ fed' = FedBy(by)
            /\ ui' = Notified(ui, Polled(by).states \o <<Polled(by).last, Polled(by).last>>)
      BY <1>15 DEF Poll
    <2> DEFINE S == States(Me)
               F == ToldFirst(by)
               N == ToldNext(by)
               L == ToldLast(by)
               z == Finished(by)
               B == <<z, z>>
    <2>2. phase = "polling" /\ phase # "off" /\ Answering(by)
      BY <1>15, AnswersAreOfSources DEF Poll
    <2>3. /\ F \in Seq(S) /\ N \in Seq(S) /\ L \in Seq(S) /\ z \in S
          /\ \A i \in 1 .. Len(L) : L[i].counts = z.counts /\ L[i].heap = z.heap
          /\ Polled(by).states = (F \o N) \o L /\ Polled(by).last = z
      BY <1>14, <2>2
    <2> HIDE DEF F, N, L, z, S
    <2>4. B \in Seq(S) /\ Len(B) = 2 /\ \A i \in 1 .. 2 : B[i] = z BY <2>3
    <2>5. ui' = Notified(ui, ((F \o N) \o L) \o B) BY <2>1, <2>3
    <2> HIDE DEF B
    <2>6. F \o N \in Seq(S) BY <2>3, ConcatProperties
    <2>7. ((F \o N) \o L) \o B = (F \o N) \o (L \o B)
      <3> DEFINE G == F \o N
      <3>1. G \in Seq(S) BY <2>6
      <3> HIDE DEF G
      <3>2. (G \o L) \o B = G \o (L \o B) BY <2>3, <2>4, <3>1, ConcatAssociative
      <3>3. QED BY <3>2 DEF G
    <2>8. /\ L \o B \in Seq(S) /\ Len(L \o B) = Len(L) + Len(B) /\ Len(L) \in Nat
          /\ \A i \in 1 .. Len(L) + Len(B) : (L \o B)[i] = IF i <= Len(L) THEN L[i] ELSE B[i - Len(L)]
      BY <2>3, <2>4, ConcatProperties, LenProperties
    <2>9. \A i \in 1 .. Len(L \o B) : (L \o B)[i].counts = z.counts /\ (L \o B)[i].heap = z.heap
      <3> SUFFICES ASSUME NEW i \in 1 .. Len(L) + 2
                   PROVE  (L \o B)[i].counts = z.counts /\ (L \o B)[i].heap = z.heap
        BY <2>4, <2>8
      <3>1. (L \o B)[i] = IF i <= Len(L) THEN L[i] ELSE B[i - Len(L)] BY <2>4, <2>8
      <3>2. CASE i <= Len(L)
        <4>1. i \in 1 .. Len(L) BY <2>8, <3>2
        <4>2. QED BY <2>3, <3>1, <3>2, <4>1
      <3>3. CASE ~(i <= Len(L))
        <4>1. i - Len(L) \in 1 .. 2 BY <2>8, <3>3
        <4>2. QED BY <2>4, <3>1, <3>3, <4>1
      <3>4. QED BY <3>2, <3>3
    <2> DEFINE R == L \o B
    <2>10. /\ R \in Seq(States(Me)) /\ ui' = Notified(ui, (ToldFirst(by) \o ToldNext(by)) \o R)
           /\ \A i \in 1 .. Len(R) : R[i].counts = Finished(by).counts /\ R[i].heap = Finished(by).heap
      BY <2>5, <2>7, <2>8, <2>9 DEF F, N, S, z
    <2> HIDE DEF R
    <2>11. QED BY <1>13, <2>1, <2>2, <2>10
  <1>16. CASE Synced
    <2>1. PICK by \in [{"server_info"} -> Sources] :
            state' = Polled(by).last /\ ui' = Notified(ui, Polled(by).states)
      BY <1>16 DEF Synced
    <2>2. /\ fed' = fed /\ phase = "polling" /\ phase # "off"
          /\ Answering(by) /\ ~("get_counts" \in DOMAIN by)
      BY <1>16, AnswersAreOfSources DEF Synced
    <2>3. fed' = FedBy(by) BY <2>2 DEF FedBy
    <2>4. QED BY <1>13, <1>14, <2>1, <2>2, <2>3
  <1>17. CASE Refresh
    <2>1. PICK by \in Answers :
            state' = Polled(by).last /\ fed' = FedBy(by) /\ ui' = Notified(ui, Polled(by).states)
      BY <1>17 DEF Refresh
    <2>2. phase = "refreshing" /\ phase # "off" /\ Answering(by)
      BY <1>17, AnswersAreOfSources DEF Refresh
    <2>3. QED BY <1>13, <1>14, <2>1, <2>2
  <1>18. CASE HeapSample
    <2>1. PICK s \in samples :
            \/ UNCHANGED <<latest, state, ui, fed>>
            \/ /\ s # None
               /\ state' = [state EXCEPT !.heap = s]
               /\ ui' = Notified(ui, <<state'>>)
               /\ fed' = [fed EXCEPT !.heap = Learnt(@, s.val)]
      BY <1>18 DEF HeapSample
    <2>2. CASE UNCHANGED <<latest, state, ui, fed>> BY <1>2, <2>2
    <2>3. CASE /\ s # None
               /\ state' = [state EXCEPT !.heap = s]
               /\ ui' = Notified(ui, <<state'>>)
               /\ fed' = [fed EXCEPT !.heap = Learnt(@, s.val)]
      <3> DEFINE k == LearntOf(fed, state')
      <3>1. s \in Data(Procs) BY <2>1, <2>3 DEF MonitorInv
      <3>2. s.of # 0 BY <3>1 DEF Data, Procs
      <3>3. state'.counts = state.counts /\ state'.heap = s BY <1>0, <2>3 DEF States
      <3>4. LearntCounts(fed.counts, state') = fed.counts
        <4>1. LearntCounts(fed.counts, state') = LearntCounts(fed.counts, state)
          BY <3>3 DEF LearntCounts, Has
        <4>2. LearntCounts(fed.counts, state) = fed.counts BY <1>0, <1>1, LearntIsKnown
        <4>3. QED BY <4>1, <4>2
      <3>5. LearntHeap(fed.heap, state') = Learnt(fed.heap, s.val)
        BY <3>2, <3>3 DEF LearntHeap, Has
      <3>6. fed' = k BY <1>1, <2>3, <3>4, <3>5 DEF LearntOf
      <3>7. Known(k, state') /\ LearntHeap(fed.heap, state') \in Seq(Nat)
        BY <1>0, <1>1, LearntIsKnown
      <3>8. k \in [counts : Seq(Nat), heap : Seq(Nat)] BY <1>1, <3>4, <3>7 DEF LearntOf
      <3>9. Marked(k, 0, ui') BY <1>0, <1>1, <2>3, ToldMarks
      <3> HIDE DEF k
      <3>10. QED BY <3>6, <3>7, <3>8, <3>9 DEF MarkersInv
    <2>4. QED BY <2>1, <2>2, <2>3
  <1>19. CASE RefreshBreakdown
    <2>1. /\ state' = [state EXCEPT !.panel["memory_breakdown"] = attached]
          /\ ui' = Notified(ui, <<state'>>) /\ fed' = fed
      BY <1>19 DEF RefreshBreakdown
    <2>2. state'.counts = state.counts /\ state'.heap = state.heap BY <1>0, <2>1 DEF States
    <2>3. QED BY <1>3, <2>1, <2>2
  <1>20. CASE UpdateMemoryStats
    <2> DEFINE u == Notified(ui, <<state>>)
               g == u.graph \cup {attached}
    <2>1. ui' = [u EXCEPT !.graph = g] /\ UNCHANGED <<state, fed>> BY <1>20 DEF UpdateMemoryStats
    <2>2. Marked(fed, 0, u) BY <1>0, <1>1, ToldMarks
    <2> HIDE DEF u, g
    <2>3. Marked(fed, 0, ui') BY <2>1, <2>2 DEF Marked, Widgets
    <2>4. QED BY <1>1, <2>1, <2>3 DEF MarkersInv
  <1>21. CASE Tell
    <2>1. UNCHANGED <<state, fed>> /\ ui' = Notified(ui, <<state>>) BY <1>21 DEF Tell
    <2>2. QED BY <1>3, <2>1
  \* What the first server_info brings is no metric.
  <1>22. CASE FirstInfo
    <2>1. UNCHANGED <<ui, fed>> /\ phase # "off"
          /\ (state' = state \/ \E p \in Sources : state' = Ingested(p))
      BY <1>22 DEF FirstInfo
    <2>2. state'.counts = state.counts /\ state'.heap = state.heap BY <2>1, IngestedOwn
    <2>3. Known(fed, state') BY <1>1, <2>2 DEF Known, Has
    <2>4. QED BY <1>1, <2>1, <2>3 DEF MarkersInv
  <1>23. CASE BeginRound BY <1>2, <1>23 DEF BeginRound
  <1>24. CASE UNCHANGED vars BY <1>2, <1>24 DEF vars
  <1>25. QED
    BY <1>4, <1>5, <1>6, <1>7, <1>8, <1>9, <1>10, <1>11, <1>12, <1>15, <1>16, <1>17, <1>18,
       <1>19, <1>20, <1>21, <1>22, <1>23, <1>24
       DEF DashboardNext

\* In every reachable state.
LEMMA MarkersInvariance == DashboardSpec => []MarkersInv
  BY DataInvariance, MarkersInitInv, MarkersNextInv, PTL DEF DashboardSpec

\* A series grew exactly when its last value is above the first and it never fell.
LEMMA GrewUnfallen ==
  ASSUME NEW f \in Seq(Nat)
  PROVE  Grew(f) <=> f # <<>> /\ ~Fell(f) /\ f[Len(f)] > f[1]
  <1>1. Len(f) \in Nat /\ \A i \in 1 .. Len(f) : f[i] \in Nat BY LenProperties, ElementOfSeq
  <1>2. f # <<>> => Head(f) = f[1] /\ Last(f) = f[Len(f)] BY HeadTailProperties DEF Last
  <1>3. ~Fell(f) <=> \A i \in 1 .. Len(f) - 1 : f[i] <= f[i + 1]
    <2>1. \A i \in 1 .. Len(f) - 1 : f[i] \in Nat /\ f[i + 1] \in Nat
      <3> SUFFICES ASSUME NEW i \in 1 .. Len(f) - 1 PROVE f[i] \in Nat /\ f[i + 1] \in Nat
        OBVIOUS
      <3>1. i \in 1 .. Len(f) /\ i + 1 \in 1 .. Len(f) BY <1>1
      <3>2. QED BY <1>1, <3>1
    <2>2. QED BY <2>1 DEF Fell
  <1>4. QED BY <1>2, <1>3 DEF Grew

\* For any number of polls, samples, notifications, replayed events and processes, '++'
\* marks exactly the metrics whose values, as far as the widgets were to learn of them,
\* grew and never fell; no arrow beside it points down and the tabs agree
\* (counts_display.update, heap_display.update, _hydrate_ui_from_events).
THEOREM MarkersFollowTheMetrics == DashboardSpec => []MarkersMatchHistory
  <1>1. MarkersInv => MarkersMatchHistory
    <2> SUFFICES ASSUME MarkersInv PROVE MarkersMatchHistory
      OBVIOUS
    <2> DEFINE f == fed.counts
               g == fed.heap
               u == ui
    <2>1. /\ CountsFollow(u.counts, f) /\ HeapFollows(u.heap, g) /\ PoolsSane(u.pools)
          /\ u.counts = u.countsStats /\ u.pools = u.poolsStats
      BY DEF MarkersInv, Marked
    <2> HIDE DEF f, g, u
    <2>2. ASSUME NEW k \in DOMAIN u.counts
          PROVE  /\ MonotonicGrowing(u.counts[k]) <=> Grew(f)
                 /\ MonotonicGrowing(u.counts[k]) => u.counts[k].trend # "down"
      <3> DEFINE e == u.counts[k]
      <3>1. f \in Seq(Nat) /\ f # <<>> /\ k = "n" BY <2>1, <2>2 DEF CountsFollow
      <3>2. Sane(e) /\ Follows(e, f) BY <2>1, <3>1 DEF CountsFollow
      <3>3. Grew(f) <=> ~Fell(f) /\ f[Len(f)] > f[1] BY <3>1, GrewUnfallen
      <3> HIDE DEF e
      <3>4. MonotonicGrowing(e) <=> Grew(f) BY <3>2, <3>3 DEF MonotonicGrowing, Follows
      <3>5. MonotonicGrowing(e) => e.trend # "down" BY <3>2 DEF MonotonicGrowing, Sane
      <3>6. QED BY <3>4, <3>5 DEF e
    <2>3. ASSUME NEW k \in DOMAIN u.heap PROVE ClassGrows(u.heap[k]) <=> Grew(g)
      <3> DEFINE e == u.heap[k]
      <3>1. g \in Seq(Nat) /\ g # <<>> /\ k = "n" BY <2>1, <2>3 DEF HeapFollows
      <3>2. Follows(e, g) /\ e.samples \in Nat /\ (Len(g) >= 2 => e.samples >= 2)
        BY <2>1, <3>1 DEF HeapFollows
      <3>3. Grew(g) <=> ~Fell(g) /\ g[Len(g)] > g[1] BY <3>1, GrewUnfallen
      <3>4. Len(g) \in Nat /\ \A i \in 1 .. Len(g) : g[i] \in Nat
        BY <3>1, LenProperties, ElementOfSeq
      <3>5. g[Len(g)] > g[1] => Len(g) >= 2
        <4>1. Len(g) >= 1 BY <3>1, <3>4, EmptySeq
        <4>2. Len(g) = 1 => ~(g[Len(g)] > g[1]) BY <3>4
        <4>3. QED BY <3>4, <4>1, <4>2
      <3> HIDE DEF e
      <3>6. ClassGrows(e) <=> Grew(g) BY <3>2, <3>3, <3>5 DEF ClassGrows, Follows
      <3>7. QED BY <3>6 DEF e
    <2>4. ASSUME NEW k \in DOMAIN u.pools
          PROVE  MonotonicGrowing(u.pools[k]) => u.pools[k].trend # "down"
      <3> DEFINE e == u.pools[k]
      <3>1. Sane(e) BY <2>1, <2>4 DEF PoolsSane
      <3> HIDE DEF e
      <3>2. MonotonicGrowing(e) => e.trend # "down" BY <3>1 DEF MonotonicGrowing, Sane
      <3>3. QED BY <3>2 DEF e
    <2>5. QED BY <2>1, <2>2, <2>3, <2>4 DEF MarkersMatchHistory, f, g, u
  <1>2. QED BY <1>1, MarkersInvariance, PTL

-------------------------------------------------------------------------------
(* The runs of TLC *)

\* A behaviour of the five parts is one of the dashboard and one of the table.
LEMMA PartsAreBoth == Spec => DashboardSpec /\ InboundSpec
  <1>1. Init0 => Init /\ InboundInit BY DEF Init0
  <1>2. [Histories \/ Inbound]_<<part, vars, inboundVars>>
          => [DashboardNext]_vars /\ [InboundNext]_inboundVars
    BY DEF Histories, Inbound
  <1>3. QED BY <1>1, <1>2, PTL DEF Spec, DashboardSpec, InboundSpec

\* The bounds of the widgets' histories hold whatever the bounds of the run are: the
\* windows of the trends, the timeline and the rows never outgrow their limits.
THEOREM TypeCorrect == Spec => []TypeOK
  <1>1. NodeInv /\ MonitorInv /\ TimelineInv /\ MarkersInv /\ InboundInv => TypeOK
    <2> SUFFICES ASSUME NodeInv, MonitorInv, TimelineInv, MarkersInv, InboundInv PROVE TypeOK
      OBVIOUS
    <2>1. /\ running \in 0 .. MaxProcs /\ started \in 0 .. MaxProcs
          /\ \A p \in Procs : Len(log[p]) <= MaxSnapshots
      BY DashboardBounds DEF NodeInv
    <2>2. attached \in 0 .. MaxProcs /\ sampling \in BOOLEAN /\ phase \in Phases
      BY <2>1, DashboardBounds DEF MonitorInv
    <2> DEFINE u == ui
    <2>3. CountsFollow(u.counts, fed.counts) /\ PoolsSane(u.pools) BY DEF MarkersInv, Marked
    <2>4. Len(u.timeline.log) <= StateLogMax
      <3>1. CASE phase = "off"
        <4>1. u.timeline = NoTimeline BY <3>1 DEF MonitorInv, FreshWidgets
        <4>2. QED BY <4>1, NoTimelineIsFine DEF Fine
      <3>2. CASE OwnAccount BY <3>2 DEF OwnAccount, Fine
      <3>3. CASE ForeignAccount BY <3>3 DEF ForeignAccount, Mixed, Fine
      <3>4. QED BY <3>1, <3>2, <3>3 DEF TimelineInv
    <2> HIDE DEF u
    <2>5. \A h \in {u.counts, u.pools} : \A k \in DOMAIN h : Sane(h[k])
      <3>1. \A k \in DOMAIN u.counts : Sane(u.counts[k]) BY <2>3 DEF CountsFollow
      <3>2. \A k \in DOMAIN u.pools : Sane(u.pools[k]) BY <2>3 DEF PoolsSane
      <3>3. QED BY <3>1, <3>2
    <2>6. \A h \in {u.counts, u.pools} : \A k \in DOMAIN h :
            /\ Len(h[k].deltas) <= TrendWindow
            /\ h[k].trend \in {"none", "up", "down"}
      BY <2>5 DEF Sane
    <2>7. /\ Cardinality(DOMAIN panel.prev) <= RowMax
          /\ DOMAIN panel.peak \cup DOMAIN panel.delta \subseteq DOMAIN panel.prev
          /\ resets \in 0 .. 1
      BY DEF InboundInv
    <2>8. QED BY <2>1, <2>2, <2>4, <2>6, <2>7 DEF TypeOK, u
  <1>2. QED
    BY <1>1, PartsAreBoth, DataInvariance, TimelineInvariance, MarkersInvariance,
       InboundInvariance, PTL
=============================================================================

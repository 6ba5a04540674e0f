-------------------------- MODULE OutputCaptureProofs --------------------------
(***************************************************************************)
(* What the capture thread, stop() and the timer do to the output of a     *)
(* spawned process, and what an attached service knows of its process, for *)
(* any number of lines and any size of the buffers and pipes.              *)
(***************************************************************************)
EXTENDS OutputCapture, SequenceTheorems, FiniteSetTheorems, TLAPS


\* The lines of the log file that are not its footer.
Copied == IF logFile = "closed" THEN Len(logged) - 1 ELSE Len(logged)

SpawnTyped ==
  /\ wrote \in [Streams -> 0 .. MaxLines]
  /\ pipe \in [Streams -> Seq(Lines)] /\ text \in [Streams -> Seq(Lines)]
  /\ buffer \in [Streams -> Seq(Lines)]
  /\ queue \in Seq(Lines) /\ shown \in Seq(Lines) /\ hand \in Seq(Lines)
  /\ logged \in Seq(Lines \cup {Footer})

\* The thread has a line in its hand exactly between a read and the queue, and runs
\* only in a started service. The log file is closed once: by a start that fails or
\* by a stop, never by both.
Places ==
  /\ IF capture \in {"log", "write", "notify"} THEN Len(hand) = 1 ELSE hand = <<>>
  /\ capture # "none" => service = "started"
  /\ stop # "no" => service = "started"
  /\ service = "new" => logFile = "none"
  /\ service = "starting" => logFile = "open"
  /\ stop = "closing" => logFile = "open"

\* The file has what was read, in order: while it is open, all but the line the
\* thread still has to write.
Logging ==
  /\ Copied \in 0 .. Len(Output) /\ \A i \in 1 .. Copied : logged[i] = Output[i]
  /\ logFile = "open" \/ service = "new" =>
       Len(logged) = Len(Delivered) + (IF capture = "notify" THEN 1 ELSE 0)
  /\ logFile = "closed" => logged # <<>> /\ logged[Len(logged)] = Footer

\* The lines of a stream are numbered through: those that were read, in the order of
\* the output, then, unless the thread broke off, those read ahead and those in the pipe.
Numbered ==
  /\ \A i \in 1 .. Len(Output) :
       /\ Output[i][1] \in Streams
       /\ Output[i][2] = LinesOf(Output[i][1], SubSeq(Output, 1, i))
  /\ \A s \in Streams :
       LET n == LinesOf(s, Output)
       IN /\ n <= wrote[s]
          /\ capture # "broken" =>
               /\ wrote[s] = n + Len(text[s]) + Len(pipe[s])
               /\ \A i \in 1 .. Len(text[s]) : text[s][i] = <<s, n + i>>
               /\ \A i \in 1 .. Len(pipe[s]) : pipe[s][i] = <<s, n + Len(text[s]) + i>>
          /\ Len(buffer[s]) = IF KeepLines <= n THEN KeepLines ELSE n
          /\ \A i \in 1 .. Len(buffer[s]) : buffer[s][i] = <<s, n - Len(buffer[s]) + i>>

\* The service keeps the handle of the process it was attached to until it lets go.
Handles ==
  /\ attached = 0 => handle = 0 /\ sampled = 0 /\ detach = "no"
  /\ detach \in {"no", "stopping"} => handle = attached /\ sampled \in {0, attached}

\* In a service whose start did not fail.
Healthy == service \notin {"failed", "raised"}

SpawnInv == SpawnTyped /\ Places /\ Logging /\ (Healthy => Numbered)

IInv == Handles /\ (mode = "spawn" => SpawnInv)

-------------------------------------------------------------------------------
(* Sequences of lines *)

\* The empty sequence has no lines.
LEMMA NoLines == ASSUME NEW s PROVE LinesOf(s, <<>>) = 0
  BY FS_EmptySet DEF LinesOf

\* A line counts for its stream.
LEMMA OneMoreLine ==
  ASSUME NEW s, NEW seq \in Seq(Lines), NEW l \in Lines
  PROVE /\ LinesOf(s, seq) \in Nat
        /\ LinesOf(s, Append(seq, l)) = LinesOf(s, seq) + (IF l[1] = s THEN 1 ELSE 0)
  <1> DEFINE S == {i \in DOMAIN seq : seq[i][1] = s}
             T == {i \in DOMAIN Append(seq, l) : Append(seq, l)[i][1] = s}
             k == Len(seq) + 1
  <1>1. /\ Len(seq) \in Nat /\ DOMAIN seq = 1 .. Len(seq)
        /\ DOMAIN Append(seq, l) = 1 .. k /\ Append(seq, l)[k] = l
        /\ \A i \in 1 .. Len(seq) : Append(seq, l)[i] = seq[i]
    <2> HIDE DEF Lines
    <2>1. QED BY LenProperties, AppendProperties
  <1>2. IsFiniteSet(S)
    <2>1. IsFiniteSet(1 .. Len(seq)) BY <1>1, FS_Interval
    <2>2. S \in SUBSET (1 .. Len(seq)) BY <1>1
    <2>3. QED BY <2>1, <2>2, FS_Subset
  <1>3. k \notin S BY <1>1
  <1>4. CASE l[1] = s
    <2>1. T = S \cup {k} BY <1>1, <1>4
    <2>2. Cardinality(T) = Cardinality(S) + 1 BY <1>2, <1>3, <2>1, FS_AddElement
    <2>3. QED BY <1>2, <1>4, <2>2, FS_CardinalityType DEF LinesOf
  <1>5. CASE l[1] # s
    <2>1. T = S BY <1>1, <1>5
    <2>2. Cardinality(T) = Cardinality(S) /\ Cardinality(S) \in Nat
      BY <1>2, <2>1, FS_CardinalityType
    <2> HIDE DEF S, T
    <2>3. LinesOf(s, seq) = Cardinality(S) /\ LinesOf(s, Append(seq, l)) = Cardinality(T)
      BY DEF LinesOf, S, T
    <2>4. QED BY <1>5, <2>2, <2>3
  <1>6. QED BY <1>4, <1>5

\* The number of lines is one.
LEMMA LinesAreCounted ==
  ASSUME NEW s, NEW seq \in Seq(Lines) PROVE LinesOf(s, seq) \in Nat
  <1> DEFINE S == {i \in DOMAIN seq : seq[i][1] = s}
  <1>1. Len(seq) \in Nat /\ DOMAIN seq = 1 .. Len(seq) BY LenProperties
  <1>2. IsFiniteSet(1 .. Len(seq)) BY <1>1, FS_Interval
  <1>3. S \in SUBSET (1 .. Len(seq)) BY <1>1
  <1>4. IsFiniteSet(S) BY <1>2, <1>3, FS_Subset
  <1>5. QED BY <1>4, FS_CardinalityType DEF LinesOf

\* A prefix stays when something is appended.
LEMMA SubSeqOfAppend ==
  ASSUME NEW seq \in Seq(Lines), NEW longer \in Seq(Lines), NEW i \in 1 .. Len(seq),
         Len(longer) = Len(seq) + 1, \A j \in 1 .. Len(seq) : longer[j] = seq[j]
  PROVE SubSeq(longer, 1, i) = SubSeq(seq, 1, i)
  <1> HIDE DEF Lines
  <1>1. Len(seq) \in Nat /\ i \in Nat /\ 1 \in Int BY LenProperties
  <1>2. /\ \A j \in 1 .. i : seq[j] \in Lines /\ longer[j] = seq[j]
        /\ \A j \in 1 .. i : longer[j] \in Lines
    BY <1>1, LenProperties
  <1>3. /\ SubSeq(seq, 1, i) \in Seq(Lines) /\ Len(SubSeq(seq, 1, i)) = i
        /\ \A j \in 1 .. i : SubSeq(seq, 1, i)[j] = seq[j]
    BY <1>1, <1>2, SubSeqProperties
  <1>4. /\ SubSeq(longer, 1, i) \in Seq(Lines) /\ Len(SubSeq(longer, 1, i)) = i
        /\ \A j \in 1 .. i : SubSeq(longer, 1, i)[j] = longer[j]
    BY <1>1, <1>2, SubSeqProperties
  <1>5. QED BY <1>1, <1>2, <1>3, <1>4, SeqEqual

\* The last n elements.
LEMMA LastOfIsEnd ==
  ASSUME NEW S, NEW seq \in Seq(S), NEW n \in Nat
  PROVE /\ LastOf(seq, n) \in Seq(S)
        /\ Len(LastOf(seq, n)) = IF n <= Len(seq) THEN n ELSE Len(seq)
        /\ \A i \in 1 .. Len(LastOf(seq, n)) :
             LastOf(seq, n)[i] = seq[Len(seq) - Len(LastOf(seq, n)) + i]
  <1> DEFINE m == IF n <= Len(seq) THEN n ELSE Len(seq)
  <1>1. Len(seq) \in Nat /\ \A i \in 1 .. Len(seq) : seq[i] \in S BY LenProperties
  <1>2. Min({n, Len(seq)}) = m BY <1>1 DEF Min
  <1>3. LastOf(seq, n) = SubSeq(seq, Len(seq) - m + 1, Len(seq)) BY <1>2 DEF LastOf
  <1>4. /\ m \in 0 .. Len(seq) /\ Len(seq) - m + 1 \in Int
        /\ \A i \in Len(seq) - m + 1 .. Len(seq) : seq[i] \in S
    BY <1>1
  <1>5. /\ SubSeq(seq, Len(seq) - m + 1, Len(seq)) \in Seq(S)
        /\ Len(SubSeq(seq, Len(seq) - m + 1, Len(seq))) = m
        /\ \A i \in 1 .. m :
             SubSeq(seq, Len(seq) - m + 1, Len(seq))[i] = seq[Len(seq) - m + i]
    <2> HIDE DEF m
    <2>1. QED BY <1>1, <1>4, SubSeqProperties
  <1>6. QED BY <1>3, <1>5

\* The output, line by line.
LEMMA OutputLines ==
  ASSUME SpawnTyped
  PROVE /\ Delivered \in Seq(Lines) /\ Output \in Seq(Lines)
        /\ Len(Delivered) \in Nat /\ Len(Output) = Len(Delivered) + Len(hand)
        /\ hand = <<>> => Output = Delivered
        /\ \A i \in 1 .. Len(Delivered) : Output[i] = Delivered[i]
        /\ Len(hand) = 1 => Output[Len(Delivered) + 1] = hand[1]
  <1> HIDE DEF Lines
  <1>1. queue \in Seq(Lines) /\ shown \in Seq(Lines) /\ hand \in Seq(Lines) BY DEF SpawnTyped
  <1>2. Delivered \in Seq(Lines) BY <1>1, ConcatProperties DEF Delivered
  <1>3. /\ Output \in Seq(Lines) /\ Len(Output) = Len(Delivered) + Len(hand)
        /\ \A i \in 1 .. Len(Delivered) + Len(hand) :
             Output[i] = IF i <= Len(Delivered) THEN Delivered[i] ELSE hand[i - Len(Delivered)]
    BY <1>1, <1>2, ConcatProperties DEF Output
  <1>4. Len(Delivered) \in Nat /\ Len(hand) \in Nat BY <1>1, <1>2, LenProperties
  <1>5. hand = <<>> => Output = Delivered BY <1>2, ConcatEmptySeq DEF Output
  <1>6. QED BY <1>2, <1>3, <1>4, <1>5

-------------------------------------------------------------------------------
(* Pieces of the debug log *)

Pieces == Seq(Nat)

\* ls are the lines that the halves from a + 1 to a + n are split into.
IsSplit(a, n, ls) ==
  /\ ls \in Seq(Pieces) /\ Joined(ls, a + n)
  /\ IF n = 0 THEN ls = <<>> ELSE ls # <<>> /\ ls[1][1] = a + 1 /\ Len(ls[1]) <= n

Splitting == INSTANCE FoldLaws WITH Op <- WithHalf, Keeps <- IsSplit

\* A half more begins a line or goes on with the last one.
LEMMA WithHalfSplits ==
  ASSUME NEW a \in Nat, NEW n \in Nat, NEW ls, IsSplit(a, n, ls)
  PROVE  IsSplit(a, n + 1, WithHalf(ls, a + (n + 1)))
  <1> DEFINE h == a + (n + 1)
             k == Len(ls)
  <1>1. /\ ls \in Seq(Pieces) /\ k \in Nat /\ DOMAIN ls = 1 .. k
        /\ \A i \in 1 .. k : ls[i] \in Pieces /\ Len(ls[i]) \in Nat /\ DOMAIN ls[i] = 1 .. Len(ls[i])
    BY LenProperties DEF IsSplit, Pieces
  <1>0. /\ \A i \in 1 .. k :
             ls[i] # <<>> /\ \A j \in DOMAIN ls[i] : ls[i][j] = ls[i][1] + j - 1
        /\ \A i \in 1 .. k - 1 : ls[i + 1][1] = ls[i][1] + Len(ls[i])
        /\ ls # <<>> => ls[k][1] + Len(ls[k]) = (a + n) + 1
    BY <1>1 DEF IsSplit, Joined
  <1>2. \A i \in 1 .. k : Len(ls[i]) >= 1 /\ ls[i][1] \in Nat
    <2> SUFFICES ASSUME NEW i \in 1 .. k PROVE Len(ls[i]) >= 1 /\ ls[i][1] \in Nat
      OBVIOUS
    <2>1. ls[i] \in Seq(Nat) /\ ls[i] # <<>> BY <1>0, <1>1 DEF Pieces
    <2>2. Len(ls[i]) \in Nat \ {0} BY <2>1, EmptySeq
    <2>3. 1 \in 1 .. Len(ls[i]) BY <2>2
    <2>4. QED BY <2>1, <2>2, <2>3, LenProperties
  <1>3. CASE ls # <<>> /\ Last(Last(ls)) % 2 = 1
    <2> DEFINE front == Front(ls)
               last == Append(ls[k], h)
               new == Append(front, last)
    <2>1. k \in 1 .. k /\ n # 0 BY <1>1, <1>3, EmptySeq DEF IsSplit
    <2>2. WithHalf(ls, h) = new BY <1>3 DEF WithHalf, Last
    <2>3. /\ last \in Pieces /\ Len(last) = Len(ls[k]) + 1 /\ last[Len(ls[k]) + 1] = h
          /\ \A j \in 1 .. Len(ls[k]) : last[j] = ls[k][j]
      BY <1>1, <2>1, AppendProperties DEF Pieces
    <2>4. front \in Seq(Pieces) /\ Len(front) = k - 1 /\ \A i \in 1 .. k - 1 : front[i] = ls[i]
      BY <1>1, <2>1, SubSeqProperties DEF Front
    <2> HIDE DEF front, last
    <2>5. /\ new \in Seq(Pieces) /\ Len(new) = k /\ new[k] = last /\ new # <<>>
          /\ \A i \in 1 .. k - 1 : new[i] = ls[i]
      BY <2>1, <2>3, <2>4, AppendProperties
    <2> HIDE DEF new
    <2>6. ls[k][1] + Len(ls[k]) = h BY <1>3, <2>1 DEF IsSplit, Joined
    <2>7. last[1] = ls[k][1] /\ last # <<>> /\ DOMAIN last = 1 .. Len(ls[k]) + 1
      BY <1>1, <1>2, <2>1, <2>3, LenProperties, EmptySeq DEF Pieces
    <2>8. \A j \in 1 .. Len(ls[k]) + 1 : last[j] = last[1] + j - 1
      <3>1. \A j \in 1 .. Len(ls[k]) : ls[k][j] = ls[k][1] + j - 1 BY <1>0, <1>1, <2>1
      <3>2. \A j \in 1 .. Len(ls[k]) : last[j] = last[1] + j - 1 BY <2>3, <2>7, <3>1
      <3>3. last[Len(ls[k]) + 1] = last[1] + (Len(ls[k]) + 1) - 1
        BY <1>1, <1>2, <2>1, <2>3, <2>6, <2>7
      <3>4. PICK m \in Nat : m = Len(ls[k]) BY <1>1, <2>1
      <3>5. \A j \in 1 .. m + 1 : j \in 1 .. m \/ j = m + 1 BY <3>4
      <3> HIDE DEF last, h
      <3>6. QED BY <3>2, <3>3, <3>4, <3>5
    <2>9. ASSUME NEW i \in 1 .. k
          PROVE new[i] # <<>> /\ \A j \in DOMAIN new[i] : new[i][j] = new[i][1] + j - 1
      <3>1. CASE i = k BY <2>5, <2>7, <2>8, <3>1
      <3>2. CASE i \in 1 .. k - 1
        <4>1. new[i] = ls[i] /\ i \in 1 .. k BY <2>1, <2>5, <3>2
        <4>2. QED BY <1>0, <4>1
      <3>3. QED BY <2>1, <3>1, <3>2
    <2>10. ASSUME NEW i \in 1 .. k - 1 PROVE new[i + 1][1] = new[i][1] + Len(new[i])
      <3>1. new[i] = ls[i] /\ ls[i + 1][1] = ls[i][1] + Len(ls[i]) BY <1>0, <2>5, <2>10
      <3>2. CASE i + 1 = k BY <2>5, <2>7, <3>1, <3>2
      <3>3. CASE i + 1 # k
        <4>1. i + 1 \in 1 .. k - 1 BY <2>1, <2>10, <3>3
        <4>2. QED BY <2>5, <3>1, <4>1
      <3>4. QED BY <3>2, <3>3
    <2>11. new[k][1] + Len(new[k]) = h + 1 BY <1>1, <1>2, <2>1, <2>3, <2>5, <2>6, <2>7
    <2>12. Joined(new, h) BY <2>5, <2>9, <2>10, <2>11, LenProperties DEF Joined
    <2>13. new[1][1] = a + 1 /\ Len(new[1]) <= n + 1
      <3>1. CASE k = 1 BY <1>1, <1>2, <1>3, <2>1, <2>3, <2>5, <2>7, <3>1 DEF IsSplit
      <3>2. CASE k # 1
        <4>1. new[1] = ls[1] BY <2>1, <2>5, <3>2
        <4>2. QED BY <1>1, <1>3, <2>1, <4>1 DEF IsSplit
      <3>3. QED BY <3>1, <3>2
    <2>14. QED BY <2>2, <2>5, <2>12, <2>13 DEF IsSplit
  <1>4. CASE ~(ls # <<>> /\ Last(Last(ls)) % 2 = 1)
    <2> DEFINE new == Append(ls, <<h>>)
    <2>1. WithHalf(ls, h) = new BY <1>4 DEF WithHalf
    <2>2. <<h>> \in Pieces /\ Len(<<h>>) = 1 /\ <<h>>[1] = h /\ <<h>> # <<>> /\ DOMAIN <<h>> = 1 .. 1
      BY DEF Pieces
    <2>3. /\ new \in Seq(Pieces) /\ Len(new) = k + 1 /\ new[k + 1] = <<h>> /\ new # <<>>
          /\ \A i \in 1 .. k : new[i] = ls[i]
      BY <1>1, <2>2, AppendProperties
    <2>4. k # 0 => k \in 1 .. k /\ ls # <<>> BY <1>1, EmptySeq
    <2>5. k = 0 <=> ls = <<>> BY <1>1, EmptySeq
    <2>6. ASSUME NEW i \in 1 .. k + 1
          PROVE new[i] # <<>> /\ \A j \in DOMAIN new[i] : new[i][j] = new[i][1] + j - 1
      <3>1. CASE i \in 1 .. k BY <1>1, <2>3, <3>1 DEF IsSplit, Joined
      <3>2. CASE i = k + 1 BY <2>2, <2>3, <3>2
      <3>3. QED BY <1>1, <3>1, <3>2
    <2>7. ASSUME NEW i \in 1 .. k PROVE new[i + 1][1] = new[i][1] + Len(new[i])
      <3>1. CASE i \in 1 .. k - 1
        <4>1. i + 1 \in 1 .. k BY <1>1, <3>1
        <4>2. QED BY <1>1, <2>3, <3>1, <4>1 DEF IsSplit, Joined
      <3>2. CASE i = k
        <4>1. ls[k][1] + Len(ls[k]) = h BY <2>4, <3>2 DEF IsSplit, Joined
        <4>2. QED BY <2>2, <2>3, <3>2, <4>1
      <3>3. QED BY <1>1, <3>1, <3>2
    <2>8. new[k + 1][1] + Len(new[k + 1]) = h + 1 BY <2>2, <2>3
    <2> HIDE DEF new
    <2>9. DOMAIN new = 1 .. k + 1 BY <2>3, LenProperties
    <2>10. Joined(new, h)
      <3>1. \A i \in 1 .. Len(new) - 1 : new[i + 1][1] = new[i][1] + Len(new[i])
        BY <1>1, <2>3, <2>7
      <3>2. QED BY <2>3, <2>6, <2>8, <2>9, <3>1 DEF Joined
    <2>11. new[1][1] = a + 1 /\ Len(new[1]) <= n + 1
      <3>1. CASE k = 0
        <4>1. n = 0 BY <2>5, <3>1 DEF IsSplit
        <4>2. new[1] = <<h>> BY <2>3, <3>1
        <4>3. QED BY <2>2, <4>1, <4>2
      <3>2. CASE k # 0
        <4>1. new[1] = ls[1] /\ n # 0 BY <1>1, <2>3, <2>4, <3>2 DEF IsSplit
        <4>2. QED BY <1>1, <2>4, <3>2, <4>1 DEF IsSplit
      <3>3. QED BY <3>1, <3>2
    <2>12. QED BY <2>1, <2>3, <2>10, <2>11 DEF IsSplit
  <1>5. QED BY <1>3, <1>4

\* Consecutive halves are split into lines that follow each other (splitlines).
LEMMA SplitLinesSplits ==
  ASSUME NEW a \in Nat, NEW text0 \in Pieces, \A i \in 1 .. Len(text0) : text0[i] = a + i
  PROVE  IsSplit(a, Len(text0), SplitLines(text0))
  <1>1. SplitLines(text0) = Splitting!Folded(<<>>, text0)
    BY DEF SplitLines, Splitting!Folded, FoldLeft, Splitting!FoldLeft, MapThenFoldSet,
           Splitting!MapThenFoldSet, Max, Splitting!Max
  <1>2. IsSplit(a, 0, <<>>)
    <2>1. <<>> \in Seq(Pieces) /\ Len(<<>>) = 0 /\ DOMAIN <<>> = {} BY EmptySeq
    <2>2. QED BY <2>1 DEF IsSplit, Joined
  <1>3. ASSUME NEW i \in 1 .. Len(text0), NEW ls, IsSplit(a, i - 1, ls)
        PROVE  IsSplit(a, i, WithHalf(ls, text0[i]))
    <2>1. Len(text0) \in Nat BY LenProperties DEF Pieces
    <2>2. i - 1 \in Nat /\ (i - 1) + 1 = i BY <2>1
    <2>3. QED BY <1>3, <2>2, WithHalfSplits
  <1>4. IsSplit(a, Len(text0), Splitting!Folded(<<>>, text0))
    BY <1>2, <1>3, Splitting!FoldKeeps DEF Pieces
  <1>5. QED BY <1>1, <1>4

-------------------------------------------------------------------------------
(* The thread that follows a log *)

\* l is the end of d.
IsEnd(l, d) ==
  Len(l) <= Len(d) /\ \A i \in 1 .. Len(l) : l[i] = d[Len(d) - Len(l) + i]

\* The log is numbered through; what was delivered of it is one piece up to pos.
TailInv ==
  /\ file \in Pieces /\ \A i \in 1 .. Len(file) : file[i] = i
  /\ pos \in 0 .. Len(file)
  /\ tail \in {"none", "open", "history", "follow", "ended"}
  /\ attached = 0 => tail = "none"
  /\ queue \in Seq(Pieces) /\ shown \in Seq(Pieces) /\ lines \in Seq(Pieces)
  /\ IF tail \in {"follow", "ended"} THEN Joined(Delivered, pos)
                                     ELSE Delivered = <<>> /\ lines = <<>>
  /\ IsEnd(lines, Delivered) /\ Len(lines) <= BufferMax

\* The end of a sequence and its last elements are the same.
LEMMA EndIsLast ==
  ASSUME NEW S, NEW l \in Seq(S), NEW d \in Seq(S), IsEnd(l, d)
  PROVE  l = LastOf(d, Len(l))
  <1>1. Len(l) \in Nat /\ Len(d) \in Nat BY LenProperties
  <1>2. Len(LastOf(d, Len(l))) = Len(l) /\ LastOf(d, Len(l)) \in Seq(S)
    BY <1>1, LastOfIsEnd DEF IsEnd
  <1>3. \A i \in 1 .. Len(l) : l[i] = LastOf(d, Len(l))[i]
    <2>1. \A i \in 1 .. Len(LastOf(d, Len(l))) :
            LastOf(d, Len(l))[i] = d[Len(d) - Len(LastOf(d, Len(l))) + i]
      BY <1>1, LastOfIsEnd
    <2>2. QED BY <1>2, <2>1 DEF IsEnd
  <1>4. QED BY <1>2, <1>3, SeqEqual

\* The last of an end are an end.
LEMMA LastOfEnd ==
  ASSUME NEW S, NEW l \in Seq(S), NEW d \in Seq(S), IsEnd(l, d), NEW n \in Nat
  PROVE  LET r == Tail0(l, n)
         IN r \in Seq(S) /\ IsEnd(r, d) /\ Len(r) = IF n <= Len(l) THEN n ELSE Len(l)
  <1> DEFINE r == Tail0(l, n)
  <1>1. Len(l) \in Nat /\ Len(d) \in Nat BY LenProperties
  <1>2. r = LastOf(l, n) BY DEF Tail0, LastOf
  <1>3. /\ r \in Seq(S) /\ Len(r) = IF n <= Len(l) THEN n ELSE Len(l)
        /\ \A i \in 1 .. Len(r) : r[i] = l[Len(l) - Len(r) + i]
    BY <1>2, LastOfIsEnd
  <1> HIDE DEF r
  <1>4. PICK k \in 0 .. Len(l) : k = Len(r) BY <1>1, <1>3
  <1>5. ASSUME NEW i \in 1 .. k PROVE r[i] = d[Len(d) - k + i]
    <2>1. Len(l) - k + i \in 1 .. Len(l) BY <1>1
    <2>2. Len(d) - Len(l) + (Len(l) - k + i) = Len(d) - k + i BY <1>1
    <2>3. QED BY <1>3, <1>4, <2>1, <2>2 DEF IsEnd
  <1>6. IsEnd(r, d) BY <1>1, <1>4, <1>5 DEF IsEnd
  <1>7. QED BY <1>3, <1>6 DEF r

\* The end of a joined sequence is joined.
LEMMA EndIsJoined ==
  ASSUME NEW l \in Seq(Pieces), NEW d \in Seq(Pieces), IsEnd(l, d), NEW e, Joined(d, e)
  PROVE  Joined(l, e)
  <1>1. PICK m \in Nat, n \in Nat : m = Len(l) /\ n = Len(d) BY LenProperties
  <1>2. DOMAIN l = 1 .. m /\ DOMAIN d = 1 .. n /\ m <= n BY <1>1, LenProperties DEF IsEnd
  <1>3. \A i \in 1 .. m : n - m + i \in 1 .. n /\ l[i] = d[n - m + i] BY <1>1, <1>2 DEF IsEnd
  <1>4. \A i \in 1 .. m - 1 :
          /\ n - m + i \in 1 .. n - 1 /\ i + 1 \in 1 .. m /\ i \in 1 .. m
          /\ n - m + (i + 1) = (n - m + i) + 1
    BY <1>2
  <1>5. ASSUME NEW i \in 1 .. m - 1 PROVE l[i + 1][1] = l[i][1] + Len(l[i])
    <2>1. d[(n - m + i) + 1][1] = d[n - m + i][1] + Len(d[n - m + i])
      BY <1>1, <1>4 DEF Joined
    <2>2. QED BY <1>3, <1>4, <2>1
  <1>6. l # <<>> => d # <<>> /\ l[m] = d[n]
    <2> SUFFICES ASSUME l # <<>> PROVE d # <<>> /\ l[m] = d[n]
      OBVIOUS
    <2>1. m \in 1 .. m /\ n - m + m = n BY <1>1, EmptySeq
    <2>2. d # <<>> BY <1>1, <1>2, <2>1, EmptySeq
    <2>3. QED BY <1>3, <2>1, <2>2
  <1>7. \A i \in 1 .. m : l[i] # <<>> /\ \A j \in DOMAIN l[i] : l[i][j] = l[i][1] + j - 1
    <2>1. \A i \in 1 .. n : d[i] # <<>> /\ \A j \in DOMAIN d[i] : d[i][j] = d[i][1] + j - 1
      BY <1>2 DEF Joined
    <2> SUFFICES ASSUME NEW i \in 1 .. m
                 PROVE l[i] # <<>> /\ \A j \in DOMAIN l[i] : l[i][j] = l[i][1] + j - 1
      OBVIOUS
    <2>2. n - m + i \in 1 .. n /\ l[i] = d[n - m + i] BY <1>3
    <2>3. QED BY <2>1, <2>2
  <1>8. l # <<>> => l[m][1] + Len(l[m]) = e + 1 BY <1>1, <1>6 DEF Joined
  <1>9. QED BY <1>1, <1>2, <1>5, <1>7, <1>8 DEF Joined

-------------------------------------------------------------------------------
(* The steps *)

\* The numbering depends on nothing but the lines.
LEMMA NumberedStays ==
  ASSUME Numbered, UNCHANGED <<wrote, pipe, text, buffer, Output>>,
         capture = "broken" => capture' = "broken"
  PROVE Numbered'
  BY DEF Numbered

\* What the steps that move no line leave alone.
Still == UNCHANGED <<wrote, pipe, text, buffer, hand, queue, shown, logged>>

Quiet ==
  \/ Spawn \/ (Started /\ child # "exited") \/ ChildLeaves \/ ChildDies
  \/ Select \/ ReadEnd \/ CheckLog
  \/ FastStop \/ Stop \/ Terminate \/ WaitOrKill \/ CheckClose

\* The steps that move no line keep the invariant.
LEMMA QuietInv == ASSUME SpawnInv, Quiet PROVE SpawnInv'
  <1>1. Still
    BY DEF Quiet, Spawn, Started, ChildLeaves, ChildDies, Select, ReadEnd, CheckLog, FastStop,
           Stop, Terminate, WaitOrKill, CheckClose, Still, pipes, captureVars, logVars, childVars,
           viewer
  <1>2. SpawnTyped /\ Places /\ Logging BY DEF SpawnInv
  <1>3. SpawnTyped' BY <1>1, <1>2 DEF SpawnTyped, Still
  <1>4. Places'
    BY <1>1, <1>2
       DEF Quiet, Spawn, Started, ChildLeaves, ChildDies, Select, ReadEnd, CheckLog, FastStop,
           Stop, Terminate, WaitOrKill, CheckClose, Still, pipes, captureVars, logVars, childVars,
           stopVars, TurnDone, Places
  <1>5. /\ logFile' = "closed" <=> logFile = "closed"
        /\ logFile' = "open" \/ service' = "new" => logFile = "open" \/ service = "new"
        /\ logFile' = "open" \/ service' = "new" => (capture' = "notify" <=> capture = "notify")
    BY <1>2
       DEF Quiet, Spawn, Started, ChildLeaves, ChildDies, Select, ReadEnd, CheckLog, FastStop,
           Stop, Terminate, WaitOrKill, CheckClose, pipes, captureVars, logVars, childVars,
           stopVars, TurnDone, Places
  <1>6. UNCHANGED <<Output, Delivered, Copied>> BY <1>1, <1>5 DEF Still, Output, Delivered, Copied
  <1>7. Logging' BY <1>1, <1>2, <1>5, <1>6 DEF Logging, Still
  <1>8. /\ Healthy' => Healthy \/ Spawn
        /\ capture = "broken" => capture' = "broken"
    BY <1>2 DEF Healthy, captureVars, Quiet, Spawn, Started, ChildLeaves, ChildDies, Select, ReadEnd, CheckLog, FastStop,
           Stop, Terminate, WaitOrKill, CheckClose, Places
  <1>9. QED BY <1>1, <1>3, <1>4, <1>6, <1>7, <1>8, NumberedStays DEF Healthy, SpawnInv, Still, Spawn

\* Concatenation is associative.
LEMMA Regroup ==
  ASSUME NEW S, NEW a \in Seq(S), NEW b \in Seq(S), NEW c \in Seq(S)
  PROVE (a \o b) \o c = a \o (b \o c)
  BY ConcatAssociative

\* The timer moves elements from the queue to the screen and changes none.
LEMMA DeliveredStays ==
  ASSUME NEW S, queue \in Seq(S), shown \in Seq(S), ProcessQueue
  PROVE queue' \in Seq(S) /\ shown' \in Seq(S) /\ UNCHANGED Delivered
  <1> DEFINE n == Min({MaxMessages, Len(queue)})
             a == SubSeq(queue, 1, n)
             b == SubSeq(queue, n + 1, Len(queue))
  <1>1. Len(queue) \in Nat /\ queue # <<>>
    BY LenProperties DEF ProcessQueue
  <1>2. Len(queue) > 0 BY <1>1, EmptySeq
  <1>3. n \in 1 .. Len(queue) BY <1>1, <1>2, MaxMessagesPositive DEF Min
  <1>4. shown' = shown \o a /\ queue' = b BY DEF ProcessQueue
  <1> HIDE DEF n
  <1>5. \A i \in 1 .. Len(queue) : queue[i] \in S BY <1>1, LenProperties
  <1>6. a \in Seq(S) /\ b \in Seq(S) BY <1>1, <1>3, <1>5, SubSeqProperties
  <1>7. a \o b = queue BY <1>1, <1>3, ConcatAdjacentSubSeq, SubSeqFull
  <1> HIDE DEF a, b
  <1>8. (shown \o a) \o b = shown \o (a \o b) BY <1>6, Regroup
  <1>9. QED BY <1>4, <1>6, <1>7, <1>8, ConcatProperties DEF Delivered

\* A step that moves a line from hand to hand leaves the output as it is.
LEMMA ShownStays ==
  ASSUME SpawnTyped, UNCHANGED hand, ProcessQueue
  PROVE /\ queue' \in Seq(Lines) /\ shown' \in Seq(Lines)
        /\ UNCHANGED <<Delivered, Output>>
  <1> HIDE DEF Lines
  <1>1. QED BY DeliveredStays DEF SpawnTyped, Output

\* The timer.
LEMMA ShowsInv == ASSUME SpawnInv, ProcessQueue, UNCHANGED spawnVars PROVE SpawnInv'
  <1>1. SpawnTyped /\ Places /\ Logging BY DEF SpawnInv
  <1>2. /\ UNCHANGED <<service, wrote, pipe, text, capture, hand, buffer, logFile, logged, stop>>
    BY DEF spawnVars, childVars, pipes, captureVars, logVars, stopVars
  <1>3. /\ queue' \in Seq(Lines) /\ shown' \in Seq(Lines)
        /\ UNCHANGED <<Delivered, Output>>
    BY <1>1, <1>2, ShownStays
  <1>4. SpawnTyped' BY <1>1, <1>2, <1>3 DEF SpawnTyped
  <1>5. Places' BY <1>1, <1>2 DEF Places
  <1>6. Logging' BY <1>1, <1>2, <1>3 DEF Logging, Copied
  <1>7. QED BY <1>2, <1>3, <1>4, <1>5, <1>6, NumberedStays DEF Healthy, SpawnInv

\* The thread puts the line it holds into the queue.
LEMMA NotifyInv == ASSUME SpawnInv, Notify PROVE SpawnInv'
  <1> HIDE DEF Lines
  <1>1. SpawnTyped /\ Places /\ Logging BY DEF SpawnInv
  <1>2. /\ capture = "notify" /\ capture' \in {"select", "read"}
        /\ queue' = queue \o hand /\ shown' = shown /\ hand' = <<>>
        /\ UNCHANGED <<service, wrote, pipe, text, buffer, logFile, logged, stop>>
    BY DEF Notify, QueueMessages, TurnDone, pipes, childVars, logVars, stopVars
  <1>3. queue \in Seq(Lines) /\ shown \in Seq(Lines) /\ hand \in Seq(Lines) BY <1>1 DEF SpawnTyped
  <1>4. Delivered' = Output
    BY <1>2, <1>3, ConcatAssociative DEF Delivered, Output
  <1>5. Output' = Output
    BY <1>1, <1>2, <1>4, OutputLines, ConcatEmptySeq DEF Output
  <1>6. SpawnTyped'
    BY <1>1, <1>2, <1>3, ConcatProperties, EmptySeq DEF SpawnTyped
  <1>7. Places' BY <1>1, <1>2 DEF Places
  <1>8. Logging'
    <2>1. Len(Output) = Len(Delivered) + 1
      BY <1>1, <1>2, OutputLines DEF Places
    <2>2. QED BY <1>1, <1>2, <1>4, <1>5, <2>1 DEF Logging, Copied, Places
  <1>9. QED BY <1>2, <1>5, <1>6, <1>7, <1>8, NumberedStays DEF Healthy, SpawnInv

\* The thread writes the line to the log file, if that is still open.
LEMMA WriteLogInv == ASSUME SpawnInv, WriteLog PROVE SpawnInv'
  <1> HIDE DEF Lines
  <1>1. SpawnTyped /\ Places /\ Logging BY DEF SpawnInv
  <1>2. /\ capture = "write" /\ capture' = "notify"
        /\ UNCHANGED <<service, wrote, pipe, text, buffer, hand, queue, shown, logFile, stop>>
    BY DEF WriteLog, pipes, childVars, stopVars, viewer
  <1>3. UNCHANGED <<Delivered, Output>> BY <1>2 DEF Delivered, Output
  <1>4. Places' BY <1>1, <1>2 DEF Places
  <1>5. CASE logFile # "open"
    <2>1. logged' = logged BY <1>5 DEF WriteLog
    <2>2. SpawnTyped' BY <1>1, <1>2, <2>1 DEF SpawnTyped
    <2>3. Logging' BY <1>1, <1>2, <1>3, <1>5, <2>1 DEF Logging, Copied, Places
    <2>4. QED BY <1>2, <1>3, <1>4, <2>2, <2>3, NumberedStays DEF Healthy, SpawnInv
  <1>6. CASE logFile = "open"
    <2> DEFINE L == Lines \cup {Footer}
    <2>1. logged' = logged \o hand /\ Len(hand) = 1 /\ Len(logged) = Len(Delivered)
      BY <1>1, <1>2, <1>6 DEF WriteLog, Places, Logging
    <2>2. logged \in Seq(L) /\ hand \in Seq(L)
      BY <1>1, SeqMonotonic DEF SpawnTyped
    <2>3. /\ logged' \in Seq(L) /\ Len(logged') = Len(Delivered) + 1
          /\ \A i \in 1 .. Len(Delivered) : logged'[i] = logged[i]
          /\ logged'[Len(Delivered) + 1] = hand[1]
      <3>1. Len(logged) \in Nat BY <2>2, LenProperties
      <3>2. /\ logged \o hand \in Seq(L) /\ Len(logged \o hand) = Len(logged) + Len(hand)
            /\ \A i \in 1 .. Len(logged) + Len(hand) : (logged \o hand)[i] =
                 IF i <= Len(logged) THEN logged[i] ELSE hand[i - Len(logged)]
        BY <2>2, ConcatProperties
      <3>3. QED BY <2>1, <3>1, <3>2
    <2>4. SpawnTyped' BY <1>1, <1>2, <2>3 DEF SpawnTyped
    <2>5. Logging'
      BY <1>1, <1>2, <1>3, <1>6, <2>1, <2>3, OutputLines DEF Logging, Copied
    <2>6. QED BY <1>2, <1>3, <1>4, <2>4, <2>5, NumberedStays DEF Healthy, SpawnInv
  <1>7. QED BY <1>5, <1>6

\* The log file gets its footer, at the end of a stop or when the child dies at once.
LEMMA FooterInv == ASSUME SpawnInv, CloseLog \/ (Started /\ service' = "failed") PROVE SpawnInv'
  <1> HIDE DEF Lines
  <1> DEFINE L == Lines \cup {Footer}
  <1>1. SpawnTyped /\ Places /\ Logging BY DEF SpawnInv
  <1>2. /\ logFile = "open" /\ logFile' = "closed" /\ logged' = Append(logged, Footer)
        /\ UNCHANGED <<wrote, text, buffer, hand, queue, shown, capture>>
        /\ \/ UNCHANGED <<service, pipe>> /\ stop' = "done" /\ service = "started"
           \/ service = "starting" /\ service' = "failed" /\ stop' = stop
              /\ pipe' = [s \in Streams |-> <<>>]
    BY <1>1
       DEF CloseLog, Started, childVars, pipes, captureVars, stopVars, viewer, Places
  <1>3. logged \in Seq(L) /\ Len(logged) \in Nat BY <1>1, LenProperties DEF SpawnTyped
  <1>4. /\ logged' \in Seq(L) /\ logged' # <<>> /\ Len(logged') = Len(logged) + 1
        /\ \A i \in 1 .. Len(logged) : logged'[i] = logged[i]
        /\ logged'[Len(logged) + 1] = Footer
    BY <1>2, <1>3, AppendProperties
  <1>5. UNCHANGED <<Delivered, Output, Copied>>
    BY <1>2, <1>3, <1>4 DEF Delivered, Output, Copied
  <1>6. SpawnTyped'
    <2>1. pipe' \in [Streams -> Seq(Lines)]
      BY <1>1, <1>2, EmptySeq DEF SpawnTyped
    <2>2. QED BY <1>1, <1>2, <1>4, <2>1 DEF SpawnTyped
  <1>7. Places' BY <1>1, <1>2 DEF Places
  <1>8. Logging' BY <1>1, <1>2, <1>3, <1>4, <1>5 DEF Logging, Copied
  <1>9. QED BY <1>2, <1>5, <1>6, <1>7, <1>8, NumberedStays DEF Healthy, SpawnInv

\* The child writes one more line to a pipe.
LEMMA WriteInv ==
  ASSUME SpawnInv, NEW s \in Streams, Write(s) PROVE SpawnInv'
  <1> DEFINE l == <<s, wrote[s] + 1>>
  <1>1. SpawnTyped /\ Places /\ Logging BY DEF SpawnInv
  <1>2. /\ wrote' = [wrote EXCEPT ![s] = @ + 1]
        /\ pipe' = [pipe EXCEPT ![s] = Append(pipe[s], l)]
        /\ UNCHANGED <<service, text, capture, hand, buffer, queue, shown, logFile, logged, stop>>
    BY DEF Write, captureVars, logVars, stopVars, viewer
  <1>3. l \in Lines /\ wrote[s] + 1 \in 0 .. MaxLines
    <2>1. /\ wrote["stdout"] + wrote["stderr"] < MaxLines /\ MaxLines \in Nat
          /\ wrote["stdout"] \in Nat /\ wrote["stderr"] \in Nat /\ s \in {"stdout", "stderr"}
      BY <1>1, CaptureBounds DEF Write, TotalWritten, SpawnTyped, Streams
    <2>2. QED BY <2>1 DEF Lines, Streams
  <1> HIDE DEF Lines
  <1>4. UNCHANGED <<Delivered, Output, Copied>> BY <1>2 DEF Delivered, Output, Copied
  <1>5. pipe[s] \in Seq(Lines) /\ Len(pipe[s]) \in Nat
    BY <1>1, LenProperties DEF SpawnTyped
  <1> HIDE DEF l
  <1>6. /\ Append(pipe[s], l) \in Seq(Lines) /\ Len(Append(pipe[s], l)) = Len(pipe[s]) + 1
        /\ \A i \in 1 .. Len(pipe[s]) : Append(pipe[s], l)[i] = pipe[s][i]
        /\ Append(pipe[s], l)[Len(pipe[s]) + 1] = l
    BY <1>3, <1>5, AppendProperties
  <1>7. SpawnTyped' BY <1>1, <1>2, <1>3, <1>6 DEF SpawnTyped
  <1>8. Places' BY <1>1, <1>2 DEF Places
  <1>9. Logging' BY <1>1, <1>2, <1>4 DEF Logging
  <1>10. ASSUME Numbered PROVE Numbered'
    <2>1. ASSUME NEW t \in Streams, capture # "broken"
          PROVE LET n == LinesOf(t, Output)
                IN /\ wrote'[t] = n + Len(text[t]) + Len(pipe'[t])
                   /\ \A i \in 1 .. Len(pipe'[t]) : pipe'[t][i] = <<t, n + Len(text[t]) + i>>
      <3>1. PICK n \in Nat : n = LinesOf(t, Output)
        BY <1>1, <1>3, OutputLines, OneMoreLine
      <3>2. PICK m \in Nat : m = n + Len(text[t])
        BY <1>1, LenProperties DEF SpawnTyped
      <3>3. /\ wrote[t] = m + Len(pipe[t])
            /\ \A i \in 1 .. Len(pipe[t]) : pipe[t][i] = <<t, m + i>>
        BY <1>10, <2>1, <3>1, <3>2 DEF Numbered
      <3>4. CASE t # s
        <4>1. wrote'[t] = wrote[t] /\ pipe'[t] = pipe[t] BY <1>1, <1>2, <3>4 DEF SpawnTyped
        <4>2. QED BY <3>1, <3>2, <3>3, <4>1
      <3>5. CASE t = s
        <4>1. wrote'[t] = wrote[t] + 1 /\ pipe'[t] = Append(pipe[t], l)
          BY <1>1, <1>2, <3>5 DEF SpawnTyped
        <4>2. PICK k \in Nat : k = Len(pipe[t]) BY <1>5, <3>5
        <4>3. l = <<t, m + (k + 1)>> /\ wrote'[t] = m + (k + 1)
          BY <3>3, <3>5, <4>1, <4>2 DEF l
        <4>4. Len(pipe'[t]) = k + 1 BY <1>6, <3>5, <4>1, <4>2
        <4>5. \A i \in 1 .. k + 1 : pipe'[t][i] = <<t, m + i>>
          <5> SUFFICES ASSUME NEW i \in 1 .. k + 1
                       PROVE pipe'[t][i] = <<t, m + i>>
            OBVIOUS
          <5>1. CASE i \in 1 .. k BY <1>6, <3>3, <3>5, <4>1, <4>2, <5>1
          <5>2. CASE i = k + 1 BY <1>6, <3>5, <4>1, <4>2, <4>3, <5>2
          <5>3. QED BY <5>1, <5>2
        <4>6. QED BY <3>1, <3>2, <4>3, <4>4, <4>5
      <3>6. QED BY <3>4, <3>5
    <2>2. ASSUME NEW t \in Streams PROVE LinesOf(t, Output) <= wrote'[t]
      <3>1. PICK n \in Nat : n = LinesOf(t, Output)
        BY <1>1, <1>3, OutputLines, OneMoreLine
      <3>2. n <= wrote[t] BY <1>10, <3>1 DEF Numbered
      <3>3. wrote[t] \in Nat /\ (wrote'[t] = wrote[t] \/ wrote'[t] = wrote[t] + 1)
        BY <1>1, <1>2, CaptureBounds DEF SpawnTyped
      <3>4. QED BY <3>1, <3>2, <3>3
    <2>3. QED BY <1>2, <1>4, <1>10, <2>1, <2>2 DEF Numbered
  <1>11. QED BY <1>2, <1>7, <1>8, <1>9, <1>10 DEF SpawnInv, Healthy

\* readline takes the next line of the stream, from what was read ahead or from the
\* pipe, and keeps the others in order.
LEMMA ReadlineTakes ==
  ASSUME SpawnTyped, Numbered, capture = "read", NEW s \in Streams, Readline(s), NEW n \in Nat,
         n = LinesOf(s, Output), text[s] # <<>> \/ pipe[s] # <<>>
  PROVE /\ <<s, n + 1>> \in Lines /\ hand' = << <<s, n + 1>> >>
        /\ text' \in [Streams -> Seq(Lines)] /\ pipe' \in [Streams -> Seq(Lines)]
        /\ \A t \in Streams : t # s => text'[t] = text[t] /\ pipe'[t] = pipe[t]
        /\ wrote[s] = (n + 1) + Len(text'[s]) + Len(pipe'[s])
        /\ \A i \in 1 .. Len(text'[s]) : text'[s][i] = <<s, (n + 1) + i>>
        /\ \A i \in 1 .. Len(pipe'[s]) : pipe'[s][i] = <<s, (n + 1) + Len(text'[s]) + i>>
  <1> HIDE DEF Lines
  <1>1. /\ text[s] \in Seq(Lines) /\ pipe[s] \in Seq(Lines)
        /\ wrote[s] \in Nat
    BY DEF SpawnTyped
  <1>2. PICK a \in Nat, b \in Nat : a = Len(text[s]) /\ b = Len(pipe[s])
    BY <1>1, LenProperties
  <1>3. /\ wrote[s] = n + a + b
        /\ \A i \in 1 .. a : text[s][i] = <<s, n + i>>
        /\ \A i \in 1 .. b : pipe[s][i] = <<s, n + a + i>>
    BY <1>2 DEF Numbered
  <1>4. CASE text[s] # <<>>
    <2>1. /\ hand' = << Head(text[s]) >> /\ pipe' = pipe
          /\ text' = [text EXCEPT ![s] = Tail(text[s])]
      BY <1>4 DEF Readline
    <2>2. /\ Head(text[s]) \in Lines /\ Head(text[s]) = text[s][1] /\ a >= 1
          /\ Tail(text[s]) \in Seq(Lines) /\ Len(Tail(text[s])) = a - 1
          /\ \A i \in 1 .. a - 1 : Tail(text[s])[i] = text[s][i + 1]
      <3>1. a # 0 BY <1>1, <1>2, <1>4, EmptySeq
      <3>2. Head(text[s]) = text[s][1] BY <1>1, <1>4
      <3>3. QED BY <1>1, <1>2, <1>4, <3>1, <3>2, HeadTailProperties
    <2>3. /\ text' \in [Streams -> Seq(Lines)] /\ text'[s] = Tail(text[s])
          /\ \A t \in Streams : t # s => text'[t] = text[t]
      BY <2>1, <2>2 DEF SpawnTyped
    <2>4. Head(text[s]) = <<s, n + 1>> BY <1>3, <2>2
    <2>5. \A i \in 1 .. a - 1 : text'[s][i] = <<s, (n + 1) + i>>
      <3> SUFFICES ASSUME NEW i \in 1 .. a - 1 PROVE text'[s][i] = <<s, (n + 1) + i>>
        OBVIOUS
      <3>1. i + 1 \in 1 .. a /\ n + (i + 1) = (n + 1) + i BY <2>2
      <3>2. QED BY <1>3, <2>2, <2>3, <3>1
    <2>6. (n + 1) + (a - 1) = n + a /\ \A i \in 1 .. b : (n + 1) + (a - 1) + i = n + a + i
      BY <2>2
    <2>7. pipe' \in [Streams -> Seq(Lines)] /\ Len(pipe'[s]) = b /\ Len(text'[s]) = a - 1
      BY <1>2, <2>1, <2>2, <2>3 DEF SpawnTyped
    <2>8. wrote[s] = (n + 1) + (a - 1) + b BY <1>3, <2>6
    <2>9. \A i \in 1 .. b : pipe'[s][i] = <<s, (n + 1) + (a - 1) + i>>
      BY <1>3, <2>1, <2>6
    <2>10. QED BY <2>1, <2>2, <2>3, <2>4, <2>5, <2>7, <2>8, <2>9
  <1>5. CASE text[s] = <<>>
    <2>1. PICK k \in 1 .. b :
            /\ hand' = << Head(pipe[s]) >>
            /\ text' = [text EXCEPT ![s] = SubSeq(pipe[s], 2, k)]
            /\ pipe' = [pipe EXCEPT ![s] = SubSeq(pipe[s], k + 1, Len(pipe[s]))]
      BY <1>2, <1>5 DEF Readline
    <2>2. a = 0 BY <1>2, <1>5, EmptySeq
    <2>3. /\ Head(pipe[s]) \in Lines /\ Head(pipe[s]) = pipe[s][1] /\ b >= 1
          /\ \A i \in 1 .. b : pipe[s][i] \in Lines
      <3>1. pipe[s] # <<>> BY <1>5
      <3>2. Head(pipe[s]) = pipe[s][1] BY <1>1, <3>1
      <3>3. QED BY <1>1, <1>2, <2>1, <3>1, <3>2, HeadTailProperties, LenProperties
    <2>4. /\ SubSeq(pipe[s], 2, k) \in Seq(Lines) /\ Len(SubSeq(pipe[s], 2, k)) = k - 1
          /\ \A i \in 1 .. k - 1 : SubSeq(pipe[s], 2, k)[i] = pipe[s][i + 1]
      <3>1. \A i \in 2 .. k : pipe[s][i] \in Lines BY <2>1, <2>3
      <3>2. /\ SubSeq(pipe[s], 2, k) \in Seq(Lines)
            /\ Len(SubSeq(pipe[s], 2, k)) = IF 2 <= k THEN k - 2 + 1 ELSE 0
            /\ \A i \in 1 .. k - 2 + 1 : SubSeq(pipe[s], 2, k)[i] = pipe[s][2 + i - 1]
        BY <2>1, <3>1, SubSeqProperties
      <3>3. QED BY <2>1, <3>2
    <2>5. /\ SubSeq(pipe[s], k + 1, b) \in Seq(Lines) /\ Len(SubSeq(pipe[s], k + 1, b)) = b - k
          /\ \A i \in 1 .. b - k : SubSeq(pipe[s], k + 1, b)[i] = pipe[s][i + k]
      <3>1. \A i \in k + 1 .. b : pipe[s][i] \in Lines BY <2>1, <2>3
      <3>2. k + 1 \in Int /\ b \in Int BY <2>1
      <3>3. /\ SubSeq(pipe[s], k + 1, b) \in Seq(Lines)
            /\ Len(SubSeq(pipe[s], k + 1, b)) = IF k + 1 <= b THEN b - (k + 1) + 1 ELSE 0
            /\ \A i \in 1 .. b - (k + 1) + 1 :
                 SubSeq(pipe[s], k + 1, b)[i] = pipe[s][(k + 1) + i - 1]
        BY <3>1, <3>2, SubSeqProperties
      <3>4. \A i \in 1 .. b - k : i + k = (k + 1) + i - 1 BY <2>1
      <3>5. b - k = b - (k + 1) + 1 BY <2>1
      <3>6. QED BY <2>1, <3>3, <3>4, <3>5
    <2>6. /\ text' \in [Streams -> Seq(Lines)] /\ text'[s] = SubSeq(pipe[s], 2, k)
          /\ pipe' \in [Streams -> Seq(Lines)] /\ pipe'[s] = SubSeq(pipe[s], k + 1, b)
          /\ \A t \in Streams : t # s => text'[t] = text[t] /\ pipe'[t] = pipe[t]
      BY <1>2, <2>1, <2>4, <2>5 DEF SpawnTyped
    <2>7. Head(pipe[s]) = <<s, n + 1>> BY <1>3, <2>2, <2>3
    <2>8. \A i \in 1 .. k - 1 : text'[s][i] = <<s, (n + 1) + i>>
      <3> SUFFICES ASSUME NEW i \in 1 .. k - 1 PROVE text'[s][i] = <<s, (n + 1) + i>>
        OBVIOUS
      <3>1. i + 1 \in 1 .. b /\ n + a + (i + 1) = (n + 1) + i BY <2>1, <2>2
      <3>2. QED BY <1>3, <2>4, <2>6, <3>1
    <2>9. \A i \in 1 .. b - k : pipe'[s][i] = <<s, (n + 1) + (k - 1) + i>>
      <3> SUFFICES ASSUME NEW i \in 1 .. b - k PROVE pipe'[s][i] = <<s, (n + 1) + (k - 1) + i>>
        OBVIOUS
      <3>1. i + k \in 1 .. b /\ n + a + (i + k) = (n + 1) + (k - 1) + i BY <2>1, <2>2
      <3>2. QED BY <1>3, <2>5, <2>6, <3>1
    <2>10. wrote[s] = (n + 1) + (k - 1) + (b - k) BY <1>3, <2>1, <2>2
    <2>11. QED BY <2>1, <2>3, <2>4, <2>5, <2>6, <2>7, <2>8, <2>9, <2>10
  <1>6. QED BY <1>4, <1>5

\* The thread reads a line: it joins the output and its buffer.
LEMMA ReadInv == ASSUME SpawnInv, Healthy, Read PROVE SpawnInv'
  <1> DEFINE s == Turn
  <1>1. s \in Streams BY DEF Turn, Streams
  <1>2. SpawnTyped /\ Places /\ Logging /\ Numbered BY DEF SpawnInv
  <1>3. PICK n \in Nat : n = LinesOf(s, Output)
    <2>1. Output \in Seq(Lines) BY <1>2, OutputLines
    <2>2. QED BY <2>1, LinesAreCounted
  <1>4. /\ capture = "read" /\ capture' = "log" /\ Readline(s)
        /\ text[s] # <<>> \/ pipe[s] # <<>>
        /\ buffer' = [buffer EXCEPT ![s] = LastOf(Append(buffer[s], hand'[1]), KeepLines)]
        /\ UNCHANGED <<service, wrote, queue, shown, logFile, logged, stop>>
    BY DEF Read, childVars, logVars, stopVars, viewer
  <1> DEFINE l == <<s, n + 1>>
  <1> HIDE DEF Lines, s
  <1>5. /\ l \in Lines /\ hand' = <<l>>
        /\ text' \in [Streams -> Seq(Lines)] /\ pipe' \in [Streams -> Seq(Lines)]
        /\ \A t \in Streams : t # s => text'[t] = text[t] /\ pipe'[t] = pipe[t]
        /\ wrote[s] = (n + 1) + Len(text'[s]) + Len(pipe'[s])
        /\ \A i \in 1 .. Len(text'[s]) : text'[s][i] = <<s, (n + 1) + i>>
        /\ \A i \in 1 .. Len(pipe'[s]) : pipe'[s][i] = <<s, (n + 1) + Len(text'[s]) + i>>
    BY <1>1, <1>2, <1>3, <1>4, ReadlineTakes
  <1> HIDE DEF l
  <1>6. /\ Output \in Seq(Lines) /\ Output = Delivered
        /\ Delivered' = Delivered /\ Output' = Append(Output, l) /\ Len(Output) \in Nat
    <2>1. hand = <<>> BY <1>2, <1>4 DEF Places
    <2>2. Output \in Seq(Lines) /\ Output = Delivered BY <1>2, <2>1, OutputLines
    <2>3. Delivered' = Delivered BY <1>4 DEF Delivered
    <2>4. Output' = Output \o <<l>> BY <1>5, <2>2, <2>3 DEF Output
    <2>5. QED BY <1>5, <2>2, <2>3, <2>4, AppendIsConcat, LenProperties
  <1>7. /\ Output' \in Seq(Lines) /\ Len(Output') = Len(Output) + 1
        /\ \A i \in 1 .. Len(Output) : Output'[i] = Output[i]
        /\ Output'[Len(Output) + 1] = l
    BY <1>5, <1>6, AppendProperties
  <1>8. buffer[s] \in Seq(Lines) BY <1>1, <1>2 DEF SpawnTyped
  <1>9. PICK b \in Nat : b = Len(buffer[s]) BY <1>8, LenProperties
  <1> DEFINE new == Append(buffer[s], l)
             kept == LastOf(new, KeepLines)
  <1>10. /\ new \in Seq(Lines) /\ Len(new) = b + 1
         /\ \A i \in 1 .. b : new[i] = buffer[s][i]
         /\ new[b + 1] = l
    BY <1>5, <1>8, <1>9, AppendProperties
  <1> HIDE DEF new
  <1>11. /\ kept \in Seq(Lines)
         /\ Len(kept) = IF KeepLines <= b + 1 THEN KeepLines ELSE b + 1
         /\ \A i \in 1 .. Len(kept) : kept[i] = new[(b + 1) - Len(kept) + i]
    <2>1. KeepLines \in Nat BY CaptureBounds
    <2>2. /\ LastOf(new, KeepLines) \in Seq(Lines)
          /\ Len(LastOf(new, KeepLines)) = IF KeepLines <= Len(new) THEN KeepLines ELSE Len(new)
          /\ \A i \in 1 .. Len(LastOf(new, KeepLines)) :
               LastOf(new, KeepLines)[i] = new[Len(new) - Len(LastOf(new, KeepLines)) + i]
      BY <1>10, <2>1, LastOfIsEnd
    <2>3. QED BY <1>10, <2>2
  <1> HIDE DEF kept
  <1>12. buffer' = [buffer EXCEPT ![s] = kept] BY <1>4, <1>5 DEF new, kept
  <1>13. SpawnTyped'
    <2>1. <<l>> \in Seq(Lines) BY <1>5
    <2>2. QED BY <1>1, <1>2, <1>4, <1>5, <1>11, <1>12, <2>1 DEF SpawnTyped
  <1>14. Places'
    <2>1. Len(hand') = 1 BY <1>5
    <2>2. QED BY <1>2, <1>4, <2>1 DEF Places
  <1>15. Logging'
    BY <1>2, <1>4, <1>6, <1>7 DEF Logging, Copied
  <1>16. Numbered'
    <2>1. ASSUME NEW t \in Streams
          PROVE LinesOf(t, Output') = IF t = s THEN n + 1 ELSE LinesOf(t, Output)
      BY <1>3, <1>5, <1>6, OneMoreLine DEF l
    <2>2. ASSUME NEW i \in 1 .. Len(Output')
          PROVE /\ Output'[i][1] \in Streams
                /\ Output'[i][2] = LinesOf(Output'[i][1], SubSeq(Output', 1, i))
      <3>1. CASE i \in 1 .. Len(Output)
        <4>1. SubSeq(Output', 1, i) = SubSeq(Output, 1, i)
          BY <1>6, <1>7, <3>1, SubSeqOfAppend
        <4>2. QED BY <1>2, <1>7, <3>1, <4>1 DEF Numbered
      <3>2. CASE i = Len(Output) + 1
        <4>1. SubSeq(Output', 1, i) = Output' BY <1>7, <3>2, SubSeqFull
        <4>2. Output'[i][1] = s /\ Output'[i][2] = n + 1 BY <1>7, <3>2 DEF l
        <4>3. QED BY <1>1, <2>1, <4>1, <4>2
      <3>3. QED BY <1>6, <1>7, <3>1, <3>2
    <2>3. /\ Len(buffer'[s]) = IF KeepLines <= n + 1 THEN KeepLines ELSE n + 1
          /\ \A i \in 1 .. Len(buffer'[s]) :
               buffer'[s][i] = <<s, (n + 1) - Len(buffer'[s]) + i>>
      <3>1. /\ b = IF KeepLines <= n THEN KeepLines ELSE n
            /\ \A i \in 1 .. b : buffer[s][i] = <<s, n - b + i>>
        BY <1>1, <1>2, <1>3, <1>9 DEF Numbered
      <3>2. buffer'[s] = kept BY <1>1, <1>2, <1>12 DEF SpawnTyped
      <3>3. PICK k \in Nat : k = Len(kept) BY <1>11, LenProperties
      <3>4. k = IF KeepLines <= n + 1 THEN KeepLines ELSE n + 1
        BY <1>11, <3>1, <3>3, CaptureBounds
      <3>5. ASSUME NEW i \in 1 .. k PROVE kept[i] = <<s, (n + 1) - k + i>>
        <4>1. kept[i] = new[(b + 1) - k + i] /\ (b + 1) - k + i \in 1 .. b + 1
          <5>1. k <= b + 1 BY <1>11, <3>3, CaptureBounds
          <5>2. (b + 1) - k + i \in 1 .. b + 1 BY <5>1
          <5>3. QED BY <1>11, <3>3, <5>2
        <4>2. CASE i = k
          <5>1. (b + 1) - k + i = b + 1 /\ (n + 1) - k + i = n + 1 BY <4>2
          <5>2. QED BY <1>10, <4>1, <5>1 DEF l
        <4>3. CASE i # k
          <5>1. (b + 1) - k + i \in 1 .. b /\ n - b + ((b + 1) - k + i) = (n + 1) - k + i
            BY <4>1, <4>3, <3>1, CaptureBounds
          <5>2. QED BY <1>10, <3>1, <4>1, <5>1
        <4>4. QED BY <4>2, <4>3
      <3>6. QED BY <3>2, <3>3, <3>4, <3>5
    <2>4. ASSUME NEW t \in Streams, t # s
          PROVE UNCHANGED <<text[t], pipe[t], buffer[t], LinesOf(t, Output)>>
      <3>1. buffer'[t] = buffer[t] BY <1>2, <1>12, <2>4 DEF SpawnTyped
      <3>2. QED BY <1>5, <2>1, <2>4, <3>1
    <2>5. ASSUME NEW t \in Streams
          PROVE LET k == LinesOf(t, Output')
                IN /\ wrote'[t] = k + Len(text'[t]) + Len(pipe'[t])
                   /\ \A i \in 1 .. Len(text'[t]) : text'[t][i] = <<t, k + i>>
                   /\ \A i \in 1 .. Len(pipe'[t]) :
                        pipe'[t][i] = <<t, k + Len(text'[t]) + i>>
                   /\ Len(buffer'[t]) = IF KeepLines <= k THEN KeepLines ELSE k
                   /\ \A i \in 1 .. Len(buffer'[t]) :
                        buffer'[t][i] = <<t, k - Len(buffer'[t]) + i>>
      <3>1. CASE t = s BY <1>4, <1>5, <2>1, <2>3, <3>1
      <3>2. CASE t # s BY <1>2, <1>4, <2>4, <3>2 DEF Numbered
      <3>3. QED BY <3>1, <3>2
    <2>6. ASSUME NEW t \in Streams PROVE LinesOf(t, Output') <= wrote'[t]
      <3>1. CASE t = s
        <4>1. text'[s] \in Seq(Lines) /\ pipe'[s] \in Seq(Lines) BY <1>1, <1>5
        <4>2. Len(text'[s]) \in Nat /\ Len(pipe'[s]) \in Nat BY <4>1, LenProperties
        <4>3. LinesOf(s, Output') = n + 1
          <5>1. s \in Streams BY <1>1
          <5>2. QED BY <2>1, <5>1
        <4>4. wrote'[s] = wrote[s] BY <1>4
        <4>5. QED BY <1>5, <3>1, <4>2, <4>3, <4>4
      <3>2. CASE t # s BY <1>2, <1>4, <2>4, <3>2 DEF Numbered
      <3>3. QED BY <3>1, <3>2
    <2>7. QED BY <1>4, <2>2, <2>5, <2>6 DEF Numbered
  <1>17. QED BY <1>13, <1>14, <1>15, <1>16 DEF SpawnInv

\* The last words of a child that died at once cannot be decoded, and start() raises.
LEMMA RaisedInv == ASSUME SpawnInv, Started, service' = "raised" PROVE SpawnInv'
  <1>1. SpawnTyped /\ Places /\ Logging BY DEF SpawnInv
  <1>2. /\ service = "starting" /\ pipe' = [s \in Streams |-> <<>>]
        /\ UNCHANGED <<wrote, text, buffer, hand, queue, shown, capture, logFile, logged, stop>>
    BY DEF Started, childVars, captureVars, logVars, stopVars, viewer
  <1>3. UNCHANGED <<Delivered, Output, Copied>> BY <1>2 DEF Delivered, Output, Copied
  <1> HIDE DEF Lines
  <1>4. pipe' \in [Streams -> Seq(Lines)] BY <1>2, EmptySeq
  <1>5. SpawnTyped' BY <1>1, <1>2, <1>4 DEF SpawnTyped
  <1>6. Places' BY <1>1, <1>2 DEF Places
  <1>7. Logging' BY <1>1, <1>2, <1>3 DEF Logging, Places
  <1>8. QED BY <1>5, <1>6, <1>7 DEF SpawnInv, Healthy

\* The thread breaks off: the output stays as it is.
LEMMA BreakInv == ASSUME SpawnInv, Break PROVE SpawnInv'
  <1>1. SpawnTyped /\ Places /\ Logging BY DEF SpawnInv
  <1> DEFINE s == Turn
  <1>2. s \in Streams BY DEF Turn, Streams
  <1>3. PICK n \in 1 .. Len(pipe[s]) :
          pipe' = [pipe EXCEPT ![s] = SubSeq(pipe[s], n + 1, Len(pipe[s]))]
    BY DEF Break
  <1>4. /\ capture = "read" /\ capture' = "broken"
        /\ UNCHANGED <<service, wrote, text, buffer, hand, queue, shown, logFile, logged, stop>>
    BY DEF Break, childVars, logVars, stopVars, viewer
  <1> HIDE DEF s, Lines
  <1>5. UNCHANGED <<Delivered, Output, Copied>> BY <1>4 DEF Delivered, Output, Copied
  <1>6. pipe' \in [Streams -> Seq(Lines)]
    <2>1. pipe[s] \in Seq(Lines) BY <1>1, <1>2 DEF SpawnTyped
    <2>2. Len(pipe[s]) \in Nat /\ \A i \in 1 .. Len(pipe[s]) : pipe[s][i] \in Lines
      BY <2>1, LenProperties
    <2>3. SubSeq(pipe[s], n + 1, Len(pipe[s])) \in Seq(Lines)
      <3>1. \A i \in n + 1 .. Len(pipe[s]) : pipe[s][i] \in Lines BY <1>3, <2>2
      <3>2. n + 1 \in Int /\ Len(pipe[s]) \in Int BY <1>3, <2>2
      <3>3. QED BY <3>1, <3>2, SubSeqProperties
    <2>4. QED BY <1>1, <1>3, <2>3 DEF SpawnTyped
  <1>7. SpawnTyped' BY <1>1, <1>4, <1>6 DEF SpawnTyped
  <1>8. Places' BY <1>1, <1>4 DEF Places
  <1>9. Logging' BY <1>1, <1>4, <1>5 DEF Logging
  <1>10. Numbered => Numbered' BY <1>4, <1>5 DEF Numbered
  <1>11. QED BY <1>4, <1>7, <1>8, <1>9, <1>10 DEF SpawnInv, Healthy

\* Every step of a spawned service keeps its invariant.
LEMMA SpawnNextInv == ASSUME SpawnInv, SpawnNext PROVE SpawnInv'
  <1>1. CASE Quiet BY <1>1, QuietInv
  <1>2. CASE CloseLog \/ (Started /\ service' = "failed") BY <1>2, FooterInv
  <1>3. CASE ChildWrites \/ ChildSaysGoodbye
    BY <1>3, WriteInv DEF ChildWrites, ChildSaysGoodbye, Streams
  <1>4. CASE Read
    <2>1. Healthy BY <1>4 DEF Read, SpawnInv, Places, Healthy
    <2>2. QED BY <1>4, <2>1, ReadInv
  <1>5. CASE WriteLog BY <1>5, WriteLogInv
  <1>6. CASE Notify BY <1>6, NotifyInv
  <1>7. CASE Started /\ service' = "raised" BY <1>7, RaisedInv
  <1>8. CASE Break BY <1>8, BreakInv
  <1>9. Started => Quiet \/ service' \in {"failed", "raised"} BY DEF Started, Quiet
  <1>10. QED
    BY <1>1, <1>2, <1>3, <1>4, <1>5, <1>6, <1>7, <1>8, <1>9 DEF SpawnNext, Capture, Stopping, Quiet

\* Every step of an attached service keeps the handle.
LEMMA AttachNextInv == ASSUME Handles, AttachNext PROVE Handles'
  <1>1. CASE Attach BY <1>1 DEF Attach, Handles
  <1>2. CASE GetMemoryUsage BY <1>2 DEF GetMemoryUsage, Current, IsRunning, Handles
  <1>3. CASE Detach \/ LetGo \/ Detached BY <1>3 DEF Detach, LetGo, Detached, Handles
  <1>4. CASE NodeLogs \/ PidChangesHands \/ TailLog
    BY <1>4
       DEF NodeLogs, LogHalf, PidChangesHands, TailLog, LookAtSize, History, Follow, EndTail, Handles
  <1>5. QED BY <1>1, <1>2, <1>3, <1>4 DEF AttachNext

\* A piece more that begins where the others end.
LEMMA OnePieceMore ==
  ASSUME NEW d \in Seq(Pieces), NEW e \in Nat, Joined(d, e),
         NEW x \in Pieces, x # <<>>, x[1] = e + 1, \A j \in DOMAIN x : x[j] = x[1] + j - 1
  PROVE  Append(d, x) \in Seq(Pieces) /\ Joined(Append(d, x), e + Len(x))
  <1>1. PICK n \in Nat, k \in Nat : n = Len(d) /\ k = Len(x) BY LenProperties DEF Pieces
  <1> DEFINE r == Append(d, x)
  <1>2. /\ r \in Seq(Pieces) /\ Len(r) = n + 1 /\ r[n + 1] = x /\ \A i \in 1 .. n : r[i] = d[i]
    BY <1>1, AppendProperties
  <1> HIDE DEF r
  <1>3. DOMAIN d = 1 .. n /\ DOMAIN r = 1 .. n + 1 /\ (n # 0 => d # <<>>)
    BY <1>1, <1>2, LenProperties, EmptySeq
  <1>4. ASSUME NEW i \in 1 .. n + 1
        PROVE r[i] # <<>> /\ \A j \in DOMAIN r[i] : r[i][j] = r[i][1] + j - 1
    <2>1. CASE i \in 1 .. n
      <3>1. d[i] # <<>> /\ \A j \in DOMAIN d[i] : d[i][j] = d[i][1] + j - 1
        BY <1>3, <2>1 DEF Joined
      <3>2. r[i] = d[i] BY <1>2, <2>1
      <3>3. QED BY <3>1, <3>2
    <2>2. CASE i = n + 1 BY <1>2, <2>2
    <2>3. QED BY <2>1, <2>2
  <1>5. ASSUME NEW i \in 1 .. n PROVE r[i + 1][1] = r[i][1] + Len(r[i])
    <2>1. CASE i \in 1 .. n - 1
      <3>1. i + 1 \in 1 .. n BY <2>1
      <3>2. QED BY <1>1, <1>2, <2>1, <3>1 DEF Joined
    <2>2. CASE i = n BY <1>1, <1>2, <1>3, <2>2 DEF Joined
    <2>3. QED BY <2>1, <2>2
  <1>6. Joined(r, e + k)
    <2>1. \A i \in 1 .. Len(r) - 1 : r[i + 1][1] = r[i][1] + Len(r[i]) BY <1>2, <1>5
    <2>2. r[Len(r)][1] + Len(r[Len(r)]) = (e + k) + 1 BY <1>1, <1>2
    <2>3. QED BY <1>3, <1>4, <2>1, <2>2 DEF Joined
  <1>7. QED BY <1>1, <1>2, <1>6 DEF r

\* The end grows with the sequence.
LEMMA EndGrows ==
  ASSUME NEW S, NEW l \in Seq(S), NEW d \in Seq(S), IsEnd(l, d), NEW x \in S
  PROVE  IsEnd(Append(l, x), Append(d, x))
  <1>1. PICK m \in Nat, n \in Nat : m = Len(l) /\ n = Len(d) BY LenProperties
  <1> DEFINE a == Append(l, x)
             b == Append(d, x)
  <1>2. /\ Len(a) = m + 1 /\ a[m + 1] = x /\ \A i \in 1 .. m : a[i] = l[i]
        /\ Len(b) = n + 1 /\ b[n + 1] = x /\ \A i \in 1 .. n : b[i] = d[i]
    BY <1>1, AppendProperties
  <1> HIDE DEF a, b
  <1>3. m <= n BY <1>1 DEF IsEnd
  <1>4. ASSUME NEW i \in 1 .. m + 1 PROVE a[i] = b[(n + 1) - (m + 1) + i]
    <2>1. CASE i = m + 1
      <3>1. (n + 1) - (m + 1) + i = n + 1 BY <2>1
      <3>2. QED BY <1>2, <2>1, <3>1
    <2>2. CASE i \in 1 .. m
      <3>1. (n + 1) - (m + 1) + i = n - m + i /\ n - m + i \in 1 .. n BY <1>3, <2>2
      <3>2. QED BY <1>1, <1>2, <2>2, <3>1 DEF IsEnd
    <2>3. QED BY <2>1, <2>2
  <1>5. IsEnd(a, b)
    <2>1. Len(a) <= Len(b) BY <1>2, <1>3
    <2>2. \A i \in 1 .. Len(a) : a[i] = b[Len(b) - Len(a) + i] BY <1>2, <1>4
    <2>3. QED BY <2>1, <2>2 DEF IsEnd
  <1>6. QED BY <1>5 DEF a, b

\* What there is from pos to the end of the file, in lines.
LEMMA TextIsSplit ==
  ASSUME TailInv
  PROVE  IsSplit(pos, Len(file) - pos, SplitLines(Text(pos)))
  <1> DEFINE text0 == Text(pos)
  <1>1. /\ Len(file) \in Nat /\ pos \in Nat /\ pos <= Len(file)
        /\ \A i \in 1 .. Len(file) : file[i] = i
    BY LenProperties DEF TailInv, Pieces
  <1>2. \A i \in pos + 1 .. Len(file) : file[i] \in Nat BY <1>1
  <1>3. /\ text0 \in Pieces /\ Len(text0) = Len(file) - pos
        /\ \A i \in 1 .. Len(file) - pos : text0[i] = pos + i
    <2>1. /\ text0 \in Pieces
          /\ Len(text0) = IF pos + 1 <= Len(file) THEN Len(file) - (pos + 1) + 1 ELSE 0
          /\ \A i \in 1 .. Len(file) - (pos + 1) + 1 : text0[i] = file[pos + 1 + i - 1]
      BY <1>1, <1>2, SubSeqProperties DEF Text, Pieces
    <2> HIDE DEF text0
    <2>2. QED BY <1>1, <2>1
  <1> HIDE DEF text0
  <1>4. QED BY <1>1, <1>3, SplitLinesSplits DEF text0

\* A line put into the queue is delivered.
LEMMA QueuedIsDelivered ==
  ASSUME NEW S, queue \in Seq(S), shown \in Seq(S), NEW ls \in Seq(S), QueueMessages(ls)
  PROVE  queue' \in Seq(S) /\ shown' \in Seq(S) /\ Delivered' = Delivered \o ls
  BY ConcatProperties, Regroup DEF QueueMessages, Delivered

\* The history: the last lines of the chunk, whose end is the end of the file by now.
LEMMA HistoryInv == ASSUME TailInv, History PROVE TailInv'
  <1> DEFINE ls == SplitLines(Text(pos))
             last == Tail0(ls, HistoryLines)
  <1>1. /\ tail = "history" /\ Delivered = <<>> /\ lines = <<>>
        /\ QueueMessages(last) /\ lines' = lines \o last
        /\ pos' = Len(file) /\ tail' = "follow" /\ UNCHANGED <<file, attached>>
    BY DEF History, TailInv
  <1>2. Len(file) \in Nat /\ pos \in 0 .. Len(file) /\ attached # 0 /\ HistoryLines \in Nat
        /\ HistoryLines <= BufferMax /\ BufferMax \in Nat
    BY <1>1, TailBounds, LenProperties DEF TailInv, Pieces
  <1>3. ls \in Seq(Pieces) /\ Joined(ls, Len(file))
    <2>1. pos + (Len(file) - pos) = Len(file) BY <1>2
    <2>2. QED BY <2>1, TextIsSplit DEF IsSplit
  <1> HIDE DEF ls
  <1>4. IsEnd(ls, ls)
    <2>1. Len(ls) \in Nat BY <1>3, LenProperties
    <2>2. QED BY <2>1 DEF IsEnd
  <1>5. last \in Seq(Pieces) /\ IsEnd(last, ls) /\ Len(last) <= HistoryLines
    <2>1. Len(ls) \in Nat BY <1>3, LenProperties
    <2>2. QED BY <1>2, <1>3, <1>4, <2>1, LastOfEnd
  <1>6. Joined(last, Len(file)) BY <1>3, <1>5, EndIsJoined
  <1> HIDE DEF last
  <1>7. /\ queue' \in Seq(Pieces) /\ shown' \in Seq(Pieces) /\ Delivered' = last /\ lines' = last
    BY <1>1, <1>5, QueuedIsDelivered, ConcatEmptySeq DEF TailInv
  <1>8. Len(last) \in Nat BY <1>5, LenProperties
  <1>9. IsEnd(last, last) /\ Len(last) <= BufferMax BY <1>2, <1>5, <1>8 DEF IsEnd
  <1>10. pos' \in 0 .. Len(file) BY <1>1, <1>2
  <1>11. QED BY <1>1, <1>2, <1>5, <1>6, <1>7, <1>9, <1>10 DEF TailInv

\* readline: the next line, or what there is of it.
LEMMA FollowInv == ASSUME TailInv, Follow PROVE TailInv'
  <1> DEFINE ls == SplitLines(Text(pos))
             line == Head(ls)
  <1>1. /\ tail = "follow" /\ pos < Len(file) /\ QueueMessages(<<line>>)
        /\ lines' = Bounded(Append(lines, line)) /\ pos' = pos + Len(line)
        /\ UNCHANGED <<file, tail, attached>>
    BY DEF Follow
  <1>2. /\ Len(file) \in Nat /\ pos \in Nat /\ Joined(Delivered, pos) /\ IsEnd(lines, Delivered)
        /\ queue \in Seq(Pieces) /\ shown \in Seq(Pieces) /\ lines \in Seq(Pieces)
        /\ BufferMax \in Nat /\ BufferKeep \in 1 .. BufferMax /\ Len(lines) \in Nat
    BY <1>1, TailBounds, LenProperties DEF TailInv, Pieces
  <1>3. /\ ls \in Seq(Pieces) /\ Joined(ls, pos + (Len(file) - pos))
        /\ ls # <<>> /\ ls[1][1] = pos + 1 /\ Len(ls[1]) <= Len(file) - pos
    BY <1>1, <1>2, TextIsSplit DEF IsSplit
  <1> HIDE DEF ls
  <1>4. Len(ls) \in Nat /\ 1 \in 1 .. Len(ls) /\ DOMAIN ls = 1 .. Len(ls) /\ line = ls[1]
    BY <1>3, LenProperties, EmptySeq, HeadTailProperties
  <1>5. /\ line \in Pieces /\ line # <<>> /\ line[1] = pos + 1 /\ Len(line) \in Nat
        /\ \A j \in DOMAIN line : line[j] = line[1] + j - 1
        /\ Len(line) <= Len(file) - pos
    <2>1. \A i \in DOMAIN ls :
            ls[i] # <<>> /\ \A j \in DOMAIN ls[i] : ls[i][j] = ls[i][1] + j - 1
      BY <1>3 DEF Joined
    <2>2. ls[1] \in Pieces BY <1>3, <1>4, LenProperties
    <2>3. Len(ls[1]) \in Nat BY <2>2, LenProperties DEF Pieces
    <2> HIDE DEF line
    <2>4. QED BY <1>3, <1>4, <2>1, <2>2, <2>3
  <1> HIDE DEF line
  <1>6. Delivered \in Seq(Pieces) BY <1>2, ConcatProperties DEF Delivered
  <1>7. <<line>> \in Seq(Pieces) BY <1>5
  <1>8. queue' \in Seq(Pieces) /\ shown' \in Seq(Pieces) /\ Delivered' = Append(Delivered, line)
    BY <1>1, <1>2, <1>5, <1>6, <1>7, QueuedIsDelivered, AppendIsConcat
  <1>9. Append(Delivered, line) \in Seq(Pieces) /\ Joined(Append(Delivered, line), pos')
    BY <1>1, <1>2, <1>5, <1>6, OnePieceMore
  <1> DEFINE more == Append(lines, line)
  <1>10. more \in Seq(Pieces) /\ Len(more) = Len(lines) + 1 BY <1>2, <1>5, AppendProperties
  <1>11. IsEnd(more, Delivered') BY <1>2, <1>5, <1>6, <1>8, EndGrows
  <1> HIDE DEF more
  <1>12. lines' \in Seq(Pieces) /\ IsEnd(lines', Delivered') /\ Len(lines') <= BufferMax
    <2>1. CASE Len(more) > BufferMax
      <3>1. lines' = Tail0(more, BufferKeep) BY <1>1, <2>1 DEF Bounded, more
      <3>2. /\ lines' \in Seq(Pieces) /\ IsEnd(lines', Delivered')
            /\ Len(lines') = IF BufferKeep <= Len(more) THEN BufferKeep ELSE Len(more)
        <4>1. Delivered' \in Seq(Pieces) /\ BufferKeep \in Nat BY <1>2, <1>8, <1>9
        <4> DEFINE d == Delivered'
        <4> HIDE DEF d
        <4>2. d \in Seq(Pieces) /\ IsEnd(more, d) BY <1>11, <4>1 DEF d
        <4>3. LET t == Tail0(more, BufferKeep)
              IN t \in Seq(Pieces) /\ IsEnd(t, d) /\ Len(t) = IF BufferKeep <= Len(more) THEN BufferKeep ELSE Len(more)
          BY <1>10, <4>1, <4>2, LastOfEnd
        <4>4. QED BY <3>1, <4>3 DEF d
      <3>3. QED BY <1>2, <1>10, <3>2
    <2>2. CASE ~(Len(more) > BufferMax)
      <3>1. lines' = more BY <1>1, <2>2 DEF Bounded, more
      <3>2. QED BY <1>2, <1>10, <1>11, <2>2, <3>1
    <2>3. QED BY <2>1, <2>2
  <1>13. pos' \in 0 .. Len(file) BY <1>1, <1>2, <1>5
  <1>14. QED BY <1>1, <1>8, <1>9, <1>12, <1>13 DEF TailInv

\* The node's log stays numbered.
LEMMA NodeLogsInv == ASSUME TailInv, NodeLogs PROVE TailInv'
  <1>1. PICK k \in 1 .. 2 : LogHalf(k) BY DEF NodeLogs
  <1> DEFINE more == [i \in 1 .. k |-> Len(file) + i]
  <1>2. file' = file \o more /\ UNCHANGED <<pos, tail, lines, attached, queue, shown>>
    BY <1>1 DEF LogHalf, tailVars, viewer
  <1>3. Len(file) \in Nat /\ file \in Pieces BY LenProperties DEF TailInv, Pieces
  <1>4. more \in Pieces /\ Len(more) = k /\ \A i \in 1 .. k : more[i] = Len(file) + i
    BY <1>3 DEF Pieces
  <1> HIDE DEF more
  <1>5. /\ file' \in Pieces /\ Len(file') = Len(file) + k
        /\ \A i \in 1 .. Len(file) + k :
             file'[i] = IF i <= Len(file) THEN file[i] ELSE more[i - Len(file)]
    BY <1>2, <1>3, <1>4, ConcatProperties DEF Pieces
  <1>6. \A i \in 1 .. Len(file') : file'[i] = i
    <2>1. ASSUME NEW i \in 1 .. Len(file) + k, ~(i <= Len(file)) PROVE more[i - Len(file)] = i
      <3>1. i - Len(file) \in 1 .. k /\ Len(file) + (i - Len(file)) = i BY <1>3, <2>1
      <3>2. QED BY <1>4, <3>1
    <2>2. \A i \in 1 .. Len(file) : file[i] = i BY DEF TailInv
    <2>3. QED BY <1>3, <1>5, <2>1, <2>2
  <1>7. UNCHANGED Delivered BY <1>2 DEF Delivered
  <1>8. pos' \in 0 .. Len(file') BY <1>2, <1>3, <1>5 DEF TailInv
  <1>9. QED BY <1>2, <1>5, <1>6, <1>7, <1>8 DEF TailInv

\* Every step of an attached service keeps the tail.
LEMMA TailNextInv == ASSUME TailInv, AttachNext PROVE TailInv'
  <1>1. CASE NodeLogs BY <1>1, NodeLogsInv
  <1>2. CASE History BY <1>2, HistoryInv
  <1>3. CASE Follow BY <1>3, FollowInv
  <1>4. CASE LookAtSize
    <2>1. /\ tail = "open" /\ tail' = "history" /\ UNCHANGED <<file, lines, attached, queue, shown>>
          /\ pos' = Len(file) - Min({Len(file), ChunkHalves})
      BY <1>4 DEF LookAtSize, viewer
    <2>2. Len(file) \in Nat /\ ChunkHalves \in Nat
      BY TailBounds, LenProperties DEF TailInv, Pieces
    <2>3. Min({Len(file), ChunkHalves}) \in 0 .. Len(file) BY <2>2 DEF Min
    <2>4. pos' \in 0 .. Len(file) BY <2>1, <2>2, <2>3
    <2>5. UNCHANGED Delivered BY <2>1 DEF Delivered
    <2>6. QED BY <2>1, <2>4, <2>5 DEF TailInv
  <1>5. CASE Attach \/ EndTail
    <2>1. UNCHANGED <<file, pos, lines, queue, shown>> BY <1>5 DEF Attach, EndTail, viewer
    <2>2. UNCHANGED Delivered BY <2>1 DEF Delivered
    <2>3. CASE Attach
      <3>1. tail = "none" /\ tail' \in {"none", "open"} /\ (attached' = 0 => FALSE)
        BY <2>3 DEF Attach, TailInv
      <3>2. QED BY <2>1, <2>2, <3>1 DEF TailInv
    <2>4. CASE EndTail
      <3>1. tail = "follow" /\ tail' = "ended" /\ UNCHANGED attached BY <2>4 DEF EndTail
      <3>2. QED BY <2>1, <2>2, <3>1 DEF TailInv
    <2>5. QED BY <1>5, <2>3, <2>4
  <1>6. CASE PidChangesHands \/ GetMemoryUsage \/ Detach \/ LetGo \/ Detached
    <2>1. UNCHANGED <<file, pos, tail, lines, attached, queue, shown>>
      BY <1>6 DEF PidChangesHands, GetMemoryUsage, Detach, LetGo, Detached, tailVars, viewer
    <2>2. UNCHANGED Delivered BY <2>1 DEF Delivered
    <2>3. QED BY <2>1, <2>2 DEF TailInv
  <1>7. QED BY <1>1, <1>2, <1>3, <1>4, <1>5, <1>6 DEF AttachNext, TailLog

\* A spawned service starts with nothing read and nothing logged.
LEMMA InitInv == Init => IInv
  <1> SUFFICES ASSUME Init PROVE IInv
    OBVIOUS
  <1> USE DEF Init, SpawnIdle, AttachIdle, LogViewerInit
  <1>1. Handles BY DEF Handles
  <1>2. SpawnTyped
    <2>1. 0 \in 0 .. MaxLines BY CaptureBounds
    <2> HIDE DEF Lines
    <2>2. <<>> \in Seq(Lines) /\ <<>> \in Seq(Lines \cup {Footer}) BY EmptySeq
    <2>3. QED BY <2>1, <2>2 DEF SpawnTyped
  <1>3. Places BY DEF Places
  <1>4. Output = <<>> /\ Delivered = <<>> /\ Len(Output) = 0 /\ Len(Delivered) = 0
    <2>1. <<>> \in Seq({}) BY EmptySeq
    <2>2. <<>> \o <<>> = <<>> BY <2>1, ConcatEmptySeq
    <2>3. QED BY <2>2, EmptySeq DEF Output, Delivered
  <1>5. Logging
    <2>1. Len(logged) = 0 BY EmptySeq
    <2>2. Copied = 0 BY <2>1 DEF Copied
    <2>3. QED BY <1>4, <2>1, <2>2 DEF Logging
  <1>6. Numbered
    <2>1. \A s \in Streams : LinesOf(s, Output) = 0 BY <1>4, NoLines
    <2>2. \A s \in Streams :
            /\ wrote[s] = 0 /\ Len(text[s]) = 0 /\ Len(pipe[s]) = 0 /\ Len(buffer[s]) = 0
      BY EmptySeq
    <2>3. QED BY <1>4, <2>1, <2>2, CaptureBounds DEF Numbered
  <1>7. QED BY <1>1, <1>2, <1>3, <1>5, <1>6 DEF IInv, SpawnInv

\* Every step keeps the invariant.
LEMMA NextInv == IInv /\ [Next]_vars => IInv'
  <1> SUFFICES ASSUME IInv, [Next]_vars PROVE IInv'
    OBVIOUS
  <1>1. CASE Shows
    <2>1. UNCHANGED <<mode, spawnVars, attached, handle, sampled, detach>>
      BY <1>1 DEF Shows, attachVars
    <2>2. mode = "spawn" => SpawnInv'
      BY <1>1, <2>1, ShowsInv DEF Shows, IInv
    <2>3. QED BY <2>1, <2>2 DEF IInv, Handles
  <1>2. CASE Spawned
    <2>1. mode = "spawn" /\ SpawnNext /\ UNCHANGED <<mode, attached, handle, sampled, detach>>
      BY <1>2 DEF Spawned, Alone, attachVars
    <2>2. QED BY <2>1, SpawnNextInv DEF IInv, Handles
  <1>3. CASE Attaches
    BY <1>3, AttachNextInv DEF Attaches, IInv
  <1>4. CASE UNCHANGED vars
    <2>1. UNCHANGED <<mode, attached, handle, sampled, detach>> /\ UNCHANGED spawnVars
          /\ UNCHANGED <<queue, shown>>
      BY <1>4 DEF vars, attachVars, viewer
    <2>2. UNCHANGED <<service, wrote, pipe, text, capture, hand, buffer, logFile, logged, stop>>
      BY <2>1 DEF spawnVars, childVars, pipes, captureVars, logVars, stopVars
    <2>3. UNCHANGED <<Delivered, Output, Copied>> BY <2>1, <2>2 DEF Delivered, Output, Copied
    <2>4. SpawnInv => SpawnTyped' /\ Places' /\ Logging'
      BY <2>1, <2>2, <2>3 DEF SpawnInv, SpawnTyped, Places, Logging
    <2>5. QED BY <2>1, <2>2, <2>3, <2>4, NumberedStays DEF Healthy, IInv, SpawnInv, Handles
  <1>5. QED BY <1>1, <1>2, <1>3, <1>4 DEF Next

\* The invariant of both services holds in every reachable state.
THEOREM Invariance == Spec => []IInv
  BY InitInv, NextInv, PTL DEF Spec

\* The read-ahead, the pipe and the buffer of the invariant, put together.
LEMMA NumberedIsInOrder == ASSUME SpawnTyped, Numbered PROVE StreamsInOrder
  <1> HIDE DEF Lines
  <1>1. Output \in Seq(Lines) /\ DOMAIN Output = 1 .. Len(Output)
    BY OutputLines, LenProperties
  <1>2. ASSUME NEW s \in Streams
        PROVE LET heard == OfStream(s, LinesOf(s, Output))
              IN /\ capture # "broken" => heard \o text[s] \o pipe[s] = Written(s)
                 /\ buffer[s] = LastOf(heard, KeepLines)
    <2>1. PICK n \in Nat : n = LinesOf(s, Output) BY <1>1, LinesAreCounted
    <2>2. text[s] \in Seq(Lines) /\ pipe[s] \in Seq(Lines) /\ buffer[s] \in Seq(Lines)
          /\ wrote[s] \in 0 .. MaxLines
      BY DEF SpawnTyped
    <2>3. PICK a \in Nat, b \in Nat, k \in Nat :
            a = Len(text[s]) /\ b = Len(pipe[s]) /\ k = Len(buffer[s])
      BY <2>2, LenProperties
    <2>4. /\ n <= wrote[s]
          /\ capture # "broken" =>
               /\ wrote[s] = n + a + b
               /\ \A i \in 1 .. a : text[s][i] = <<s, n + i>>
               /\ \A i \in 1 .. b : pipe[s][i] = <<s, n + a + i>>
          /\ k = IF KeepLines <= n THEN KeepLines ELSE n
          /\ \A i \in 1 .. k : buffer[s][i] = <<s, n - k + i>>
      BY <2>1, <2>3 DEF Numbered
    <2>5. ASSUME NEW m \in 0 .. MaxLines
          PROVE /\ OfStream(s, m) \in Seq(Lines) /\ Len(OfStream(s, m)) = m
                /\ \A i \in 1 .. m : OfStream(s, m)[i] = <<s, i>>
      <3>1. m \in Nat /\ \A i \in 1 .. m : <<s, i>> \in Lines
        BY CaptureBounds DEF Lines
      <3>2. QED BY <3>1 DEF OfStream
    <2>6. n \in 0 .. MaxLines BY <2>2, <2>4, CaptureBounds
    <2> DEFINE heard == OfStream(s, n)
    <2>7. heard \in Seq(Lines) /\ Len(heard) = n /\ \A i \in 1 .. n : heard[i] = <<s, i>>
      BY <2>5, <2>6
    <2> HIDE DEF heard
    <2>8. /\ Written(s) \in Seq(Lines) /\ Len(Written(s)) = wrote[s]
           /\ \A i \in 1 .. wrote[s] : Written(s)[i] = <<s, i>>
      BY <2>2, <2>5 DEF Written, OfStream
    <2>9. ASSUME capture # "broken" PROVE heard \o text[s] \o pipe[s] = Written(s)
      <3> DEFINE taken == heard \o text[s]
                 all == taken \o pipe[s]
      <3>1. taken \in Seq(Lines) /\ Len(taken) = n + a /\ \A i \in 1 .. n + a : taken[i] = <<s, i>>
        <4>1. /\ taken \in Seq(Lines) /\ Len(taken) = n + a
              /\ \A i \in 1 .. n + a : taken[i] = IF i <= n THEN heard[i] ELSE text[s][i - n]
          BY <2>2, <2>3, <2>7, ConcatProperties
        <4>2. ASSUME NEW i \in 1 .. n + a, ~(i <= n) PROVE text[s][i - n] = <<s, i>>
          <5>1. i - n \in 1 .. a /\ n + (i - n) = i BY <4>2
          <5>2. QED BY <2>4, <2>9, <5>1
        <4>3. QED BY <2>7, <4>1, <4>2
      <3> HIDE DEF taken
      <3>2. all \in Seq(Lines) /\ Len(all) = wrote[s] /\ \A i \in 1 .. wrote[s] : all[i] = <<s, i>>
        <4>1. PICK c \in Nat : c = n + a OBVIOUS
        <4>2. /\ all \in Seq(Lines) /\ Len(all) = c + b
              /\ \A i \in 1 .. c + b : all[i] = IF i <= c THEN taken[i] ELSE pipe[s][i - c]
          <5>1. taken \in Seq(Lines) /\ pipe[s] \in Seq(Lines) BY <2>2, <3>1
          <5>2. Len(taken) = c /\ Len(pipe[s]) = b BY <2>3, <3>1, <4>1
          <5>3. /\ all \in Seq(Lines) /\ Len(all) = Len(taken) + Len(pipe[s])
                /\ \A i \in 1 .. Len(taken) + Len(pipe[s]) :
                     all[i] = IF i <= Len(taken) THEN taken[i] ELSE pipe[s][i - Len(taken)]
            BY <5>1, ConcatProperties
          <5>4. QED BY <5>2, <5>3
        <4>3. ASSUME NEW i \in 1 .. c + b, ~(i <= c) PROVE pipe[s][i - c] = <<s, i>>
          <5>1. i - c \in 1 .. b /\ n + a + (i - c) = i BY <4>1, <4>3
          <5>2. QED BY <2>4, <2>9, <5>1
        <4>4. wrote[s] = c + b BY <2>4, <2>9, <4>1
        <4>5. ASSUME NEW i \in 1 .. c + b PROVE all[i] = <<s, i>>
          <5>1. CASE i <= c
            <6>1. i \in 1 .. n + a BY <4>1, <5>1
            <6>2. QED BY <3>1, <4>2, <5>1, <6>1
          <5>2. CASE ~(i <= c) BY <4>2, <4>3, <5>2
          <5>3. QED BY <5>1, <5>2
        <4>6. QED BY <4>2, <4>4, <4>5
      <3> HIDE DEF all
      <3>3. all = Written(s) BY <2>8, <3>2, SeqEqual
      <3>4. QED BY <3>3 DEF all, taken
    <2>10. buffer[s] = LastOf(heard, KeepLines)
      <3>1. KeepLines \in Nat BY CaptureBounds
      <3>2. /\ LastOf(heard, KeepLines) \in Seq(Lines)
            /\ Len(LastOf(heard, KeepLines)) = IF KeepLines <= Len(heard) THEN KeepLines
                                                                         ELSE Len(heard)
            /\ \A i \in 1 .. Len(LastOf(heard, KeepLines)) : LastOf(heard, KeepLines)[i] =
                 heard[Len(heard) - Len(LastOf(heard, KeepLines)) + i]
        BY <2>7, <3>1, LastOfIsEnd
      <3>3. Len(LastOf(heard, KeepLines)) = k BY <2>4, <2>7, <3>2
      <3>4. ASSUME NEW i \in 1 .. k PROVE LastOf(heard, KeepLines)[i] = buffer[s][i]
        <4>1. n - k + i \in 1 .. n BY <2>4, <3>1
        <4>2. heard[n - k + i] = <<s, n - k + i>> BY <2>7, <4>1
        <4>3. LastOf(heard, KeepLines)[i] = heard[n - k + i] BY <2>7, <3>2, <3>3
        <4>4. QED BY <2>4, <4>2, <4>3
      <3>5. QED BY <2>2, <2>3, <3>2, <3>3, <3>4, SeqEqual
    <2>11. QED BY <2>1, <2>9, <2>10 DEF heard
  <1>3. QED BY <1>1, <1>2 DEF StreamsInOrder, Numbered

\* For any number of lines, whatever the thread reads ahead, the n-th line of a
\* stream in the output is the n-th that the child wrote to it, what has not been
\* read is still to come, and the buffer has the latest (_capture_output_thread).
THEOREM StreamsArriveInOrder == Spec => []StreamsInOrder
  <1>1. IInv => StreamsInOrder
    <2> SUFFICES ASSUME IInv, mode = "spawn", Healthy PROVE StreamsInOrder
      BY DEF StreamsInOrder, Healthy
    <2>1. QED BY NumberedIsInOrder DEF IInv, SpawnInv
  <1>2. QED BY <1>1, Invariance, PTL

\* Although _write_to_log and _close_log_file look at the file before they lock it,
\* the file is a copy of the output up to its footer.
THEOREM LogFileIsCopy == Spec => []LogIsCopy
  <1>1. IInv => LogIsCopy
    <2> SUFFICES ASSUME IInv, mode = "spawn" PROVE LogIsCopy
      BY DEF LogIsCopy
    <2>1. SpawnTyped /\ Places /\ Logging BY DEF IInv, SpawnInv
    <2>2. PICK n \in 0 .. Len(Output) : n = Copied BY <2>1 DEF Logging
    <2> HIDE DEF Lines
    <2>3. Output \in Seq(Lines) /\ Len(Output) \in Nat /\ Len(Delivered) \in Nat
      BY <2>1, OutputLines, LenProperties
    <2>4. \A i \in 1 .. n : logged[i] = Output[i] /\ Output[i] \in Lines
      BY <2>1, <2>2, <2>3, LenProperties DEF Logging
    <2> DEFINE copy == SubSeq(logged, 1, n)
               start == SubSeq(Output, 1, n)
    <2>5. n \in Int /\ 1 \in Int /\ n - 1 + 1 = n /\ n >= 0 BY <2>2, <2>3
    <2>6. copy \in Seq(Lines) /\ Len(copy) = n /\ \A i \in 1 .. n : copy[i] = Output[i]
      <3>1. \A i \in 1 .. n : logged[i] \in Lines BY <2>4
      <3>2. /\ copy \in Seq(Lines) /\ Len(copy) = IF 1 <= n THEN n - 1 + 1 ELSE 0
            /\ \A i \in 1 .. n - 1 + 1 : copy[i] = logged[1 + i - 1]
        BY <2>5, <3>1, SubSeqProperties
      <3>3. QED BY <2>4, <2>5, <3>2
    <2>7. start \in Seq(Lines) /\ Len(start) = n /\ \A i \in 1 .. n : start[i] = Output[i]
      <3>1. /\ start \in Seq(Lines) /\ Len(start) = IF 1 <= n THEN n - 1 + 1 ELSE 0
            /\ \A i \in 1 .. n - 1 + 1 : start[i] = Output[1 + i - 1]
        BY <2>4, <2>5, SubSeqProperties
      <3>2. QED BY <2>5, <3>1
    <2> HIDE DEF copy, start
    <2>8. copy = start BY <2>6, <2>7, SeqEqual
    <2>9. SubSeq(copy, 1, Len(copy)) = copy BY <2>6, SubSeqFull
    <2>10. IsPrefix(copy, Output)
      <3>1. SubSeq(Output, 1, Len(copy)) = start BY <2>6 DEF start
      <3>2. Len(copy) <= Len(Output) BY <2>2, <2>3, <2>6
      <3>3. QED BY <2>8, <2>9, <3>1, <3>2 DEF IsPrefix
    <2>11. logFile = "open" => n >= Len(Delivered)
      BY <2>1, <2>2, <2>3 DEF Logging, Copied
    <2>12. logFile = "closed" => logged[Len(logged)] = Footer BY <2>1 DEF Logging
    <2>13. QED BY <2>2, <2>10, <2>11, <2>12 DEF LogIsCopy, Copied, copy
  <1>2. QED BY <1>1, Invariance, PTL

\* Memory figures are never of another process that got the pid
\* (AttachedProcessService.get_memory_usage).
THEOREM FiguresOfAttached == Spec => []FiguresAreOfAttached
  <1>1. IInv => FiguresAreOfAttached BY DEF IInv, Handles, FiguresAreOfAttached
  <1>2. QED BY <1>1, Invariance, PTL
-------------------------------------------------------------------------------
(* Types, and the tail *)

\* The steps the threads are at and the bounds of pipes and buffers.
SpawnSteps ==
  /\ service \in {"new", "starting", "started", "failed", "raised"}
  /\ child \in {"none", "running", "asked", "leaving", "exited"}
  /\ capture \in {"none", "select", "read", "log", "write", "notify", "ended", "broken"}
  /\ ready \subseteq Streams
  /\ logFile \in {"none", "open", "closed"}
  /\ stop \in {"no", "join", "wait", "close", "closing", "done"}
  /\ \A s \in Streams : Len(pipe[s]) <= PipeSize /\ Len(buffer[s]) <= KeepLines

AttachSteps ==
  /\ attached \in {0} \cup Processes /\ handle \in {0} \cup Processes
  /\ owner \in {0} \cup Processes
  /\ detach \in {"no", "stopping", "gone", "done"}

\* The service that is not in use stays as it was.
TypeInv ==
  /\ IInv
  /\ \/ mode = "spawn" /\ SpawnSteps /\ AttachIdle
     \/ mode = "attach" /\ AttachSteps /\ TailInv /\ SpawnIdle

\* Pipes and buffers keep their bounds.
LEMMA BoundsStay ==
  ASSUME SpawnInv, SpawnSteps, SpawnNext, NEW s \in Streams
  PROVE  Len(pipe'[s]) <= PipeSize /\ Len(buffer'[s]) <= KeepLines
  <1> HIDE DEF Lines
  <1>1. /\ pipe \in [Streams -> Seq(Lines)] /\ buffer \in [Streams -> Seq(Lines)]
        /\ hand' \in Seq(Lines)
        /\ Len(pipe[s]) <= PipeSize /\ Len(buffer[s]) <= KeepLines
        /\ PipeSize \in Nat /\ KeepLines \in Nat
    BY SpawnNextInv, CaptureBounds DEF SpawnInv, SpawnTyped, SpawnSteps
  <1>2. Len(pipe[s]) \in Nat /\ Len(buffer[s]) \in Nat BY <1>1, LenProperties
  <1>3. CASE UNCHANGED <<pipe, buffer>> BY <1>1, <1>3
  <1>4. CASE Started
    <2>1. UNCHANGED buffer /\ (UNCHANGED pipe \/ pipe' = [t \in Streams |-> <<>>])
      BY <1>4 DEF Started
    <2>2. Len(<<>>) = 0 OBVIOUS
    <2>3. QED BY <1>1, <2>1, <2>2
  <1>5. ASSUME NEW t \in Streams, Write(t) PROVE Len(pipe'[s]) <= PipeSize /\ UNCHANGED buffer
    <2>1. /\ Len(pipe[t]) < PipeSize /\ pipe' = [pipe EXCEPT ![t] = Append(pipe[t], <<t, wrote[t] + 1>>)]
          /\ UNCHANGED buffer
      BY <1>5 DEF Write, captureVars
    <2>2. pipe[t] \in Seq(Lines) BY <1>1
    <2>3. Len(Append(pipe[t], <<t, wrote[t] + 1>>)) = Len(pipe[t]) + 1
      BY <2>2
    <2>4. Len(pipe[t]) \in Nat BY <2>2, LenProperties
    <2>5. CASE s = t BY <1>1, <2>1, <2>3, <2>4, <2>5
    <2>6. CASE s # t BY <1>1, <2>1, <2>6
    <2>7. QED BY <2>1, <2>5, <2>6
  <1>6. CASE Read
    <2>1. /\ Readline(Turn) /\ Turn \in Streams
          /\ buffer' = [buffer EXCEPT ![Turn] = LastOf(Append(buffer[Turn], hand'[1]), KeepLines)]
          /\ Len(hand') = 1
      BY <1>6 DEF Read, Turn, Streams, Readline
    <2>2. hand'[1] \in Lines
      <3>1. 1 \in 1 .. Len(hand') BY <2>1
      <3>2. \A q \in Seq(Lines) : \A i \in 1 .. Len(q) : q[i] \in Lines BY LenProperties
      <3>3. QED BY <1>1, <3>1, <3>2
    <2>3. Append(buffer[Turn], hand'[1]) \in Seq(Lines) BY <1>1, <2>1, <2>2, AppendProperties
    <2>4. Len(LastOf(Append(buffer[Turn], hand'[1]), KeepLines)) <= KeepLines
      <3> DEFINE b == Append(buffer[Turn], hand'[1])
      <3> HIDE DEF b
      <3>1. Len(b) \in Nat /\ b \in Seq(Lines) BY <2>3, LenProperties DEF b
      <3>2. Len(LastOf(b, KeepLines)) = IF KeepLines <= Len(b) THEN KeepLines ELSE Len(b)
        BY <1>1, <3>1, LastOfIsEnd
      <3>3. Len(LastOf(b, KeepLines)) <= KeepLines BY <1>1, <3>1, <3>2
      <3>4. QED BY <3>3 DEF b
    <2>5. Len(buffer'[s]) <= KeepLines
      <3>1. CASE s = Turn BY <1>1, <2>1, <2>4, <3>1
      <3>2. CASE s # Turn BY <1>1, <2>1, <3>2
      <3>3. QED BY <3>1, <3>2
    <2>6. Len(pipe'[s]) <= PipeSize
      <3>1. CASE UNCHANGED pipe BY <1>1, <3>1
      <3>2. ASSUME NEW n \in 1 .. Len(pipe[Turn]),
                   pipe' = [pipe EXCEPT ![Turn] = SubSeq(pipe[Turn], n + 1, Len(pipe[Turn]))]
            PROVE  Len(pipe'[s]) <= PipeSize
        <4>1. pipe[Turn] \in Seq(Lines) BY <1>1, <2>1
        <4>2. Len(pipe[Turn]) \in Nat /\ \A i \in 1 .. Len(pipe[Turn]) : pipe[Turn][i] \in Lines
          BY <4>1, LenProperties
        <4>3. Len(SubSeq(pipe[Turn], n + 1, Len(pipe[Turn]))) <= Len(pipe[Turn])
          BY <4>2, <3>2, SubSeqProperties
        <4>4. CASE s = Turn
          <5>1. pipe'[s] = SubSeq(pipe[s], n + 1, Len(pipe[s])) BY <1>1, <3>2, <4>4
          <5>2. Len(pipe'[s]) \in Nat /\ Len(pipe'[s]) <= Len(pipe[s])
            BY <4>2, <4>3, <4>4, <5>1, SubSeqProperties
          <5>3. QED BY <1>1, <1>2, <5>2
        <4>5. CASE s # Turn BY <1>1, <3>2, <4>5
        <4>6. QED BY <4>4, <4>5
      <3>3. QED BY <2>1, <3>1, <3>2 DEF Readline
    <2>7. QED BY <2>5, <2>6
  <1>7. CASE Break
    <2>1. PICK n \in 1 .. Len(pipe[Turn]) :
            pipe' = [pipe EXCEPT ![Turn] = SubSeq(pipe[Turn], n + 1, Len(pipe[Turn]))]
      BY <1>7 DEF Break
    <2>2. Turn \in Streams /\ UNCHANGED buffer BY <1>7 DEF Break, Turn, Streams
    <2>3. pipe[Turn] \in Seq(Lines) BY <1>1, <2>2
    <2>4. Len(pipe[Turn]) \in Nat /\ \A i \in 1 .. Len(pipe[Turn]) : pipe[Turn][i] \in Lines
      BY <2>3, LenProperties
    <2>5. /\ Len(SubSeq(pipe[Turn], n + 1, Len(pipe[Turn]))) \in Nat
          /\ Len(SubSeq(pipe[Turn], n + 1, Len(pipe[Turn]))) <= Len(pipe[Turn])
      BY <2>1, <2>4, SubSeqProperties
    <2>6. CASE s = Turn BY <1>1, <1>2, <2>1, <2>2, <2>4, <2>5, <2>6
    <2>7. CASE s # Turn BY <1>1, <2>1, <2>2, <2>7
    <2>8. QED BY <2>6, <2>7
  <1>8. UNCHANGED <<pipe, buffer>> \/ Started \/ (\E t \in Streams : Write(t)) \/ Read \/ Break
    BY DEF SpawnNext, Spawn, ChildWrites, ChildSaysGoodbye, ChildLeaves, ChildDies, Capture, Select,
           ReadEnd, CheckLog, WriteLog, Notify, FastStop, Stop, Stopping, Terminate, WaitOrKill,
           CheckClose, CloseLog, pipes, captureVars, Streams
  <1>9. QED BY <1>1, <1>3, <1>4, <1>5, <1>6, <1>7, <1>8

\* The steps of the threads.
LEMMA SpawnStepsStay == ASSUME SpawnInv, SpawnSteps, SpawnNext PROVE SpawnSteps'
  <1> USE DEF pipes, childVars, captureVars, logVars, stopVars, TurnDone
  <1> DEFINE Enumerated ==
        /\ service \in {"new", "starting", "started", "failed", "raised"}
        /\ child \in {"none", "running", "asked", "leaving", "exited"}
        /\ capture \in {"none", "select", "read", "log", "write", "notify", "ended", "broken"}
        /\ ready \subseteq Streams
        /\ logFile \in {"none", "open", "closed"}
        /\ stop \in {"no", "join", "wait", "close", "closing", "done"}
  <1>1. Enumerated BY DEF SpawnSteps
  <1> SUFFICES Enumerated'
    BY BoundsStay DEF SpawnSteps
  <1>2. CASE Spawn BY <1>1, <1>2 DEF Spawn
  <1>3. CASE Started BY <1>1, <1>3 DEF Started
  <1>4. ASSUME NEW s \in Streams, Write(s), child' \in {child, "leaving"} PROVE Enumerated'
    BY <1>1, <1>4 DEF Write
  <1>5. CASE ChildLeaves \/ ChildDies BY <1>1, <1>5 DEF ChildLeaves, ChildDies
  <1>6. CASE Select BY <1>1, <1>6 DEF Select
  <1>7. CASE CheckLog BY <1>1, <1>7 DEF CheckLog
  <1>8. CASE WriteLog BY <1>1, <1>8 DEF WriteLog
  <1>9. CASE Read BY <1>1, <1>9 DEF Read
  <1>10. CASE ReadEnd \/ Break BY <1>1, <1>10 DEF ReadEnd, Break
  <1>11. CASE Notify BY <1>1, <1>11 DEF Notify
  <1>12. CASE FastStop \/ Stop BY <1>1, <1>12 DEF FastStop, Stop, Terminated
  <1>13. CASE Terminate \/ WaitOrKill BY <1>1, <1>13 DEF Terminate, WaitOrKill, Terminated
  <1>14. CASE CheckClose \/ CloseLog BY <1>1, <1>14 DEF CheckClose, CloseLog
  <1>15. QED
    BY <1>2, <1>3, <1>4, <1>5, <1>6, <1>7, <1>8, <1>9, <1>10, <1>11, <1>12, <1>13, <1>14
       DEF SpawnNext, Capture, Stopping, ChildWrites, ChildSaysGoodbye, Streams

\* What is known of an attached process.
LEMMA AttachStepsStay == ASSUME AttachSteps, AttachNext PROVE AttachSteps'
  BY DEF AttachNext, NodeLogs, LogHalf, PidChangesHands, Attach, GetMemoryUsage, Current, IsRunning,
         Detach, LetGo, Detached, TailLog, LookAtSize, History, Follow, EndTail, AttachSteps, Processes

\* Both services begin idle.
LEMMA TypeInit == Init => TypeInv
  <1> SUFFICES ASSUME Init PROVE TypeInv
    OBVIOUS
  <1>1. <<>> \in Seq(Pieces) /\ <<>> \in Pieces /\ Len(<<>>) = 0 /\ <<>> \o <<>> = <<>>
    BY EmptySeq, ConcatEmptySeq DEF Pieces
  <1>2. SpawnIdle => SpawnSteps BY <1>1, CaptureBounds DEF SpawnIdle, SpawnSteps
  <1>3. AttachIdle => AttachSteps BY DEF AttachIdle, AttachSteps, Processes
  <1>4. AttachIdle /\ LogViewerInit => TailInv
    <2>1. BufferMax \in Nat BY TailBounds
    <2>2. QED BY <1>1, <2>1 DEF AttachIdle, LogViewerInit, TailInv, Delivered, IsEnd
  <1>5. QED BY <1>2, <1>3, <1>4, InitInv DEF Init, TypeInv

\* Every step keeps the types and the tail.
LEMMA TypeNext == TypeInv /\ [Next]_vars => TypeInv'
  <1> SUFFICES ASSUME TypeInv, [Next]_vars PROVE TypeInv'
    OBVIOUS
  <1>1. IInv' BY NextInv DEF TypeInv
  <1>2. CASE Shows
    <2>1. UNCHANGED <<mode, service, child, wrote, pipe, text, capture, ready, hand, buffer,
                      stopCapture, logFile, logged, stop, fast>>
          /\ UNCHANGED <<file, size, pos, tail, lines, stopTail, attached, owner, handle, sampled, detach>>
          /\ ProcessQueue
      BY <1>2 DEF Shows, attachVars, tailVars, spawnVars, childVars, pipes, captureVars, logVars, stopVars
    <2>2. UNCHANGED <<SpawnSteps, AttachIdle, SpawnIdle, AttachSteps>>
      BY <2>1 DEF SpawnSteps, AttachIdle, SpawnIdle, AttachSteps
    <2>3. TailInv => TailInv'
      <3> SUFFICES ASSUME TailInv PROVE TailInv'
        OBVIOUS
      <3>1. queue' \in Seq(Pieces) /\ shown' \in Seq(Pieces) /\ UNCHANGED Delivered
        BY <2>1, DeliveredStays DEF TailInv
      <3>2. QED BY <2>1, <3>1 DEF TailInv
    <2>4. QED BY <1>1, <2>1, <2>2, <2>3 DEF TypeInv
  <1>3. CASE Spawned
    <2>1. mode = "spawn" /\ SpawnNext /\ UNCHANGED <<mode, attachVars>> BY <1>3 DEF Spawned, Alone
    <2>2. AttachIdle => AttachIdle' BY <2>1 DEF AttachIdle, attachVars, tailVars
    <2>3. QED BY <1>1, <2>1, <2>2, SpawnStepsStay DEF TypeInv, IInv
  <1>4. CASE Attaches
    <2>1. mode = "attach" /\ AttachNext /\ UNCHANGED <<mode, spawnVars>> BY <1>4 DEF Attaches
    <2>2. SpawnIdle => SpawnIdle'
      BY <2>1 DEF SpawnIdle, spawnVars, childVars, pipes, captureVars, logVars, stopVars
    <2>3. QED BY <1>1, <2>1, <2>2, TailNextInv, AttachStepsStay DEF TypeInv
  <1>5. CASE UNCHANGED vars
    <2>1. UNCHANGED <<mode, service, child, wrote, pipe, text, capture, ready, hand, buffer,
                      stopCapture, logFile, logged, stop, fast>>
          /\ UNCHANGED <<file, size, pos, tail, lines, stopTail, attached, owner, handle, sampled, detach>>
          /\ UNCHANGED <<queue, shown>>
      BY <1>5 DEF vars, viewer, attachVars, tailVars, spawnVars, childVars, pipes, captureVars, logVars, stopVars
    <2>2. UNCHANGED <<SpawnSteps, AttachIdle, SpawnIdle, AttachSteps>>
      BY <2>1 DEF SpawnSteps, AttachIdle, SpawnIdle, AttachSteps
    <2>3. UNCHANGED Delivered BY <2>1 DEF Delivered
    <2>4. TailInv => TailInv' BY <2>1, <2>3 DEF TailInv
    <2>5. QED BY <1>1, <2>1, <2>2, <2>4 DEF TypeInv
  <1>6. QED BY <1>2, <1>3, <1>4, <1>5 DEF Next

\* Types and tail in every reachable state.
LEMMA TypeInvariance == Spec => []TypeInv
  BY TypeInit, TypeNext, PTL DEF Spec

\* Every variable keeps its type, and no pipe or buffer outgrows its bound, for any
\* number of lines.
THEOREM TypeCorrect == Spec => []TypeOK
  <1>1. TypeInv => TypeOK
    <2> SUFFICES ASSUME TypeInv PROVE TypeOK
      OBVIOUS
    <2> HIDE DEF Lines
    <2>1. CASE mode = "spawn"
      <3>1. SpawnTyped /\ Places /\ SpawnSteps /\ AttachIdle BY <2>1 DEF TypeInv, IInv, SpawnInv
      <3>2. Len(hand) <= 1
        <4>1. Len(<<>>) = 0 OBVIOUS
        <4>2. Len(hand) = 1 \/ hand = <<>> BY <3>1 DEF Places
        <4>3. CASE Len(hand) = 1 BY <4>3
        <4>4. CASE hand = <<>> BY <4>1, <4>4
        <4>5. QED BY <4>2, <4>3, <4>4
      <3>3. /\ pos \in 0 .. Len(file) /\ Len(lines) <= BufferMax
            /\ tail \in {"none", "open", "history", "follow", "ended"}
            /\ attached \in {0} \cup Processes /\ handle \in {0} \cup Processes
            /\ detach \in {"no", "stopping", "gone", "done"}
        <4>1. Len(<<>>) = 0 OBVIOUS
        <4>2. QED BY <3>1, <4>1, TailBounds DEF AttachIdle
      <3>4. QED BY <3>1, <3>2, <3>3 DEF TypeOK, SpawnTyped, SpawnSteps
    <2>2. CASE mode = "attach"
      <3>1. TailInv /\ AttachSteps /\ SpawnIdle BY <2>2 DEF TypeInv
      <3>2. /\ Len(<<>>) = 0 /\ <<>> \in Seq(Lines) /\ <<>> \in Seq(Lines \cup {Footer})
            /\ 0 \in 0 .. MaxLines /\ 0 <= PipeSize /\ 0 <= KeepLines
        BY CaptureBounds, EmptySeq
      <3>3. /\ service = "new" /\ child = "none" /\ capture = "none" /\ ready = {} /\ hand = <<>>
            /\ logFile = "none" /\ logged = <<>> /\ stop = "no"
            /\ wrote \in [Streams -> 0 .. MaxLines]
            /\ pipe \in [Streams -> Seq(Lines)] /\ text \in [Streams -> Seq(Lines)]
            /\ \A s \in Streams : Len(pipe[s]) <= PipeSize /\ Len(buffer[s]) <= KeepLines
        BY <3>1, <3>2 DEF SpawnIdle
      <3>4. QED BY <3>1, <3>2, <3>3 DEF TypeOK, TailInv, AttachSteps
    <2>3. QED BY <2>1, <2>2 DEF TypeInv
  <1>2. QED BY <1>1, TypeInvariance, PTL

\* Between its look at the size and its read of the chunk the log may grow by any
\* number of lines, and the thread still delivers one piece of it up to where it
\* reads, with its latest lines in the buffer (_tail_log_file).
THEOREM TailArrivesInOnePiece == Spec => []TailIsContiguous
  <1>1. TypeInv => TailIsContiguous
    <2> SUFFICES ASSUME TypeInv, mode = "attach" PROVE TailIsContiguous
      BY DEF TailIsContiguous
    <2>1. TailInv BY DEF TypeInv
    <2>2. Delivered \in Seq(Pieces) /\ lines \in Seq(Pieces)
      BY <2>1, ConcatProperties DEF TailInv, Delivered
    <2>3. lines = LastOf(Delivered, Len(lines)) BY <2>1, <2>2, EndIsLast DEF TailInv
    <2>4. QED BY <2>1, <2>3 DEF TailIsContiguous, TailInv
  <1>2. QED BY <1>1, TypeInvariance, PTL
===============================================================================

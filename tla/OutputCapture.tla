----------------------------- MODULE OutputCapture -----------------------------
(***************************************************************************)
(* What becomes of a process's output, from its pipes or its debug log to  *)
(* the screen. The process manager has one service at a time, a spawned or *)
(* an attached process, and hooks the viewer's queue up to it.             *)
(***************************************************************************)
EXTENDS ProcessService, AttachedProcessService

VARIABLE mode  \* _attach_mode: "spawn" or "attach"

vars == <<mode, spawnVars, attachVars, viewer>>

Init ==
  /\ mode \in {"spawn", "attach"}
  /\ SpawnIdle /\ AttachIdle /\ LogViewerInit

Shows == ProcessQueue /\ UNCHANGED <<mode, spawnVars, attachVars>>
Alone(A) == mode = "spawn" /\ A /\ UNCHANGED <<mode, attachVars>>
Spawned == Alone(SpawnNext)
Attaches == mode = "attach" /\ AttachNext /\ UNCHANGED <<mode, spawnVars>>

Next == Shows \/ Spawned \/ Attaches

Spec == Init /\ [][Next]_vars

\* Threads, the timer and stop() run on; a child obeys SIGTERM when it can.
FairSpec ==
  /\ Spec
  /\ WF_vars(Shows)
  /\ WF_vars(Alone(Capture)) /\ WF_vars(Alone(Terminate)) /\ WF_vars(Alone(WaitOrKill))
  /\ WF_vars(Alone(ChildSaysGoodbye)) /\ WF_vars(Alone(ChildLeaves))

-------------------------------------------------------------------------------
(* Properties *)

\* Every variable keeps its type.
TypeOK ==
  /\ service \in {"new", "starting", "started", "failed", "raised"}
  /\ child \in {"none", "running", "asked", "leaving", "exited"}
  /\ wrote \in [Streams -> 0 .. MaxLines]
  /\ pipe \in [Streams -> Seq(Lines)] /\ text \in [Streams -> Seq(Lines)]
  /\ capture \in {"none", "select", "read", "log", "write", "notify", "ended", "broken"}
  /\ ready \subseteq Streams /\ hand \in Seq(Lines) /\ Len(hand) <= 1
  /\ \A s \in Streams : Len(pipe[s]) <= PipeSize /\ Len(buffer[s]) <= KeepLines
  /\ logFile \in {"none", "open", "closed"}
  /\ logged \in Seq(Lines \cup {Footer})
  /\ stop \in {"no", "join", "wait", "close", "closing", "done"}
  /\ tail \in {"none", "open", "history", "follow", "ended"}
  /\ pos \in 0 .. Len(file) /\ Len(lines) <= BufferMax
  /\ attached \in {0} \cup Processes /\ handle \in {0} \cup Processes
  /\ detach \in {"no", "stopping", "gone", "done"}

Delivered == shown \o queue
Output == Delivered \o hand      \* all that was read
LinesOf(s, seq) == Cardinality({i \in DOMAIN seq : seq[i][1] = s})
OfStream(s, n) == [i \in 1 .. n |-> <<s, i>>]

\* Through pipe, read-ahead, thread, queue and screen, no line of a stream is
\* lost, repeated or overtaken by a later one: the n-th line of a stream in the
\* output is its line n, and what has not been read follows, unless the thread broke
\* off. The buffer that a crash report is taken from holds the latest lines that were
\* read.
StreamsInOrder ==
  mode = "spawn" /\ service \notin {"failed", "raised"} =>
    /\ \A i \in DOMAIN Output :
         /\ Output[i][1] \in Streams
         /\ Output[i][2] = LinesOf(Output[i][1], SubSeq(Output, 1, i))
    /\ \A s \in Streams :
         LET heard == OfStream(s, LinesOf(s, Output))
         IN /\ capture # "broken" => heard \o text[s] \o pipe[s] = Written(s)
            /\ buffer[s] = LastOf(heard, KeepLines)

\* The log file is a faithful copy: as long as it is open it has every line that
\* went to the screen, in the same order; when it is closed the footer is its end,
\* although the thread may still be holding a line it meant to write.
LogIsCopy ==
  mode = "spawn" =>
    LET n == IF logFile = "closed" THEN Len(logged) - 1 ELSE Len(logged)
    IN /\ IsPrefix(SubSeq(logged, 1, n), Output)
       /\ logFile = "open" => n >= Len(Delivered)
       /\ logFile = "closed" => logged[Len(logged)] = Footer

\* What a child said before it died reaches the screen, unless the service is
\* stopped or a line could not be decoded: the end of the output and not of the
\* process ends the capture.
DeadChildIsHeard ==
  mode = "spawn" /\ service = "started" /\ child = "exited"
    ~> \/ mode = "attach" \/ stopCapture \/ capture = "broken"
       \/ \A s \in Streams : LinesOf(s, shown) = wrote[s]

\* stop(wait=True) ends the child, also one that is blocked writing its last words
\* to a pipe that nobody reads any more: the capture thread has been told to stop or
\* has broken off before.
StopEndsChild == stop = "join" ~> child = "exited"

\* Pieces of the debug log, one after the other without a gap, up to end.
Joined(pieces, end) ==
  /\ \A i \in DOMAIN pieces :
       pieces[i] # <<>> /\ \A j \in DOMAIN pieces[i] : pieces[i][j] = pieces[i][1] + j - 1
  /\ \A i \in 1 .. Len(pieces) - 1 : pieces[i + 1][1] = pieces[i][1] + Len(pieces[i])
  /\ pieces # <<>> => pieces[Len(pieces)][1] + Len(pieces[Len(pieces)]) = end + 1

\* The thread that follows a debug log delivers one contiguous piece of it, from
\* somewhere in its history to where it reads now: nothing written between its
\* look at the size and its read of the chunk is lost or shown twice. The buffer
\* holds the latest lines of it.
TailIsContiguous ==
  mode = "attach" =>
    /\ IF tail \in {"follow", "ended"} THEN Joined(Delivered, pos) ELSE Delivered = <<>>
    /\ lines = LastOf(Delivered, Len(lines))

\* Memory figures are of the process that was attached to, whoever has its pid by
\* now, until the service lets go of it.
FiguresAreOfAttached == detach \in {"no", "stopping"} => sampled \in {0, attached}
================================================================================

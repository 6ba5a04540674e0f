---------------------------- MODULE ProcessService ----------------------------
(***************************************************************************)
(* A rippled process the monitor starts itself: services/process_service.py*)
(*                                                                         *)
(* Three parties meet here: the child that writes to two pipes, the thread *)
(* that captures them into a buffer, a log file and the viewer, and stop(),*)
(* which runs in a thread of its own. The interpreter is preempted between *)
(* any two of the steps below. A pipe holds PipeSize lines and blocks the  *)
(* writer when it is full; the text wrapper reads ahead as much as there   *)
(* is, and select looks at the pipe only.                                  *)
(*                                                                         *)
(* Abstracted: a line is its stream and its number and is written whole;   *)
(* waiting times (a join or a wait may give up at any moment).             *)
(***************************************************************************)
EXTENDS LogViewer

CONSTANTS
  MaxLines,   \* bound on the lines the child writes, both streams together
  PipeSize,   \* lines a pipe holds
  KeepLines   \* lines a buffer holds (100)

ASSUME CaptureBounds ==
  MaxLines \in Nat /\ PipeSize \in Nat \ {0} /\ KeepLines \in Nat \ {0}

Streams == {"stdout", "stderr"}
Lines == Streams \X (1 .. MaxLines)

VARIABLES
  service,  \* "new", "starting", "started", "failed", or "raised" in start()
  child,    \* "none", "running", "asked" (SIGTERM), "leaving" or "exited"
  wrote,    \* the lines the child has written, per stream
  pipe,     \* the lines in each pipe
  text,     \* the lines each text wrapper has read ahead
  capture,  \* the step the output thread is at, "ended" or "broken"
  ready,    \* the streams select returned and the thread has not read yet
  hand,     \* the lines the thread is passing on: none or one
  buffer,   \* stdout_buffer and stderr_buffer
  stopCapture, \* stop_output_capture
  logFile,  \* "none", "open" or "closed"
  logged,   \* the lines of the log file, its footer included
  stop,     \* the step stop() is at
  fast      \* it was called with wait=False

captureVars == <<capture, ready, hand, buffer>>
logVars == <<logFile, logged>>
childVars == <<child, wrote>>
pipes == <<pipe, text>>
stopVars == <<stop, fast>>
spawnVars == <<service, childVars, pipes, captureVars, stopCapture, logVars, stopVars>>

Footer == <<"footer", 0>>
Written(s) == [n \in 1 .. wrote[s] |-> <<s, n>>]
TotalWritten == wrote["stdout"] + wrote["stderr"]

\* The last n elements of s, s[-n:].
LastOf(s, n) == SubSeq(s, Len(s) - Min({n, Len(s)}) + 1, Len(s))

SpawnIdle ==
  /\ service = "new" /\ child = "none"
  /\ wrote = [s \in Streams |-> 0]
  /\ pipe = [s \in Streams |-> <<>>] /\ text = [s \in Streams |-> <<>>]
  /\ capture = "none" /\ ready = {} /\ hand = <<>>
  /\ buffer = [s \in Streams |-> <<>>]
  /\ stopCapture = FALSE
  /\ logFile = "none" /\ logged = <<>>
  /\ stop = "no" /\ fast = FALSE

-------------------------------------------------------------------------------
(* start() *)

\* Popen and _setup_log_file. Popen may raise, and then there is no child; so
\* may opening the log, and then there is one.
Spawn ==
  /\ service = "new"
  /\ \/ service' = "failed" /\ UNCHANGED <<child, logFile>>
     \/ service' = "raised" /\ child' = "running" /\ UNCHANGED logFile
     \/ service' = "starting" /\ child' = "running" /\ logFile' = "open"
  /\ UNCHANGED <<wrote, pipes, captureVars, stopCapture, logged, stopVars, viewer>>

\* After two seconds: a dead child is read to its end and given up, unless its words
\* cannot be decoded; a live one gets its output thread.
Started ==
  /\ service = "starting"
  /\ \/ /\ child = "exited"
        /\ pipe' = [s \in Streams |-> <<>>]
        /\ \/ service' = "failed" /\ logged' = Append(logged, Footer) /\ logFile' = "closed"
           \/ service' = "raised" /\ UNCHANGED logVars
        /\ UNCHANGED capture
     \/ /\ child # "exited"
        /\ service' = "started" /\ capture' = "select"
        /\ UNCHANGED <<pipe, logVars>>
  /\ UNCHANGED <<childVars, text, ready, hand, buffer, stopCapture, stopVars, viewer>>

-------------------------------------------------------------------------------
(* The child. Asked to stop, it says one more thing before it leaves. *)

Write(s) ==
  /\ TotalWritten < MaxLines /\ Len(pipe[s]) < PipeSize
  /\ wrote' = [wrote EXCEPT ![s] = @ + 1]
  /\ pipe' = [pipe EXCEPT ![s] = Append(@, <<s, wrote[s] + 1>>)]
  /\ UNCHANGED <<service, text, captureVars, stopCapture, logVars, stopVars, viewer>>

ChildWrites == child = "running" /\ (\E s \in Streams : Write(s)) /\ UNCHANGED child

ChildSaysGoodbye == child = "asked" /\ Write("stderr") /\ child' = "leaving"

ChildLeaves ==
  /\ \/ child = "leaving"
     \/ child = "asked" /\ TotalWritten = MaxLines
  /\ child' = "exited"
  /\ UNCHANGED <<service, wrote, pipes, captureVars, stopCapture, logVars, stopVars, viewer>>

ChildDies ==
  /\ child = "running" /\ child' = "exited"
  /\ UNCHANGED <<service, wrote, pipes, captureVars, stopCapture, logVars, stopVars, viewer>>

-------------------------------------------------------------------------------
(* The output thread, _capture_output_thread *)

\* At the end of a file select returns at once, and readline gives "".
Readable(s) == pipe[s] # <<>> \/ child = "exited"

\* Wrong: the thread ends with the child and not with its output.
SelectWhileAlive ==
  /\ capture = "select"
  /\ LET over == stopCapture \/ child = "exited"
     IN /\ over \/ \E s \in Streams : Readable(s)
        /\ capture' = IF over THEN "ended" ELSE "read"
        /\ ready' = IF over THEN {} ELSE {s \in Streams : Readable(s)}
  /\ UNCHANGED <<service, childVars, pipes, hand, buffer, stopCapture, logVars, stopVars, viewer>>

\* The head of the loop, and select. A timeout of select goes round the loop.
Select ==
  /\ capture = "select"
  /\ stopCapture \/ \E s \in Streams : Readable(s)
  /\ capture' = IF stopCapture THEN "ended" ELSE "read"
  /\ ready' = IF stopCapture THEN {} ELSE {s \in Streams : Readable(s)}
  /\ UNCHANGED <<service, childVars, pipes, hand, buffer, stopCapture, logVars, stopVars, viewer>>

\* The for loop over readable: stdout comes first.
Turn == IF "stdout" \in ready THEN "stdout" ELSE "stderr"

TurnDone ==
  /\ ready' = ready \ {Turn}
  /\ capture' = IF ready = {Turn} THEN "select" ELSE "read"

\* Wrong: every read asks the pipe, and what was read ahead is lost.
ReadUnbuffered(s) ==
  \E n \in 1 .. Len(pipe[s]) :
    /\ hand' = <<Head(pipe[s])>>
    /\ text' = [text EXCEPT ![s] = SubSeq(pipe[s], 2, n)]
    /\ pipe' = [pipe EXCEPT ![s] = SubSeq(@, n + 1, Len(@))]

\* readline: a line that was read ahead, or the first of what the pipe has.
Readline(s) ==
  IF text[s] # <<>>
  THEN /\ hand' = <<Head(text[s])>>
       /\ text' = [text EXCEPT ![s] = Tail(@)]
       /\ UNCHANGED pipe
  ELSE \E n \in 1 .. Len(pipe[s]) :
         /\ hand' = <<Head(pipe[s])>>
         /\ text' = [text EXCEPT ![s] = SubSeq(pipe[s], 2, n)]
         /\ pipe' = [pipe EXCEPT ![s] = SubSeq(@, n + 1, Len(@))]

\* The line into its buffer, and the oldest one out.
Read ==
  /\ capture = "read" /\ (text[Turn] # <<>> \/ pipe[Turn] # <<>>)
  /\ Readline(Turn)
  /\ buffer' = [buffer EXCEPT ![Turn] = LastOf(Append(@, hand'[1]), KeepLines)]
  /\ capture' = "log"
  /\ UNCHANGED <<service, childVars, ready, stopCapture, logVars, stopVars, viewer>>

\* Bytes that cannot be decoded: readline raises, what it took from the pipe is gone,
\* and so is the thread, whatever becomes of the child.
Break ==
  /\ capture = "read" /\ text[Turn] = <<>>
  /\ \E n \in 1 .. Len(pipe[Turn]) : pipe' = [pipe EXCEPT ![Turn] = SubSeq(@, n + 1, Len(@))]
  /\ capture' = "broken" /\ ready' = {}
  /\ UNCHANGED <<service, childVars, text, hand, buffer, stopCapture, logVars, stopVars, viewer>>

ReadEnd ==
  /\ capture = "read" /\ text[Turn] = <<>> /\ pipe[Turn] = <<>>
  /\ TurnDone
  /\ UNCHANGED <<service, childVars, pipes, hand, buffer, stopCapture, logVars, stopVars, viewer>>

\* _write_to_log looks at log_file before it takes the lock.
CheckLog ==
  /\ capture = "log"
  /\ capture' = IF logFile = "open" THEN "write" ELSE "notify"
  /\ UNCHANGED <<service, childVars, pipes, ready, hand, buffer, stopCapture, logVars, stopVars, viewer>>

\* Wrong: the line goes to the file the check has seen.
WriteAnyway ==
  /\ capture = "write"
  /\ logged' = logged \o hand
  /\ capture' = "notify"
  /\ UNCHANGED <<service, childVars, pipes, ready, hand, buffer, stopCapture, logFile,
                 stopVars, viewer>>

\* Under the lock. A file that is gone by now raises, and the line is not logged.
WriteLog ==
  /\ capture = "write"
  /\ logged' = IF logFile = "open" THEN logged \o hand ELSE logged
  /\ capture' = "notify"
  /\ UNCHANGED <<service, childVars, pipes, ready, hand, buffer, stopCapture, logFile,
                 stopVars, viewer>>

Notify ==
  /\ capture = "notify"
  /\ QueueMessages(hand)
  /\ hand' = <<>>
  /\ TurnDone
  /\ UNCHANGED <<service, childVars, pipes, buffer, stopCapture, logVars, stopVars>>

Capture == Select \/ Read \/ Break \/ ReadEnd \/ CheckLog \/ WriteLog \/ Notify

-------------------------------------------------------------------------------
(* stop() *)

Terminated == IF child = "running" THEN "asked" ELSE child

\* stop(wait=False), the quit: SIGTERM, the event, and the log is closed.
FastStop ==
  /\ service = "started" /\ stop = "no"
  /\ child' = Terminated
  /\ stopCapture' = TRUE
  /\ stop' = "close" /\ fast' = TRUE
  /\ UNCHANGED <<service, wrote, pipes, captureVars, logVars, viewer>>

\* stop(wait=True): first the thread, which is given two seconds to end.
Stop ==
  /\ service = "started" /\ stop = "no"
  /\ stopCapture' = TRUE
  /\ stop' = "join"
  /\ UNCHANGED <<service, childVars, pipes, captureVars, logVars, fast, viewer>>

Terminate ==
  /\ stop = "join" /\ stop' = "wait"
  /\ child' = Terminated
  /\ UNCHANGED <<service, wrote, pipes, captureVars, stopCapture, logVars, fast, viewer>>

\* Wrong: no SIGKILL after the ten seconds.
WaitOnly ==
  /\ stop = "wait" /\ stop' = "close"
  /\ child = "exited"
  /\ UNCHANGED <<service, childVars, pipes, captureVars, stopCapture, logVars, fast, viewer>>

\* The child is gone, or it is killed after ten seconds.
WaitOrKill ==
  /\ stop = "wait" /\ stop' = "close"
  /\ child' = "exited"
  /\ UNCHANGED <<service, wrote, pipes, captureVars, stopCapture, logVars, fast, viewer>>

\* _close_log_file looks at log_file before it takes the lock.
CheckClose ==
  /\ stop = "close"
  /\ stop' = IF logFile = "open" THEN "closing" ELSE "done"
  /\ UNCHANGED <<service, childVars, pipes, captureVars, stopCapture, logVars, fast, viewer>>

CloseLog ==
  /\ stop = "closing" /\ stop' = "done"
  /\ logged' = Append(logged, Footer) /\ logFile' = "closed"
  /\ UNCHANGED <<service, childVars, pipes, captureVars, stopCapture, fast, viewer>>

Stopping == Terminate \/ WaitOrKill \/ CheckClose \/ CloseLog

SpawnNext ==
  \/ Spawn \/ Started
  \/ ChildWrites \/ ChildSaysGoodbye \/ ChildLeaves \/ ChildDies
  \/ Capture
  \/ FastStop \/ Stop \/ Stopping
===============================================================================

------------------------- MODULE AttachedProcessService -------------------------
(***************************************************************************)
(* A rippled process the monitor only attaches to:                         *)
(* services/attached_process_service.py. A thread shows the end of the     *)
(* node's debug log and follows it; is_alive and get_memory_usage look at  *)
(* the process behind the pid, which another process can get.              *)
(*                                                                         *)
(* The log is written in halves of lines: 2n - 1 begins the n-th line and  *)
(* 2n ends it. What the thread takes for a line is a sequence of halves.   *)
(* Abstracted: the node does not rotate its log; opening it succeeds.      *)
(***************************************************************************)
EXTENDS LogViewer

CONSTANTS
  MaxHalves,    \* bound on the size of the debug log
  ChunkHalves,  \* the chunk of history that is read (64 KB)
  HistoryLines, \* the lines of it that are shown (50)
  BufferMax,    \* lines the buffer may hold (1000)
  BufferKeep    \* lines it is cut to (500)

ASSUME TailBounds ==
  /\ MaxHalves \in Nat /\ ChunkHalves \in Nat /\ BufferMax \in Nat
  /\ HistoryLines \in 1 .. BufferMax /\ BufferKeep \in 1 .. BufferMax

Processes == {1, 2}   \* the process attached to, and a later one with its pid

VARIABLES
  file,       \* the debug log
  size,       \* its size when the thread looked
  pos,        \* where the thread reads
  tail,       \* the step the thread is at
  lines,      \* stdout_buffer
  stopTail,   \* _stop_tailing
  attached,   \* the process attached to, 0 before
  owner,      \* the process that has the pid, 0 for none
  handle,     \* _psutil_process, 0 for None
  sampled,    \* the process of the latest memory figures, 0 for {}
  detach      \* "no", "stopping", "gone" or "done"

tailVars == <<size, pos, tail, lines>>
attachVars == <<file, tailVars, stopTail, attached, owner, handle, sampled, detach>>

AttachIdle ==
  /\ file = <<>> /\ size = 0 /\ pos = 0
  /\ tail = "none" /\ lines = <<>> /\ stopTail = FALSE
  /\ attached = 0 /\ owner = 1 /\ handle = 0 /\ sampled = 0 /\ detach = "no"

-------------------------------------------------------------------------------
(* The world *)

LogHalf(k) ==
  /\ Len(file) + k <= MaxHalves
  /\ file' = file \o [i \in 1 .. k |-> Len(file) + i]
  /\ UNCHANGED <<tailVars, stopTail, attached, owner, handle, sampled, detach, viewer>>

\* The node writes a line, or as much of it as its buffer lets through.
NodeLogs == owner # 0 /\ \E k \in 1 .. 2 : LogHalf(k)

\* The process ends; the system gives its pid to another one.
PidChangesHands ==
  /\ owner \in {0, 1}
  /\ owner' \in {0, 2} \ {owner}
  /\ UNCHANGED <<file, tailVars, stopTail, attached, handle, sampled, detach, viewer>>

-------------------------------------------------------------------------------
(* The handle on the process *)

\* psutil knows a process by its pid and its start: one that is gone does not
\* come back when the pid does.
IsRunning(h) == h # 0 /\ owner = h

\* Wrong: the pid is looked up on every call.
CurrentUncached == owner

\* _psutil_process, looked up again when there is none.
Current == IF handle # 0 THEN handle ELSE owner

\* start(): fails for a pid nobody has.
Attach ==
  /\ attached = 0 /\ detach = "no" /\ owner # 0
  /\ attached' = owner /\ handle' = owner /\ sampled' = owner
  /\ tail' \in {"none", "open"}     \* without and with a debug log
  /\ UNCHANGED <<file, size, pos, lines, stopTail, owner, detach, viewer>>

\* get_memory_usage; is_alive binds the handle in the same way.
GetMemoryUsage ==
  /\ attached # 0 /\ detach # "done"
  /\ handle' = Current
  /\ sampled' = IF IsRunning(Current) THEN Current ELSE 0
  /\ UNCHANGED <<file, tailVars, stopTail, attached, owner, detach, viewer>>

\* stop(): the event, a join that may give up, and only then the handle.
Detach ==
  /\ attached # 0 /\ detach = "no"
  /\ stopTail' = TRUE /\ detach' = "stopping"
  /\ UNCHANGED <<file, tailVars, attached, owner, handle, sampled, viewer>>

LetGo ==
  /\ detach = "stopping"
  /\ handle' = 0
  /\ detach' = "gone"
  /\ UNCHANGED <<file, tailVars, stopTail, attached, owner, sampled, viewer>>

\* stop_current forgets the service after the thread that stops it has ended.
Detached ==
  /\ detach = "gone" /\ detach' = "done"
  /\ UNCHANGED <<file, tailVars, stopTail, attached, owner, handle, sampled, viewer>>

-------------------------------------------------------------------------------
(* The thread, _tail_log_file *)

\* Halves to lines: a line ends with its even half or with the text.
WithHalf(ls, h) ==
  IF ls # <<>> /\ Last(Last(ls)) % 2 = 1
  THEN Append(Front(ls), Append(Last(ls), h))
  ELSE Append(ls, <<h>>)

SplitLines(halves) == FoldLeft(WithHalf, <<>>, halves)

Tail0(s, n) == SubSeq(s, Len(s) - Min({n, Len(s)}) + 1, Len(s))

\* Wrong: cut one line too late.
BoundedLate(ls) == IF Len(ls) > BufferMax + 1 THEN Tail0(ls, BufferKeep) ELSE ls

Bounded(ls) == IF Len(ls) > BufferMax THEN Tail0(ls, BufferKeep) ELSE ls
Text(from) == SubSeq(file, from + 1, Len(file))

LookAtSize ==
  /\ tail = "open"
  /\ size' = Len(file)
  /\ pos' = Len(file) - Min({Len(file), ChunkHalves})
  /\ tail' = "history"
  /\ UNCHANGED <<file, lines, stopTail, attached, owner, handle, sampled, detach, viewer>>

\* Wrong: the thread follows from the size it had looked at.
HistoryToSize ==
  /\ tail = "history"
  /\ LET history == Tail0(SplitLines(Text(pos)), HistoryLines)
     IN QueueMessages(history) /\ lines' = lines \o history
  /\ pos' = size
  /\ tail' = "follow"
  /\ UNCHANGED <<file, size, stopTail, attached, owner, handle, sampled, detach>>

\* The chunk reaches to the end the file has by now; its last lines are shown.
History ==
  /\ tail = "history"
  /\ LET history == Tail0(SplitLines(Text(pos)), HistoryLines)
     IN QueueMessages(history) /\ lines' = lines \o history
  /\ pos' = Len(file)
  /\ tail' = "follow"
  /\ UNCHANGED <<file, size, stopTail, attached, owner, handle, sampled, detach>>

\* readline takes what there is when a line has no end yet.
Follow ==
  /\ tail = "follow" /\ ~stopTail /\ pos < Len(file)
  /\ LET line == Head(SplitLines(Text(pos)))
     IN /\ QueueMessages(<<line>>)
        /\ lines' = Bounded(Append(lines, line))
        /\ pos' = pos + Len(line)
  /\ UNCHANGED <<file, size, tail, stopTail, attached, owner, handle, sampled, detach>>

EndTail ==
  /\ tail = "follow" /\ stopTail
  /\ tail' = "ended"
  /\ UNCHANGED <<file, size, pos, lines, stopTail, attached, owner, handle, sampled,
                 detach, viewer>>

TailLog == LookAtSize \/ History \/ Follow \/ EndTail

AttachNext ==
  \/ NodeLogs \/ PidChangesHands
  \/ Attach \/ GetMemoryUsage \/ Detach \/ LetGo \/ Detached
  \/ TailLog
================================================================================

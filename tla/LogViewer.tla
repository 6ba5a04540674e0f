------------------------------- MODULE LogViewer -------------------------------
(***************************************************************************)
(* The process output viewer, ui/components/log_viewer.py: reader threads  *)
(* put lines into its queue, a timer of the dashboard moves a few of them  *)
(* to the screen each time. shown keeps every line that reached the screen,*)
(* also after the user cleared it.                                         *)
(***************************************************************************)
EXTENDS Naturals, SequencesExt

CONSTANT MaxMessages  \* process_queue's max_messages

ASSUME MaxMessagesPositive == MaxMessages \in Nat \ {0}

VARIABLES
  queue,  \* message_queue
  shown   \* history: the lines written to the screen

viewer == <<queue, shown>>

LogViewerInit == queue = <<>> /\ shown = <<>>

\* queue_stdout and queue_stderr, called by the reader threads.
QueueMessages(lines) ==
  /\ queue' = queue \o lines
  /\ UNCHANGED shown

\* The timer: at most MaxMessages lines from the head of the queue.
ProcessQueue ==
  /\ queue # <<>>
  /\ LET n == Min({MaxMessages, Len(queue)})
     IN /\ shown' = shown \o SubSeq(queue, 1, n)
        /\ queue' = SubSeq(queue, n + 1, Len(queue))
================================================================================

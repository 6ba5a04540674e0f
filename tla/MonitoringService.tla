--------------------------- MODULE MonitoringService ---------------------------
(***************************************************************************)
(* The orchestrator: services/monitoring_service.py with the parts of      *)
(* managers/process_manager.py it starts, attaches to and stops processes  *)
(* with, and the quit and stop actions of ui/dashboard.py.                 *)
(*                                                                         *)
(* Everything runs on one asyncio loop, so an atomic step reaches from one *)
(* await to the next. The tasks are the monitoring worker (pc), the user's *)
(* stop (user) and quit (quit), the websocket message handler and the heap *)
(* samples; beside them run the threads that stop a process. An incarnation*)
(* is one binary tested, or one attach; it opens at most one session.      *)
(*                                                                         *)
(* Abstracted: what the node answers beyond "ledgers complete or not", the *)
(* panels of the dashboard, the tick and breakdown tasks (they change only *)
(* what is displayed), all clocks (a period may end at any time) and       *)
(* the files (SessionStore). The websocket is one connection that can be   *)
(* lost and made at any time; retrying can give up unless it is forever,   *)
(* and the task that reconnects can wait for its own lock (wedged).        *)
(***************************************************************************)
EXTENDS Naturals, Sequences, FiniteSetsExt

CONSTANTS
  Configs,          \* the configurations: [attach, reattach, forever : BOOLEAN]
  NumBinaries,      \* the binaries of a spawn run
  MaxFailures,      \* max_consecutive_failures
  MaxIncarnations,  \* bound on the incarnations of an attach run
  MaxProcesses,     \* bound on the processes started over time
  MaxCloses,        \* bound on ledger_close_count
  MaxSamples        \* bound on the heap samples at work at the same time

LEDGER_CLOSES_FOR_SYNC == 1

ASSUME ConfigsTyped ==
  /\ Configs \subseteq [attach : BOOLEAN, reattach : BOOLEAN, forever : BOOLEAN]
  /\ NumBinaries \in Nat /\ MaxFailures \in Nat \ {0} /\ MaxIncarnations \in Nat
  /\ MaxProcesses \in Nat \ {0} /\ MaxSamples \in Nat
  /\ MaxCloses \in Nat /\ MaxCloses >= LEDGER_CLOSES_FOR_SYNC

VARIABLES
  config,      \* attach_mode, reattach_on_death, websocket_max_retries = 0
  monitoring,  \* _monitoring
  shutdown,    \* _shutdown_event
  pc,          \* the await the worker is at
  cancel,      \* the worker's cancellation: "no", "asked" or "unwinding"
  inc,         \* the incarnations begun
  target,      \* the process the next attach is for
  proc,        \* current_process, 0 for None
  lock,        \* who holds the process manager's lock
  anchored,    \* _monitoring_start_time is set
  closes,      \* ledger_close_count
  fails,       \* consecutive_failures
  store,       \* session_store is set
  sessions,    \* the sessions opened: their process, incarnation and status
  gate,        \* _heap_sampling_in_flight
  samples,     \* the processes heap(1) runs on, each with its number of runs
  user, quit,  \* where the user's stop and quit stand
  conn,        \* the websocket client is open
  streams,     \* the ledger stream is subscribed
  wedged,      \* a task that reconnects waits for the connection lock it holds
  up,          \* the processes that run
  born,        \* the number of processes there have been
  stopping,    \* the processes a thread is stopping
  died,        \* history: the processes that ended on their own
  forgotten,   \* history: the children of a start() that raised
  noticed      \* history: the incarnations finalized as crashed

tasks == <<pc, cancel, user, quit, lock>>
flags == <<config, monitoring, shutdown>>
counters == <<inc, anchored, closes, fails>>
session == <<store, sessions>>
heap == <<gate, samples>>
socket == <<conn, streams, wedged>>
world == <<up, born, stopping, died, forgotten>>
process == <<target, proc>>
vars == <<tasks, flags, counters, session, heap, socket, world, process, noticed>>

\* Wrong: the handle is taken for the process.
HasHandle == proc # 0

\* is_process_alive
Alive == proc # 0 /\ proc \in up

Reachable == conn /\ up # {}                      \* a request can be answered
GivesUp == ~config.forever /\ ~wedged             \* a connect can fail
MayFail == conn \/ GivesUp                        \* a request can come back without
KeepsGoing == monitoring /\ ~shutdown
Newest(S) == CHOOSE p \in S : \A q \in S : q <= p

-------------------------------------------------------------------------------
(* The end of an incarnation *)

\* _finalize_binary_result: the last caller's status stays.
Finalize(earlier, status) == status

\* _close_session writes a status nobody finalized as interrupted.
EndStatus(s) == IF s = "running" THEN "interrupted" ELSE s

\* Wrong: the finally block leaves the session to the next open.
LeaveStoreOpen(status) ==
  /\ pc' = "stop"
  /\ UNCHANGED session

\* The finally block, up to its first await: _close_session.
Leave(status) ==
  /\ IF store
     THEN sessions' = [sessions EXCEPT ![Len(sessions)].status = EndStatus(status)]
     ELSE UNCHANGED sessions
  /\ store' = FALSE
  /\ pc' = "stop"

\* From the end of _polling_phase to the first await of _monitoring_phase or to
\* the finally block. Without an anchor the end of the period cannot be
\* computed, and the exception finalizes the result anew.
AfterPolling(goOn, hasAnchor, status) ==
  CASE goOn /\ hasAnchor -> pc' = "monitor" /\ UNCHANGED session
    [] goOn /\ ~hasAnchor -> Leave(Finalize(status, "error"))
    [] ~goOn -> Leave(Finalize(status, "completed"))

-------------------------------------------------------------------------------
(* The worker *)

Here(p) == pc = p /\ cancel # "asked" /\ quit # "exited"

\* The loop of start_monitoring or start_attach_monitoring goes on.
More == IF config.attach THEN KeepsGoing ELSE inc < NumBinaries /\ ~shutdown

\* The top of the loop and _initialize_binary_result.
Begin ==
  /\ Here("next") /\ More
  /\ config.attach => inc < MaxIncarnations
  /\ inc' = inc + 1
  /\ closes' = 0 /\ anchored' = FALSE /\ fails' = 0
  /\ gate' = FALSE
  /\ pc' = "acquire"
  /\ UNCHANGED <<cancel, user, quit, lock, flags, session, samples, socket, world,
                 process, noticed>>

Complete ==
  /\ pc' = "done" /\ monitoring' = FALSE
  /\ UNCHANGED <<cancel, user, quit, lock, config, shutdown, counters, session, heap,
                 socket, world, process, noticed>>

Finish == Here("next") /\ ~More /\ Complete

\* start_process, attach_to_process. An earlier process that this run spawned
\* and that is still there would be stopped first.
Acquire ==
  /\ Here("acquire") /\ lock = "none"
  /\ IF config.attach
     THEN /\ target \in up
          /\ proc' = target /\ UNCHANGED <<up, born>>
     ELSE /\ born < MaxProcesses
          /\ born' = born + 1 /\ up' = (up \ {proc}) \cup {born'} /\ proc' = born'
  /\ pc' = "open"
  /\ UNCHANGED <<cancel, user, quit, lock, flags, counters, session, heap, socket,
                 stopping, died, forgotten, target, noticed>>

\* The binary does not start, or the process to attach to is gone.
AcquireFails ==
  /\ Here("acquire") /\ lock = "none"
  /\ config.attach => target \notin up
  /\ proc' = 0
  /\ Leave(Finalize("running", "error"))
  /\ UNCHANGED <<cancel, user, quit, lock, flags, counters, heap, socket, world, target,
                 noticed>>

\* The child runs when start() raises, as its log file cannot be opened, say: the
\* only handle is dropped, and nobody ever stops it.
AcquireForgets ==
  /\ Here("acquire") /\ lock = "none" /\ ~config.attach /\ born < MaxProcesses
  /\ born' = born + 1 /\ up' = (up \ {proc}) \cup {born'}
  /\ forgotten' = forgotten \cup {born'}
  /\ proc' = 0
  /\ Leave(Finalize("running", "error"))
  /\ UNCHANGED <<cancel, user, quit, lock, flags, counters, heap, socket, stopping, died,
                 target, noticed>>

OpenSession ==
  /\ Here("open")
  /\ store' = TRUE
  /\ sessions' = Append(sessions, [inc |-> inc, proc |-> proc, status |-> "open"])
  /\ pc' = "connect"
  /\ UNCHANGED <<cancel, user, quit, lock, flags, counters, heap, socket, world, process,
                 noticed>>

\* An exception of _open_session, or of _ensure_connected once it gives up.
Raise ==
  /\ \/ Here("open")
     \/ \E p \in {"connect", "subscribe", "info"} : Here(p) /\ ~conn /\ GivesUp
  /\ Leave(Finalize("running", "error"))
  /\ UNCHANGED <<cancel, user, quit, lock, flags, counters, heap, socket, world, process,
                 noticed>>

Connected ==
  /\ Here("connect") /\ conn
  /\ pc' = "subscribe"
  /\ UNCHANGED <<cancel, user, quit, lock, flags, counters, session, heap, socket, world,
                 process, noticed>>

\* A failed subscription is reported by a result that nobody reads.
Subscribe ==
  /\ Here("subscribe") /\ conn
  /\ streams' \in IF Reachable THEN {TRUE, streams} ELSE {streams}
  /\ pc' = IF config.attach THEN "info" ELSE "poll"
  /\ UNCHANGED <<cancel, user, quit, lock, flags, counters, session, heap, conn, wedged,
                 world, process, noticed>>

\* A synced node skips the polling phase.
Info(synced) ==
  /\ Here("info") /\ conn
  /\ synced => Reachable
  /\ IF synced THEN anchored' = TRUE /\ closes' = 1 ELSE UNCHANGED <<anchored, closes>>
  /\ pc' = "poll"
  /\ UNCHANGED <<cancel, user, quit, lock, flags, inc, fails, session, heap, socket, world,
                 process, noticed>>

\* The top of the polling loop.
Poll ==
  /\ Here("poll") /\ KeepsGoing /\ Alive
  /\ pc' = "polling"
  /\ UNCHANGED <<cancel, user, quit, lock, flags, counters, session, heap, socket, world,
                 process, noticed>>

\* Wrong: the process is looked at before the shutdown flag.
PollCrashFirst ==
  /\ Here("poll") /\ ~Alive
  /\ noticed' = noticed \cup {inc}
  /\ AfterPolling(KeepsGoing, anchored, Finalize("running", "crashed"))
  /\ UNCHANGED <<cancel, user, quit, lock, flags, counters, heap, socket, world, process>>

PollCrash ==
  /\ Here("poll") /\ KeepsGoing /\ ~Alive
  /\ noticed' = noticed \cup {inc}
  /\ AfterPolling(KeepsGoing, anchored, Finalize("running", "crashed"))
  /\ UNCHANGED <<cancel, user, quit, lock, flags, counters, heap, socket, world, process>>

PollOver ==
  /\ Here("poll") /\ ~KeepsGoing
  /\ AfterPolling(KeepsGoing, anchored, "running")
  /\ UNCHANGED <<cancel, user, quit, lock, flags, counters, heap, socket, world, process,
                 noticed>>

\* server_info came back.
PollAnswered ==
  /\ Here("polling") /\ Reachable
  /\ IF closes >= LEDGER_CLOSES_FOR_SYNC
     THEN /\ anchored' = TRUE
          /\ AfterPolling(KeepsGoing, TRUE, "running")
          /\ UNCHANGED fails
     ELSE /\ fails' = 0 /\ pc' = "poll"
          /\ UNCHANGED <<anchored, session>>
  /\ UNCHANGED <<cancel, user, quit, lock, flags, inc, closes, heap, socket, world, process,
                 noticed>>

\* Wrong: one failure too many is let pass.
PollFailedLate ==
  /\ Here("polling") /\ MayFail
  /\ IF fails + 1 > MaxFailures
     THEN /\ monitoring' = FALSE
          /\ AfterPolling(FALSE, anchored, Finalize("running", "error"))
          /\ UNCHANGED fails
     ELSE /\ fails' = fails + 1 /\ pc' = "poll"
          /\ UNCHANGED <<monitoring, session>>
  /\ UNCHANGED <<cancel, user, quit, lock, config, shutdown, inc, anchored, closes, heap,
                 socket, world, process, noticed>>

\* It did not. The third time in a row ends all polling of this run.
PollFailed ==
  /\ Here("polling") /\ MayFail
  /\ IF fails + 1 >= MaxFailures
     THEN /\ monitoring' = FALSE
          /\ AfterPolling(FALSE, anchored, Finalize("running", "error"))
          /\ UNCHANGED fails
     ELSE /\ fails' = fails + 1 /\ pc' = "poll"
          /\ UNCHANGED <<monitoring, session>>
  /\ UNCHANGED <<cancel, user, quit, lock, config, shutdown, inc, anchored, closes, heap,
                 socket, world, process, noticed>>

\* Wrong: nobody finalizes the result.
MonitorOverUnfinalized ==
  /\ Here("monitor")
  /\ Leave("running")
  /\ UNCHANGED <<cancel, user, quit, lock, flags, counters, heap, socket, world, process,
                 noticed>>

\* The loop of _monitoring_phase: the period is over or the user stopped.
MonitorOver ==
  /\ Here("monitor")
  /\ Leave(Finalize("running", "completed"))
  /\ UNCHANGED <<cancel, user, quit, lock, flags, counters, heap, socket, world, process,
                 noticed>>

MonitorCrash ==
  /\ Here("monitor") /\ ~shutdown /\ ~Alive
  /\ noticed' = noticed \cup {inc}
  /\ Leave(Finalize(Finalize("running", "crashed"), "completed"))
  /\ UNCHANGED <<cancel, user, quit, lock, flags, counters, heap, socket, world, process>>

Ask ==
  /\ Here("monitor") /\ ~shutdown /\ Alive
  /\ pc' = "asking"
  /\ UNCHANGED <<cancel, user, quit, lock, flags, counters, session, heap, socket, world,
                 process, noticed>>

Asked ==
  /\ Here("asking") /\ (Reachable \/ MayFail)
  /\ pc' = "monitor"
  /\ UNCHANGED <<cancel, user, quit, lock, flags, counters, session, heap, socket, world,
                 process, noticed>>

\* The rest of the finally block. stop_current hands the process to a thread
\* and holds the lock until it is done.
StopCurrent ==
  /\ Here("stop") /\ lock = "none"
  /\ IF proc = 0
     THEN pc' = "unsubscribe" /\ UNCHANGED <<lock, stopping>>
     ELSE pc' = "stopping" /\ lock' = "worker" /\ stopping' = stopping \cup {proc}
  /\ UNCHANGED <<cancel, user, quit, flags, counters, session, heap, socket, up, born, died,
                 forgotten, process, noticed>>

Stopped ==
  /\ Here("stopping") /\ proc \notin stopping
  /\ lock' = "none" /\ proc' = 0
  /\ pc' = "unsubscribe"
  /\ UNCHANGED <<cancel, user, quit, flags, counters, session, heap, socket, world, target,
                 noticed>>

\* A cancelled worker ends here, with _monitoring as it was.
Unsubscribe ==
  /\ Here("unsubscribe")
  /\ streams' \in IF Reachable THEN {FALSE} ELSE IF conn THEN {streams} ELSE {FALSE}
  /\ pc' = IF cancel = "unwinding" THEN "done" ELSE "between"
  /\ UNCHANGED <<cancel, user, quit, lock, flags, counters, session, heap, conn, wedged,
                 world, process, noticed>>

\* After the pause between two binaries; or on the way to the wait.
Continue ==
  /\ Here("between")
  /\ config.attach => config.reattach /\ ~shutdown
  /\ pc' = IF config.attach THEN "wait" ELSE "next"
  /\ UNCHANGED <<cancel, user, quit, lock, flags, counters, session, heap, socket, world,
                 process, noticed>>

DoNotReattach ==
  /\ Here("between") /\ config.attach /\ (~config.reattach \/ shutdown)
  /\ Complete

\* _wait_for_matching_process, then the reset of the UI.
FindProcess ==
  /\ Here("wait") /\ ~shutdown /\ up # {}
  /\ target' = Newest(up)
  /\ pc' = "next"
  /\ UNCHANGED <<cancel, user, quit, lock, flags, counters, session, heap, socket, world,
                 proc, noticed>>

StopWaiting == Here("wait") /\ shutdown /\ Complete

\* The cancellation arrives at an await of the try block: nothing is
\* finalized, the finally block runs and its own awaits are not cancelled. If it is
\* the worker that waits for the lock it holds, the lock is free again.
Interrupt ==
  /\ cancel = "asked" /\ quit # "exited"
  /\ pc \in {"acquire", "open", "connect", "subscribe", "info", "poll", "polling",
             "monitor", "asking"}
  /\ cancel' = "unwinding"
  /\ Leave("running")
  /\ wedged' \in {wedged, FALSE}
  /\ UNCHANGED <<user, quit, lock, flags, counters, heap, conn, streams, world, process,
                 noticed>>

\* It arrives elsewhere: what is left of the cleanup is skipped.
CutShort ==
  /\ cancel = "asked" /\ quit # "exited"
  /\ pc \in {"next", "stop", "stopping", "unsubscribe", "between", "wait"}
  /\ cancel' = "unwinding" /\ pc' = "done"
  /\ lock' = IF lock = "worker" THEN "none" ELSE lock
  /\ UNCHANGED <<user, quit, flags, counters, session, heap, socket, world, process,
                 noticed>>

Phases == {"next", "acquire", "open", "connect", "subscribe", "info", "poll", "polling",
           "monitor", "asking", "stop", "stopping", "unsubscribe", "between", "wait", "done"}

Worker ==
  \/ Begin \/ Finish \/ Acquire \/ AcquireFails \/ AcquireForgets \/ OpenSession
  \/ Raise \/ Connected
  \/ Subscribe \/ (\E synced \in BOOLEAN : Info(synced))
  \/ Poll \/ PollCrash \/ PollOver \/ PollAnswered \/ PollFailed
  \/ MonitorOver \/ MonitorCrash \/ Ask \/ Asked
  \/ StopCurrent \/ Stopped \/ Unsubscribe
  \/ Continue \/ DoNotReattach \/ FindProcess \/ StopWaiting
  \/ Interrupt \/ CutShort

-------------------------------------------------------------------------------
(* The user *)

\* action_stop_process: stop_monitoring with wait.
PressStop ==
  /\ user = "idle" /\ quit = "no"
  /\ shutdown' = TRUE
  /\ user' = "stop"
  /\ UNCHANGED <<pc, cancel, quit, lock, config, monitoring, counters, session, heap,
                 socket, world, process, noticed>>

UserStops ==
  /\ user = "stop" /\ lock = "none"
  /\ IF proc = 0
     THEN user' = "disconnect" /\ UNCHANGED <<lock, stopping>>
     ELSE user' = "stopping" /\ lock' = "user" /\ stopping' = stopping \cup {proc}
  /\ UNCHANGED <<pc, cancel, quit, flags, counters, session, heap, socket, up, born, died,
                 forgotten, process, noticed>>

\* Wrong: the lock is not given back.
UserStoppedKeepsLock ==
  /\ user = "stopping" /\ proc \notin stopping
  /\ proc' = 0
  /\ user' = "disconnect"
  /\ UNCHANGED <<pc, cancel, quit, lock, flags, counters, session, heap, socket, world,
                 target, noticed>>

UserStopped ==
  /\ user = "stopping" /\ proc \notin stopping
  /\ lock' = "none" /\ proc' = 0
  /\ user' = "disconnect"
  /\ UNCHANGED <<pc, cancel, quit, flags, counters, session, heap, socket, world, target,
                 noticed>>

\* It waits for the lock that a retrying connect holds, or one that waits for itself.
Disconnect ==
  /\ user = "disconnect" /\ ~wedged
  /\ config.forever /\ ~conn =>
       pc \notin {"connect", "subscribe", "info", "polling", "asking"}
  /\ conn' = FALSE
  /\ user' = "stopped"
  /\ UNCHANGED <<pc, cancel, quit, lock, flags, counters, session, heap, streams, wedged,
                 world, process, noticed>>

\* action_quit: the worker is cancelled and waited for. Actions of the
\* dashboard run one after the other.
PressQuit ==
  /\ quit = "no" /\ user \in {"idle", "stopped"}
  /\ quit' = "wait"
  /\ cancel' = IF pc = "done" THEN "no" ELSE "asked"
  /\ UNCHANGED <<pc, user, lock, flags, counters, session, heap, socket, world, process,
                 noticed>>

\* The worker has ended or its two seconds are over, which is long enough for
\* the cancellation to arrive.
StopWaitingForWorker ==
  /\ quit = "wait" /\ cancel # "asked"
  /\ shutdown' = TRUE
  /\ quit' = "stop"
  /\ UNCHANGED <<pc, cancel, user, lock, config, monitoring, counters, session, heap,
                 socket, world, process, noticed>>

\* Wrong: the current process is left to itself.
ExitOnly ==
  /\ quit = "stop" /\ lock = "none"
  /\ quit' = "exited"
  /\ UNCHANGED <<pc, cancel, user, lock, flags, counters, session, heap, socket, world,
                 process, noticed>>


\* stop_monitoring without wait, then the exit, whether it has disconnected by then
\* or not; the interpreter still waits for the threads.
StopAndExit ==
  /\ quit = "stop" /\ lock = "none"
  /\ stopping' = stopping \cup ({proc} \ {0})
  /\ quit' = "exited"
  /\ UNCHANGED <<pc, cancel, user, lock, flags, counters, session, heap, socket, up, born,
                 died, forgotten, process, noticed>>

\* The second that stop_monitoring gets is over while another holds the lock.
TimeOutAndExit ==
  /\ quit = "stop" /\ lock # "none"
  /\ quit' = "exited"
  /\ UNCHANGED <<pc, cancel, user, lock, flags, counters, session, heap, socket, world,
                 process, noticed>>

StopByUser == UserStops \/ UserStopped \/ Disconnect
QuitByUser == StopWaitingForWorker \/ StopAndExit \/ TimeOutAndExit

-------------------------------------------------------------------------------
(* Callbacks, threads and the environment *)

\* _handle_websocket_message with a ledgerClosed. A ledger with transactions is
\* counted here and again in _create_memory_snapshot. A sample is due on every
\* Nth ledger of a node that is full (_maybe_schedule_heap_sample).
LedgerClosed(withTxns, due) ==
  /\ quit # "exited" /\ streams /\ Reachable
  /\ LET seen == closes + IF withTxns THEN 2 ELSE 1
     IN  closes' = IF seen > MaxCloses THEN MaxCloses ELSE seen
  /\ IF due /\ ~gate /\ proc # 0
     THEN /\ MapThenSumSet(LAMBDA p : samples[p], DOMAIN samples) < MaxSamples
          /\ gate' = TRUE
          /\ samples' = [samples EXCEPT ![proc] = @ + 1]
     ELSE UNCHANGED heap
  /\ UNCHANGED <<tasks, flags, inc, anchored, fails, session, socket, world, process,
                 noticed>>

\* Wrong: a failed sample keeps the gate shut.
FinishSampleIfOk(p) ==
  /\ samples[p] > 0
  /\ samples' = [samples EXCEPT ![p] = @ - 1]
  /\ gate' = (gate /\ p \notin up)
  /\ UNCHANGED <<tasks, flags, counters, session, socket, world, process, noticed>>

\* _run_heap_sample returns from its thread.
FinishSample(p) ==
  /\ samples[p] > 0
  /\ samples' = [samples EXCEPT ![p] = @ - 1]
  /\ gate' = FALSE
  /\ UNCHANGED <<tasks, flags, counters, session, socket, world, process, noticed>>

\* The stop of ProcessService ends the process, that of AttachedProcessService
\* only lets go of it.
ThreadDone(p) ==
  /\ p \in stopping
  /\ stopping' = stopping \ {p}
  /\ up' = IF config.attach THEN up ELSE up \ {p}
  /\ UNCHANGED <<tasks, flags, counters, session, heap, socket, born, died, forgotten,
                 process, noticed>>

Die(p) ==
  /\ p \in up
  /\ up' = up \ {p} /\ died' = died \cup {p}
  /\ UNCHANGED <<tasks, flags, counters, session, heap, socket, born, stopping, forgotten,
                 process, noticed>>

\* Somebody starts the attached binary again.
Relaunch ==
  /\ config.attach /\ up = {} /\ born < MaxProcesses
  /\ born' = born + 1 /\ up' = {born'}
  /\ UNCHANGED <<tasks, flags, counters, session, heap, socket, stopping, died, forgotten,
                 process, noticed>>

LoseConnection ==
  /\ conn
  /\ conn' = FALSE
  /\ UNCHANGED <<tasks, flags, counters, session, heap, streams, wedged, world, process,
                 noticed>>

\* A connect or reconnect succeeds; the streams are subscribed again, or lost.
Reconnect ==
  /\ ~conn /\ ~wedged /\ up # {} /\ quit # "exited"
  /\ conn' = TRUE
  /\ streams' \in {streams, FALSE}
  /\ UNCHANGED <<tasks, flags, counters, session, heap, wedged, world, process, noticed>>

\* A reconnect finds its new connection closed again when it comes to the streams. Its
\* task then waits for the lock it holds, and nobody connects or disconnects any more
\* (OpenedAndLost of WebSocketManager).
Wedge ==
  /\ ~conn /\ ~wedged /\ streams /\ up # {} /\ quit # "exited"
  /\ wedged' = TRUE /\ streams' = FALSE
  /\ UNCHANGED <<tasks, flags, counters, session, heap, conn, world, process, noticed>>

Callbacks ==
  \/ \E withTxns, due \in BOOLEAN : LedgerClosed(withTxns, due)
  \/ \E p \in 1 .. MaxProcesses : FinishSample(p)

Environment ==
  \/ \E p \in 1 .. MaxProcesses : Die(p)
  \/ Relaunch \/ LoseConnection \/ Reconnect \/ Wedge

-------------------------------------------------------------------------------

Init ==
  /\ config \in Configs
  /\ monitoring = TRUE /\ shutdown = FALSE
  /\ pc = "next" /\ cancel = "no" /\ user = "idle" /\ quit = "no" /\ lock = "none"
  /\ inc = 0 /\ anchored = FALSE /\ closes = 0 /\ fails = 0
  /\ store = FALSE /\ sessions = <<>>
  /\ gate = FALSE /\ samples = [p \in 1 .. MaxProcesses |-> 0]
  /\ conn = FALSE /\ streams = FALSE /\ wedged = FALSE
  /\ IF config.attach THEN born = 1 /\ up = {1} /\ target = 1
                      ELSE born = 0 /\ up = {} /\ target = 0
  /\ stopping = {} /\ died = {} /\ forgotten = {} /\ proc = 0 /\ noticed = {}

Next ==
  \/ Worker
  \/ PressStop \/ StopByUser
  \/ PressQuit \/ QuitByUser
  \/ Callbacks
  \/ \E p \in 1 .. MaxProcesses : ThreadDone(p)
  \/ Environment

\* The loop serves every task that can go on, and a thread that stops a
\* process ends (its joins and waits have timeouts). Nothing is assumed of the
\* user, the node or the connection: a step of Worker that needs a connection is
\* not enabled while a connect retries for ever or the lock is never given back.
Fairness ==
  /\ WF_vars(Worker)
  /\ WF_vars(StopByUser) /\ WF_vars(QuitByUser)
  /\ \A p \in 1 .. MaxProcesses : WF_vars(ThreadDone(p)) /\ WF_vars(FinishSample(p))

Spec == Init /\ [][Next]_vars

FairSpec == Spec /\ Fairness

-------------------------------------------------------------------------------
(* Properties *)

Statuses == {"completed", "error", "crashed", "interrupted"}
Entries == [inc : Nat, proc : Nat, status : Statuses \cup {"open"}]

\* Every variable keeps its type.
TypeOK ==
  /\ config \in Configs /\ monitoring \in BOOLEAN /\ shutdown \in BOOLEAN
  /\ pc \in Phases /\ cancel \in {"no", "asked", "unwinding"}
  /\ user \in {"idle", "stop", "stopping", "disconnect", "stopped"}
  /\ quit \in {"no", "wait", "stop", "exited"}
  /\ lock \in {"none", "worker", "user"}
  /\ inc \in Nat /\ anchored \in BOOLEAN /\ closes \in 0 .. MaxCloses
  /\ fails \in 0 .. MaxFailures - 1
  /\ store \in BOOLEAN
  /\ sessions \in Seq(Entries)
  /\ gate \in BOOLEAN /\ samples \in [1 .. MaxProcesses -> Nat]
  /\ conn \in BOOLEAN /\ streams \in BOOLEAN /\ wedged \in BOOLEAN
  /\ target \in 0 .. MaxProcesses /\ proc \in 0 .. MaxProcesses /\ born \in Nat
  /\ up \subseteq 1 .. MaxProcesses /\ stopping \subseteq 1 .. MaxProcesses
  /\ died \subseteq 1 .. MaxProcesses /\ forgotten \subseteq 1 .. MaxProcesses
  /\ noticed \subseteq Nat

\* No snapshot mixes two processes: whatever is running, the process whose
\* memory a snapshot reads is the one the open session is for, or none, also
\* while a stop, a quit or a reattach is under way.
SnapshotsAreOwn == store => proc \in {0, sessions[Len(sessions)].proc}

\* A process is taken for crashed only when it ended on its own: never because
\* the user's stop ended it or let go of it under the worker's feet.
CrashIsReal ==
  \A i \in DOMAIN sessions : sessions[i].inc \in noticed => sessions[i].proc \in died

\* A session is recorded as interrupted only when the user quit: every other
\* way out of an incarnation finalizes its result.
InterruptedMeansQuit ==
  \A i \in DOMAIN sessions : sessions[i].status = "interrupted" => quit # "no"

\* When the application exits no session is left open, at whatever await the
\* worker was cancelled (action_quit waits for the finally block).
QuitClosesSession == quit = "exited" => ~store

\* No spawned process whose start() returned outlives its monitor: when the worker
\* has ended or the application exits, whatever still runs is being stopped, although
\* a cancellation can cut the worker's own cleanup short. What can be left behind is
\* the child of a start() that raised once it was there, and nothing else.
NoOrphan ==
  ~config.attach /\ (quit = "exited" \/ (pc = "done" /\ quit = "no"))
    => up \subseteq stopping \cup forgotten

\* The gate never shuts for good: when it is shut a sample is at work, and its
\* end opens it.
GateOpensAgain == gate => \E p \in DOMAIN samples : samples[p] > 0

\* The sessions of all incarnations, as a history without totals: one after
\* the other, at most the newest open, each ended once.
History == INSTANCE SessionHistory
             WITH sessions <- [i \in DOMAIN sessions |-> sessions[i].status],
                  total <- 0

ImplementsHistory == History!HSpec

\* A stop or a quit ends the worker or the application, and no process that was
\* started is left but those that NoOrphan exempts. The code promises it only while a
\* connect returns: not with endless retries, and not once the lock waits for itself.
StopEnds ==
  ~config.forever /\ shutdown ~>
    \/ wedged
    \/ (pc = "done" \/ quit = "exited") /\ (config.attach \/ up \subseteq forgotten)

\* The death of the process that a session is for ends the session, whatever the
\* worker was waiting for, under the same two conditions: a worker that waits for
\* the lock does not look at the process.
DeathEndsSession ==
  ~config.forever /\ store /\ proc # 0 /\ proc \notin up ~> ~store \/ wedged


\* What the result's list of statuses promises: a crash that was noticed and
\* finalized as such is what the session ends with. False: the status is
\* overwritten on the way to the finally block.
CrashIsRecorded ==
  \A i \in DOMAIN sessions :
    sessions[i].inc \in noticed => sessions[i].status \in {"open", "crashed"}

\* What the help of --reattach promises: the run goes on until the user ends
\* it. False: three failed polls end it although it still waits for the process.
ReattachesUntilStopped ==
  config.attach /\ config.reattach /\ pc = "done" => shutdown \/ cancel # "no"
===============================================================================

------------------------ MODULE MonitoringServiceProofs ------------------------
(***************************************************************************)
(* The safety of MonitoringService for any number of incarnations,         *)
(* processes, samples and failed polls, with a stop or a quit at every     *)
(* await. The properties are not inductive: they need where the worker may *)
(* be while somebody else is at work (Places, Endings), whose the          *)
(* processes are (Processes), and that an incarnation has one session      *)
(* (Sessions).                                                             *)
(***************************************************************************)
EXTENDS MonitoringService, TLAPS

\* The awaits of the try block at which a session is open.
Inside == {"connect", "subscribe", "info", "poll", "polling", "monitor", "asking"}

\* A session is open exactly there; a lock belongs to whoever waits for a thread.
Places ==
  /\ store <=> pc \in Inside
  /\ pc = "wait" => config.attach
  /\ pc = "stopping" <=> lock = "worker"
  /\ user = "stopping" <=> lock = "user"

\* What a quit has done to the worker by now, and a stop to the shutdown event.
Endings ==
  /\ cancel # "no" => quit # "no"
  /\ quit # "no" /\ cancel = "no" => pc = "done"
  /\ cancel = "unwinding" => pc \in {"stop", "stopping", "unsubscribe", "done"}
  /\ quit \in {"stop", "exited"} => cancel # "asked" /\ shutdown
  /\ user # "idle" => shutdown

\* The worker has no process where it acquires one, and has its own where a session
\* is opened or open, until somebody stops it. A spawned process runs only as the
\* current one, while it is being stopped, or as the child of a start() that raised.
Processes ==
  /\ born <= MaxProcesses
  /\ up \subseteq 1 .. born /\ stopping \subseteq 1 .. born /\ proc <= born
  /\ config.attach => up \subseteq {born}
  /\ \/ pc \in {"next", "acquire", "unsubscribe", "between", "wait"}
     \/ pc = "done" /\ cancel = "no"
     => proc = 0
  /\ pc \in Inside \cup {"open"} /\ ~shutdown =>
       /\ proc # 0 /\ proc \in up \cup died
       /\ config.attach \/ proc \notin stopping
  /\ ~config.attach => up \subseteq stopping \cup {proc} \cup forgotten
  /\ ~config.attach /\ lock # "none" => (proc \in up => proc \in stopping)
  /\ ~config.attach /\ quit = "exited" => up \subseteq stopping \cup forgotten

\* Sessions are those of the incarnations in order, one at most for each; only the
\* newest is open, and only while there is a store.
Sessions ==
  /\ store => sessions # <<>>
  /\ \A i \in DOMAIN sessions : sessions[i].status = "open" <=> store /\ i = Len(sessions)
  /\ \A i \in DOMAIN sessions : sessions[i].inc <= inc
  /\ noticed \subseteq 0 .. inc
  /\ pc \in {"acquire", "open"} =>
       inc \notin noticed /\ \A i \in DOMAIN sessions : sessions[i].inc # inc
  /\ store => \A i \in DOMAIN sessions : sessions[i].inc = inc => i = Len(sessions)
  /\ SnapshotsAreOwn /\ CrashIsReal /\ InterruptedMeansQuit

IInv == TypeOK /\ Places /\ Endings /\ Processes /\ Sessions /\ GateOpensAgain

-------------------------------------------------------------------------------
(* The steps of the try block *)

\* What every step of the try block leaves alone, and whom it may take for crashed.
Body ==
  /\ UNCHANGED <<user, quit, lock, config, shutdown, inc, heap, stopping, died, target, conn>>
  /\ monitoring' \in BOOLEAN /\ streams' \in BOOLEAN /\ wedged' \in BOOLEAN
  /\ anchored' \in BOOLEAN /\ closes' \in 0 .. MaxCloses /\ fails' \in 0 .. MaxFailures - 1
  /\ \/ noticed' = noticed
     \/ noticed' = noticed \cup {inc} /\ store /\ sessions[Len(sessions)].proc \in died

\* A start() that raises can leave a child behind.
Forgets ==
  /\ ~config.attach /\ born < MaxProcesses
  /\ born' = born + 1 /\ up' = up \cup {born'} /\ forgotten' = forgotten \cup {born'}

\* A step to another await of the try block.
Goes ==
  /\ Body
  /\ UNCHANGED <<up, born, forgotten>>
  /\ pc \in Inside /\ pc' \in Inside
  /\ UNCHANGED <<cancel, store, sessions, proc>>

\* A step into the finally block, by itself or because the worker is cancelled.
Closes(status) ==
  /\ Body
  /\ pc \in Inside \cup {"acquire", "open"}
  /\ Leave(status)
  /\ UNCHANGED <<up, born, forgotten>> \/ Forgets
  /\ \/ status \in {"error", "completed"} /\ cancel' = cancel
     \/ status = "running" /\ quit # "no" /\ cancel' = "unwinding"
  /\ proc' = proc

\* At an await of the try block the worker goes on only if nobody quits.
LEMMA NobodyQuits ==
  ASSUME TypeOK, Endings,
         NEW p \in Inside \cup {"next", "acquire", "open", "between", "wait"}, Here(p)
  PROVE cancel = "no" /\ quit = "no"
  BY DEF TypeOK, Endings, Here, Inside

\* A finally block ends the session that is open and touches no other.
LEMMA LeaveEnds ==
  ASSUME TypeOK, Sessions, NEW status \in {"error", "completed", "running"}, Leave(status)
  PROVE /\ pc' = "stop" /\ store' = FALSE
        /\ sessions' \in Seq(Entries)
        /\ DOMAIN sessions' = DOMAIN sessions
        /\ \A i \in DOMAIN sessions :
             /\ sessions'[i].inc = sessions[i].inc /\ sessions'[i].proc = sessions[i].proc
             /\ sessions'[i].status # "open"
             /\ sessions'[i].status \in {sessions[i].status, EndStatus(status)}
  <1>1. pc' = "stop" /\ store' = FALSE /\ EndStatus(status) \in Statuses
    BY DEF Leave, EndStatus, Statuses
  <1>2. CASE ~store
    <2>1. sessions' = sessions /\ sessions \in Seq(Entries)
      BY <1>2 DEF Leave, session, TypeOK
    <2>2. QED
      BY <1>1, <1>2, <2>1 DEF Sessions
  <1>3. CASE store
    <2>1. sessions' = [sessions EXCEPT ![Len(sessions)].status = EndStatus(status)]
      BY <1>3 DEF Leave
    <2>2. sessions \in Seq(Entries)
          /\ Len(sessions) \in DOMAIN sessions
      BY <1>3 DEF TypeOK, Sessions
    <2>3. \A i \in DOMAIN sessions : i # Len(sessions) => sessions[i].status # "open"
      BY DEF Sessions
    <2> DEFINE last == sessions[Len(sessions)]
    <2>4. [last EXCEPT !.status = EndStatus(status)] \in Entries
      <3>1. last \in Entries
        BY <2>2
      <3>2. QED
        BY <1>1, <3>1 DEF Entries
    <2>5. sessions' = [sessions EXCEPT ![Len(sessions)] = [last EXCEPT !.status = EndStatus(status)]]
      BY <2>1
    <2>6. sessions' \in Seq(Entries)
          /\ DOMAIN sessions' = DOMAIN sessions
      BY <2>2, <2>4, <2>5
    <2>7. QED
      BY <1>1, <2>1, <2>2, <2>3, <2>6 DEF Statuses
  <1>4. QED
    BY <1>2, <1>3

\* Polling goes on to monitoring or into the finally block.
LEMMA AfterPollingGoes ==
  ASSUME NEW goOn \in BOOLEAN, NEW hasAnchor \in BOOLEAN, NEW status,
         AfterPolling(goOn, hasAnchor, status)
  PROVE \/ pc' = "monitor" /\ UNCHANGED <<store, sessions>>
        \/ \E s \in {"error", "completed"} : Leave(s)
  BY DEF AfterPolling, Finalize, session

\* A step to another await keeps the invariant.
LEMMA GoesInv == ASSUME IInv, Goes PROVE IInv'
  <1>1. TypeOK'
    <2>1. noticed' \subseteq Nat BY DEF IInv, TypeOK, Goes, Body
    <2>2. pc' \in Phases BY DEF Goes, Inside, Phases
    <2>3. QED BY <2>1, <2>2 DEF IInv, TypeOK, Goes, Body, heap
  <1>2. Places' BY DEF IInv, Places, Goes, Body, Inside
  <1>3. Endings' BY DEF IInv, Endings, Goes, Body, Inside
  <1>4. Processes' BY DEF IInv, Processes, Goes, Body, Inside
  <1>5. Sessions'
    <2>1. TypeOK /\ Places /\ Sessions /\ store BY DEF IInv, Places, Goes
    <2>2. UNCHANGED <<store, sessions, proc, inc, quit, died>> /\ pc' \in Inside
      BY DEF Goes, Body
    <2>3. noticed' \subseteq 0 .. inc
      <3>1. inc \in 0 .. inc BY <2>1 DEF TypeOK
      <3>2. QED BY <2>1, <3>1 DEF Sessions, Goes, Body
    <2>4. CrashIsReal'
      BY <2>1, <2>2 DEF Sessions, CrashIsReal, Goes, Body
    <2>5. QED
      BY <2>1, <2>2, <2>3, <2>4
         DEF Sessions, SnapshotsAreOwn, InterruptedMeansQuit, Inside
  <1>6. GateOpensAgain' BY DEF IInv, GateOpensAgain, Goes, Body, heap
  <1>7. QED BY <1>1, <1>2, <1>3, <1>4, <1>5, <1>6 DEF IInv

\* So does a step into the finally block.
LEMMA ClosesInv ==
  ASSUME IInv, NEW status \in {"error", "completed", "running"}, Closes(status)
  PROVE IInv'
  <1>1. TypeOK /\ Sessions BY DEF IInv
  <1>2. Body /\ Leave(status) /\ pc \in Inside \cup {"acquire", "open"} BY DEF Closes
  <1>3. /\ pc' = "stop" /\ store' = FALSE
        /\ sessions' \in Seq(Entries)
        /\ DOMAIN sessions' = DOMAIN sessions
        /\ \A i \in DOMAIN sessions :
             /\ sessions'[i].inc = sessions[i].inc /\ sessions'[i].proc = sessions[i].proc
             /\ sessions'[i].status # "open"
             /\ sessions'[i].status \in {sessions[i].status, EndStatus(status)}
    BY <1>1, <1>2, LeaveEnds
  <1>4. /\ born' \in Nat /\ born <= born' /\ born' <= MaxProcesses /\ born \in Nat
         /\ up' \subseteq 1 .. born' /\ stopping' \subseteq 1 .. born'
         /\ up' \subseteq 1 .. MaxProcesses /\ forgotten' \subseteq 1 .. MaxProcesses
         /\ up' \ forgotten' \subseteq up \ forgotten /\ up \subseteq up'
         /\ up' \subseteq up \cup {born + 1}
    <2>1. /\ born \in Nat /\ born <= MaxProcesses /\ MaxProcesses \in Nat
          /\ up \subseteq 1 .. born /\ stopping \subseteq 1 .. born /\ stopping' = stopping
          /\ up \subseteq 1 .. MaxProcesses /\ forgotten \subseteq 1 .. MaxProcesses
      BY <1>1, <1>2, ConfigsTyped DEF IInv, TypeOK, Processes, Body
    <2>2. CASE UNCHANGED <<up, born, forgotten>> BY <2>1, <2>2
    <2>3. CASE Forgets
      <3>1. born + 1 \in 1 .. born + 1 /\ born + 1 \in 1 .. MaxProcesses
            /\ 1 .. born \subseteq 1 .. born + 1
        BY <2>1, <2>3 DEF Forgets
      <3>2. QED BY <2>1, <2>3, <3>1 DEF Forgets
    <2>4. QED BY <2>2, <2>3 DEF Closes
  <1>5. TypeOK'
    <2>1. noticed' \subseteq Nat BY <1>1, <1>2 DEF TypeOK, Body
    <2>2. pc' \in Phases /\ store' \in BOOLEAN BY <1>3 DEF Phases
    <2>3. cancel' \in {"no", "asked", "unwinding"} /\ proc' \in 0 .. MaxProcesses
      BY <1>1 DEF TypeOK, Closes
    <2>4. QED BY <1>1, <1>2, <1>3, <1>4, <2>1, <2>2, <2>3 DEF TypeOK, Body, heap
  <1>6. Places' BY <1>2, <1>3 DEF IInv, Places, Body, Inside
  <1>7. Endings' BY <1>2, <1>3 DEF IInv, Endings, Closes, Body, Inside
  <1>8. Processes'
    <2>1. Processes /\ proc' = proc /\ proc \in Nat /\ pc' = "stop"
          /\ UNCHANGED <<config, stopping, died, lock, quit>>
      BY <1>1, <1>2, <1>3, ConfigsTyped DEF IInv, TypeOK, Closes, Body
    <2>2. proc <= born /\ born + 1 # proc BY <1>4, <2>1 DEF Processes
    <2>3. config.attach => up' \subseteq {born'}
      BY <2>1 DEF Processes, Closes, Forgets
    <2>4. ~config.attach => up' \subseteq stopping \cup {proc} \cup forgotten'
      BY <1>4, <2>1 DEF Processes
    <2>5. ~config.attach /\ quit = "exited" => up' \subseteq stopping \cup forgotten'
      BY <1>4, <2>1 DEF Processes
    <2>6. proc \in up' => proc \in up BY <1>4, <2>2
    <2>7. proc' <= born' BY <1>4, <2>1, <2>2
    <2>8. QED BY <1>4, <2>1, <2>3, <2>4, <2>5, <2>6, <2>7 DEF Processes, Inside
  <1>9. Sessions'
    <2>1. UNCHANGED <<proc, inc, quit, died>> BY DEF Closes, Body
    <2>2. noticed' \subseteq 0 .. inc
      <3>1. inc \in 0 .. inc BY <1>1 DEF TypeOK
      <3>2. QED BY <1>1, <1>2, <3>1 DEF Sessions, Body
    <2>3. CrashIsReal' BY <1>1, <1>2, <1>3, <2>1 DEF Sessions, CrashIsReal, Body
    <2>4. InterruptedMeansQuit'
      BY <1>1, <1>3, <2>1 DEF Sessions, InterruptedMeansQuit, Closes, EndStatus
    <2>5. \A i \in DOMAIN sessions : sessions'[i].inc <= inc
      BY <1>1, <1>3 DEF Sessions
    <2>6. QED
      BY <1>3, <2>1, <2>2, <2>3, <2>4, <2>5 DEF Sessions, SnapshotsAreOwn
  <1>10. GateOpensAgain' BY <1>2 DEF IInv, GateOpensAgain, Body, heap
  <1>11. QED BY <1>5, <1>6, <1>7, <1>8, <1>9, <1>10 DEF IInv

\* Whoever finds the process gone, and was not stopped, finds its own one dead.
LEMMA GoneIsDead ==
  ASSUME IInv, pc \in Inside, ~shutdown, ~Alive
  PROVE store /\ sessions[Len(sessions)].proc \in died
  <1>1. store /\ proc # 0 /\ proc \in up \cup died BY DEF IInv, Places, Processes
  <1>2. proc \notin up BY <1>1 DEF Alive
  <1>3. proc = sessions[Len(sessions)].proc
    BY <1>1 DEF IInv, Sessions, SnapshotsAreOwn
  <1>4. QED BY <1>1, <1>2, <1>3

\* What the try block counts and remembers, as it is typed.
Counted ==
  /\ monitoring \in BOOLEAN /\ shutdown \in BOOLEAN
  /\ streams \in BOOLEAN /\ wedged \in BOOLEAN
  /\ anchored \in BOOLEAN /\ closes \in 0 .. MaxCloses /\ fails \in 0 .. MaxFailures - 1

\* The steps between awaits of the try block.
LEMMA TryGoes ==
  ASSUME IInv,
         \/ Connected \/ Subscribe \/ (\E synced \in BOOLEAN : Info(synced))
         \/ Poll \/ Ask \/ Asked
  PROVE Goes
  <1>1. Counted BY DEF IInv, TypeOK, Counted
  <1>2. CASE Connected \/ Poll \/ Ask \/ Asked
    BY <1>1, <1>2
       DEF Counted, Connected, Poll, Ask, Asked, Here, Goes, Body, Inside, flags, counters, session,
           socket, world, process
  <1>3. CASE Subscribe
    BY <1>1, <1>3
       DEF Counted, Subscribe, Here, Goes, Body, Inside, flags, counters, session, world, process
  <1>4. CASE \E synced \in BOOLEAN : Info(synced)
    <2>1. 1 \in 0 .. MaxCloses BY ConfigsTyped DEF LEDGER_CLOSES_FOR_SYNC
    <2>2. UNCHANGED <<fails, inc>> /\ anchored' \in BOOLEAN /\ closes' \in 0 .. MaxCloses
      BY <1>1, <1>4, <2>1 DEF Counted, Info
    <2>3. QED
      BY <1>1, <1>4, <2>2
         DEF Counted, Info, Here, Goes, Body, Inside, flags, session, socket, world, process
  <1>5. QED BY <1>2, <1>3, <1>4

\* The steps that end a phase.
LEMMA TryCloses ==
  ASSUME IInv, AcquireFails \/ AcquireForgets \/ Raise \/ MonitorOver \/ MonitorCrash
  PROVE \E s \in {"error", "completed"} : Closes(s)
  <1>1. TypeOK BY DEF IInv
  <1>2. CASE AcquireFails
    <2>1. proc = 0 BY <1>2 DEF IInv, Processes, AcquireFails, Here
    <2>2. Closes("error")
      BY <1>1, <1>2, <2>1
         DEF TypeOK, AcquireFails, Finalize, Here, Closes, Body, flags, counters, socket, world
    <2>3. QED BY <2>2
  <1>3. CASE Raise
    <2>1. Closes("error")
      BY <1>1, <1>3
         DEF TypeOK, Raise, Finalize, Here, Closes, Body, Inside, flags, counters, socket, world,
             process
    <2>2. QED BY <2>1
  <1>4. CASE MonitorOver
    <2>1. Closes("completed")
      BY <1>1, <1>4
         DEF TypeOK, MonitorOver, Finalize, Here, Closes, Body, Inside, flags, counters, socket,
             world, process
    <2>2. QED BY <2>1
  <1>5. CASE MonitorCrash
    <2>1. store /\ sessions[Len(sessions)].proc \in died
      BY <1>5, GoneIsDead DEF MonitorCrash, Here, Inside
    <2>2. Closes("completed")
      BY <1>1, <1>5, <2>1
         DEF TypeOK, MonitorCrash, Finalize, Here, Closes, Body, Inside, flags, counters, socket,
             world, process
    <2>3. QED BY <2>2
  <1>6. CASE AcquireForgets
    <2>1. proc = 0 /\ 0 \notin up /\ up \ {0} = up
      BY <1>1, <1>6 DEF IInv, TypeOK, Processes, AcquireForgets, Here
    <2>2. Forgets BY <1>6, <2>1 DEF AcquireForgets, Forgets
    <2>3. Closes("error")
      BY <1>1, <1>6, <2>1, <2>2
         DEF TypeOK, AcquireForgets, Finalize, Here, Closes, Body, flags, counters, socket
    <2>4. QED BY <2>3
  <1>7. QED BY <1>2, <1>3, <1>4, <1>5, <1>6

\* A poll goes on or ends the phase.
LEMMA PollGoesOrCloses ==
  ASSUME IInv, PollCrash \/ PollOver \/ PollAnswered \/ PollFailed
  PROVE Goes \/ \E s \in {"error", "completed"} : Closes(s)
  <1> DEFINE Over == \/ pc' = "monitor" /\ UNCHANGED <<store, sessions>>
                     \/ \E s \in {"error", "completed"} : Leave(s)
             Go == pc' \in Inside /\ UNCHANGED <<store, sessions>>
  <1>1. Counted /\ KeepsGoing \in BOOLEAN BY DEF IInv, TypeOK, Counted, KeepsGoing
  <1>2. SUFFICES /\ Body /\ pc \in Inside /\ UNCHANGED <<cancel, proc, up, born, forgotten>>
                 /\ Go \/ Over
    BY DEF Goes, Closes, Inside
  <1>3. pc \in Inside /\ UNCHANGED <<cancel, proc, up, born, forgotten>>
    BY DEF PollCrash, PollOver, PollAnswered, PollFailed, Here, Inside, process, world
  <1>4. CASE PollCrash
    <2>1. store /\ sessions[Len(sessions)].proc \in died
      BY <1>3, <1>4, GoneIsDead DEF PollCrash, KeepsGoing
    <2>2. Body
      BY <1>1, <1>4, <2>1 DEF Counted, PollCrash, Body, flags, counters, socket, world, process
    <2>3. Over
      BY <1>1, <1>4, AfterPollingGoes DEF Counted, PollCrash
    <2>4. QED BY <1>3, <2>2, <2>3
  <1>5. CASE PollOver
    <2>1. Body
      BY <1>1, <1>5 DEF Counted, PollOver, Body, flags, counters, socket, world, process
    <2>2. Over
      BY <1>1, <1>5, AfterPollingGoes DEF Counted, PollOver
    <2>3. QED BY <1>3, <2>1, <2>2
  <1>6. CASE PollAnswered
    <2>1. Body
      <3>1. 0 \in 0 .. MaxFailures - 1 BY ConfigsTyped
      <3>2. anchored' \in BOOLEAN /\ fails' \in 0 .. MaxFailures - 1
        BY <1>1, <1>6, <3>1 DEF Counted, PollAnswered
      <3>3. QED BY <1>1, <1>6, <3>2 DEF Counted, PollAnswered, Body, flags, socket, world, process
    <2>2. Go \/ Over
      BY <1>1, <1>6, AfterPollingGoes DEF PollAnswered, Inside, session
    <2>3. QED BY <1>3, <2>1, <2>2
  <1>7. CASE PollFailed
    <2>1. Body
      <3>1. \/ monitoring' = FALSE /\ fails' = fails
            \/ fails + 1 < MaxFailures /\ fails' = fails + 1 /\ monitoring' = monitoring
        <4>1. CASE fails + 1 >= MaxFailures BY <1>7, <4>1 DEF PollFailed
        <4>2. CASE ~(fails + 1 >= MaxFailures)
          BY <1>1, <1>7, <4>2, ConfigsTyped DEF PollFailed, Counted
        <4>3. QED BY <4>1, <4>2
      <3>2. fails' \in 0 .. MaxFailures - 1 BY <1>1, <3>1, ConfigsTyped DEF Counted
      <3>3. QED BY <1>1, <1>7, <3>1, <3>2 DEF Counted, PollFailed, Body, socket, world, process
    <2>2. Go \/ Over
      BY <1>1, <1>7, AfterPollingGoes DEF Counted, PollFailed, Inside, session
    <2>3. QED BY <1>3, <2>1, <2>2
  <1>8. QED BY <1>4, <1>5, <1>6, <1>7

\* A cancellation in the try block leaves it for the finally block.
LEMMA InterruptCloses == ASSUME IInv, Interrupt PROVE Closes("running")
  <1>1. TypeOK /\ quit # "no" BY DEF IInv, Endings, Interrupt
  <1>2. QED
    BY <1>1
       DEF TypeOK, Interrupt, Closes, Body, Inside, flags, counters, world, process

-------------------------------------------------------------------------------
(* The other steps *)

\* Sessions stay as they are while none is opened, ended or taken for crashed.
LEMMA SessionsStay ==
  ASSUME Sessions, UNCHANGED <<store, sessions, inc, noticed>>, died \subseteq died',
         proc' \in {proc, 0} \/ ~store, quit # "no" => quit' # "no",
         pc' \in {"acquire", "open"} => pc \in {"acquire", "open"}
  PROVE Sessions'
  <1>1. SnapshotsAreOwn' BY DEF Sessions, SnapshotsAreOwn
  <1>2. CrashIsReal' BY DEF Sessions, CrashIsReal
  <1>3. InterruptedMeansQuit' BY DEF Sessions, InterruptedMeansQuit
  <1>4. QED BY <1>1, <1>2, <1>3 DEF Sessions

\* A new incarnation: its number is fresh.
LEMMA BeginInv == ASSUME IInv, Begin PROVE IInv'
  <1>1. TypeOK /\ Sessions /\ cancel = "no" /\ quit = "no"
    BY NobodyQuits DEF IInv, Begin
  <1>2. /\ pc = "next" /\ pc' = "acquire" /\ inc' = inc + 1 /\ gate' = FALSE
        /\ UNCHANGED <<store, sessions, noticed, proc, died, quit>>
    BY DEF Begin, Here, session, process, world
  <1>3. TypeOK'
    <2>1. inc' \in Nat BY <1>1, <1>2 DEF TypeOK
    <2>2. closes' \in 0 .. MaxCloses /\ fails' \in 0 .. MaxFailures - 1
      BY ConfigsTyped DEF Begin
    <2>3. anchored' = FALSE /\ gate' = FALSE /\ pc' \in Phases BY DEF Begin, Phases
    <2>4. UNCHANGED <<cancel, user, quit, lock, config, monitoring, shutdown, store, sessions,
                      samples, conn, streams, wedged, up, born, stopping, died, forgotten, target,
                      proc, noticed>>
      BY DEF Begin, flags, session, socket, world, process
    <2>5. QED BY <1>1, <2>1, <2>2, <2>3, <2>4 DEF TypeOK
  <1>4. Places' BY DEF IInv, Places, Begin, Here, Inside, flags, session
  <1>5. Endings' BY <1>1 DEF IInv, Endings, Begin, flags
  <1>6. Processes' BY DEF IInv, Processes, Begin, Here, Inside, flags, world, process
  <1>7. Sessions'
    <2>1. inc \in Nat BY <1>1 DEF TypeOK
    <2>2. noticed' \subseteq 0 .. inc' /\ inc' \notin noticed'
      BY <1>1, <1>2, <2>1 DEF Sessions
    <2>3. \A i \in DOMAIN sessions : sessions[i].inc <= inc' /\ sessions[i].inc # inc'
      <3> SUFFICES ASSUME NEW i \in DOMAIN sessions
                   PROVE sessions[i].inc <= inc' /\ sessions[i].inc # inc'
        OBVIOUS
      <3>1. sessions[i] \in Entries BY <1>1 DEF TypeOK
      <3>2. sessions[i].inc \in Nat BY <3>1 DEF Entries
      <3>3. sessions[i].inc <= inc BY <1>1 DEF Sessions
      <3>4. QED BY <1>2, <2>1, <3>2, <3>3
    <2>4. QED
      BY <1>1, <1>2, <2>2, <2>3
         DEF Sessions, SnapshotsAreOwn, CrashIsReal, InterruptedMeansQuit
  <1>8. GateOpensAgain' BY <1>2 DEF GateOpensAgain
  <1>9. QED BY <1>3, <1>4, <1>5, <1>6, <1>7, <1>8 DEF IInv

\* The run is over.
LEMMA CompleteInv ==
  ASSUME IInv, NEW p \in {"next", "between", "wait"}, Here(p), Complete
  PROVE IInv'
  <1>1. cancel = "no" /\ quit = "no" BY NobodyQuits DEF IInv
  <1>2. pc = p /\ pc' = "done" BY DEF Here, Complete
  <1>3. TypeOK'
    <2>1. monitoring' \in BOOLEAN /\ pc' \in Phases BY DEF Complete, Phases
    <2>2. UNCHANGED <<cancel, user, quit, lock, config, shutdown, inc, anchored, closes, fails,
                      store, sessions, gate, samples, conn, streams, wedged, up, born, stopping,
                      died, forgotten, target, proc, noticed>>
      BY DEF Complete, counters, session, heap, socket, world, process
    <2>3. TypeOK BY DEF IInv
    <2>4. QED BY <2>1, <2>2, <2>3 DEF TypeOK
  <1>4. Places' BY <1>2 DEF IInv, Places, Complete, Inside, session
  <1>5. Endings' BY <1>1, <1>2 DEF IInv, Endings, Complete
  <1>6. Processes' BY <1>2 DEF IInv, Processes, Complete, Inside, world, process
  <1>7. Sessions'
    BY <1>2, SessionsStay DEF IInv, Complete, counters, session, world, process
  <1>8. GateOpensAgain' BY DEF IInv, GateOpensAgain, Complete, heap
  <1>9. QED BY <1>3, <1>4, <1>5, <1>6, <1>7, <1>8 DEF IInv

\* The worker gets its process: a new one, or the one it attaches to.
LEMMA AcquireInv == ASSUME IInv, Acquire PROVE IInv'
  <1>1. TypeOK /\ Processes /\ proc = 0 /\ ~store
    BY DEF IInv, Processes, Places, Acquire, Here, Inside
  <1>2. /\ pc = "acquire" /\ pc' = "open" /\ lock = "none"
        /\ UNCHANGED <<cancel, user, quit, lock, shutdown, config, stopping, died, forgotten>>
    BY DEF Acquire, Here, flags
  <1>3. \/ config.attach /\ proc' = target /\ target \in up /\ UNCHANGED <<up, born>>
        \/ ~config.attach /\ born < MaxProcesses /\ born' = born + 1 /\ proc' = born'
           /\ up' = (up \ {0}) \cup {born'}
    BY <1>1 DEF Acquire
  <1>4. /\ born \in Nat /\ born' \in Nat /\ born <= born' /\ born' <= MaxProcesses
        /\ MaxProcesses \in Nat /\ up \subseteq 1 .. born /\ stopping \subseteq 1 .. born
    BY <1>1, <1>3, ConfigsTyped DEF TypeOK, Processes
  <1>5. proc' \in 1 .. born' /\ up' \subseteq 1 .. born' /\ stopping \subseteq 1 .. born'
    <2>1. CASE config.attach BY <1>3, <1>4, <2>1
    <2>2. CASE ~config.attach
      <3>1. born' \in 1 .. born' BY <1>3, <1>4, <2>2
      <3>2. 1 .. born \subseteq 1 .. born' BY <1>4
      <3>3. QED BY <1>3, <1>4, <2>2, <3>1, <3>2
    <2>3. QED BY <2>1, <2>2
  <1>6. TypeOK'
    <2>1. proc' \in 0 .. MaxProcesses /\ up' \subseteq 1 .. MaxProcesses
      BY <1>4, <1>5
    <2>2. QED
      BY <1>1, <1>2, <1>4, <2>1
         DEF TypeOK, Acquire, Phases, flags, counters, session, heap, socket
  <1>7. Places' BY <1>2 DEF IInv, Places, Acquire, Inside, session
  <1>8. Endings' BY <1>2, NobodyQuits DEF IInv, Endings, Acquire
  <1>9. Processes'
    <2>1. proc' # 0 /\ proc' \in up' BY <1>3, <1>5
    <2>2. ~config.attach => proc' \notin stopping BY <1>3, <1>4
    <2>3. config.attach => up' \subseteq {born'} BY <1>1, <1>3 DEF Processes
    <2>4. ~config.attach => up' \subseteq stopping \cup {proc'} \cup forgotten
      BY <1>1, <1>3 DEF Processes
    <2>5. quit' # "exited" BY <1>2 DEF Acquire, Here
    <2>6. QED
      BY <1>2, <1>4, <1>5, <2>1, <2>2, <2>3, <2>4, <2>5 DEF Processes
  <1>10. Sessions'
    BY <1>1, <1>2, SessionsStay DEF IInv, Acquire, counters, session
  <1>11. GateOpensAgain' BY DEF IInv, GateOpensAgain, Acquire, heap
  <1>12. QED BY <1>6, <1>7, <1>8, <1>9, <1>10, <1>11 DEF IInv

\* The session of the incarnation, which has none yet.
LEMMA OpenSessionInv == ASSUME IInv, OpenSession PROVE IInv'
  <1>1. TypeOK /\ Sessions /\ ~store BY DEF IInv, Places, OpenSession, Here, Inside
  <1> DEFINE new == [inc |-> inc, proc |-> proc, status |-> "open"]
  <1>2. /\ pc = "open" /\ pc' = "connect" /\ store' = TRUE
        /\ sessions' = Append(sessions, new)
        /\ UNCHANGED <<cancel, user, quit, lock, flags, counters, heap, socket, world, process,
                       noticed>>
    BY DEF OpenSession, Here
  <1>3. new \in Entries BY <1>1 DEF TypeOK, Entries
  <1>4. /\ sessions \in Seq(Entries) /\ sessions' \in Seq(Entries)
        /\ Len(sessions') = Len(sessions) + 1 /\ sessions' # <<>>
        /\ DOMAIN sessions' = 1 .. Len(sessions) + 1 /\ DOMAIN sessions = 1 .. Len(sessions)
        /\ \A i \in DOMAIN sessions : sessions'[i] = sessions[i]
        /\ sessions'[Len(sessions) + 1] = new /\ Len(sessions) \in Nat
    BY <1>1, <1>2, <1>3 DEF TypeOK
  <1>5. TypeOK'
    BY <1>1, <1>2, <1>4 DEF TypeOK, Phases, flags, counters, heap, socket, world, process
  <1>6. Places' BY <1>2 DEF IInv, Places, Inside, flags
  <1>7. Endings' BY <1>2, NobodyQuits DEF IInv, Endings, flags, OpenSession
  <1>8. Processes' BY <1>2 DEF IInv, Processes, Inside, flags, world, process
  <1>9. Sessions'
    <2>1. /\ inc \in Nat /\ inc \notin noticed /\ noticed \subseteq 0 .. inc
          /\ \A i \in DOMAIN sessions : sessions[i].inc # inc
      BY <1>1, <1>2 DEF TypeOK, Sessions
    <2>2. \A i \in DOMAIN sessions' : i \in DOMAIN sessions \/ i = Len(sessions) + 1
      BY <1>4
    <2>3. UNCHANGED <<inc, noticed, proc, died, quit>>
      BY <1>2 DEF counters, process, world
    <2>4. \A i \in DOMAIN sessions' : sessions'[i].status = "open" <=> i = Len(sessions')
      BY <1>1, <1>4, <2>2 DEF Sessions
    <2>5. \A i \in DOMAIN sessions' : sessions'[i].inc <= inc
      BY <1>1, <1>4, <2>1, <2>2 DEF Sessions
    <2>6. \A i \in DOMAIN sessions' : sessions'[i].inc = inc => i = Len(sessions')
      BY <1>4, <2>1, <2>2
    <2>7. SnapshotsAreOwn' BY <1>4, <2>3 DEF SnapshotsAreOwn
    <2>8. CrashIsReal' BY <1>1, <1>4, <2>1, <2>2, <2>3 DEF Sessions, CrashIsReal
    <2>9. InterruptedMeansQuit'
      BY <1>1, <1>4, <2>2, <2>3 DEF Sessions, InterruptedMeansQuit
    <2>10. QED
      BY <1>2, <1>4, <2>1, <2>3, <2>4, <2>5, <2>6, <2>7, <2>8, <2>9 DEF Sessions
  <1>10. GateOpensAgain' BY <1>2 DEF IInv, GateOpensAgain, heap
  <1>11. QED BY <1>5, <1>6, <1>7, <1>8, <1>9, <1>10 DEF IInv

\* The process is handed to a thread, and the lock kept, or there is none.
LEMMA StopCurrentInv == ASSUME IInv, StopCurrent PROVE IInv'
  <1>1. TypeOK /\ Processes /\ pc = "stop" /\ lock = "none" BY DEF IInv, StopCurrent, Here
  <1>2. \/ proc = 0 /\ pc' = "unsubscribe" /\ UNCHANGED <<lock, stopping>>
        \/ proc # 0 /\ pc' = "stopping" /\ lock' = "worker" /\ stopping' = stopping \cup {proc}
    BY DEF StopCurrent
  <1>3. UNCHANGED <<cancel, user, quit, flags, counters, session, heap, socket, up, born, died,
                    forgotten, process, noticed>>
    BY DEF StopCurrent
  <1>4. stopping' \subseteq 1 .. born /\ stopping' \subseteq 1 .. MaxProcesses
        /\ stopping \subseteq stopping'
    <2>1. proc # 0 => proc \in 1 .. born /\ proc \in 1 .. MaxProcesses
      BY <1>1, ConfigsTyped DEF TypeOK, Processes
    <2>2. stopping \subseteq 1 .. born /\ stopping \subseteq 1 .. MaxProcesses
      BY <1>1 DEF TypeOK, Processes
    <2>3. QED BY <1>2, <2>1, <2>2
  <1>5. TypeOK'
    <2>1. pc' \in Phases /\ lock' \in {"none", "worker", "user"}
      BY <1>1, <1>2 DEF Phases, TypeOK
    <2>2. QED
      BY <1>1, <1>3, <1>4, <2>1 DEF TypeOK, flags, counters, session, heap, socket, process
  <1>6. Places' BY <1>1, <1>2, <1>3 DEF IInv, Places, Inside, flags, session
  <1>7. Endings' BY <1>1, <1>2, <1>3 DEF IInv, Endings, flags
  <1>8. Processes' BY <1>1, <1>2, <1>3, <1>4 DEF Processes, Inside, flags, process
  <1>9. Sessions'
    BY <1>2, <1>3, SessionsStay DEF IInv, counters, session, process
  <1>10. GateOpensAgain' BY <1>3 DEF IInv, GateOpensAgain, heap
  <1>11. QED BY <1>5, <1>6, <1>7, <1>8, <1>9, <1>10 DEF IInv

\* The thread has stopped the process: none is left that runs and has a handle.
LEMMA StoppedInv == ASSUME IInv, Stopped PROVE IInv'
  <1>1. TypeOK /\ Places /\ Processes /\ pc = "stopping" /\ lock = "worker" /\ ~store
    BY DEF IInv, Places, Stopped, Here, Inside
  <1>2. /\ proc \notin stopping /\ lock' = "none" /\ proc' = 0 /\ pc' = "unsubscribe"
        /\ UNCHANGED <<cancel, user, quit, flags, counters, session, heap, socket, world,
                       target, noticed>>
    BY DEF Stopped
  <1>3. TypeOK'
    <2>1. pc' \in Phases /\ proc' \in 0 .. MaxProcesses BY <1>2, ConfigsTyped DEF Phases
    <2>2. QED
      BY <1>1, <1>2, <2>1 DEF TypeOK, flags, counters, session, heap, socket, world
  <1>4. Places' BY <1>1, <1>2 DEF Places, Inside, flags, session
  <1>5. Endings' BY <1>1, <1>2 DEF IInv, Endings, flags
  <1>6. Processes'
    <2>1. ~config.attach => up \subseteq stopping \cup forgotten
      BY <1>1, <1>2 DEF Processes
    <2>2. 0 <= born BY <1>1 DEF TypeOK
    <2>3. QED BY <1>1, <1>2, <2>1, <2>2 DEF Processes, Inside, flags, world
  <1>7. Sessions'
    BY <1>2, SessionsStay DEF IInv, counters, session, world
  <1>8. GateOpensAgain' BY <1>2 DEF IInv, GateOpensAgain, heap
  <1>9. QED BY <1>3, <1>4, <1>5, <1>6, <1>7, <1>8 DEF IInv

\* The rest of the cleanup; a cancelled worker ends after it.
LEMMA UnsubscribeInv == ASSUME IInv, Unsubscribe PROVE IInv'
  <1>1. TypeOK /\ Processes /\ pc = "unsubscribe" /\ proc = 0
    BY DEF IInv, Processes, Unsubscribe, Here
  <1>2. /\ pc' = IF cancel = "unwinding" THEN "done" ELSE "between"
        /\ cancel # "asked" /\ quit # "exited" /\ streams' \in BOOLEAN
        /\ UNCHANGED <<cancel, user, quit, lock, flags, counters, session, heap, conn, wedged,
                       world, process, noticed>>
    BY <1>1 DEF TypeOK, Unsubscribe, Here
  <1>3. TypeOK'
    <2>1. pc' \in Phases BY <1>2 DEF Phases
    <2>2. QED
      BY <1>1, <1>2, <2>1 DEF TypeOK, flags, counters, session, heap, world, process
  <1>4. Places' BY <1>1, <1>2 DEF IInv, Places, Inside, flags, session
  <1>5. Endings' BY <1>1, <1>2 DEF IInv, Endings, flags
  <1>6. Processes' BY <1>1, <1>2 DEF Processes, Inside, flags, world, process
  <1>7. Sessions'
    BY <1>2, SessionsStay DEF IInv, counters, session, world, process
  <1>8. GateOpensAgain' BY <1>2 DEF IInv, GateOpensAgain, heap
  <1>9. QED BY <1>3, <1>4, <1>5, <1>6, <1>7, <1>8 DEF IInv

\* On to the next binary, to the wait, or from it with the process that was found.
LEMMA ContinueInv == ASSUME IInv, Continue \/ FindProcess PROVE IInv'
  <1>1. TypeOK /\ Places /\ Processes /\ cancel = "no" /\ quit = "no"
    BY NobodyQuits DEF IInv, Continue, FindProcess
  <1>2. /\ pc \in {"between", "wait"} /\ pc' \in {"wait", "next"}
        /\ pc' = "wait" => config.attach
        /\ UNCHANGED <<cancel, user, quit, lock, flags, counters, session, heap, socket, world,
                       proc, noticed>>
    BY DEF Continue, FindProcess, Here, process
  <1>3. target' \in 0 .. MaxProcesses
    <2>1. CASE Continue BY <1>1, <2>1 DEF TypeOK, Continue, process
    <2>2. CASE FindProcess
      <3>1. config.attach /\ up # {} BY <1>1, <2>2 DEF Places, FindProcess, Here
      <3>2. up = {born} /\ born \in 1 .. MaxProcesses
        BY <1>1, <3>1 DEF TypeOK, Processes
      <3>3. Newest(up) = born BY <3>2 DEF Newest
      <3>4. QED BY <2>2, <3>2, <3>3 DEF FindProcess
    <2>3. QED BY <2>1, <2>2
  <1>4. TypeOK'
    <2>1. pc' \in Phases BY <1>2 DEF Phases
    <2>2. QED
      BY <1>1, <1>2, <1>3, <2>1 DEF TypeOK, flags, counters, session, heap, socket, world
  <1>5. Places' BY <1>1, <1>2 DEF Places, Inside, flags, session
  <1>6. Endings' BY <1>1, <1>2 DEF IInv, Endings, flags
  <1>7. Processes' BY <1>1, <1>2 DEF Processes, Inside, flags, world
  <1>8. Sessions'
    BY <1>2, SessionsStay DEF IInv, counters, session, world
  <1>9. GateOpensAgain' BY <1>2 DEF IInv, GateOpensAgain, heap
  <1>10. QED BY <1>4, <1>5, <1>6, <1>7, <1>8, <1>9 DEF IInv

\* A cancellation outside of the try block ends the worker.
LEMMA CutShortInv == ASSUME IInv, CutShort PROVE IInv'
  <1>1. TypeOK /\ Places /\ Processes /\ Endings BY DEF IInv
  <1>2. /\ cancel = "asked" /\ cancel' = "unwinding" /\ pc' = "done" /\ quit # "exited"
        /\ pc \in {"next", "stop", "stopping", "unsubscribe", "between", "wait"}
        /\ lock' = IF lock = "worker" THEN "none" ELSE lock
        /\ UNCHANGED <<user, quit, flags, counters, session, heap, socket, world, process,
                       noticed>>
    BY DEF CutShort
  <1>3. TypeOK'
    <2>1. pc' \in Phases /\ cancel' \in {"no", "asked", "unwinding"}
          /\ lock' \in {"none", "worker", "user"}
      BY <1>1, <1>2 DEF Phases, TypeOK
    <2>2. QED
      BY <1>1, <1>2, <2>1 DEF TypeOK, flags, counters, session, heap, socket, world, process
  <1>4. Places' BY <1>1, <1>2 DEF Places, Inside, flags, session
  <1>5. Endings' BY <1>1, <1>2 DEF Endings, flags
  <1>6. Processes' BY <1>1, <1>2 DEF Processes, Inside, flags, world, process
  <1>7. Sessions'
    BY <1>2, SessionsStay DEF IInv, counters, session, world, process
  <1>8. GateOpensAgain' BY <1>2 DEF IInv, GateOpensAgain, heap
  <1>9. QED BY <1>3, <1>4, <1>5, <1>6, <1>7, <1>8 DEF IInv

\* No step of the worker breaks the invariant.
LEMMA WorkerInv == ASSUME IInv, Worker PROVE IInv'
  <1>1. CASE Begin BY <1>1, BeginInv
  <1>2. CASE Finish \/ DoNotReattach \/ StopWaiting
    BY <1>2, CompleteInv DEF Finish, DoNotReattach, StopWaiting
  <1>3. CASE Acquire BY <1>3, AcquireInv
  <1>4. CASE OpenSession BY <1>4, OpenSessionInv
  <1>5. CASE \/ Connected \/ Subscribe \/ (\E synced \in BOOLEAN : Info(synced))
             \/ Poll \/ Ask \/ Asked
    BY <1>5, TryGoes, GoesInv
  <1>6. CASE AcquireFails \/ AcquireForgets \/ Raise \/ MonitorOver \/ MonitorCrash
    BY <1>6, TryCloses, ClosesInv
  <1>7. CASE PollCrash \/ PollOver \/ PollAnswered \/ PollFailed
    BY <1>7, PollGoesOrCloses, GoesInv, ClosesInv
  <1>8. CASE Interrupt BY <1>8, InterruptCloses, ClosesInv
  <1>9. CASE StopCurrent BY <1>9, StopCurrentInv
  <1>10. CASE Stopped BY <1>10, StoppedInv
  <1>11. CASE Unsubscribe BY <1>11, UnsubscribeInv
  <1>12. CASE Continue \/ FindProcess BY <1>12, ContinueInv
  <1>13. CASE CutShort BY <1>13, CutShortInv
  <1>14. QED
    BY <1>1, <1>2, <1>3, <1>4, <1>5, <1>6, <1>7, <1>8, <1>9, <1>10, <1>11, <1>12, <1>13
       DEF Worker

-------------------------------------------------------------------------------
(* The user, the threads and the world *)

\* A stop, and a quit that goes on to it, set the shutdown event.
LEMMA ShutDownInv == ASSUME IInv, PressStop \/ StopWaitingForWorker PROVE IInv'
  <1>1. TypeOK /\ Endings BY DEF IInv
  <1>2. /\ shutdown' = TRUE
        /\ \/ user = "idle" /\ user' = "stop" /\ quit = "no" /\ quit' = quit
           \/ user' = user /\ quit = "wait" /\ quit' = "stop" /\ cancel # "asked"
        /\ UNCHANGED <<pc, cancel, lock, config, monitoring, counters, session, heap, socket,
                       world, process, noticed>>
    BY DEF PressStop, StopWaitingForWorker
  <1>3. TypeOK'
    <2>1. /\ user' \in {"idle", "stop", "stopping", "disconnect", "stopped"}
          /\ quit' \in {"no", "wait", "stop", "exited"} /\ shutdown' \in BOOLEAN
      BY <1>1, <1>2 DEF TypeOK
    <2>2. QED
      BY <1>1, <1>2, <2>1 DEF TypeOK, counters, session, heap, socket, world, process
  <1>4. Places' BY <1>2 DEF IInv, Places, session
  <1>5. Endings' BY <1>1, <1>2 DEF Endings
  <1>6. Processes' BY <1>2 DEF IInv, Processes, world, process
  <1>7. Sessions'
    BY <1>2, SessionsStay DEF IInv, counters, session, world, process
  <1>8. GateOpensAgain' BY <1>2 DEF IInv, GateOpensAgain, heap
  <1>9. QED BY <1>3, <1>4, <1>5, <1>6, <1>7, <1>8 DEF IInv

\* The user's stop hands the process to a thread.
LEMMA UserStopsInv == ASSUME IInv, UserStops PROVE IInv'
  <1>1. TypeOK /\ Processes /\ Endings /\ user = "stop" /\ lock = "none" /\ shutdown
    BY DEF IInv, Endings, UserStops
  <1>2. \/ proc = 0 /\ user' = "disconnect" /\ UNCHANGED <<lock, stopping>>
        \/ proc # 0 /\ user' = "stopping" /\ lock' = "user" /\ stopping' = stopping \cup {proc}
    BY DEF UserStops
  <1>3. UNCHANGED <<pc, cancel, quit, flags, counters, session, heap, socket, up, born, died,
                    forgotten, process, noticed>>
    BY DEF UserStops
  <1>4. stopping' \subseteq 1 .. born /\ stopping' \subseteq 1 .. MaxProcesses
        /\ stopping \subseteq stopping'
    <2>1. proc # 0 => proc \in 1 .. born /\ proc \in 1 .. MaxProcesses
      BY <1>1, ConfigsTyped DEF TypeOK, Processes
    <2>2. stopping \subseteq 1 .. born /\ stopping \subseteq 1 .. MaxProcesses
      BY <1>1 DEF TypeOK, Processes
    <2>3. QED BY <1>2, <2>1, <2>2
  <1>5. TypeOK'
    <2>1. /\ user' \in {"idle", "stop", "stopping", "disconnect", "stopped"}
          /\ lock' \in {"none", "worker", "user"}
      BY <1>1, <1>2 DEF TypeOK
    <2>2. QED
      BY <1>1, <1>3, <1>4, <2>1 DEF TypeOK, flags, counters, session, heap, socket, process
  <1>6. Places' BY <1>1, <1>2, <1>3 DEF IInv, Places, flags, session
  <1>7. Endings' BY <1>1, <1>2, <1>3 DEF Endings, flags
  <1>8. Processes' BY <1>1, <1>2, <1>3, <1>4 DEF Processes, flags, process
  <1>9. Sessions'
    BY <1>3, SessionsStay DEF IInv, counters, session, process
  <1>10. GateOpensAgain' BY <1>3 DEF IInv, GateOpensAgain, heap
  <1>11. QED BY <1>5, <1>6, <1>7, <1>8, <1>9, <1>10 DEF IInv

\* The thread of the user's stop is done: nothing is left that runs and has a handle.
LEMMA UserStoppedInv == ASSUME IInv, UserStopped PROVE IInv'
  <1>1. TypeOK /\ Places /\ Processes /\ Endings /\ lock = "user" /\ shutdown
    BY DEF IInv, Places, Endings, UserStopped
  <1>2. /\ user = "stopping" /\ user' = "disconnect"
        /\ proc \notin stopping /\ lock' = "none" /\ proc' = 0
        /\ UNCHANGED <<pc, cancel, quit, flags, counters, session, heap, socket, world, target,
                       noticed>>
    BY DEF UserStopped
  <1>3. TypeOK'
    <2>1. /\ user' \in {"idle", "stop", "stopping", "disconnect", "stopped"}
          /\ lock' \in {"none", "worker", "user"} /\ proc' \in 0 .. MaxProcesses
      BY <1>2, ConfigsTyped
    <2>2. QED
      BY <1>1, <1>2, <2>1 DEF TypeOK, flags, counters, session, heap, socket, world
  <1>4. Places' BY <1>1, <1>2 DEF Places, flags, session
  <1>5. Endings' BY <1>1, <1>2 DEF Endings, flags
  <1>6. Processes'
    <2>1. ~config.attach => up \subseteq stopping \cup forgotten
      BY <1>1, <1>2 DEF Processes
    <2>2. 0 <= born BY <1>1 DEF TypeOK
    <2>3. QED BY <1>1, <1>2, <2>1, <2>2 DEF Processes, flags, world
  <1>7. Sessions'
    BY <1>2, SessionsStay DEF IInv, counters, session, world
  <1>8. GateOpensAgain' BY <1>2 DEF IInv, GateOpensAgain, heap
  <1>9. QED BY <1>3, <1>4, <1>5, <1>6, <1>7, <1>8 DEF IInv

\* The worker is cancelled, unless it has ended.
LEMMA PressQuitInv == ASSUME IInv, PressQuit PROVE IInv'
  <1>1. TypeOK /\ Endings /\ quit = "no" /\ cancel = "no" BY DEF IInv, TypeOK, Endings, PressQuit
  <1>2. /\ quit' = "wait" /\ cancel' = IF pc = "done" THEN "no" ELSE "asked"
        /\ UNCHANGED <<pc, user, lock, flags, counters, session, heap, socket, world, process,
                       noticed>>
    BY DEF PressQuit
  <1>3. TypeOK'
    <2>1. /\ quit' \in {"no", "wait", "stop", "exited"}
          /\ cancel' \in {"no", "asked", "unwinding"}
      BY <1>2
    <2>2. QED
      BY <1>1, <1>2, <2>1 DEF TypeOK, flags, counters, session, heap, socket, world, process
  <1>4. Places' BY <1>2 DEF IInv, Places, flags, session
  <1>5. Endings' BY <1>1, <1>2 DEF Endings, flags
  <1>6. Processes' BY <1>1, <1>2 DEF IInv, Processes, flags, world, process
  <1>7. Sessions'
    BY <1>2, SessionsStay DEF IInv, counters, session, world, process
  <1>8. GateOpensAgain' BY <1>2 DEF IInv, GateOpensAgain, heap
  <1>9. QED BY <1>3, <1>4, <1>5, <1>6, <1>7, <1>8 DEF IInv

\* The exit: whatever still runs is with a thread that stops it, whoever has the lock.
LEMMA ExitInv == ASSUME IInv, StopAndExit \/ TimeOutAndExit PROVE IInv'
  <1>1. TypeOK /\ Processes /\ Endings /\ quit = "stop" /\ shutdown
    BY DEF IInv, Endings, StopAndExit, TimeOutAndExit
  <1>2. /\ quit' = "exited"
        /\ UNCHANGED <<pc, cancel, user, lock, flags, counters, session, heap, socket, up, born,
                       died, forgotten, process, noticed>>
    BY DEF StopAndExit, TimeOutAndExit, world
  <1>3. \/ lock = "none" /\ stopping' = stopping \cup ({proc} \ {0})
        \/ lock # "none" /\ stopping' = stopping
    BY DEF StopAndExit, TimeOutAndExit, world
  <1>4. stopping' \subseteq 1 .. born /\ stopping' \subseteq 1 .. MaxProcesses
        /\ stopping \subseteq stopping'
    <2>1. proc # 0 => proc \in 1 .. born /\ proc \in 1 .. MaxProcesses
      BY <1>1, ConfigsTyped DEF TypeOK, Processes
    <2>2. stopping \subseteq 1 .. born /\ stopping \subseteq 1 .. MaxProcesses
      BY <1>1 DEF TypeOK, Processes
    <2>3. QED BY <1>3, <2>1, <2>2
  <1>5. TypeOK'
    BY <1>1, <1>2, <1>4 DEF TypeOK, flags, counters, session, heap, socket, process
  <1>6. Places' BY <1>2 DEF IInv, Places, flags, session
  <1>7. Endings' BY <1>1, <1>2 DEF Endings, flags
  <1>8. Processes'
    <2>1. 0 \notin up BY <1>1 DEF TypeOK
    <2>2. ~config.attach => up \subseteq stopping' \cup forgotten
      BY <1>1, <1>3, <2>1 DEF Processes
    <2>3. QED BY <1>1, <1>2, <1>4, <2>2 DEF Processes, flags, process
  <1>9. Sessions'
    BY <1>2, SessionsStay DEF IInv, counters, session, process
  <1>10. GateOpensAgain' BY <1>2 DEF IInv, GateOpensAgain, heap
  <1>11. QED BY <1>5, <1>6, <1>7, <1>8, <1>9, <1>10 DEF IInv

\* The connection comes and goes, its task may wait for itself, and the user's stop
\* closes it.
LEMMA ConnectionInv ==
  ASSUME IInv, Disconnect \/ LoseConnection \/ Reconnect \/ Wedge
  PROVE IInv'
  <1>1. TypeOK BY DEF IInv
  <1>2. /\ conn' \in BOOLEAN /\ streams' \in BOOLEAN /\ wedged' \in BOOLEAN
        /\ user' = user \/ (user = "disconnect" /\ user' = "stopped")
        /\ UNCHANGED <<pc, cancel, quit, lock, flags, counters, session, heap, world, process,
                       noticed>>
    BY <1>1 DEF TypeOK, Disconnect, LoseConnection, Reconnect, Wedge, tasks
  <1>3. TypeOK'
    BY <1>1, <1>2 DEF TypeOK, flags, counters, session, heap, world, process
  <1>4. Places' BY <1>2 DEF IInv, Places, flags, session
  <1>5. Endings' BY <1>2 DEF IInv, Endings, flags
  <1>6. Processes' BY <1>2 DEF IInv, Processes, flags, world, process
  <1>7. Sessions'
    BY <1>2, SessionsStay DEF IInv, counters, session, world, process
  <1>8. GateOpensAgain' BY <1>2 DEF IInv, GateOpensAgain, heap
  <1>9. QED BY <1>3, <1>4, <1>5, <1>6, <1>7, <1>8 DEF IInv

\* A ledger closes, with a sample of the current process that shuts the gate; or a
\* sample is done and opens it.
LEMMA CallbacksInv == ASSUME IInv, Callbacks PROVE IInv'
  <1>1. TypeOK BY DEF IInv
  <1>2. UNCHANGED <<tasks, flags, inc, anchored, fails, session, socket, world, process, noticed>>
    BY DEF Callbacks, LedgerClosed, FinishSample, counters
  <1>3. /\ closes' \in 0 .. MaxCloses /\ gate' \in BOOLEAN
        /\ samples' \in [1 .. MaxProcesses -> Nat] /\ GateOpensAgain'
    <2>1. ASSUME NEW withTxns \in BOOLEAN, NEW due \in BOOLEAN, LedgerClosed(withTxns, due)
          PROVE /\ closes' \in 0 .. MaxCloses /\ gate' \in BOOLEAN
                /\ samples' \in [1 .. MaxProcesses -> Nat] /\ GateOpensAgain'
      <3>1. closes' \in 0 .. MaxCloses
        BY <1>1, <2>1, ConfigsTyped DEF TypeOK, LedgerClosed
      <3>2. CASE due /\ ~gate /\ proc # 0
        <4>1. proc \in 1 .. MaxProcesses BY <1>1, <3>2, ConfigsTyped DEF TypeOK
        <4>2. gate' = TRUE /\ samples' = [samples EXCEPT ![proc] = @ + 1]
          BY <2>1, <3>2 DEF LedgerClosed
        <4>3. samples' \in [1 .. MaxProcesses -> Nat] /\ samples'[proc] > 0
          BY <1>1, <4>1, <4>2 DEF TypeOK
        <4>4. QED BY <3>1, <4>1, <4>2, <4>3 DEF GateOpensAgain
      <3>3. CASE ~(due /\ ~gate /\ proc # 0)
        <4>1. UNCHANGED heap BY <2>1, <3>3 DEF LedgerClosed
        <4>2. QED BY <1>1, <3>1, <4>1 DEF IInv, TypeOK, GateOpensAgain, heap
      <3>4. QED BY <3>2, <3>3
    <2>2. ASSUME NEW p \in 1 .. MaxProcesses, FinishSample(p)
          PROVE /\ closes' \in 0 .. MaxCloses /\ gate' \in BOOLEAN
                /\ samples' \in [1 .. MaxProcesses -> Nat] /\ GateOpensAgain'
      <3>1. gate' = FALSE /\ closes' = closes /\ samples' = [samples EXCEPT ![p] = @ - 1]
            /\ samples[p] > 0
        BY <2>2 DEF FinishSample, counters
      <3>2. samples' \in [1 .. MaxProcesses -> Nat] BY <1>1, <2>2, <3>1 DEF TypeOK
      <3>3. QED BY <1>1, <3>1, <3>2 DEF TypeOK, GateOpensAgain
    <2>3. QED BY <2>1, <2>2 DEF Callbacks
  <1>4. TypeOK'
    BY <1>1, <1>2, <1>3 DEF TypeOK, tasks, flags, session, socket, world, process
  <1>5. Places' BY <1>2 DEF IInv, Places, tasks, flags, session
  <1>6. Endings' BY <1>2 DEF IInv, Endings, tasks, flags
  <1>7. Processes' BY <1>2 DEF IInv, Processes, tasks, flags, world, process
  <1>8. Sessions'
    BY <1>2, SessionsStay DEF IInv, tasks, session, world, process
  <1>9. QED BY <1>3, <1>4, <1>5, <1>6, <1>7, <1>8 DEF IInv

\* A thread has stopped a process, one dies, or the attached binary is started again.
LEMMA WorldInv ==
  ASSUME IInv,
         \/ \E p \in 1 .. MaxProcesses : ThreadDone(p) \/ Die(p)
         \/ Relaunch
  PROVE IInv'
  <1>1. TypeOK /\ Processes BY DEF IInv
  <1>2. UNCHANGED <<tasks, flags, counters, session, heap, socket, process, forgotten, noticed>>
    BY DEF ThreadDone, Die, Relaunch
  <1>3. /\ pc' = pc /\ cancel' = cancel /\ quit' = quit /\ lock' = lock /\ user' = user
        /\ config' = config /\ shutdown' = shutdown /\ proc' = proc /\ store' = store
        /\ forgotten' = forgotten
    BY <1>2 DEF tasks, flags, process, session
  <1> DEFINE Bounds == /\ born' \in Nat /\ born' <= MaxProcesses
                       /\ up' \subseteq 1 .. born' /\ stopping' \subseteq 1 .. born'
                       /\ died \subseteq died' /\ died' \subseteq 1 .. MaxProcesses
  <1>4. born \in Nat /\ died \subseteq 1 .. MaxProcesses /\ MaxProcesses \in Nat
    BY <1>1, ConfigsTyped DEF TypeOK
  <1>5. Bounds /\ Processes'
    <2>1. ASSUME NEW p \in 1 .. MaxProcesses, ThreadDone(p) PROVE Bounds /\ Processes'
      <3>1. /\ p \in stopping /\ stopping' = stopping \ {p}
            /\ up' = IF config.attach THEN up ELSE up \ {p}
            /\ UNCHANGED <<born, died>>
        BY <2>1 DEF ThreadDone
      <3>2. Processes' BY <1>1, <1>3, <3>1 DEF Processes
      <3>3. QED BY <1>1, <1>4, <3>1, <3>2 DEF Processes
    <2>2. ASSUME NEW p \in 1 .. MaxProcesses, Die(p) PROVE Bounds /\ Processes'
      <3>1. /\ p \in up /\ up' = up \ {p} /\ died' = died \cup {p}
            /\ UNCHANGED <<born, stopping>>
        BY <2>2 DEF Die
      <3>2. Processes' BY <1>1, <1>3, <3>1 DEF Processes
      <3>3. QED BY <1>1, <1>4, <3>1, <3>2 DEF Processes
    <2>3. ASSUME Relaunch PROVE Bounds /\ Processes'
      <3>1. /\ config.attach /\ up = {} /\ born < MaxProcesses /\ born' = born + 1
            /\ up' = {born'} /\ UNCHANGED <<stopping, died>>
        BY <2>3 DEF Relaunch
      <3>2. Bounds
        <4>1. born' \in 1 .. born' /\ born' <= MaxProcesses /\ 1 .. born \subseteq 1 .. born'
          BY <1>4, <3>1
        <4>2. QED BY <1>1, <1>4, <3>1, <4>1 DEF Processes
      <3>3. proc' <= born' BY <1>1, <1>3, <1>4, <3>1 DEF TypeOK, Processes
      <3>4. pc \in Inside \cup {"open"} /\ ~shutdown => proc \in up' \cup died'
        BY <1>1, <3>1 DEF Processes
      <3>5. QED BY <1>1, <1>3, <3>1, <3>2, <3>3, <3>4 DEF Processes
    <2>4. QED BY <2>1, <2>2, <2>3
  <1>6. TypeOK'
    <2>1. up' \subseteq 1 .. MaxProcesses /\ stopping' \subseteq 1 .. MaxProcesses
      <3>1. 1 .. born' \subseteq 1 .. MaxProcesses BY <1>4, <1>5
      <3>2. QED BY <1>5, <3>1
    <2>2. QED
      BY <1>1, <1>2, <1>5, <2>1
         DEF TypeOK, tasks, flags, counters, session, heap, socket, process
  <1>7. Places' BY <1>3 DEF IInv, Places
  <1>8. Endings' BY <1>2 DEF IInv, Endings, tasks, flags
  <1>9. Sessions'
    BY <1>2, <1>5, SessionsStay DEF IInv, tasks, counters, session, process
  <1>10. GateOpensAgain' BY <1>2 DEF IInv, GateOpensAgain, heap
  <1>11. QED BY <1>5, <1>6, <1>7, <1>8, <1>9, <1>10 DEF IInv

-------------------------------------------------------------------------------
(* The invariant *)

LEMMA InitInv == Init => IInv
  <1> SUFFICES ASSUME Init PROVE IInv
    OBVIOUS
  <1>1. /\ born \in {0, 1} /\ target \in {0, 1} /\ up \subseteq {1} /\ up \subseteq 1 .. born
        /\ config.attach => up \subseteq {born}
        /\ ~config.attach => up = {}
        /\ 1 \in 1 .. MaxProcesses /\ {0, 1} \subseteq 0 .. MaxProcesses
    BY ConfigsTyped DEF Init
  <1>2. TypeOK
    <2>1. /\ closes \in 0 .. MaxCloses /\ fails \in 0 .. MaxFailures - 1 /\ pc \in Phases
          /\ samples \in [1 .. MaxProcesses -> Nat] /\ sessions \in Seq(Entries)
          /\ proc \in 0 .. MaxProcesses
      BY ConfigsTyped DEF Init, Phases
    <2>2. up \subseteq 1 .. MaxProcesses /\ target \in 0 .. MaxProcesses /\ born \in Nat
      BY <1>1
    <2>3. QED BY <2>1, <2>2 DEF Init, TypeOK
  <1>3. Places BY DEF Init, Places, Inside
  <1>4. Endings BY DEF Init, Endings
  <1>5. Processes
    <2>1. born <= MaxProcesses /\ proc <= born BY <1>1, ConfigsTyped DEF Init
    <2>2. QED BY <1>1, <2>1 DEF Init, Processes, Inside
  <1>6. Sessions
    <2>1. DOMAIN sessions = {} BY DEF Init
    <2>2. QED
      BY <2>1 DEF Init, Sessions, SnapshotsAreOwn, CrashIsReal, InterruptedMeansQuit
  <1>7. GateOpensAgain BY DEF Init, GateOpensAgain
  <1>8. QED BY <1>2, <1>3, <1>4, <1>5, <1>6, <1>7 DEF IInv

\* A step that changes nothing keeps the invariant.
LEMMA StutterInv == ASSUME IInv, UNCHANGED vars PROVE IInv'
  <1>1. UNCHANGED <<tasks, flags, counters, session, heap, socket, world, process, noticed>>
    BY DEF vars
  <1>2. TypeOK'
    BY <1>1
       DEF IInv, TypeOK, tasks, flags, counters, session, heap, socket, world, process
  <1>3. Places' BY <1>1 DEF IInv, Places, tasks, flags, session
  <1>4. Endings' BY <1>1 DEF IInv, Endings, tasks, flags
  <1>5. Processes' BY <1>1 DEF IInv, Processes, tasks, flags, world, process
  <1>6. Sessions'
    BY <1>1, SessionsStay DEF IInv, tasks, counters, session, world, process
  <1>7. GateOpensAgain' BY <1>1 DEF IInv, GateOpensAgain, heap
  <1>8. QED BY <1>2, <1>3, <1>4, <1>5, <1>6, <1>7 DEF IInv

\* Every step keeps the invariant.
LEMMA NextInv == IInv /\ [Next]_vars => IInv'
  <1> SUFFICES ASSUME IInv, [Next]_vars PROVE IInv'
    OBVIOUS
  <1>1. CASE Worker BY <1>1, WorkerInv
  <1>2. CASE PressStop \/ StopWaitingForWorker BY <1>2, ShutDownInv
  <1>3. CASE UserStops BY <1>3, UserStopsInv
  <1>4. CASE UserStopped BY <1>4, UserStoppedInv
  <1>5. CASE PressQuit BY <1>5, PressQuitInv
  <1>6. CASE StopAndExit \/ TimeOutAndExit BY <1>6, ExitInv
  <1>7. CASE Callbacks BY <1>7, CallbacksInv
  <1>8. CASE Disconnect \/ LoseConnection \/ Reconnect \/ Wedge BY <1>8, ConnectionInv
  <1>9. CASE \/ \E p \in 1 .. MaxProcesses : ThreadDone(p) \/ Die(p)
             \/ Relaunch
    BY <1>9, WorldInv
  <1>10. CASE UNCHANGED vars BY <1>10, StutterInv
  <1>11. QED
    BY <1>1, <1>2, <1>3, <1>4, <1>5, <1>6, <1>7, <1>8, <1>9, <1>10
       DEF Next, StopByUser, QuitByUser, Environment

\* The invariant of the monitoring service holds in every reachable state, for any
\* number of incarnations, processes and samples.
THEOREM Invariance == Spec => []IInv
  BY InitInv, NextInv, PTL DEF Spec

\* Every variable keeps its type.
THEOREM TypeCorrect == Spec => []TypeOK
  <1>1. IInv => TypeOK BY DEF IInv
  <1>2. QED BY <1>1, Invariance, PTL

\* Whatever is stopped, cancelled or reattached meanwhile, the process whose memory
\* a snapshot reads is the one the open session is for (_create_memory_snapshot).
THEOREM SnapshotsOfOwnProcess == Spec => []SnapshotsAreOwn
  <1>1. IInv => SnapshotsAreOwn BY DEF IInv, Sessions
  <1>2. QED BY <1>1, Invariance, PTL

\* A process is finalized as crashed only if it ended on its own, never because the
\* user's stop took it away from the worker.
THEOREM CrashesAreReal == Spec => []CrashIsReal
  <1>1. IInv => CrashIsReal BY DEF IInv, Sessions
  <1>2. QED BY <1>1, Invariance, PTL

\* Every way out of an incarnation but a quit finalizes its result.
THEOREM OnlyQuitInterrupts == Spec => []InterruptedMeansQuit
  <1>1. IInv => InterruptedMeansQuit BY DEF IInv, Sessions
  <1>2. QED BY <1>1, Invariance, PTL

\* The application never exits with an open session, at whatever await the worker
\* is cancelled (action_quit).
THEOREM QuitLeavesNoSession == Spec => []QuitClosesSession
  <1>1. IInv => QuitClosesSession
    BY DEF IInv, TypeOK, Places, Endings, Inside, QuitClosesSession
  <1>2. QED BY <1>1, Invariance, PTL

\* No spawned process outlives its monitor without a thread that stops it, except the
\* child of a start() that raised (start_process drops the handle).
THEOREM NoProcessIsLeft == Spec => []NoOrphan
  <1>1. IInv => NoOrphan
    <2> SUFFICES ASSUME IInv, ~config.attach,
                        quit = "exited" \/ (pc = "done" /\ quit = "no")
                 PROVE up \subseteq stopping \cup forgotten
      BY DEF NoOrphan
    <2>1. Processes /\ 0 \notin up BY DEF IInv, TypeOK
    <2>2. CASE quit = "exited" BY <2>1, <2>2 DEF Processes
    <2>3. CASE pc = "done" /\ quit = "no"
      <3>1. cancel = "no" BY <2>3 DEF IInv, Endings
      <3>2. QED BY <2>1, <2>3, <3>1 DEF Processes
    <2>4. QED BY <2>2, <2>3
  <1>2. QED BY <1>1, Invariance, PTL

\* The heap gate is never shut without a sample at work whose end opens it.
THEOREM GateIsReleased == Spec => []GateOpensAgain
  <1>1. IInv => GateOpensAgain BY DEF IInv
  <1>2. QED BY <1>1, Invariance, PTL

-------------------------------------------------------------------------------
(* The sessions of all incarnations are a session history *)

\* What the history sees of the sessions.
Listed == [i \in DOMAIN sessions |-> sessions[i].status]

\* While a session is open it is the newest of the history.
LEMMA OpenIsNewest ==
  ASSUME IInv, store
  PROVE /\ Len(sessions) \in DOMAIN sessions /\ DOMAIN Listed = DOMAIN sessions
        /\ Len(Listed) = Len(sessions) /\ Listed # <<>> /\ Listed[Len(Listed)] = "open"
  <1>1. sessions \in Seq(Entries) /\ sessions # <<>> BY DEF IInv, TypeOK, Sessions
  <1>2. Len(sessions) \in DOMAIN sessions /\ DOMAIN sessions = 1 .. Len(sessions)
        /\ Len(sessions) \in Nat
    BY <1>1
  <1>3. sessions[Len(sessions)].status = "open" BY <1>2 DEF IInv, Sessions
  <1>4. Len(Listed) = Len(sessions) BY <1>2 DEF Listed
  <1>5. Listed # <<>>
    <2>1. DOMAIN Listed # {} BY <1>2 DEF Listed
    <2>2. QED BY <2>1
  <1>6. QED BY <1>2, <1>3, <1>4, <1>5 DEF Listed

\* A finally block ends the open session of the history, if there is one.
LEMMA ClosesLeaves ==
  ASSUME IInv, NEW status \in {"error", "completed", "running"}, Closes(status)
  PROVE History!Leave \/ UNCHANGED sessions
  <1>1. Leave(status) BY DEF Closes
  <1>2. CASE ~store BY <1>1, <1>2 DEF Leave, session
  <1>3. CASE store
    <2>1. sessions' = [sessions EXCEPT ![Len(sessions)].status = EndStatus(status)]
      BY <1>1, <1>3 DEF Leave
    <2>2. EndStatus(status) \in Statuses BY DEF EndStatus, Statuses
    <2>3. sessions \in Seq(Entries) BY DEF IInv, TypeOK
    <2>4. \A i \in DOMAIN sessions : sessions[i] \in Entries BY <2>3
    <2>5. /\ DOMAIN sessions' = DOMAIN sessions
          /\ \A i \in DOMAIN sessions :
               sessions'[i].status = IF i = Len(sessions) THEN EndStatus(status)
                                                          ELSE sessions[i].status
      BY <2>1, <2>4 DEF Entries
    <2>6. Listed' = [i \in DOMAIN sessions |->
                       IF i = Len(sessions) THEN EndStatus(status) ELSE sessions[i].status]
      BY <2>5 DEF Listed
    <2>7. Listed' = [Listed EXCEPT ![Len(Listed)] = EndStatus(status)]
      BY <1>3, <2>6, OpenIsNewest DEF Listed
    <2>8. QED
      BY <1>3, <2>2, <2>7, OpenIsNewest DEF History!Leave, History!IsOpen, Listed
  <1>4. QED BY <1>2, <1>3

\* A new session joins a history in which none is open.
LEMMA OpenSessionStarts == ASSUME IInv, OpenSession PROVE History!Start
  <1>1. ~store BY DEF IInv, Places, OpenSession, Here, Inside
  <1>2. \A i \in DOMAIN Listed : Listed[i] # "open"
    BY <1>1 DEF IInv, Sessions, Listed
  <1> DEFINE one == [inc |-> inc, proc |-> proc, status |-> "open"]
             All == Statuses \cup {"open"}
  <1>3. sessions' = Append(sessions, one) BY DEF OpenSession
  <1>4. sessions \in Seq(Entries) /\ one \in Entries
    BY DEF IInv, TypeOK, Entries
  <1>5. /\ Len(sessions) \in Nat /\ DOMAIN sessions = 1 .. Len(sessions)
        /\ DOMAIN sessions' = 1 .. Len(sessions) + 1
        /\ \A i \in DOMAIN sessions : sessions[i].status \in All
        /\ \A i \in DOMAIN sessions' :
             sessions'[i].status = IF i = Len(sessions) + 1 THEN "open" ELSE sessions[i].status
    <2>1. /\ Len(sessions) \in Nat /\ DOMAIN sessions = 1 .. Len(sessions)
          /\ DOMAIN sessions' = 1 .. Len(sessions) + 1
      <3> HIDE DEF one
      <3>1. QED BY <1>3, <1>4
    <2>2. \A i \in DOMAIN sessions : sessions[i] \in Entries BY <1>4
    <2>3. /\ sessions'[Len(sessions) + 1] = one
          /\ \A i \in DOMAIN sessions : sessions'[i] = sessions[i]
      <3> HIDE DEF one
      <3>1. QED BY <1>3, <1>4
    <2>4. QED BY <2>1, <2>2, <2>3 DEF Entries
  <1> HIDE DEF one, All
  <1>6. Listed = [i \in 1 .. Len(sessions) |-> sessions[i].status] BY <1>5 DEF Listed
  <1>7. Listed \in Seq(All) /\ Len(Listed) = Len(sessions) /\ "open" \in All
    BY <1>5, <1>6 DEF All
  <1>8. Append(Listed, "open")
          = [i \in 1 .. Len(sessions) + 1 |->
               IF i = Len(sessions) + 1 THEN "open" ELSE sessions[i].status]
    BY <1>5, <1>6, <1>7
  <1>9. Listed' = [i \in 1 .. Len(sessions) + 1 |->
                     IF i = Len(sessions) + 1 THEN "open" ELSE sessions[i].status]
    BY <1>5 DEF Listed
  <1>10. QED
    BY <1>2, <1>8, <1>9 DEF History!Start, History!NoneOpen, Listed

\* The worker opens a session, ends one or touches none.
LEMMA WorkerShows == ASSUME IInv, Worker PROVE History!HNext \/ UNCHANGED sessions
  <1>1. CASE \/ Connected \/ Subscribe \/ (\E synced \in BOOLEAN : Info(synced))
             \/ Poll \/ Ask \/ Asked
    BY <1>1, TryGoes DEF Goes
  <1>2. CASE AcquireFails \/ AcquireForgets \/ Raise \/ MonitorOver \/ MonitorCrash
    BY <1>2, TryCloses, ClosesLeaves DEF History!HNext
  <1>3. CASE PollCrash \/ PollOver \/ PollAnswered \/ PollFailed
    BY <1>3, PollGoesOrCloses, ClosesLeaves DEF Goes, History!HNext
  <1>4. CASE Interrupt BY <1>4, InterruptCloses, ClosesLeaves DEF History!HNext
  <1>5. CASE OpenSession BY <1>5, OpenSessionStarts DEF History!HNext
  <1>6. CASE \/ Begin \/ Finish \/ Acquire \/ StopCurrent \/ Stopped \/ Unsubscribe
             \/ Continue \/ DoNotReattach \/ FindProcess \/ StopWaiting \/ CutShort
    BY <1>6
       DEF Begin, Finish, Acquire, StopCurrent, Stopped, Unsubscribe, Continue, DoNotReattach,
           FindProcess, StopWaiting, CutShort, Complete, session
  <1>7. QED BY <1>1, <1>2, <1>3, <1>4, <1>5, <1>6 DEF Worker

\* Nobody else opens or ends a session.
LEMMA OthersAreQuiet ==
  ASSUME \/ PressStop \/ StopByUser \/ PressQuit \/ QuitByUser \/ Callbacks
         \/ (\E p \in 1 .. MaxProcesses : ThreadDone(p))
         \/ Environment \/ UNCHANGED vars
  PROVE UNCHANGED sessions
  <1>1. CASE PressStop \/ StopByUser \/ PressQuit \/ QuitByUser
    BY <1>1
       DEF PressStop, StopByUser, UserStops, UserStopped, Disconnect, PressQuit, QuitByUser,
           StopWaitingForWorker, StopAndExit, TimeOutAndExit, session
  <1>2. CASE Callbacks BY <1>2 DEF Callbacks, LedgerClosed, FinishSample, session
  <1>3. CASE (\E p \in 1 .. MaxProcesses : ThreadDone(p)) \/ Environment
    BY <1>3
       DEF ThreadDone, Environment, Die, Relaunch, LoseConnection, Reconnect, Wedge, session
  <1>4. CASE UNCHANGED vars BY <1>4 DEF vars, session
  <1>5. QED BY <1>1, <1>2, <1>3, <1>4

\* The sessions of all incarnations, with stops, quits and crashes at every await,
\* are a session history: opened one after the other, each ended once and for good.
THEOREM Refinement == Spec => ImplementsHistory
  <1>1. Init => History!HInit
    <2> SUFFICES ASSUME Init PROVE History!HInit
      OBVIOUS
    <2>1. DOMAIN sessions = {} BY DEF Init
    <2>2. Listed = <<>> BY <2>1 DEF Listed
    <2>3. QED BY <2>2 DEF History!HInit, Listed
  <1>2. IInv /\ [Next]_vars => [History!HNext]_(History!hvars)
    <2> SUFFICES ASSUME IInv, [Next]_vars PROVE History!HNext \/ UNCHANGED sessions
      BY DEF History!hvars
    <2>1. CASE Worker BY <2>1, WorkerShows
    <2>2. QED BY <2>1, OthersAreQuiet DEF Next
  <1>3. QED BY <1>1, <1>2, Invariance, PTL DEF Spec, ImplementsHistory, History!HSpec
===============================================================================

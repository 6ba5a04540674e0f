--------------------------- MODULE WebSocketManager ---------------------------
(***************************************************************************)
(* managers/websocket_manager.py: one client shared by all tasks of the    *)
(* asyncio loop, opened again when it is found closed, with the streams to *)
(* subscribe again after that. An atomic step reaches from one await to    *)
(* the next.                                                               *)
(*                                                                         *)
(* The tasks call as the rest of the program does: the monitoring worker   *)
(* connects, subscribes and unsubscribes, one at a time; while it waits    *)
(* for them the gathered requests of a poll run; stop_monitoring           *)
(* disconnects; a message loop that fails leaves a task that reconnects.   *)
(*                                                                         *)
(* Abstracted: what is asked and answered, the retry delay, and the set of *)
(* streams to one stream, as the program subscribes only one. The client   *)
(* library is external: opening, a request and a close take any time; the  *)
(* connection can be lost at any moment, also before open() returns; the   *)
(* loop over the messages of a lost connection may raise, end or hang.     *)
(***************************************************************************)
EXTENDS Naturals, Sequences, FiniteSets

CONSTANTS
  Worker, User,     \* the monitoring worker, and the caller of stop_monitoring
  Pollers,          \* the requests of one poll
  Reconnectors,     \* the tasks failed message loops leave; their number is a
                    \* bound on those at work at the same time
  Retries,          \* values of websocket_max_retries, 0 for endless
  MaxConnections    \* bound on the connections opened over time

Tasks == {Worker, User} \cup Pollers \cup Reconnectors

ASSUME ConstantsTyped ==
  /\ Worker # User /\ {Worker, User} \cap (Pollers \cup Reconnectors) = {}
  /\ Pollers \cap Reconnectors = {}
  /\ Retries \subseteq Nat /\ MaxConnections \in Nat

VARIABLES
  retries,    \* websocket_max_retries
  made,       \* the connections opened so far
  client,     \* client: None and one that never opened are 0
  open,       \* the connections that are open
  reading,    \* the connections with a message loop
  streams,    \* _subscribed_streams is not empty
  queue,      \* _lock: its holder, then those that wait, first come first served
  attempt,    \* the attempts of the connect at work
  pc,         \* the await each task is at
  op,         \* the method it called
  on,         \* the client it uses
  confirmed,  \* history: the connections on which a subscription was confirmed
  wanted      \* history: a subscription succeeded and was not given up since

connection == <<made, client, open, reading>>
subscription == <<streams, confirmed, wanted>>
lock == <<queue, attempt>>
task == <<pc, op, on>>
vars == <<retries, connection, subscription, lock, task>>

IsConnected == client \in open

Holds(t) == queue # <<>> /\ Head(queue) = t

At(t, p) == pc[t] = p

Go(t, p) == pc' = [pc EXCEPT ![t] = p]

\* The call is over.
Done(t) ==
  /\ Go(t, "idle")
  /\ op' = [op EXCEPT ![t] = "none"]
  /\ on' = [on EXCEPT ![t] = 0]

\* The lock goes to the next that waits.
Release == queue' = Tail(queue) /\ attempt' = 0

-------------------------------------------------------------------------------
(* The calls, up to their first await *)

Call(t, method) ==
  /\ At(t, "idle")
  /\ op' = [op EXCEPT ![t] = method]

Queue(t) ==
  /\ Go(t, "lock")
  /\ queue' = Append(queue, t)
  /\ UNCHANGED <<attempt, on>>

\* _ensure_connected: whoever finds the client open does not wait for the lock.
EnsureConnected(t) ==
  IF IsConnected
  THEN Go(t, "request") /\ on' = [on EXCEPT ![t] = client] /\ UNCHANGED lock
  ELSE Queue(t)

Connect(t) ==
  /\ Call(t, "connect") /\ Queue(t)
  /\ UNCHANGED <<retries, connection, subscription>>

Disconnect(t) ==
  /\ Call(t, "disconnect") /\ Queue(t)
  /\ UNCHANGED <<retries, connection, subscription>>

Subscribe(t) ==
  /\ Call(t, "subscribe") /\ EnsureConnected(t)
  /\ UNCHANGED <<retries, connection, subscription>>

\* get_server_info, get_counts, get_ledgers_info, get_catalogue_status
Request(t) ==
  /\ Call(t, "get") /\ EnsureConnected(t)
  /\ UNCHANGED <<retries, connection, subscription>>

\* Without a connection the stream is only forgotten.
Unsubscribe(t) ==
  /\ wanted' = FALSE
  /\ IF IsConnected
     THEN /\ Call(t, "unsubscribe") /\ Go(t, "request")
          /\ on' = [on EXCEPT ![t] = client]
          /\ UNCHANGED streams
     ELSE At(t, "idle") /\ streams' = FALSE /\ UNCHANGED task
  /\ UNCHANGED <<retries, connection, confirmed, lock>>

Calls ==
  \/ /\ \A p \in Pollers : At(p, "idle")
     /\ Connect(Worker) \/ Subscribe(Worker) \/ Unsubscribe(Worker)
  \/ At(Worker, "idle") /\ \E p \in Pollers : Request(p)
  \/ Disconnect(User)

-------------------------------------------------------------------------------
(* connect, with the lock *)

\* connect returns client k, and the call goes on with it.
Return(t, k) ==
  /\ Release
  /\ IF op[t] = "connect"
     THEN Done(t)
     ELSE Go(t, "request") /\ on' = [on EXCEPT ![t] = k] /\ UNCHANGED op

\* The turn of the retry loop that makes a client and opens it.
Attempt(t) ==
  /\ attempt' = IF retries = 0 THEN 0 ELSE attempt + 1
  /\ client' = 0
  /\ Go(t, "opening")
  /\ UNCHANGED <<retries, made, open, reading, subscription, queue, op, on>>

\* Wrong: the client is not looked at again once the lock is held.
EnterUnchecked(t) == At(t, "lock") /\ Holds(t) /\ op[t] # "disconnect" /\ Attempt(t)

\* Another task may have connected while this one waited.
Enter(t) ==
  /\ At(t, "lock") /\ Holds(t) /\ op[t] # "disconnect"
  /\ IF IsConnected
     THEN Return(t, client) /\ UNCHANGED <<retries, connection, subscription>>
     ELSE Attempt(t)

\* Wrong: only the first connection gets a message loop.
StartFirstLoop(k) == reading' = IF reading = {} THEN {k} ELSE reading

\* connect ends with a message loop for its client.
StartLoop(k) == reading' = reading \cup {k}

\* open() returns, with a connection that may be closed again by then.
Open(alive) ==
  /\ made < MaxConnections
  /\ made' = made + 1 /\ client' = made'
  /\ open' = IF alive THEN open \cup {made'} ELSE open

\* Without streams to subscribe again connect is done.
Opened(t) ==
  /\ At(t, "opening") /\ ~streams
  /\ \E alive \in BOOLEAN : Open(alive)
  /\ StartLoop(client') /\ Return(t, client')
  /\ UNCHANGED <<retries, subscription>>

\* Wrong: the streams are kept while they are subscribed again.
OpenedKeepsStreams(t) ==
  /\ At(t, "opening") /\ streams
  /\ Open(TRUE)
  /\ Go(t, "resubscribe")
  /\ UNCHANGED <<retries, reading, subscription, lock, op, on>>

\* _resubscribe forgets the streams before it subscribes them again.
OpenedWithStreams(t) ==
  /\ At(t, "opening") /\ streams
  /\ Open(TRUE)
  /\ streams' = FALSE
  /\ Go(t, "resubscribe")
  /\ UNCHANGED <<retries, reading, confirmed, wanted, lock, op, on>>

\* If the connection is closed again, _ensure_connected calls connect, which
\* waits for the lock that its own task holds.
OpenedAndLost(t) ==
  /\ At(t, "opening") /\ streams
  /\ Open(FALSE)
  /\ streams' = FALSE
  /\ Go(t, "reenter") /\ queue' = Append(queue, t)
  /\ UNCHANGED <<retries, reading, confirmed, wanted, attempt, op, on>>

\* A subscription that fails is not tried again: its result is not read.
Resubscribed(t) ==
  /\ At(t, "resubscribe")
  /\ \/ UNCHANGED <<streams, confirmed>>
     \/ /\ IsConnected
        /\ streams' = TRUE /\ confirmed' = confirmed \cup {client}
  /\ StartLoop(client) /\ Return(t, client)
  /\ UNCHANGED <<retries, made, client, open, wanted>>

\* Wrong: one attempt too many.
MoreAttemptsLate == retries = 0 \/ attempt <= retries

MoreAttempts == retries = 0 \/ attempt < retries

OpenFailed(t) ==
  /\ At(t, "opening") /\ MoreAttempts
  /\ Go(t, "sleep")
  /\ UNCHANGED <<retries, connection, subscription, lock, op, on>>

Retry(t) == At(t, "sleep") /\ Attempt(t)

\* Wrong: the lock is kept.
GiveUpLocked(t) ==
  /\ At(t, "opening") /\ ~MoreAttempts
  /\ Done(t)
  /\ UNCHANGED <<retries, connection, subscription, lock>>

\* ConnectionError, to whoever called.
GiveUp(t) ==
  /\ At(t, "opening") /\ ~MoreAttempts
  /\ Done(t) /\ Release
  /\ UNCHANGED <<retries, connection, subscription>>

-------------------------------------------------------------------------------
(* disconnect, with the lock *)

\* Nothing is open, or close() begins.
Close(t) ==
  /\ At(t, "lock") /\ Holds(t) /\ op[t] = "disconnect"
  /\ IF IsConnected
     THEN Go(t, "closing") /\ open' = open \ {client} /\ UNCHANGED <<op, on, lock>>
     ELSE Done(t) /\ Release /\ UNCHANGED open
  /\ UNCHANGED <<retries, made, client, reading, subscription>>

\* The streams are kept for the next connection.
Closed(t) ==
  /\ At(t, "closing")
  /\ client' = 0
  /\ Done(t) /\ Release
  /\ UNCHANGED <<retries, made, open, reading, subscription>>

-------------------------------------------------------------------------------
(* Requests, without the lock *)

Succeeds(t) ==
  /\ At(t, "request") /\ on[t] \in open
  /\ CASE op[t] = "subscribe" ->
            streams' = TRUE /\ wanted' = TRUE /\ confirmed' = confirmed \cup {on[t]}
       [] op[t] = "unsubscribe" -> streams' = FALSE /\ UNCHANGED <<confirmed, wanted>>
       [] OTHER -> UNCHANGED subscription
  /\ Done(t)
  /\ UNCHANGED <<retries, connection, lock>>

\* An error, a timeout or a lost connection: False or None.
Fails(t) ==
  /\ At(t, "request")
  /\ Done(t)
  /\ UNCHANGED <<retries, connection, subscription, lock>>

Step(t) ==
  \/ Enter(t) \/ Opened(t) \/ OpenedWithStreams(t) \/ OpenedAndLost(t) \/ Resubscribed(t)
  \/ OpenFailed(t) \/ Retry(t) \/ GiveUp(t)
  \/ Close(t) \/ Closed(t)
  \/ Succeeds(t) \/ Fails(t)

-------------------------------------------------------------------------------
(* Message loops and the node *)

\* The loop raises: it leaves a task that connects.
LoopRaises(k) ==
  /\ k \in reading \ open
  /\ reading' = reading \ {k}
  /\ \E r \in Reconnectors : Call(r, "connect") /\ Queue(r)
  /\ UNCHANGED <<retries, made, client, open, subscription>>

LoopEnds(k) ==
  /\ k \in reading \ open
  /\ reading' = reading \ {k}
  /\ UNCHANGED <<retries, made, client, open, subscription, lock, task>>

Lose(k) ==
  /\ k \in open
  /\ open' = open \ {k}
  /\ UNCHANGED <<retries, made, client, reading, subscription, lock, task>>

-------------------------------------------------------------------------------

Init ==
  /\ retries \in Retries
  /\ made = 0 /\ client = 0 /\ open = {} /\ reading = {}
  /\ streams = FALSE /\ confirmed = {} /\ wanted = FALSE
  /\ queue = <<>> /\ attempt = 0
  /\ pc = [t \in Tasks |-> "idle"]
  /\ op = [t \in Tasks |-> "none"]
  /\ on = [t \in Tasks |-> 0]

Next ==
  \/ Calls
  \/ \E t \in Tasks : Step(t)
  \/ \E k \in 1 .. MaxConnections : LoopRaises(k) \/ LoopEnds(k) \/ Lose(k)

Spec == Init /\ [][Next]_vars

\* The loop serves every task that can go on, and open, request and close
\* have timeouts in the client library. Nothing is assumed of the node.
FairSpec == Spec /\ \A t \in Tasks : WF_vars(Step(t))

-------------------------------------------------------------------------------
(* Properties *)

Awaits == {"idle", "lock", "opening", "resubscribe", "reenter", "sleep", "request",
           "closing"}
Methods == {"none", "connect", "disconnect", "subscribe", "unsubscribe", "get"}

\* Every variable keeps its type.
TypeOK ==
  /\ retries \in Retries
  /\ made \in 0 .. MaxConnections /\ client \in 0 .. made
  /\ open \subseteq 1 .. made /\ reading \subseteq 1 .. made
  /\ streams \in BOOLEAN /\ confirmed \subseteq 1 .. made /\ wanted \in BOOLEAN
  /\ queue \in Seq(Tasks) /\ attempt \in Nat
  /\ attempt <= retries
  /\ pc \in [Tasks -> Awaits] /\ op \in [Tasks -> Methods]
  /\ on \in [Tasks -> 0 .. made]

\* No connection is leaked: whatever tasks connect, reconnect and disconnect at
\* the same time, the only connection that can be open is the one the manager
\* knows, which disconnect closes (the second look at the client in connect).
NothingLeaks == open \subseteq {client}

\* A connection that is free to be used is read: there is a message loop for it
\* although whoever connected may since have gone on, and none of the tasks
\* that find it open makes one.
OpenMeansRead == IsConnected /\ queue = <<>> => client \in reading

\* The manager takes a stream for subscribed only when a subscription was
\* confirmed on the very connection that is open: one confirmed on an earlier
\* connection does not count (_resubscribe clears before it subscribes).
StreamsAreConfirmed == streams /\ IsConnected => client \in confirmed

Reentered == \E t \in Tasks : At(t, "reenter")

\* Whoever gives up, closes or is answered hands the lock on: in whatever order the
\* tasks connect, fail and disconnect, a call returns unless retries are endless or a
\* task waits for the lock it holds itself (OpenedAndLost).
LockIsHandedOn ==
  \A t \in Tasks : ~At(t, "idle") ~> At(t, "idle") \/ Reentered \/ retries = 0

\* What the help of --ws-max-retries promises, "Max websocket connection attempts
\* before giving up": a connect with bounded retries ends, with a client or without.
\* False: the task that subscribes again after a reconnect can wait for its own lock.
RetriesAreBounded ==
  \A t \in Tasks : retries # 0 /\ op[t] = "connect" ~> op[t] # "connect"

\* What the comment in connect promises, "Re-subscribe to any streams we were
\* subscribed to". False: when the subscription of a reconnect fails the stream
\* is forgotten, and the open connection never carries it again.
StreamsSurvive == wanted /\ IsConnected /\ queue = <<>> => streams
===============================================================================

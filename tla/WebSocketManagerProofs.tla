------------------------ MODULE WebSocketManagerProofs ------------------------
(***************************************************************************)
(* The safety of WebSocketManager for any number of tasks and connections. *)
(* That no connection leaks needs more than the properties say: that the   *)
(* tasks between two awaits of connect and disconnect are exactly the head *)
(* of the queue (Turns), and that a connection is open only outside of the *)
(* retry loop (OneClient).                                                 *)
(***************************************************************************)
EXTENDS WebSocketManager, TLAPS

\* The awaits a task reaches only with the lock.
Inside == {"opening", "resubscribe", "reenter", "sleep", "closing"}

\* Whoever is inside has the lock, whoever is queued waits or is inside, and
\* nobody is queued twice but the task that waits for itself.
Turns ==
  /\ \A t \in Tasks : pc[t] \in Inside => Holds(t)
  /\ \A i \in DOMAIN queue : pc[queue[i]] \in Inside \cup {"lock"}
  /\ \A i, j \in DOMAIN queue :
       i < j /\ queue[i] = queue[j] => pc[queue[i]] = "reenter"

\* Attempts are counted inside only, and a pause is followed by another one.
Attempts ==
  /\ attempt # 0 => \E t \in Tasks : pc[t] \in Inside
  /\ \A t \in Tasks : At(t, "sleep") => MoreAttempts

\* One connection at most; none while one is made or closed.
OneClient ==
  /\ open \subseteq {client}
  /\ \A t \in Tasks : pc[t] \in {"opening", "sleep", "closing"} => ~IsConnected
  /\ \A t \in Tasks : At(t, "resubscribe") => client # 0
  /\ IsConnected => client \in reading \/ \E t \in Tasks : At(t, "resubscribe")

IInv == TypeOK /\ Turns /\ Attempts /\ OneClient /\ StreamsAreConfirmed

-------------------------------------------------------------------------------
(* The lock *)

\* Only one task is inside.
LEMMA Alone ==
  ASSUME TypeOK, Turns, NEW t \in Tasks, NEW u \in Tasks, Holds(t), pc[u] \in Inside
  PROVE u = t
  BY DEF Turns, Holds

\* Whoever has the lock waits for nothing else.
LEMMA HolderIsQueued ==
  ASSUME TypeOK, Turns, NEW t \in Tasks, Holds(t)
  PROVE queue # <<>> /\ 1 \in DOMAIN queue /\ queue[1] = t
        /\ pc[t] \in Inside \cup {"lock"}
  <1>1. queue \in Seq(Tasks) /\ queue # <<>> /\ Head(queue) = t
    BY DEF Holds, TypeOK
  <1>2. 1 \in DOMAIN queue /\ queue[1] = t
    BY <1>1
  <1>3. QED
    BY <1>1, <1>2 DEF Turns

\* A task outside joins the queue.
LEMMA Joining ==
  ASSUME TypeOK, Turns, NEW t \in Tasks, At(t, "idle"), Go(t, "lock"),
         queue' = Append(queue, t)
  PROVE Turns'
  <1>1. queue \in Seq(Tasks) /\ pc \in [Tasks -> Awaits] /\ pc[t] = "idle"
    BY DEF TypeOK, At
  <1>2. pc' = [pc EXCEPT ![t] = "lock"] BY DEF Go
  <1>3. \A i \in DOMAIN queue : queue[i] # t /\ queue[i] \in Tasks
    BY <1>1 DEF Turns, Inside
  <1>4. /\ DOMAIN queue' = 1 .. Len(queue) + 1
        /\ DOMAIN queue = 1 .. Len(queue)
        /\ \A i \in DOMAIN queue : queue'[i] = queue[i]
        /\ queue'[Len(queue) + 1] = t
        /\ Len(queue) \in Nat
    BY <1>1
  <1>5. \A u \in Tasks : pc'[u] \in Inside => Holds(u)'
    <2> SUFFICES ASSUME NEW u \in Tasks, pc'[u] \in Inside PROVE Holds(u)'
      OBVIOUS
    <2>1. pc[u] \in Inside BY <1>1, <1>2 DEF Inside
    <2>2. Holds(u) BY <2>1 DEF Turns
    <2>3. QED BY <2>2, <1>1 DEF Holds
  <1>6. \A i \in DOMAIN queue' : pc'[queue'[i]] \in Inside \cup {"lock"}
    BY <1>1, <1>2, <1>3, <1>4 DEF Turns
  <1>7. \A i, j \in DOMAIN queue' :
          i < j /\ queue'[i] = queue'[j] => pc'[queue'[i]] = "reenter"
    BY <1>1, <1>2, <1>3, <1>4 DEF Turns
  <1>8. QED BY <1>5, <1>6, <1>7 DEF Turns

\* The holder goes on inside.
LEMMA Staying ==
  ASSUME TypeOK, Turns, NEW t \in Tasks, Holds(t), ~At(t, "reenter"),
         NEW p \in Inside, Go(t, p), queue' = queue
  PROVE Turns'
  <1>1. pc \in [Tasks -> Awaits] /\ queue \in Seq(Tasks) BY DEF TypeOK
  <1>2. pc' = [pc EXCEPT ![t] = p] BY DEF Go
  <1>3. \A i \in DOMAIN queue : queue[i] \in Tasks BY <1>1
  <1>4. Holds(t)' BY DEF Holds
  <1>5. \A u \in Tasks : pc'[u] \in Inside => Holds(u)'
    BY <1>1, <1>2, <1>4 DEF Turns, Holds
  <1>6. \A i \in DOMAIN queue : pc'[queue[i]] \in Inside \cup {"lock"}
    BY <1>1, <1>2, <1>3 DEF Turns
  <1>7. \A i, j \in DOMAIN queue :
          i < j /\ queue[i] = queue[j] => pc'[queue[i]] = "reenter"
    <2> SUFFICES ASSUME NEW i \in DOMAIN queue, NEW j \in DOMAIN queue,
                        i < j, queue[i] = queue[j]
                 PROVE pc'[queue[i]] = "reenter"
      OBVIOUS
    <2>1. pc[queue[i]] = "reenter" BY DEF Turns
    <2>2. queue[i] # t BY <2>1 DEF At
    <2>3. QED BY <1>1, <1>2, <1>3, <2>1, <2>2
  <1>8. QED BY <1>5, <1>6, <1>7 DEF Turns

\* The holder leaves, and nobody is inside.
LEMMA Leaving ==
  ASSUME TypeOK, Turns, NEW t \in Tasks, Holds(t), ~At(t, "reenter"),
         NEW p \in {"idle", "request"}, Go(t, p), queue' = Tail(queue)
  PROVE Turns' /\ \A u \in Tasks : pc'[u] \notin Inside
  <1>1. pc \in [Tasks -> Awaits] /\ queue \in Seq(Tasks) BY DEF TypeOK
  <1>2. pc' = [pc EXCEPT ![t] = p] BY DEF Go
  <1>3. queue # <<>> /\ 1 \in DOMAIN queue /\ queue[1] = t
    BY HolderIsQueued
  <1>4. /\ DOMAIN queue = 1 .. Len(queue) /\ Len(queue) \in Nat
        /\ DOMAIN queue' = 1 .. Len(queue) - 1
        /\ \A i \in DOMAIN queue' : queue'[i] = queue[i + 1] /\ queue[i + 1] \in Tasks
    BY <1>1, <1>3
  <1>5. \A i \in DOMAIN queue' : queue'[i] # t /\ i + 1 \in DOMAIN queue /\ 1 < i + 1
    <2> SUFFICES ASSUME NEW i \in DOMAIN queue'
                 PROVE queue'[i] # t /\ i + 1 \in DOMAIN queue /\ 1 < i + 1
      OBVIOUS
    <2>1. i + 1 \in DOMAIN queue /\ 1 < i + 1 BY <1>4
    <2>2. queue[i + 1] # t BY <2>1, <1>3 DEF Turns, At
    <2>3. QED BY <2>1, <2>2, <1>4
  <1>6. \A u \in Tasks : pc'[u] \notin Inside
    <2> SUFFICES ASSUME NEW u \in Tasks, pc'[u] \in Inside PROVE FALSE
      OBVIOUS
    <2>1. u # t BY <1>1, <1>2 DEF Inside
    <2>2. pc[u] \in Inside BY <2>1, <1>1, <1>2
    <2>3. QED BY <2>1, <2>2, Alone
  <1>7. \A i \in DOMAIN queue' : pc'[queue'[i]] \in Inside \cup {"lock"}
    BY <1>1, <1>2, <1>4, <1>5 DEF Turns
  <1>8. \A i, j \in DOMAIN queue' :
          i < j /\ queue'[i] = queue'[j] => pc'[queue'[i]] = "reenter"
    <2> SUFFICES ASSUME NEW i \in DOMAIN queue', NEW j \in DOMAIN queue',
                        i < j, queue'[i] = queue'[j]
                 PROVE pc'[queue'[i]] = "reenter"
      OBVIOUS
    <2>1. i + 1 \in DOMAIN queue /\ j + 1 \in DOMAIN queue /\ i + 1 < j + 1
      BY <1>4
    <2>2. pc[queue[i + 1]] = "reenter" BY <2>1, <1>4 DEF Turns
    <2>3. QED BY <2>2, <1>1, <1>2, <1>4, <1>5
  <1>9. QED BY <1>6, <1>7, <1>8 DEF Turns

\* The holder queues up behind itself.
LEMMA Reentering ==
  ASSUME TypeOK, Turns, NEW t \in Tasks, At(t, "opening"), Go(t, "reenter"),
         queue' = Append(queue, t)
  PROVE Turns'
  <1>1. pc \in [Tasks -> Awaits] /\ queue \in Seq(Tasks) /\ pc[t] = "opening"
    BY DEF TypeOK, At
  <1>2. pc' = [pc EXCEPT ![t] = "reenter"] BY DEF Go
  <1>3. Holds(t) BY <1>1 DEF Turns, Inside
  <1>4. /\ DOMAIN queue' = 1 .. Len(queue) + 1
        /\ DOMAIN queue = 1 .. Len(queue)
        /\ \A i \in DOMAIN queue : queue'[i] = queue[i] /\ queue[i] \in Tasks
        /\ queue'[Len(queue) + 1] = t
        /\ Len(queue) \in Nat
    BY <1>1
  <1>5. \A u \in Tasks : Holds(u) => Holds(u)' BY <1>1 DEF Holds
  <1>6. \A u \in Tasks : pc'[u] \in Inside => Holds(u)'
    BY <1>1, <1>2, <1>3, <1>5 DEF Turns
  <1>7. \A i \in DOMAIN queue' : pc'[queue'[i]] \in Inside \cup {"lock"}
    BY <1>1, <1>2, <1>4 DEF Turns, Inside
  <1>8. \A i, j \in DOMAIN queue' :
          i < j /\ queue'[i] = queue'[j] => pc'[queue'[i]] = "reenter"
    BY <1>1, <1>2, <1>4 DEF Turns
  <1>9. QED BY <1>6, <1>7, <1>8 DEF Turns

\* A task outside stays outside.
LEMMA Outside ==
  ASSUME TypeOK, Turns, NEW t \in Tasks, pc[t] \in {"idle", "request"},
         NEW p \in {"idle", "request"}, Go(t, p), queue' = queue
  PROVE Turns'
  <1>1. pc \in [Tasks -> Awaits] /\ queue \in Seq(Tasks) BY DEF TypeOK
  <1>2. pc' = [pc EXCEPT ![t] = p] BY DEF Go
  <1>3. \A i \in DOMAIN queue : queue[i] # t /\ queue[i] \in Tasks
    BY <1>1 DEF Turns, Inside
  <1>4. \A u \in Tasks : pc'[u] \in Inside => Holds(u)'
    BY <1>1, <1>2 DEF Turns, Inside, Holds
  <1>5. QED BY <1>1, <1>2, <1>3, <1>4 DEF Turns

-------------------------------------------------------------------------------
(* The other parts *)

\* What a change of one task's place leaves as it was.
LEMMA Moved ==
  ASSUME TypeOK, NEW t \in Tasks, NEW p \in Awaits, Go(t, p)
  PROVE /\ pc' \in [Tasks -> Awaits] /\ pc'[t] = p
        /\ \A u \in Tasks : u # t => pc'[u] = pc[u]
  BY DEF TypeOK, Go

\* A task outside can move without disturbing whoever is inside.
LEMMA Elsewhere ==
  ASSUME IInv, NEW t \in Tasks, pc[t] \notin Inside,
         NEW p \in Awaits \ Inside, Go(t, p),
         UNCHANGED <<retries, attempt, made, client, open, reading>>
  PROVE Attempts' /\ OneClient'
  <1>1. TypeOK /\ Attempts /\ OneClient BY DEF IInv
  <1>2. /\ pc'[t] = p
        /\ \A u \in Tasks : u # t => pc'[u] = pc[u]
    BY <1>1, Moved
  <1>3. \A u \in Tasks : pc[u] \in Inside \/ pc'[u] \in Inside => pc'[u] = pc[u]
    BY <1>2
  <1>4. Attempts'
    BY <1>1, <1>3 DEF Attempts, At, MoreAttempts, Inside
  <1>5. OneClient'
    BY <1>1, <1>3 DEF OneClient, At, IsConnected, Inside
  <1>6. QED BY <1>4, <1>5

\* A call that has to wait for the lock.
LEMMA QueueingInv ==
  ASSUME IInv, NEW t \in Tasks, NEW method \in Methods, Call(t, method), Queue(t),
         UNCHANGED <<retries, connection, subscription>>
  PROVE IInv'
  <1>1. TypeOK /\ Turns /\ StreamsAreConfirmed BY DEF IInv
  <1>2. Go(t, "lock") /\ queue' = Append(queue, t) /\ UNCHANGED <<attempt, on>>
    BY DEF Queue
  <1>3. At(t, "idle") /\ op' = [op EXCEPT ![t] = method] BY DEF Call
  <1>4. pc' \in [Tasks -> Awaits] BY <1>1, <1>2, Moved DEF Awaits
  <1>5. TypeOK'
    <2>1. queue' \in Seq(Tasks) BY <1>1, <1>2 DEF TypeOK
    <2>2. op' \in [Tasks -> Methods] BY <1>1, <1>3 DEF TypeOK
    <2>3. QED
      BY <1>1, <1>2, <1>4, <2>1, <2>2 DEF TypeOK, connection, subscription
  <1>6. Turns' BY <1>1, <1>2, <1>3, Joining
  <1>7. Attempts' /\ OneClient'
    BY <1>2, <1>3, Elsewhere DEF At, Inside, Awaits, connection
  <1>8. StreamsAreConfirmed'
    BY <1>1 DEF StreamsAreConfirmed, IsConnected, connection, subscription
  <1>9. QED BY <1>5, <1>6, <1>7, <1>8 DEF IInv

\* A call that finds the client open.
LEMMA RequestingInv ==
  ASSUME IInv, NEW t \in Tasks, NEW method \in Methods, Call(t, method),
         Go(t, "request"), on' = [on EXCEPT ![t] = client],
         UNCHANGED <<retries, connection, streams, confirmed, lock>>, wanted' \in BOOLEAN
  PROVE IInv'
  <1>1. TypeOK /\ Turns /\ StreamsAreConfirmed BY DEF IInv
  <1>2. At(t, "idle") /\ op' = [op EXCEPT ![t] = method] BY DEF Call
  <1>3. pc' \in [Tasks -> Awaits] BY <1>1, Moved DEF Awaits
  <1>4. TypeOK'
    BY <1>1, <1>2, <1>3 DEF TypeOK, connection, lock
  <1>5. Turns' BY <1>1, <1>2, Outside DEF At, lock
  <1>6. Attempts' /\ OneClient'
    BY <1>2, Elsewhere DEF At, Inside, Awaits, connection, lock
  <1>7. StreamsAreConfirmed'
    BY <1>1 DEF StreamsAreConfirmed, IsConnected, connection
  <1>8. QED BY <1>4, <1>5, <1>6, <1>7 DEF IInv

\* Every call, up to its first await.
LEMMA CallsInv == ASSUME IInv, Calls PROVE IInv'
  <1>1. ASSUME NEW t \in Tasks, NEW method \in Methods, Call(t, method), EnsureConnected(t),
               UNCHANGED <<retries, connection, subscription>>
        PROVE IInv'
    <2>1. CASE IsConnected
      <3>1. wanted' \in BOOLEAN BY <1>1 DEF IInv, TypeOK, subscription
      <3>2. QED
        BY <1>1, <2>1, <3>1, RequestingInv DEF EnsureConnected, subscription
    <2>2. CASE ~IsConnected
      BY <1>1, <2>2, QueueingInv DEF EnsureConnected
    <2>3. QED BY <2>1, <2>2
  <1>2. Worker \in Tasks /\ User \in Tasks /\ Pollers \subseteq Tasks BY DEF Tasks
  <1>3. CASE Connect(Worker) BY <1>2, <1>3, QueueingInv DEF Connect, Methods
  <1>4. CASE Disconnect(User) BY <1>2, <1>4, QueueingInv DEF Disconnect, Methods
  <1>5. CASE Subscribe(Worker) BY <1>1, <1>2, <1>5 DEF Subscribe, Methods
  <1>6. ASSUME NEW p \in Pollers, Request(p) PROVE IInv'
    BY <1>1, <1>2, <1>6 DEF Request, Methods
  <1>7. CASE Unsubscribe(Worker)
    <2>1. CASE IsConnected
      BY <1>2, <1>7, <2>1, RequestingInv DEF Unsubscribe, Methods
    <2>2. CASE ~IsConnected
      <3>1. /\ streams' = FALSE /\ wanted' = FALSE
            /\ UNCHANGED <<retries, connection, confirmed, lock, task>>
        BY <1>7, <2>2 DEF Unsubscribe
      <3>2. TypeOK' BY <3>1 DEF IInv, TypeOK, connection, lock, task
      <3>3. Turns' BY <3>1 DEF IInv, Turns, Holds, lock, task
      <3>4. Attempts' BY <3>1 DEF IInv, Attempts, At, MoreAttempts, lock, task
      <3>5. OneClient' BY <3>1 DEF IInv, OneClient, At, IsConnected, connection, task
      <3>6. StreamsAreConfirmed' BY <3>1 DEF StreamsAreConfirmed
      <3>7. QED BY <3>2, <3>3, <3>4, <3>5, <3>6 DEF IInv
    <2>3. QED BY <2>1, <2>2
  <1>8. QED BY <1>3, <1>4, <1>5, <1>6, <1>7 DEF Calls

-------------------------------------------------------------------------------
(* The steps with the lock *)

\* The holder moves on inside and leaves the connection alone, or has none.
LEMMA StayingInv ==
  ASSUME IInv, NEW t \in Tasks, Holds(t), ~At(t, "reenter"), ~At(t, "resubscribe"),
         NEW p \in {"opening", "sleep", "closing"}, Go(t, p),
         attempt' \in Nat, attempt' <= retries, p = "sleep" => MoreAttempts',
         client' \in {client, 0}, open' = {},
         UNCHANGED <<retries, made, reading, subscription, queue, op, on>>
  PROVE IInv'
  <1>1. TypeOK /\ Turns /\ OneClient BY DEF IInv
  <1>2. p \in Inside /\ p \in Awaits BY DEF Inside, Awaits
  <1>3. /\ pc' \in [Tasks -> Awaits] /\ pc'[t] = p
        /\ \A u \in Tasks : u # t => pc'[u] = pc[u]
    BY <1>1, <1>2, Moved
  <1>4. \A u \in Tasks : u # t => pc[u] \notin Inside BY <1>1, Alone
  <1>5. TypeOK' BY <1>1, <1>3 DEF TypeOK, subscription
  <1>6. Turns' BY <1>1, <1>2, Staying
  <1>7. Attempts'
    BY <1>2, <1>3, <1>4 DEF Attempts, At, Inside, MoreAttempts
  <1>8. OneClient'
    BY <1>1, <1>3, <1>4 DEF OneClient, At, IsConnected, Inside
  <1>9. StreamsAreConfirmed' BY DEF StreamsAreConfirmed, IsConnected
  <1>10. QED BY <1>5, <1>6, <1>7, <1>8, <1>9 DEF IInv

\* The holder leaves with the connection read or closed.
LEMMA LeavingInv ==
  ASSUME IInv, NEW t \in Tasks, Holds(t), ~At(t, "reenter"),
         NEW p \in {"idle", "request"}, Go(t, p), Release,
         op' \in [Tasks -> Methods], on' \in [Tasks -> 0 .. made'],
         made' \in 0 .. MaxConnections, client' \in 0 .. made',
         open' \subseteq 1 .. made', reading' \subseteq 1 .. made',
         open' \subseteq {client'}, IsConnected' => client' \in reading',
         streams' \in BOOLEAN, confirmed' \subseteq 1 .. made', StreamsAreConfirmed',
         UNCHANGED <<retries, wanted>>
  PROVE IInv'
  <1>1. TypeOK /\ Turns BY DEF IInv
  <1>2. p \in Awaits BY DEF Awaits
  <1>3. pc' \in [Tasks -> Awaits] BY <1>1, <1>2, Moved
  <1>4. queue' = Tail(queue) /\ attempt' = 0 BY DEF Release
  <1>5. Turns' /\ \A u \in Tasks : pc'[u] \notin Inside BY <1>1, <1>4, Leaving
  <1>6. queue' \in Seq(Tasks) BY <1>1, <1>4, HolderIsQueued DEF TypeOK
  <1>7. TypeOK'
    BY <1>1, <1>3, <1>4, <1>6, ConstantsTyped DEF TypeOK
  <1>8. Attempts' BY <1>4, <1>5 DEF Attempts, At, Inside
  <1>9. OneClient' BY <1>5 DEF OneClient, At, Inside
  <1>10. QED BY <1>5, <1>7, <1>8, <1>9 DEF IInv

\* Where a call goes when connect has returned.
LEMMA ReturnLeaves ==
  ASSUME TypeOK, NEW t \in Tasks, NEW k \in 0 .. made', Return(t, k),
         made' \in Nat, made <= made'
  PROVE /\ Release
        /\ \E p \in {"idle", "request"} : Go(t, p)
        /\ op' \in [Tasks -> Methods] /\ on' \in [Tasks -> 0 .. made']
  <1>1. op \in [Tasks -> Methods] /\ on \in [Tasks -> 0 .. made] /\ made \in Nat
    BY ConstantsTyped DEF TypeOK
  <1>2. on \in [Tasks -> 0 .. made'] BY <1>1
  <1>3. CASE op[t] = "connect"
    BY <1>1, <1>2, <1>3 DEF Return, Done, Methods
  <1>4. CASE op[t] # "connect"
    BY <1>1, <1>2, <1>4 DEF Return
  <1>5. QED BY <1>3, <1>4

\* A turn of the retry loop.
LEMMA AttemptInv ==
  ASSUME IInv, NEW t \in Tasks, Holds(t), ~At(t, "reenter"), ~At(t, "resubscribe"),
         ~IsConnected, MoreAttempts, Attempt(t)
  PROVE IInv'
  <1>1. TypeOK /\ OneClient BY DEF IInv
  <1>2. /\ Go(t, "opening") /\ client' = 0
        /\ attempt' = IF retries = 0 THEN 0 ELSE attempt + 1
        /\ UNCHANGED <<retries, made, open, reading, subscription, queue, op, on>>
    BY DEF Attempt
  <1>3. retries \in Nat /\ attempt \in Nat BY <1>1, ConstantsTyped DEF TypeOK
  <1>4. attempt' \in Nat /\ attempt' <= retries
    BY <1>2, <1>3 DEF MoreAttempts
  <1>5. open = {} BY <1>1 DEF OneClient, IsConnected
  <1>6. QED BY <1>2, <1>4, <1>5, StayingInv

-------------------------------------------------------------------------------
(* The steps of a task, one by one *)

\* What the inside of connect knows.
LEMMA InOpening ==
  ASSUME IInv, NEW t \in Tasks, pc[t] \in {"opening", "sleep"}
  PROVE Holds(t) /\ open = {} /\ ~At(t, "reenter") /\ ~At(t, "resubscribe")
  BY DEF IInv, Turns, Inside, OneClient, IsConnected, At

\* connect looks at the client again once it has the lock.
LEMMA EnterInv == ASSUME IInv, NEW t \in Tasks, Enter(t) PROVE IInv'
  <1>1. TypeOK /\ Turns /\ OneClient /\ StreamsAreConfirmed /\ Attempts BY DEF IInv
  <1>2. At(t, "lock") /\ Holds(t) BY DEF Enter
  <1>3. pc[t] \notin Inside /\ ~At(t, "reenter") /\ ~At(t, "resubscribe")
    BY <1>2 DEF At, Inside
  <1>4. \A u \in Tasks : pc[u] \notin Inside BY <1>1, <1>2, <1>3, Alone
  <1>5. CASE IsConnected
    <2>1. Return(t, client) /\ UNCHANGED <<retries, connection, subscription>>
      BY <1>5 DEF Enter
    <2>2. made \in Nat /\ client \in 0 .. made BY <1>1, ConstantsTyped DEF TypeOK
    <2>3. /\ Release
          /\ \E p \in {"idle", "request"} : Go(t, p)
          /\ op' \in [Tasks -> Methods] /\ on' \in [Tasks -> 0 .. made']
      BY <1>1, <2>1, <2>2, ReturnLeaves DEF connection
    <2>4. client \in reading BY <1>1, <1>4, <1>5 DEF OneClient, At, Inside
    <2>5. /\ IsConnected' => client' \in reading'
          /\ StreamsAreConfirmed'
          /\ open' \subseteq {client'}
      BY <1>1, <2>1, <2>4
         DEF connection, subscription, IsConnected, StreamsAreConfirmed, OneClient
    <2>6. /\ made' \in 0 .. MaxConnections /\ client' \in 0 .. made'
          /\ open' \subseteq 1 .. made' /\ reading' \subseteq 1 .. made'
          /\ streams' \in BOOLEAN /\ confirmed' \subseteq 1 .. made'
          /\ UNCHANGED <<retries, wanted>>
      BY <1>1, <2>1 DEF connection, subscription, TypeOK
    <2>7. QED BY <1>2, <1>3, <2>3, <2>5, <2>6, LeavingInv
  <1>6. CASE ~IsConnected
    <2>1. Attempt(t) BY <1>6 DEF Enter
    <2>2. attempt = 0 BY <1>1, <1>4 DEF Attempts
    <2>3. MoreAttempts
      BY <1>1, <2>2, ConstantsTyped DEF MoreAttempts, TypeOK
    <2>4. QED BY <1>2, <1>3, <1>6, <2>1, <2>3, AttemptInv
  <1>7. QED BY <1>5, <1>6

\* connect is done with the first attempt that opens.
LEMMA OpenedInv == ASSUME IInv, NEW t \in Tasks, Opened(t) PROVE IInv'
  <1>1. TypeOK BY DEF IInv
  <1>2. At(t, "opening") /\ ~streams BY DEF Opened
  <1>3. Holds(t) /\ open = {} /\ ~At(t, "reenter") BY <1>2, InOpening DEF At
  <1>4. /\ made < MaxConnections /\ made' = made + 1 /\ client' = made'
        /\ open' \subseteq {client'}
        /\ reading' = reading \cup {client'} /\ Return(t, client')
        /\ UNCHANGED <<retries, subscription>>
    BY <1>3 DEF Opened, Open, StartLoop
  <1>5. made \in Nat /\ made' \in Nat /\ made' \in 0 .. MaxConnections /\ made <= made'
    BY <1>1, <1>4, ConstantsTyped DEF TypeOK
  <1>6. /\ Release
        /\ \E p \in {"idle", "request"} : Go(t, p)
        /\ op' \in [Tasks -> Methods] /\ on' \in [Tasks -> 0 .. made']
    BY <1>1, <1>4, <1>5, ReturnLeaves
  <1>7. /\ client' \in 0 .. made' /\ open' \subseteq 1 .. made'
        /\ reading' \subseteq 1 .. made' /\ confirmed' \subseteq 1 .. made'
    BY <1>1, <1>4, <1>5 DEF TypeOK, subscription
  <1>8. StreamsAreConfirmed' BY <1>2, <1>4 DEF StreamsAreConfirmed, subscription
  <1>9. streams' \in BOOLEAN /\ UNCHANGED <<retries, wanted>>
    BY <1>1, <1>4 DEF TypeOK, subscription
  <1>10. IsConnected' => client' \in reading' BY <1>4
  <1>11. PICK p \in {"idle", "request"} : Go(t, p) BY <1>6
  <1>12. QED
    BY <1>3, <1>4, <1>5, <1>6, <1>7, <1>8, <1>9, <1>10, <1>11, LeavingInv

\* The two ways on when there are streams to subscribe again.
LEMMA OpenedToInv ==
  ASSUME IInv, NEW t \in Tasks, At(t, "opening"),
         NEW p \in {"resubscribe", "reenter"}, Go(t, p), NEW alive \in BOOLEAN, Open(alive),
         p = "reenter" => ~alive, streams' = FALSE, queue' \in Seq(Tasks), Turns',
         UNCHANGED <<retries, reading, confirmed, wanted, attempt, op, on>>
  PROVE IInv'
  <1>1. TypeOK /\ Turns BY DEF IInv
  <1>2. Holds(t) /\ open = {} BY InOpening DEF At
  <1>3. \A u \in Tasks : u # t => pc[u] \notin Inside BY <1>1, <1>2, Alone
  <1>4. p \in Awaits /\ p \in Inside BY DEF Awaits, Inside
  <1>5. /\ pc' \in [Tasks -> Awaits] /\ pc'[t] = p
        /\ \A u \in Tasks : u # t => pc'[u] = pc[u]
    BY <1>1, <1>4, Moved
  <1>6. /\ made < MaxConnections /\ made' = made + 1 /\ client' = made'
        /\ open' = IF alive THEN {made'} ELSE {}
    BY <1>2 DEF Open
  <1>7. made \in Nat /\ made' \in 0 .. MaxConnections /\ made' # 0
    BY <1>1, <1>6, ConstantsTyped DEF TypeOK
  <1>8. on' \in [Tasks -> 0 .. made']
    BY <1>1, <1>6, <1>7 DEF TypeOK
  <1>9. /\ reading' \subseteq 1 .. made' /\ confirmed' \subseteq 1 .. made'
        /\ open' \subseteq 1 .. made' /\ client' \in 0 .. made'
    BY <1>1, <1>6, <1>7 DEF TypeOK
  <1>10. TypeOK'
    BY <1>1, <1>5, <1>7, <1>8, <1>9 DEF TypeOK
  <1>11. Attempts'
    BY <1>3, <1>4, <1>5 DEF Attempts, At, Inside
  <1>12. OneClient'
    BY <1>3, <1>5, <1>6, <1>7 DEF OneClient, At, IsConnected, Inside
  <1>13. StreamsAreConfirmed' BY DEF StreamsAreConfirmed
  <1>14. QED BY <1>10, <1>11, <1>12, <1>13 DEF IInv

\* The streams are forgotten and asked for again.
LEMMA OpenedWithStreamsInv == ASSUME IInv, NEW t \in Tasks, OpenedWithStreams(t) PROVE IInv'
  <1>1. TypeOK /\ Turns BY DEF IInv
  <1>2. /\ At(t, "opening") /\ Open(TRUE) /\ streams' = FALSE
        /\ Go(t, "resubscribe")
        /\ UNCHANGED <<retries, reading, confirmed, wanted, lock, op, on>>
    BY DEF OpenedWithStreams
  <1>3. Holds(t) /\ ~At(t, "reenter") BY <1>2, InOpening DEF At
  <1>4. queue' = queue /\ attempt' = attempt BY <1>2 DEF lock
  <1>5. Turns' BY <1>1, <1>2, <1>3, <1>4, Staying DEF Inside
  <1>6. queue' \in Seq(Tasks) BY <1>1, <1>4 DEF TypeOK
  <1>7. QED BY <1>2, <1>4, <1>5, <1>6, OpenedToInv

\* The task waits for its own lock.
LEMMA OpenedAndLostInv == ASSUME IInv, NEW t \in Tasks, OpenedAndLost(t) PROVE IInv'
  <1>1. TypeOK /\ Turns BY DEF IInv
  <1>2. /\ At(t, "opening") /\ Open(FALSE) /\ streams' = FALSE
        /\ Go(t, "reenter") /\ queue' = Append(queue, t)
        /\ UNCHANGED <<retries, reading, confirmed, wanted, attempt, op, on>>
    BY DEF OpenedAndLost
  <1>3. Turns' BY <1>1, <1>2, Reentering
  <1>4. queue' \in Seq(Tasks) BY <1>1, <1>2 DEF TypeOK
  <1>5. QED BY <1>2, <1>3, <1>4, OpenedToInv

\* connect is done when the streams were asked for.
LEMMA ResubscribedInv == ASSUME IInv, NEW t \in Tasks, Resubscribed(t) PROVE IInv'
  <1>1. TypeOK /\ Turns /\ OneClient BY DEF IInv
  <1>2. /\ At(t, "resubscribe") /\ Return(t, client)
        /\ reading' = reading \cup {client}
        /\ UNCHANGED <<retries, made, client, open, wanted>>
        /\ \/ UNCHANGED <<streams, confirmed>>
           \/ streams' = TRUE /\ confirmed' = confirmed \cup {client}
    BY DEF Resubscribed, StartLoop
  <1>3. Holds(t) /\ ~At(t, "reenter") BY <1>1, <1>2 DEF Turns, At, Inside
  <1>4. made \in Nat /\ client \in 1 .. made
    BY <1>1, <1>2, ConstantsTyped DEF TypeOK, OneClient
  <1>5. made' \in Nat /\ made <= made' /\ client \in 0 .. made' BY <1>2, <1>4
  <1>6. /\ Release
        /\ \E p \in {"idle", "request"} : Go(t, p)
        /\ op' \in [Tasks -> Methods] /\ on' \in [Tasks -> 0 .. made']
    BY <1>1, <1>2, <1>5, ReturnLeaves
  <1>7. PICK p \in {"idle", "request"} : Go(t, p) BY <1>6
  <1>8. /\ made' \in 0 .. MaxConnections /\ client' \in 0 .. made'
        /\ open' \subseteq 1 .. made' /\ reading' \subseteq 1 .. made'
        /\ streams' \in BOOLEAN /\ confirmed' \subseteq 1 .. made'
        /\ open' \subseteq {client'} /\ client' \in reading'
    BY <1>1, <1>2, <1>4 DEF TypeOK, OneClient
  <1>9. StreamsAreConfirmed'
    BY <1>2 DEF IInv, StreamsAreConfirmed, IsConnected
  <1>10. QED BY <1>2, <1>3, <1>6, <1>7, <1>8, <1>9, LeavingInv

\* An attempt failed, and there will be another one.
LEMMA OpenFailedInv == ASSUME IInv, NEW t \in Tasks, OpenFailed(t) PROVE IInv'
  <1>1. /\ At(t, "opening") /\ MoreAttempts /\ Go(t, "sleep")
        /\ UNCHANGED <<retries, connection, subscription, lock, op, on>>
    BY DEF OpenFailed
  <1>2. Holds(t) /\ open = {} /\ ~At(t, "reenter") /\ ~At(t, "resubscribe")
    BY <1>1, InOpening DEF At
  <1>3. MoreAttempts' BY <1>1 DEF MoreAttempts, lock
  <1>4. attempt' \in Nat /\ attempt' <= retries BY <1>1 DEF lock, IInv, TypeOK
  <1>5. /\ client' = client /\ open' = {}
        /\ UNCHANGED <<made, reading, queue>>
    BY <1>1, <1>2 DEF connection, lock
  <1>6. QED BY <1>1, <1>2, <1>3, <1>4, <1>5, StayingInv

\* The pause between two attempts is over.
LEMMA RetryInv == ASSUME IInv, NEW t \in Tasks, Retry(t) PROVE IInv'
  <1>1. At(t, "sleep") /\ Attempt(t) BY DEF Retry
  <1>2. Holds(t) /\ open = {} /\ ~At(t, "reenter") /\ ~At(t, "resubscribe")
    BY <1>1, InOpening DEF At
  <1>3. MoreAttempts BY <1>1 DEF IInv, Attempts
  <1>4. QED BY <1>1, <1>2, <1>3, AttemptInv DEF IsConnected

\* A call that ends and gives the lock back, with the connection as it is or
\* without one.
LEMMA EndingInv ==
  ASSUME IInv, NEW t \in Tasks, Holds(t), ~At(t, "reenter"), Done(t), Release,
         ~IsConnected, client' \in {client, 0},
         UNCHANGED <<retries, made, open, reading, subscription>>
  PROVE IInv'
  <1>1. TypeOK /\ OneClient BY DEF IInv
  <1>2. open = {} BY <1>1 DEF OneClient, IsConnected
  <1>3. /\ Go(t, "idle")
        /\ op' = [op EXCEPT ![t] = "none"] /\ on' = [on EXCEPT ![t] = 0]
    BY DEF Done
  <1>4. op' \in [Tasks -> Methods] BY <1>1, <1>3 DEF TypeOK, Methods
  <1>5. on' \in [Tasks -> 0 .. made'] BY <1>1, <1>3, ConstantsTyped DEF TypeOK
  <1>6. /\ made' \in 0 .. MaxConnections /\ client' \in 0 .. made'
        /\ open' \subseteq 1 .. made' /\ reading' \subseteq 1 .. made'
        /\ streams' \in BOOLEAN /\ confirmed' \subseteq 1 .. made'
        /\ UNCHANGED <<retries, wanted>>
    BY <1>1, ConstantsTyped DEF TypeOK, subscription
  <1>7. open' \subseteq {client'} /\ ~IsConnected' /\ StreamsAreConfirmed'
    BY <1>2 DEF IsConnected, StreamsAreConfirmed
  <1>8. QED BY <1>3, <1>4, <1>5, <1>6, <1>7, LeavingInv

\* connect raises, and the lock is given back.
LEMMA GiveUpInv == ASSUME IInv, NEW t \in Tasks, GiveUp(t) PROVE IInv'
  <1>1. /\ At(t, "opening") /\ Done(t) /\ Release
        /\ UNCHANGED <<retries, connection, subscription>>
    BY DEF GiveUp
  <1>2. Holds(t) /\ open = {} /\ ~At(t, "reenter") BY <1>1, InOpening DEF At
  <1>3. QED BY <1>1, <1>2, EndingInv DEF connection, IsConnected

\* disconnect has the lock.
LEMMA CloseInv == ASSUME IInv, NEW t \in Tasks, Close(t) PROVE IInv'
  <1>1. /\ At(t, "lock") /\ Holds(t)
        /\ UNCHANGED <<retries, made, client, reading, subscription>>
    BY DEF Close
  <1>2. ~At(t, "reenter") /\ ~At(t, "resubscribe") BY <1>1 DEF At
  <1>3. CASE IsConnected
    <2>1. /\ Go(t, "closing") /\ open' = open \ {client}
          /\ UNCHANGED <<op, on, queue, attempt>>
      BY <1>3 DEF Close, lock
    <2>2. open' = {} BY <2>1 DEF IInv, OneClient
    <2>3. attempt' \in Nat /\ attempt' <= retries BY <2>1 DEF IInv, TypeOK
    <2>4. QED BY <1>1, <1>2, <2>1, <2>2, <2>3, StayingInv
  <1>4. CASE ~IsConnected
    BY <1>1, <1>2, <1>4, EndingInv DEF Close
  <1>5. QED BY <1>3, <1>4

\* disconnect is done.
LEMMA ClosedInv == ASSUME IInv, NEW t \in Tasks, Closed(t) PROVE IInv'
  <1>1. /\ At(t, "closing") /\ client' = 0 /\ Done(t) /\ Release
        /\ UNCHANGED <<retries, made, open, reading, subscription>>
    BY DEF Closed
  <1>2. Holds(t) /\ ~At(t, "reenter") /\ ~IsConnected
    BY <1>1 DEF IInv, Turns, OneClient, Inside, At
  <1>3. QED BY <1>1, <1>2, EndingInv

\* A request ends, whatever it was answered.
LEMMA RequestInv ==
  ASSUME IInv, NEW t \in Tasks, At(t, "request"), Done(t),
         UNCHANGED <<retries, connection, lock>>,
         streams' \in BOOLEAN, wanted' \in BOOLEAN, confirmed' \subseteq 1 .. made,
         StreamsAreConfirmed'
  PROVE IInv'
  <1>1. TypeOK /\ Turns BY DEF IInv
  <1>2. /\ Go(t, "idle")
        /\ op' = [op EXCEPT ![t] = "none"] /\ on' = [on EXCEPT ![t] = 0]
    BY DEF Done
  <1>3. op' \in [Tasks -> Methods] /\ on' \in [Tasks -> 0 .. made]
    BY <1>1, <1>2, ConstantsTyped DEF TypeOK, Methods
  <1>4. pc' \in [Tasks -> Awaits] BY <1>1, <1>2, Moved DEF Awaits
  <1>5. TypeOK' BY <1>1, <1>3, <1>4 DEF TypeOK, connection, lock
  <1>6. Turns' BY <1>1, <1>2, Outside DEF At, lock
  <1>7. Attempts' /\ OneClient'
    BY <1>2, Elsewhere DEF At, Inside, Awaits, connection, lock
  <1>8. QED BY <1>5, <1>6, <1>7 DEF IInv

\* A request is answered on the connection it was sent on.
LEMMA SucceedsInv == ASSUME IInv, NEW t \in Tasks, Succeeds(t) PROVE IInv'
  <1>1. TypeOK /\ OneClient /\ StreamsAreConfirmed BY DEF IInv
  <1>2. /\ At(t, "request") /\ on[t] \in open /\ Done(t)
        /\ UNCHANGED <<retries, connection, lock>>
    BY DEF Succeeds
  <1>3. on[t] = client /\ client \in 1 .. made BY <1>1, <1>2 DEF OneClient, TypeOK
  <1>4. \/ streams' = TRUE /\ wanted' = TRUE /\ confirmed' = confirmed \cup {on[t]}
        \/ streams' = FALSE /\ UNCHANGED <<confirmed, wanted>>
        \/ UNCHANGED subscription
    BY DEF Succeeds
  <1>5. streams' \in BOOLEAN /\ wanted' \in BOOLEAN /\ confirmed' \subseteq 1 .. made
    BY <1>1, <1>3, <1>4 DEF TypeOK, subscription
  <1>6. StreamsAreConfirmed'
    BY <1>1, <1>2, <1>3, <1>4
       DEF StreamsAreConfirmed, IsConnected, connection, subscription
  <1>7. QED BY <1>2, <1>5, <1>6, RequestInv

\* A request comes to nothing.
LEMMA FailsInv == ASSUME IInv, NEW t \in Tasks, Fails(t) PROVE IInv'
  <1>1. /\ At(t, "request") /\ Done(t)
        /\ UNCHANGED <<retries, connection, subscription, lock>>
    BY DEF Fails
  <1>2. /\ streams' \in BOOLEAN /\ wanted' \in BOOLEAN /\ confirmed' \subseteq 1 .. made
        /\ StreamsAreConfirmed'
    BY <1>1 DEF IInv, TypeOK, StreamsAreConfirmed, IsConnected, connection, subscription
  <1>3. QED BY <1>1, <1>2, RequestInv

-------------------------------------------------------------------------------
(* The steps of message loops and connections *)


\* A message loop fails and leaves a task that connects.
LEMMA LoopRaisesInv ==
  ASSUME IInv, NEW k \in 1 .. MaxConnections, LoopRaises(k) PROVE IInv'
  <1>1. PICK r \in Reconnectors : Call(r, "connect") /\ Queue(r)
    BY DEF LoopRaises
  <1>2. r \in Tasks /\ "connect" \in Methods BY DEF Tasks, Methods
  <1>3. /\ k \notin open /\ reading' = reading \ {k}
        /\ UNCHANGED <<retries, made, client, open, subscription>>
    BY DEF LoopRaises
  <1>4. TypeOK /\ Turns /\ Attempts /\ OneClient /\ StreamsAreConfirmed BY DEF IInv
  <1>5. Go(r, "lock") /\ queue' = Append(queue, r) /\ UNCHANGED <<attempt, on>>
    BY <1>1 DEF Queue
  <1>6. At(r, "idle") /\ op' = [op EXCEPT ![r] = "connect"] BY <1>1 DEF Call
  <1>7. /\ pc' \in [Tasks -> Awaits] /\ pc'[r] = "lock"
        /\ \A u \in Tasks : u # r => pc'[u] = pc[u]
    BY <1>2, <1>4, <1>5, Moved DEF Awaits
  <1>8. queue' \in Seq(Tasks) /\ op' \in [Tasks -> Methods]
    BY <1>2, <1>4, <1>5, <1>6 DEF TypeOK
  <1>9. TypeOK' BY <1>3, <1>4, <1>5, <1>7, <1>8 DEF TypeOK, subscription
  <1>10. Turns' BY <1>2, <1>4, <1>5, <1>6, Joining
  <1>11. Attempts'
    BY <1>2, <1>3, <1>4, <1>5, <1>6, <1>7 DEF Attempts, At, Inside, MoreAttempts
  <1>12. OneClient'
    BY <1>2, <1>3, <1>4, <1>6, <1>7 DEF OneClient, At, IsConnected
  <1>13. StreamsAreConfirmed'
    BY <1>3, <1>4 DEF StreamsAreConfirmed, IsConnected, subscription
  <1>14. QED BY <1>9, <1>10, <1>11, <1>12, <1>13 DEF IInv

\* A connection is lost, or the loop of one that was lost ends.
LEMMA LosingInv ==
  ASSUME IInv, NEW k \in 1 .. MaxConnections, LoopEnds(k) \/ Lose(k) PROVE IInv'
  <1>1. /\ open' \subseteq open /\ reading' \subseteq reading
        /\ client \in open' /\ client \in reading => client \in reading'
        /\ UNCHANGED <<retries, made, client, subscription, lock, task>>
    BY DEF LoopEnds, Lose
  <1>2. TypeOK' BY <1>1 DEF IInv, TypeOK, subscription, lock, task
  <1>3. Turns' BY <1>1 DEF IInv, Turns, Holds, lock, task
  <1>4. Attempts' BY <1>1 DEF IInv, Attempts, At, MoreAttempts, lock, task
  <1>5. OneClient' BY <1>1 DEF IInv, OneClient, At, IsConnected, task
  <1>6. StreamsAreConfirmed'
    BY <1>1 DEF IInv, StreamsAreConfirmed, IsConnected, subscription
  <1>7. QED BY <1>2, <1>3, <1>4, <1>5, <1>6 DEF IInv

-------------------------------------------------------------------------------
(* Theorems *)

\* Nobody is at work, nothing is open.
LEMMA InitInv == Init => IInv
  <1> SUFFICES ASSUME Init PROVE IInv
    OBVIOUS
  <1>1. <<>> \in Seq(Tasks) OBVIOUS
  <1>2. TypeOK
    <2>1. "idle" \in Awaits /\ "none" \in Methods BY DEF Awaits, Methods
    <2>2. 0 \in 0 .. made /\ made \in 0 .. MaxConnections /\ retries \in Nat
      BY ConstantsTyped DEF Init
    <2>3. pc \in [Tasks -> Awaits] /\ op \in [Tasks -> Methods] /\ on \in [Tasks -> 0 .. made]
      BY <2>1, <2>2 DEF Init
    <2>4. queue \in Seq(Tasks) BY <1>1 DEF Init
    <2>5. /\ retries \in Retries /\ client = 0 /\ open = {} /\ reading = {}
          /\ streams = FALSE /\ confirmed = {} /\ wanted = FALSE /\ attempt = 0
      BY DEF Init
    <2>6. client \in 0 .. made /\ open \subseteq 1 .. made /\ reading \subseteq 1 .. made
      BY <2>2, <2>5
    <2>7. streams \in BOOLEAN /\ confirmed \subseteq 1 .. made /\ wanted \in BOOLEAN
      BY <2>5
    <2>8. attempt \in Nat /\ attempt <= retries BY <2>2, <2>5
    <2>9. QED BY <2>2, <2>3, <2>4, <2>5, <2>6, <2>7, <2>8 DEF TypeOK
  <1>3. Turns BY DEF Init, Turns, Inside
  <1>4. Attempts BY DEF Init, Attempts, At
  <1>5. OneClient BY DEF Init, OneClient, At, IsConnected
  <1>6. StreamsAreConfirmed BY DEF Init, StreamsAreConfirmed
  <1>7. QED BY <1>2, <1>3, <1>4, <1>5, <1>6 DEF IInv

\* Every step keeps the invariant.
LEMMA NextInv == IInv /\ [Next]_vars => IInv'
  <1> SUFFICES ASSUME IInv, [Next]_vars PROVE IInv'
    OBVIOUS
  <1>1. CASE Calls BY <1>1, CallsInv
  <1>2. ASSUME NEW t \in Tasks, Step(t) PROVE IInv'
    BY <1>2, EnterInv, OpenedInv, OpenedWithStreamsInv, OpenedAndLostInv, ResubscribedInv,
       OpenFailedInv, RetryInv, GiveUpInv, CloseInv, ClosedInv, SucceedsInv, FailsInv
       DEF Step
  <1>3. ASSUME NEW k \in 1 .. MaxConnections, LoopRaises(k) \/ LoopEnds(k) \/ Lose(k)
        PROVE IInv'
    BY <1>3, LoopRaisesInv, LosingInv
  <1>4. CASE UNCHANGED vars
    <2>1. UNCHANGED <<retries, made, client, open, reading, streams, confirmed, wanted,
                      queue, attempt, pc, op, on>>
      BY <1>4 DEF vars, connection, subscription, lock, task
    <2>2. QED
      BY <2>1 DEF IInv, TypeOK, Turns, Holds, Attempts, MoreAttempts, OneClient, At,
                  IsConnected, StreamsAreConfirmed
  <1>5. QED BY <1>1, <1>2, <1>3, <1>4 DEF Next

\* The invariant of the websocket manager holds in every reachable state, for
\* any number of tasks, retries and connections.
THEOREM Invariance == Spec => []IInv
  BY InitInv, NextInv, PTL DEF Spec

\* Every variable keeps its type.
THEOREM TypeCorrect == Spec => []TypeOK
  <1>1. IInv => TypeOK BY DEF IInv
  <1>2. QED BY <1>1, Invariance, PTL

\* At most one connection is open, and it is the one the manager knows:
\* whatever tasks meet at connect and disconnect, none is leaked.
THEOREM NoConnectionLeaks == Spec => []NothingLeaks
  <1>1. IInv => NothingLeaks BY DEF IInv, OneClient, NothingLeaks
  <1>2. QED BY <1>1, Invariance, PTL

\* A connection that is open while nobody has the lock has its message loop.
THEOREM ConnectionsAreRead == Spec => []OpenMeansRead
  <1>1. IInv => OpenMeansRead
    BY DEF IInv, OneClient, OpenMeansRead, Turns, Holds, Inside, At
  <1>2. QED BY <1>1, Invariance, PTL

\* The manager never takes an earlier connection's subscription for one of the
\* connection that is open.
THEOREM NoStaleSubscription == Spec => []StreamsAreConfirmed
  <1>1. IInv => StreamsAreConfirmed BY DEF IInv
  <1>2. QED BY <1>1, Invariance, PTL
===============================================================================

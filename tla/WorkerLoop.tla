----------------------------- MODULE WorkerLoop -----------------------------
(***************************************************************************)
(* A worker loop of the server (src/src/server/worker_loop.cpp): one       *)
(* thread with an epoll set, an eventfd and the connections it owns.  The  *)
(* acceptor thread hands it sockets, its connections submit requests to    *)
(* the business pool, the pool's threads hand it results.  The clients and *)
(* the kernel's sockets are external.  A request arrives whole or in two   *)
(* parts, a response is sent whole; a "ping" stands for a request that is  *)
(* answered at once (heartbeat, unparsable body), a "bad" one for an       *)
(* invalid frame header.                                                   *)
(***************************************************************************)
EXTENDS Connection, FiniteSets

CONSTANTS
  Fds,           \* descriptor numbers the kernel can hand out
  MaxClients,    \* clients that ever connect
  MaxRequests,   \* requests that are ever sent
  Kinds,         \* subset of {"call", "ping", "bad"}
  CutRequests,   \* the requests that may arrive in two parts
  SendBuffer,    \* frames a socket's send buffer holds
  Pools,         \* subset of {"open", "none"}: with and without a business pool
  Failures,      \* whether epoll and eventfd calls can fail
  Timeouts,      \* whether deadlines can pass
  ClientsLeave,  \* whether clients close their connections
  ServerStops    \* whether the server is stopped

ASSUME WorkerLoopAssumption ==
  /\ IsFiniteSet(Fds) /\ MaxClients \in Nat /\ MaxRequests \in Nat /\ SendBuffer \in Nat \ {0}
  /\ Kinds \subseteq {"call", "ping", "bad"} /\ CutRequests \subseteq Nat
  /\ Pools \subseteq {"open", "none"}
  /\ {Failures, Timeouts, ClientsLeave, ServerStops} \subseteq BOOLEAN

VARIABLES
  sockets,      \* open descriptor -> client, unread parts, unsent part, FIN, send buffer
  clients,      \* number of clients so far
  sent,         \* number of requests sent so far
  answered,     \* requests whose response a client has received
  acceptor,     \* "idle", about to "queue" a descriptor, or to "wake" the loop
  pool,         \* business pool: "none", "open", "stopped", "destroyed"
  tasks,        \* requests in the pool: the dispatch and its stage
  pending_connections, responses,   \* the queues towards the loop
  wake,         \* the eventfd is readable
  accepting,    \* completed_queue_->accepting
  stop_requested,
  pc, leaving,  \* the loop's place; Run has left its loop
  events,       \* events of this round still to process
  current,      \* the event, or the descriptor, being processed
  local,        \* the responses of this drain still to deliver
  connections,  \* descriptor -> Connection
  next_token, in_flight_request_count

clientVars == <<sockets, clients, sent, answered>>
poolVars == <<pool, tasks>>
queueVars == <<pending_connections, responses, wake, accepting, stop_requested>>
loopVars == <<pc, leaving, events, current, local>>
connVars == <<connections, next_token, in_flight_request_count>>
vars == <<clientVars, acceptor, poolVars, queueVars, loopVars, connVars>>

Nobody == [fd |-> 0, token |-> 0, in |-> FALSE, out |-> FALSE, hup |-> FALSE]

Init ==
  /\ sockets = <<>> /\ clients = 0 /\ sent = 0 /\ answered = {}
  /\ acceptor = [at |-> "idle", fd |-> 0] /\ pool \in Pools /\ tasks = {}
  /\ pending_connections = <<>> /\ responses = <<>>
  /\ wake = FALSE /\ accepting = TRUE /\ stop_requested = FALSE
  /\ pc = "poll" /\ leaving = FALSE /\ events = {} /\ current = Nobody /\ local = <<>>
  /\ connections = <<>> /\ next_token = 1 /\ in_flight_request_count = 0

\* f with the entry for x added or replaced, and without it.
With(f, x, v) == [y \in DOMAIN f \cup {x} |-> IF y = x THEN v ELSE f[y]]
Without(f, S) == [x \in DOMAIN f \ S |-> f[x]]

-----------------------------------------------------------------------------
(* Clients and the kernel.                                                 *)

\* accept4 returns a descriptor that is not in use, and the loop still accepts
\* connections: Run sets accepting_new_connections_ to false when it leaves its
\* loop, RequestStop before.  A refused socket is closed at once and left out;
\* the code closes its number twice (rpc_server.cpp:308), the second time in
\* vain as long as nobody but the acceptor opens descriptors, as is the case
\* here.
AcceptConnection(fd) ==
  /\ acceptor.at = "idle" /\ pool \in {"none", "open"} /\ ~stop_requested /\ ~leaving
  /\ fd \notin DOMAIN sockets /\ clients < MaxClients
  /\ clients' = clients + 1
  /\ sockets' = With(sockets, fd, [client |-> clients + 1, wire |-> <<>>, rest |-> <<>>,
                                   fin |-> FALSE, out |-> <<>>])
  /\ acceptor' = [at |-> "queue", fd |-> fd]
  /\ UNCHANGED <<sent, answered, poolVars, queueVars, loopVars, connVars>>

EnqueueConnection ==
  /\ acceptor.at = "queue"
  /\ pending_connections' = Append(pending_connections, acceptor.fd)
  /\ acceptor' = [at |-> "wake", fd |-> 0]
  /\ UNCHANGED <<clientVars, poolVars, responses, wake, accepting, stop_requested, loopVars,
                 connVars>>

Wakeup ==
  /\ acceptor.at = "wake"
  /\ acceptor' = [at |-> "idle", fd |-> 0] /\ wake' = TRUE
  /\ UNCHANGED <<clientVars, poolVars, pending_connections, responses, accepting,
                 stop_requested, loopVars, connVars>>

\* The client sends a frame, or its first part.
ClientSends(fd, kind) ==
  /\ fd \in DOMAIN sockets /\ ~sockets[fd].fin /\ sent < MaxRequests
  /\ sockets[fd].rest = <<>>
  /\ sent' = sent + 1
  /\ \E part \in {"whole"} \cup (IF sent + 1 \in CutRequests THEN {"first"} ELSE {}) :
       LET frame == [id |-> sent + 1, kind |-> kind, client |-> sockets[fd].client,
                     part |-> part]
       IN sockets' = [sockets EXCEPT
            ![fd].wire = Append(@, frame),
            ![fd].rest = IF part = "first" THEN <<[frame EXCEPT !.part = "rest"]>> ELSE <<>>]
  /\ UNCHANGED <<clients, answered, acceptor, poolVars, queueVars, loopVars, connVars>>

ClientSendsRest(fd) ==
  /\ fd \in DOMAIN sockets /\ ~sockets[fd].fin /\ sockets[fd].rest # <<>>
  /\ sockets' = [sockets EXCEPT ![fd].wire = @ \o sockets[fd].rest, ![fd].rest = <<>>]
  /\ UNCHANGED <<clients, sent, answered, acceptor, poolVars, queueVars, loopVars, connVars>>

ClientReceives(fd) ==
  /\ fd \in DOMAIN sockets /\ ~sockets[fd].fin /\ sockets[fd].out # <<>>
  /\ answered' = answered \cup {Head(sockets[fd].out)}
  /\ sockets' = [sockets EXCEPT ![fd].out = Tail(@)]
  /\ UNCHANGED <<clients, sent, acceptor, poolVars, queueVars, loopVars, connVars>>

ClientCloses(fd) ==
  /\ ClientsLeave /\ fd \in DOMAIN sockets /\ ~sockets[fd].fin
  /\ sockets' = [sockets EXCEPT ![fd].fin = TRUE]
  /\ UNCHANGED <<clients, sent, answered, acceptor, poolVars, queueVars, loopVars, connVars>>

-----------------------------------------------------------------------------
(* The business pool's threads, and the thread that stops the server.      *)

\* Find and run the handler, record the call, queue the result.
RunHandler(t) ==
  /\ t.stage = "run"
  /\ responses' = IF accepting THEN Append(responses, t) ELSE responses
  /\ tasks' = (tasks \ {t}) \cup {[t EXCEPT !.stage = "wake"]}
  /\ UNCHANGED <<clientVars, acceptor, pool, pending_connections, wake, accepting,
                 stop_requested, loopVars, connVars>>

\* The eventfd is written unless Run has taken it back.
WakeLoop(t) ==
  /\ t.stage = "wake"
  /\ wake' = (wake \/ accepting)
  /\ tasks' = tasks \ {t}
  /\ UNCHANGED <<clientVars, acceptor, pool, pending_connections, responses, accepting,
                 stop_requested, loopVars, connVars>>

\* RpcServer::StopBusinessThreadPool, after the accept loop has ended: Stop, ...
StopPool ==
  /\ ServerStops /\ acceptor.at = "idle" /\ pool = "open"
  /\ pool' = "stopped"
  /\ UNCHANGED <<clientVars, acceptor, tasks, queueVars, loopVars, connVars>>

\* ... then Join, which waits for the handlers that run, and the destruction.
\* A task that no thread of the pool has seen before it left is never run.
JoinPool ==
  /\ pool = "stopped" /\ \A t \in tasks : t.stage = "run"
  /\ pool' = "destroyed"
  /\ tasks' = {}
  /\ UNCHANGED <<clientVars, acceptor, queueVars, loopVars, connVars>>

\* RpcServer::StopWorkers comes after it.
RequestStop ==
  /\ pool = "destroyed" \/ (ServerStops /\ acceptor.at = "idle" /\ pool = "none")
  /\ ~stop_requested
  /\ stop_requested' = TRUE /\ wake' = TRUE
  /\ UNCHANGED <<clientVars, acceptor, poolVars, pending_connections, responses, accepting,
                 loopVars, connVars>>

-----------------------------------------------------------------------------
(* The loop's thread: Run and PollOnce, one round after another.           *)

LoopAt(place) == pc = place /\ \A fd \in DOMAIN connections : ~Running(connections[fd])

\* What epoll_wait reports of a registered descriptor (level-triggered).
EventOf(fd) ==
  [fd |-> fd, token |-> connections[fd].connection_token,
   in |-> sockets[fd].wire # <<>> \/ sockets[fd].fin,
   out |-> connections[fd].epollout
             /\ (Len(sockets[fd].out) < SendBuffer \/ sockets[fd].fin),
   hup |-> sockets[fd].fin]

\* epoll_wait returns what is ready, or nothing after 100 ms.
EpollWait ==
  /\ LoopAt("poll") /\ ~stop_requested
  /\ events' = {e \in {EventOf(fd) : fd \in DOMAIN connections} : e.in \/ e.out \/ e.hup}
  /\ pc' = IF wake THEN "drain_wake" ELSE "tick"
  /\ UNCHANGED <<clientVars, acceptor, poolVars, queueVars, leaving, current, local, connVars>>

\* Faulty variant: no last drain.
LeaveRun_NoDrain ==
  /\ LoopAt("poll") /\ stop_requested
  /\ pc' = "close_all" /\ leaving' = TRUE
  /\ UNCHANGED <<clientVars, acceptor, poolVars, queueVars, events, current, local, connVars>>

\* Run leaves its loop and drains the queues a last time.
LeaveRun ==
  /\ LoopAt("poll") /\ stop_requested
  /\ pc' = "drain_wake" /\ leaving' = TRUE
  /\ UNCHANGED <<clientVars, acceptor, poolVars, queueVars, events, current, local, connVars>>

\* PollOnce returns false: Run leaves its loop as if it had been stopped.
Fail ==
  /\ pc' = "drain_wake" /\ leaving' = TRUE
  /\ events' = {}

EpollWaitFails ==
  /\ Failures /\ LoopAt("poll") /\ ~stop_requested
  /\ Fail
  /\ UNCHANGED <<clientVars, acceptor, poolVars, queueVars, current, local, connVars>>

\* The last time the queues are not drained then.
DrainWakeFdFails ==
  /\ Failures /\ LoopAt("drain_wake")
  /\ IF leaving THEN pc' = "close_all" /\ UNCHANGED <<leaving, events>> ELSE Fail
  /\ UNCHANGED <<clientVars, acceptor, poolVars, queueVars, current, local, connVars>>

DrainWakeFd ==
  /\ LoopAt("drain_wake")
  /\ wake' = FALSE
  /\ pc' = "drain_pending"
  /\ UNCHANGED <<clientVars, acceptor, poolVars, pending_connections, responses, accepting,
                 stop_requested, leaving, events, current, local, connVars>>

\* AddConnectionOnOwnerThread for the first n queued sockets, with fresh tokens.
Adopt(n) ==
  /\ LET new == {pending_connections[i] : i \in 1 .. n}
         place(fd) == CHOOSE i \in 1 .. n : pending_connections[i] = fd
     IN connections' = [fd \in DOMAIN connections \cup new |->
          IF fd \in new THEN NewConnection(next_token + place(fd) - 1, sockets[fd].client)
                        ELSE connections[fd]]
  /\ next_token' = next_token + n
  /\ pending_connections' = <<>>

AdoptPending == Adopt(Len(pending_connections))

DrainPendingConnections ==
  /\ LoopAt("drain_pending")
  /\ AdoptPending
  /\ pc' = "swap_completed"
  /\ UNCHANGED <<clientVars, acceptor, poolVars, responses, wake, accepting, stop_requested,
                 leaving, events, current, local, in_flight_request_count>>

\* Faulty variant: the sockets after the one that failed are forgotten.
DrainPendingFails_Forgets ==
  /\ Failures /\ LoopAt("drain_pending")
  /\ \E n \in 0 .. Len(pending_connections) - 1 :
       /\ Adopt(n)
       /\ sockets' = Without(sockets, {pending_connections[n + 1]})
  /\ IF leaving THEN pc' = "swap_completed" /\ UNCHANGED <<leaving, events>> ELSE Fail
  /\ UNCHANGED <<clients, sent, answered, acceptor, poolVars, responses, wake, accepting,
                 stop_requested, current, local, in_flight_request_count>>

\* epoll_ctl fails for a socket: it and those after it, which are in a local
\* queue by now, are closed, and the round is over.
DrainPendingFails ==
  /\ Failures /\ LoopAt("drain_pending")
  /\ \E n \in 0 .. Len(pending_connections) - 1 :
       /\ Adopt(n)
       /\ sockets' = Without(sockets, {pending_connections[i] :
                                         i \in n + 1 .. Len(pending_connections)})
  /\ IF leaving THEN pc' = "swap_completed" /\ UNCHANGED <<leaving, events>> ELSE Fail
  /\ UNCHANGED <<clients, sent, answered, acceptor, poolVars, responses, wake, accepting,
                 stop_requested, current, local, in_flight_request_count>>

\* Faulty variant: the results stay in the shared queue.
SwapCompleted_Copies ==
  /\ LoopAt("swap_completed")
  /\ local' = responses
  /\ pc' = "drain_completed"
  /\ UNCHANGED <<clientVars, acceptor, poolVars, queueVars, leaving, events, current, connVars>>

SwapCompleted ==
  /\ LoopAt("swap_completed")
  /\ local' = responses /\ responses' = <<>>
  /\ pc' = "drain_completed"
  /\ UNCHANGED <<clientVars, acceptor, poolVars, pending_connections, wake, accepting,
                 stop_requested, leaving, events, current, connVars>>

\* CloseConnection ends the coroutine, which frees the descriptor.
CloseConnection(fd) ==
  connections' = Without(connections, {fd}) /\ sockets' = Without(sockets, {fd})

\* Faulty variant: the token is not compared.
TokenMatches_FdOnly(t) == t.fd \in DOMAIN connections

\* The responses are for connections that are still there ...
TokenMatches(t) ==
  t.fd \in DOMAIN connections /\ connections[t.fd].connection_token = t.token

\* Faulty variant: only a delivered response leaves the pool.
CountCompleted_IfDelivered(t) ==
  in_flight_request_count' = in_flight_request_count - (IF TokenMatches(t) THEN 1 ELSE 0)

CountCompleted(t) ==
  in_flight_request_count' =
    IF in_flight_request_count > 0 THEN in_flight_request_count - 1 ELSE 0

\* ... or are dropped; one that does not fit closes its connection.
DrainCompletedResponses ==
  /\ LoopAt("drain_completed") /\ local # <<>>
  /\ CountCompleted(Head(local))
  /\ local' = Tail(local)
  /\ LET fd == Head(local).fd IN
     IF ~TokenMatches(Head(local))
       THEN UNCHANGED <<sockets, connections, pc, current>>
     ELSE IF Fits(connections[fd])
       THEN /\ connections' = [connections EXCEPT ![fd] =
                                 NotifyReadable(EnqueueResponse(@, Head(local).req))]
            /\ pc' = "update_interest" /\ current' = [Nobody EXCEPT !.fd = fd]
            /\ UNCHANGED sockets
       ELSE CloseConnection(fd) /\ UNCHANGED <<pc, current>>
  /\ UNCHANGED <<clients, sent, answered, acceptor, poolVars, queueVars, leaving, events,
                 next_token>>

\* Faulty variant: EPOLLOUT is never asked for.
UpdateEpollInterest_ReadOnly(fd) ==
  connections' = [connections EXCEPT ![fd].epollout = FALSE]

UpdateEpollInterest(fd) ==
  connections' = [connections EXCEPT ![fd].epollout = HasPendingWrite(connections[fd])]

\* A connection whose interest cannot be changed is closed.
UpdateAfterResponse ==
  /\ LoopAt("update_interest")
  /\ \/ UpdateEpollInterest(current.fd) /\ UNCHANGED sockets
     \/ Failures /\ CloseConnection(current.fd)
  /\ pc' = "drain_completed" /\ current' = Nobody
  /\ UNCHANGED <<clients, sent, answered, acceptor, poolVars, queueVars, leaving, events,
                 local, next_token, in_flight_request_count>>

\* Faulty variant: the eventfd is cleared after the queues have been drained.
DrainsDone_ClearsWake ==
  /\ LoopAt("drain_completed") /\ local = <<>>
  /\ pc' = IF leaving THEN "close_all" ELSE "tick"
  /\ wake' = FALSE
  /\ UNCHANGED <<clientVars, acceptor, poolVars, pending_connections, responses, accepting,
                 stop_requested, leaving, events, current, local, connVars>>

\* Faulty variant: sockets are adopted after the responses, not before them.
DrainsDone_AdoptsLast ==
  /\ LoopAt("drain_completed") /\ local = <<>>
  /\ AdoptPending
  /\ pc' = IF leaving THEN "close_all" ELSE "tick"
  /\ UNCHANGED <<clientVars, acceptor, poolVars, responses, wake, accepting, stop_requested,
                 leaving, events, current, local, in_flight_request_count>>

DrainsDone ==
  /\ LoopAt("drain_completed") /\ local = <<>>
  /\ pc' = IF leaving THEN "close_all" ELSE "tick"
  /\ UNCHANGED <<clientVars, acceptor, poolVars, queueVars, leaving, events, current, local,
                 connVars>>

\* Connection::Tick for every connection; any armed deadline may have passed.
Tick ==
  /\ LoopAt("tick")
  /\ \E late \in SUBSET {fd \in DOMAIN connections :
                           connections[fd].read_deadline \/ connections[fd].write_deadline} :
       /\ Timeouts \/ late = {}
       /\ connections' = [fd \in DOMAIN connections |->
            IF fd \in late THEN EnterError(connections[fd]) ELSE connections[fd]]
  /\ pc' = "events"
  /\ UNCHANGED <<clientVars, acceptor, poolVars, queueVars, leaving, events, current, local,
                 next_token, in_flight_request_count>>

\* EPOLLIN, then EPOLLOUT, then the rest of the event, each after the coroutine
\* resumed before has suspended again.
TakeEvent(e) ==
  /\ LoopAt("events")
  /\ events' = events \ {e}
  /\ IF e.fd \in DOMAIN connections
       THEN /\ connections' = [connections EXCEPT ![e.fd] = IF e.in THEN NotifyReadable(@) ELSE @]
            /\ pc' = "event_out" /\ current' = e
       ELSE UNCHANGED <<connections, pc, current>>
  /\ UNCHANGED <<clientVars, acceptor, poolVars, queueVars, leaving, local, next_token,
                 in_flight_request_count>>

EventOut ==
  /\ LoopAt("event_out")
  /\ connections' = [connections EXCEPT ![current.fd] =
                       IF current.out THEN NotifyWritable(@) ELSE @]
  /\ pc' = "event_end"
  /\ UNCHANGED <<clientVars, acceptor, poolVars, queueVars, leaving, events, current, local,
                 next_token, in_flight_request_count>>

\* A hang-up, a failed coroutine or ShouldClose closes the connection; otherwise
\* the interest is renewed.
EventEnd ==
  /\ LoopAt("event_end")
  /\ LET fd == current.fd
         gone == current.hup \/ ~connections[fd].coroutine_ok \/ connections[fd].should_close
     IN \/ ~gone /\ UpdateEpollInterest(fd) /\ UNCHANGED sockets
        \/ (gone \/ Failures) /\ CloseConnection(fd)
  /\ pc' = "events" /\ current' = Nobody
  /\ UNCHANGED <<clients, sent, answered, acceptor, poolVars, queueVars, leaving, events, local,
                 next_token, in_flight_request_count>>

EventsDone ==
  /\ LoopAt("events") /\ events = {}
  /\ pc' = "poll"
  /\ UNCHANGED <<clientVars, acceptor, poolVars, queueVars, leaving, events, current, local,
                 connVars>>

\* Run closes what is left and takes the completed queue out of service.
CloseAllConnections ==
  /\ LoopAt("close_all")
  /\ sockets' = Without(sockets, DOMAIN connections)
  /\ connections' = <<>>
  /\ accepting' = FALSE
  /\ pc' = "ended"
  /\ UNCHANGED <<clients, sent, answered, acceptor, poolVars, pending_connections, responses,
                 wake, stop_requested, leaving, events, current, local, next_token,
                 in_flight_request_count>>

-----------------------------------------------------------------------------
(* The running coroutine of a connection, on the loop's thread.            *)

\* ReadFromSocket empties the socket; a reset connection may fail instead.
ReadRequestCo(fd) ==
  /\ connections[fd].at = "read"
  /\ \/ /\ connections' = [connections EXCEPT ![fd] =
                             OnReadable(@, sockets[fd].wire, sockets[fd].fin)]
        /\ sockets' = [sockets EXCEPT ![fd].wire = <<>>]
     \/ /\ sockets[fd].fin
        /\ connections' = [connections EXCEPT ![fd] = CoroutineFails(@)]
        /\ UNCHANGED sockets
  /\ UNCHANGED <<clients, sent, answered, acceptor, poolVars, queueVars, loopVars, next_token,
                 in_flight_request_count>>

NextFrame(fd) == Head(connections[fd].read_buffer)

\* The frame at the head of the read buffer has arrived ...
Complete(c) ==
  c.read_buffer # <<>> /\ (Len(c.read_buffer) > 1 \/ Head(c.read_buffer).part = "whole")

\* ... and is taken out of it, what follows it stays.
Consumed(c) ==
  [c EXCEPT !.read_buffer = IF Head(@).part = "whole" THEN Tail(@) ELSE Tail(Tail(@))]

\* DispatchRequestToThreadPool: Submit, then the counters.  Submit is one step
\* here and does not block (in ThreadPool it does, when every queue is full).
\* To use a destroyed pool is undefined: of what may happen there, the model
\* has a Submit that accepts a task, which never runs, and one that refuses.
DispatchRequest(fd) ==
  /\ NextFrame(fd).kind = "call" /\ pool # "none"
  /\ \/ /\ pool = "open"
        /\ tasks' = tasks \cup {[fd |-> fd, token |-> connections[fd].connection_token,
                                 req |-> NextFrame(fd), stage |-> "run"]}
        /\ in_flight_request_count' = in_flight_request_count + 1
        /\ connections' = [connections EXCEPT ![fd] = Consumed(@)]
     \/ /\ pool = "destroyed"
        /\ in_flight_request_count' = in_flight_request_count + 1
        /\ connections' = [connections EXCEPT ![fd] = Consumed(@)]
        /\ UNCHANGED tasks
     \/ /\ pool \in {"stopped", "destroyed"}
        /\ connections' = [connections EXCEPT ![fd] = CoroutineFails(@)]
        /\ UNCHANGED <<tasks, in_flight_request_count>>

\* A heartbeat or an unparsable request is answered by the connection itself ...
AnswerAtOnce(fd) ==
  /\ connections' = [connections EXCEPT ![fd] =
       IF Fits(@) THEN Consumed(EnqueueResponse(@, NextFrame(fd))) ELSE CoroutineFails(@)]
  /\ UNCHANGED <<tasks, in_flight_request_count>>

AnswerPing(fd) == NextFrame(fd).kind = "ping" /\ AnswerAtOnce(fd)

\* ... and without a business pool every request: the handler is run here.
HandleOneRequest(fd) == NextFrame(fd).kind = "call" /\ pool = "none" /\ AnswerAtOnce(fd)

\* A header is checked as soon as it is there, before the body.
RejectHeader(fd) ==
  /\ NextFrame(fd).kind = "bad"
  /\ connections' = [connections EXCEPT ![fd] = CoroutineFails(@)]
  /\ UNCHANGED <<tasks, in_flight_request_count>>

\* TryParseRequests, a frame at a time, then the rest of the coroutine's round.
\* It stops at a frame that is not complete, whose header may be incomplete too.
TryParseRequests(fd) ==
  /\ connections[fd].at = "parse"
  /\ \/ /\ ~Complete(connections[fd])
        /\ connections' = [connections EXCEPT ![fd] = HandleConnectionCo(@)]
        /\ UNCHANGED <<tasks, in_flight_request_count>>
     \/ /\ Complete(connections[fd])
        /\ DispatchRequest(fd) \/ AnswerPing(fd) \/ HandleOneRequest(fd)
     \/ connections[fd].read_buffer # <<>> /\ RejectHeader(fd)
  /\ UNCHANGED <<clientVars, acceptor, pool, queueVars, loopVars, next_token>>

\* FlushWrites sends what the socket takes; after a hang-up it may fail.
WriteResponseCo(fd) ==
  /\ connections[fd].at = "flush"
  /\ LET room == SendBuffer - Len(sockets[fd].out)
         n == IF room < Len(connections[fd].write_buffer)
                THEN room ELSE Len(connections[fd].write_buffer)
     IN \/ /\ connections' = [connections EXCEPT ![fd] = OnWritable(@, n)]
           /\ sockets' = [sockets EXCEPT ![fd].out =
                            @ \o SubSeq(connections[fd].write_buffer, 1, n)]
        \/ /\ sockets[fd].fin
           /\ connections' = [connections EXCEPT ![fd] = CoroutineFails(@)]
           /\ UNCHANGED sockets
  /\ UNCHANGED <<clients, sent, answered, acceptor, poolVars, queueVars, loopVars, next_token,
                 in_flight_request_count>>

-----------------------------------------------------------------------------

LoopStep ==
  \/ EpollWait \/ EpollWaitFails \/ LeaveRun \/ DrainWakeFd \/ DrainWakeFdFails
  \/ DrainPendingConnections \/ DrainPendingFails \/ SwapCompleted
  \/ DrainCompletedResponses \/ UpdateAfterResponse \/ DrainsDone \/ Tick
  \/ (\E e \in events : TakeEvent(e)) \/ EventOut \/ EventEnd \/ EventsDone
  \/ CloseAllConnections
  \/ \E fd \in DOMAIN connections :
       ReadRequestCo(fd) \/ TryParseRequests(fd) \/ WriteResponseCo(fd)

ClientStep(fd) ==
  \/ \E kind \in Kinds : ClientSends(fd, kind)
  \/ ClientSendsRest(fd) \/ ClientReceives(fd) \/ ClientCloses(fd)

Next ==
  \/ LoopStep
  \/ \E t \in tasks : RunHandler(t) \/ WakeLoop(t)
  \/ Wakeup \/ StopPool \/ JoinPool \/ RequestStop
  \/ EnqueueConnection
  \/ \E fd \in Fds : AcceptConnection(fd) \/ ClientStep(fd)

Spec == Init /\ [][Next]_vars

\* The loop, the acceptor, the pool and the stopping thread keep running;
\* clients that stay connected read what they are sent.
Fairness ==
  /\ WF_vars(LoopStep)
  /\ WF_vars(EnqueueConnection \/ Wakeup) /\ WF_vars(JoinPool) /\ WF_vars(RequestStop)
  /\ WF_vars(\E t \in tasks : RunHandler(t) \/ WakeLoop(t))
  /\ \A fd \in Fds : WF_vars(ClientReceives(fd))

FairSpec == Spec /\ Fairness

-----------------------------------------------------------------------------
(* Properties.                                                             *)

Requests ==
  [id: 1 .. MaxRequests, kind: Kinds, client: 1 .. MaxClients, part: {"whole", "first"}]
Dispatches == [fd: Fds, token: 1 .. MaxClients, req: Requests, stage: {"run", "wake"}]

TypeOK ==
  /\ DOMAIN connections \subseteq DOMAIN sockets /\ DOMAIN sockets \subseteq Fds
  /\ answered \subseteq Requests /\ tasks \subseteq Dispatches
  /\ responses \in Seq(Dispatches) /\ local \in Seq(Dispatches)
  /\ next_token \in 1 .. MaxClients + 1
  /\ in_flight_request_count \in 0 .. MaxRequests
  /\ \A fd \in DOMAIN connections :
       /\ connections[fd].at \in {"wait_read", "wait_write", "read", "parse", "flush", "done"}
       /\ connections[fd].write_buffer \in Seq(Requests)
       /\ Len(connections[fd].write_buffer) <= MaxWriteBuffer

\* The places in a sequence of parts where a frame begins.
Starts(parts) == {i \in DOMAIN parts : parts[i].part # "rest"}

\* Every copy of a request or of its response on its way through the server.
Copies ==
  {<<r.id, "answered">> : r \in answered}
  \cup {<<t.req.id, "pool">> : t \in {u \in tasks : u.stage = "run"}}
  \cup {<<responses[i].req.id, "queue", i>> : i \in DOMAIN responses}
  \cup {<<local[i].req.id, "local", i>> : i \in DOMAIN local}
  \cup (UNION {{<<sockets[fd].wire[i].id, "wire", fd, i>> : i \in Starts(sockets[fd].wire)}
               \cup {<<sockets[fd].out[i].id, "out", fd, i>> : i \in DOMAIN sockets[fd].out}
               : fd \in DOMAIN sockets})
  \cup (UNION {LET c == connections[fd] IN
               {<<c.read_buffer[i].id, "read", fd, i>> : i \in Starts(c.read_buffer)}
               \cup {<<c.write_buffer[i].id, "write", fd, i>> : i \in DOMAIN c.write_buffer}
               : fd \in DOMAIN connections})

\* A request is answered at most once: it is never in two places on its way
\* from the socket through the pool and back.
RequestInOnePlace == \A x, y \in Copies : x[1] = y[1] => x = y

\* A response is queued and sent only on the connection its request came from,
\* also when the descriptor has been reused meanwhile (the token check of
\* DrainCompletedResponses).
ResponseToOwner ==
  \A fd \in DOMAIN connections :
    /\ \A i \in DOMAIN connections[fd].write_buffer :
         connections[fd].write_buffer[i].client = connections[fd].peer
    /\ \A i \in DOMAIN sockets[fd].out : sockets[fd].out[i].client = connections[fd].peer

\* An event that epoll_wait reported is applied to the connection it was
\* reported for: within a round no descriptor is closed and adopted again.
EventsMatchConnections ==
  \A e \in events \cup {current} :
    e.fd \in DOMAIN connections /\ e.token # 0 => connections[e.fd].connection_token = e.token

\* When the loop goes to sleep in epoll_wait, every connection with something to
\* write waits for EPOLLOUT and has asked for it, and no other asks for it.
WritersAreArmed ==
  pc = "poll" =>
    \A fd \in DOMAIN connections :
      LET c == connections[fd] IN
      ~c.should_close => /\ c.epollout <=> HasPendingWrite(c)
                         /\ c.at = (IF HasPendingWrite(c) THEN "wait_write" ELSE "wait_read")

\* A deadline is armed only while the connection waits for what it bounds: an
\* idle connection has no write deadline, one that writes no read deadline.
DeadlinesBoundWaits ==
  \A fd \in DOMAIN connections :
    LET c == connections[fd] IN
    /\ c.write_deadline => HasPendingWrite(c)
    /\ c.read_deadline => c.at = "wait_read"

\* No descriptor is leaked: an open socket belongs to a connection, waits in
\* pending_connections_ or is in the acceptor's hands, to exactly one of them, also
\* when the loop has failed and ended.
SocketsOwned ==
  LET queued == {pending_connections[i] : i \in DOMAIN pending_connections}
      handed == IF acceptor.at = "queue" THEN {acceptor.fd} ELSE {}
  IN /\ DOMAIN sockets = DOMAIN connections \cup queued \cup handed
     /\ Cardinality(DOMAIN sockets) =
          Cardinality(DOMAIN connections) + Len(pending_connections) + Cardinality(handed)

\* in_flight_request_count_ is the number of requests handed to the pool whose
\* result the loop has not taken yet, until the pool is destroyed or the loop ends.
InFlightExact ==
  pool # "destroyed" /\ accepting =>
    in_flight_request_count =
      Cardinality({t \in tasks : t.stage = "run"}) + Len(responses) + Len(local)

Connected(client) == \E fd \in DOMAIN sockets : sockets[fd].client = client

\* A request of the client is on the wire to its last byte.
Arrived(id, client) ==
  \E fd \in DOMAIN sockets :
    /\ sockets[fd].client = client
    /\ \E i \in DOMAIN sockets[fd].wire :
         sockets[fd].wire[i].id = id /\ sockets[fd].wire[i].part # "first"

\* Every request of a client is answered, also one that arrives in two parts, or
\* its connection is closed by either side.
RequestsAnswered ==
  \A id \in 1 .. MaxRequests, client \in 1 .. MaxClients :
    Arrived(id, client)
      ~> ((\E r \in answered : r.id = id) \/ ~Connected(client)
          \/ \E fd \in DOMAIN sockets : sockets[fd].client = client /\ sockets[fd].fin)

\* A stopped loop closes its connections and ends, whatever its clients do.
StopTerminates == stop_requested ~> (pc = "ended" /\ sockets = <<>>)
=============================================================================

------------------------------ MODULE RpcClient ------------------------------
(***************************************************************************)
(* The RPC client (src/src/client/rpc_client.cpp, event_loop.cpp): the     *)
(* threads that make calls, the dispatcher thread of each connection, the  *)
(* two mutexes, and the table of PendingCalls that they share.             *)
(*                                                                         *)
(* Connections are numbered; a dispatcher has the number of the connection *)
(* it was started for.  connect_mu_ is only held for short sections, each  *)
(* of them one step; write_mu_ is explicit, because a failing call keeps   *)
(* it while it closes the client.  The eventfd of the event loop is left   *)
(* out: WaitOnce returns after 50 ms at the latest, woken or not.          *)
(***************************************************************************)
EXTENDS Naturals

CONSTANTS
  Ids,        \* calls: CallAsync or CallCo, each with its request id
  Closes,     \* explicit calls of Close, the destructor's included
  ThreadOf,   \* the application thread that makes each of them
  MaxConns,   \* bound: connect succeeds so many times
  Faults,     \* what may go wrong, a subset of FaultKinds
  Heartbeat,  \* heartbeat_interval and heartbeat_timeout are not 0
  NoResult, NullOpt, Fallback, NoId, None

Conns == 1 .. MaxConns
Ops == Ids \cup Closes
\* The peer hangs up, recv or send fails, a frame is bad, the event loop cannot
\* be set up or epoll_wait fails.
FaultKinds == {"hang up", "recv", "send", "frame", "event loop"}
Results == {"response", "send failed", "connection closed", "dispatcher stopped",
            "call timeout"}

ASSUME ClientAssumption ==
  /\ MaxConns \in Nat /\ Faults \subseteq FaultKinds /\ Heartbeat \in BOOLEAN
  /\ Ids \cap Closes = {} /\ DOMAIN ThreadOf = Ops /\ None \notin Ops
  /\ {NoResult, NullOpt, Fallback} \cap Results = {}

VARIABLES
  slots, async_waiters, coroutine_waiters, running, caller, outcome, first,
  sock_,                \* the connection that is open, 0 for none
  dispatcher_running_,
  dispatcher_thread_,   \* the dispatcher that Close has to join, 0 for none
  write_mu_,            \* the call or dispatcher that holds the mutex, or None
  pc,                   \* where each call and each Close stands
  to_join,              \* local of Close: the dispatcher it joins, or 0
  dpc, fd, read_buffer, peer_closed,  \* where each dispatcher stands; its locals
  sent, inbox, hung_up, \* of each connection: requests, responses, end of stream
  before                \* history: calls that were bound when a Close began

table == <<slots, async_waiters, coroutine_waiters, running, caller, outcome, first>>
client == <<sock_, dispatcher_running_, dispatcher_thread_>>
ops == <<pc, to_join, before>>
dispatchers == <<dpc, fd, read_buffer, peer_closed>>
network == <<sent, inbox, hung_up>>
vars == <<table, client, write_mu_, ops, dispatchers, network>>

\* The table, settled by dispatchers and by whoever is inside Close.
PC == INSTANCE PendingCalls WITH Threads <- Conns \cup Ops

Init ==
  /\ PC!Init
  /\ sock_ = 0 /\ dispatcher_running_ = FALSE /\ dispatcher_thread_ = 0
  /\ write_mu_ = None
  /\ pc = [o \in Ops |-> "idle"]
  /\ to_join = [o \in Ops |-> 0]
  /\ before = [c \in Closes |-> {}]
  /\ dpc = [g \in Conns |-> "none"]
  /\ fd = [g \in Conns |-> 0]
  /\ read_buffer = [g \in Conns |-> {}]
  /\ peer_closed = [g \in Conns |-> FALSE]
  /\ sent = [g \in Conns |-> {}]
  /\ inbox = [g \in Conns |-> {}]
  /\ hung_up = [g \in Conns |-> FALSE]

Goto(o, state) == pc' = [pc EXCEPT ![o] = state]
DGoto(g, state) == dpc' = [dpc EXCEPT ![g] = state]

\* An application thread does one thing at a time; a call whose future has
\* been returned, or whose coroutine is suspended, does not occupy it.
ThreadFree(o) ==
  \A p \in Ops \ {o} : ThreadOf[p] = ThreadOf[o] => pc[p] \in {"idle", "bound", "done"}

-----------------------------------------------------------------------------
(* CallAsync and CallCo.                                                   *)

\* Connect does nothing while there is a socket.  Otherwise it fails, and the
\* call with it, or opens the next connection and starts its dispatcher.
Connect(id) ==
  /\ pc[id] = "idle" /\ ThreadFree(id)
  /\ \/ /\ sock_ # 0
        /\ Goto(id, "connected")
        /\ UNCHANGED <<client, dispatchers>>
     \/ /\ sock_ = 0
        /\ Goto(id, "done")
        /\ UNCHANGED <<client, dispatchers>>
     \/ /\ sock_ = 0
        /\ \E g \in Conns :
             /\ dpc[g] = "none" /\ \A h \in Conns : h < g => dpc[h] # "none"
             /\ sock_' = g
             /\ dispatcher_running_' = TRUE
             /\ dispatcher_thread_' = g
             /\ DGoto(g, "start")
        /\ Goto(id, "connected")
        /\ UNCHANGED <<fd, read_buffer, peer_closed>>
  /\ UNCHANGED <<table, write_mu_, to_join, before, network>>

\* NextRequestId and Add.
AddCall(id) ==
  /\ pc[id] = "connected"
  /\ PC!Add(id)
  /\ Goto(id, "added")
  /\ UNCHANGED <<client, write_mu_, to_join, before, dispatchers, network>>

LockWrite(id) ==
  /\ pc[id] = "added" /\ write_mu_ = None
  /\ write_mu_' = id
  /\ Goto(id, "locked")
  /\ UNCHANGED <<table, client, to_join, before, dispatchers, network>>

\* WriteMessage to whatever sock_ is now.  The kernel also takes bytes for a
\* peer that has hung up already.
WriteMessage(id) ==
  /\ pc[id] = "locked" /\ sock_ # 0
  /\ sent' = [sent EXCEPT ![sock_] = @ \cup {id}]
  /\ write_mu_' = None
  /\ Goto(id, "written")
  /\ UNCHANGED <<table, client, to_join, before, dispatchers, inbox, hung_up>>

\* No socket, or the write fails: Complete and TryPop on the call's own slot,
\* then Close, with write_mu_ held to the end.
WriteFails(id) ==
  /\ pc[id] = "locked" /\ (sock_ = 0 \/ "send" \in Faults)
  /\ PC!SendFailed(id, "send failed")
  /\ Goto(id, "pop")
  /\ UNCHANGED <<client, write_mu_, to_join, before, dispatchers, network>>

PopFailed(id) ==
  /\ pc[id] = "pop"
  /\ PC!TryPop(id)
  /\ Goto(id, "close")
  /\ UNCHANGED <<client, write_mu_, to_join, before, dispatchers, network>>

\* The end of CallAsync: the promise is put into the slot ...
BindFuture(id) ==
  /\ pc[id] = "written"
  /\ PC!BindAsync(id)
  /\ Goto(id, "bound")
  /\ UNCHANGED <<client, write_mu_, to_join, before, dispatchers, network>>

\* ... and of CallCo: co_await puts the coroutine's handle there.
AwaitSuspend(id) ==
  /\ pc[id] = "written"
  /\ PC!BindCoroutine(id)
  /\ Goto(id, "bound")
  /\ UNCHANGED <<client, write_mu_, to_join, before, dispatchers, network>>

\* await_resume: the coroutine takes its result, on the thread that resumed
\* it or, if the result was there already, on its own.
AwaitResume(id) ==
  /\ pc[id] = "bound"
  /\ PC!TryPop(id)
  /\ UNCHANGED <<client, write_mu_, ops, dispatchers, network>>

DeadlinePasses(id) ==
  /\ PC!DeadlinePasses(id)
  /\ UNCHANGED <<client, write_mu_, ops, dispatchers, network>>

-----------------------------------------------------------------------------
(* Close, called by the application or by a call that could not write.     *)

\* Faulty variant: nothing to join once the dispatcher has stopped by itself.
CloseSection_IfRunning(o) ==
  /\ (o \in Closes /\ pc[o] = "idle" /\ ThreadFree(o)) \/ pc[o] = "close"
  /\ dispatcher_running_' = FALSE /\ sock_' = 0
  /\ to_join' = [to_join EXCEPT ![o] = IF dispatcher_running_ THEN dispatcher_thread_ ELSE 0]
  /\ dispatcher_thread_' = 0
  /\ Goto(o, "join")
  /\ UNCHANGED <<table, write_mu_, before, dispatchers, network>>

\* The part under connect_mu_.  The shutdown wakes a dispatcher that waits for
\* the socket, unless the descriptor is gone before epoll_wait returns.  What
\* was under way on the connection is gone with it.
CloseSection(o) ==
  /\ (o \in Closes /\ pc[o] = "idle" /\ ThreadFree(o)) \/ pc[o] = "close"
  /\ dispatcher_running_' = FALSE /\ sock_' = 0
  /\ to_join' = [to_join EXCEPT ![o] = dispatcher_thread_]
  /\ dispatcher_thread_' = 0
  /\ before' = [c \in Closes |->
       IF c = o THEN {id \in Ids : caller[id] \in {"future", "suspended"}} ELSE before[c]]
  /\ \/ UNCHANGED dpc
     \/ \E g \in Conns : dpc[g] = "wait" /\ fd[g] = sock_ /\ DGoto(g, "read")
  /\ sent' = [g \in Conns |-> {}] /\ inbox' = [g \in Conns |-> {}]
  /\ hung_up' = [g \in Conns |-> FALSE]
  /\ Goto(o, "join")
  /\ UNCHANGED <<table, write_mu_, fd, read_buffer, peer_closed>>

Join(o) ==
  /\ pc[o] = "join"
  /\ to_join[o] # 0 => dpc[to_join[o]] = "dead"
  /\ to_join' = [to_join EXCEPT ![o] = 0]
  /\ Goto(o, "fail")
  /\ UNCHANGED <<table, client, write_mu_, before, dispatchers, network>>

\* Faulty variant: the calls are left to a dispatcher that still runs.
CloseFailAll_IfStopped(o) ==
  /\ pc[o] = "fail"
  /\ IF dispatcher_running_ THEN UNCHANGED table ELSE PC!FailAll(o, "connection closed")
  /\ Goto(o, "wake")
  /\ UNCHANGED <<client, write_mu_, to_join, before, dispatchers, network>>

CloseFailAll(o) ==
  /\ pc[o] = "fail"
  /\ PC!FailAll(o, "connection closed")
  /\ Goto(o, "wake")
  /\ UNCHANGED <<client, write_mu_, to_join, before, dispatchers, network>>

\* Close returns once FailAll has woken the waiters; a call releases write_mu_.
CloseReturn(o) ==
  /\ pc[o] = "wake" /\ PC!Free(o)
  /\ write_mu_' = IF write_mu_ = o THEN None ELSE write_mu_
  /\ Goto(o, "done")
  /\ UNCHANGED <<table, client, to_join, before, dispatchers, network>>

\* Complete, FailAll and FailTimedOut wake what they have taken.
Wake(t) ==
  /\ \E id \in Ids : PC!Resume(t, id) \/ \E r \in Results : PC!SetValue(t, id, r)
  /\ UNCHANGED <<client, write_mu_, ops, dispatchers, network>>

-----------------------------------------------------------------------------
(* DispatcherLoop.  A step that uses the table waits for the wake-ups of    *)
(* the operation before it.                                                *)

DStart(g) ==
  /\ dpc[g] = "start"
  /\ fd' = [fd EXCEPT ![g] = sock_]
  /\ DGoto(g, IF sock_ = 0 THEN "dead" ELSE "setup")
  /\ UNCHANGED <<table, client, write_mu_, ops, read_buffer, peer_closed, network>>

\* Init makes the event loop and SetReadFd registers the descriptor.  If Close
\* has closed it in the meantime epoll_ctl fails, or its number belongs to the
\* socket of a new connection.  After a failing SetReadFd the calls are failed
\* only if the client is still meant to run, after a failing Init always.
DSetup(g) ==
  /\ dpc[g] = "setup"
  /\ \/ /\ sock_ # 0
        /\ fd' = [fd EXCEPT ![g] = sock_]
        /\ DGoto(g, "loop") /\ UNCHANGED table
     \/ /\ (sock_ # fd[g] \/ "event loop" \in Faults) /\ ~dispatcher_running_
        /\ DGoto(g, "dead") /\ UNCHANGED <<table, fd>>
     \/ /\ (sock_ # fd[g] /\ dispatcher_running_) \/ "event loop" \in Faults
        /\ PC!FailAll(g, "dispatcher stopped")
        /\ DGoto(g, "abort") /\ UNCHANGED fd
  /\ UNCHANGED <<client, write_mu_, ops, read_buffer, peer_closed, network>>

DLoop(g) ==
  /\ dpc[g] = "loop" /\ PC!Free(g)
  /\ IF dispatcher_running_
     THEN DGoto(g, "wait") /\ UNCHANGED <<fd, read_buffer, peer_closed>>
     ELSE /\ DGoto(g, "dead")
          /\ fd' = [fd EXCEPT ![g] = 0]
          /\ read_buffer' = [read_buffer EXCEPT ![g] = {}]
          /\ peer_closed' = [peer_closed EXCEPT ![g] = FALSE]
  /\ UNCHANGED <<table, client, write_mu_, ops, network>>

\* kTimeout: fail the calls whose deadline has passed ...
DTimeout(g) ==
  /\ dpc[g] = "wait"
  /\ ~(sock_ = fd[g] /\ (inbox[fd[g]] # {} \/ hung_up[fd[g]]))
  /\ PC!FailTimedOut(g, "call timeout")
  /\ DGoto(g, "idle")
  /\ UNCHANGED <<client, write_mu_, ops, fd, read_buffer, peer_closed, network>>

\* ... then look at the heartbeat: nothing to do, a probe is due, or the peer
\* has been silent for too long.
DIdle(g) ==
  /\ dpc[g] = "idle" /\ PC!Free(g)
  /\ \/ DGoto(g, "loop") /\ UNCHANGED table
     \/ Heartbeat /\ DGoto(g, "send") /\ UNCHANGED table
     \/ Heartbeat /\ PC!FailAll(g, "dispatcher stopped") /\ DGoto(g, "stop")
  /\ UNCHANGED <<client, write_mu_, ops, fd, read_buffer, peer_closed, network>>

\* SendHeartbeatRequest: lock write_mu_, write if there is a socket, unlock.
SendHeartbeatRequest(g) ==
  /\ dpc[g] = "send" /\ write_mu_ = None
  /\ DGoto(g, "loop")
  /\ UNCHANGED <<table, client, write_mu_, ops, fd, read_buffer, peer_closed, network>>

\* kError: epoll_wait has failed.
DWaitError(g) ==
  /\ dpc[g] = "wait" /\ "event loop" \in Faults
  /\ PC!FailAll(g, "dispatcher stopped")
  /\ DGoto(g, "stop")
  /\ UNCHANGED <<client, write_mu_, ops, fd, read_buffer, peer_closed, network>>

DReadable(g) ==
  /\ dpc[g] = "wait"
  /\ sock_ = fd[g] /\ (inbox[fd[g]] # {} \/ hung_up[fd[g]])
  /\ DGoto(g, "read")
  /\ UNCHANGED <<table, client, write_mu_, ops, fd, read_buffer, peer_closed, network>>

\* The recv loop on fd drains what has arrived.  If Close has closed fd in the
\* meantime, its number may belong to the socket of a new connection.
DRead(g) ==
  /\ dpc[g] = "read" /\ sock_ # 0
  /\ read_buffer' = [read_buffer EXCEPT ![g] = @ \cup inbox[sock_]]
  /\ inbox' = [inbox EXCEPT ![sock_] = {}]
  /\ peer_closed' = [peer_closed EXCEPT ![g] = hung_up[sock_]]
  /\ DGoto(g, IF dispatcher_running_ THEN "frames" ELSE "loop")
  /\ UNCHANGED <<table, client, write_mu_, ops, fd, sent, hung_up>>

\* A fatal recv error, for a closed descriptor or because of the network.
DReadError(g) ==
  /\ dpc[g] = "read" /\ (sock_ # fd[g] \/ "recv" \in Faults)
  /\ PC!FailAll(g, "dispatcher stopped")
  /\ DGoto(g, "stop")
  /\ UNCHANGED <<client, write_mu_, ops, fd, read_buffer, peer_closed, network>>

\* HandleReadableFrames, one frame: complete the call that it answers.
DFrame(g) ==
  /\ dpc[g] = "frames" /\ PC!Free(g)
  /\ \E id \in read_buffer[g] :
       /\ read_buffer' = [read_buffer EXCEPT ![g] = @ \ {id}]
       /\ \/ PC!Complete(g, id, "response")
          \/ /\ ~(PC!Pending(id) /\ ~slots[id].done)
             /\ UNCHANGED table
  /\ UNCHANGED <<client, write_mu_, ops, dpc, fd, peer_closed, network>>

\* A frame with a bad length or that does not parse.
DBadFrame(g) ==
  /\ dpc[g] = "frames" /\ "frame" \in Faults
  /\ PC!FailAll(g, "dispatcher stopped")
  /\ DGoto(g, "stop")
  /\ UNCHANGED <<client, write_mu_, ops, fd, read_buffer, peer_closed, network>>

\* All frames handled.  At the end of the stream the calls that are left fail.
DFramesDone(g) ==
  /\ dpc[g] = "frames" /\ PC!Free(g) /\ read_buffer[g] = {}
  /\ IF peer_closed[g]
     THEN PC!FailAll(g, "dispatcher stopped") /\ DGoto(g, "stop")
     ELSE UNCHANGED table /\ DGoto(g, "loop")
  /\ UNCHANGED <<client, write_mu_, ops, fd, read_buffer, peer_closed, network>>

\* dispatcher_running_.store(false), whatever connection it is about by now.
\* sock_ is not reset.
DStop(g) ==
  /\ dpc[g] \in {"stop", "abort"} /\ PC!Free(g)
  /\ dispatcher_running_' = FALSE
  /\ DGoto(g, IF dpc[g] = "stop" THEN "loop" ELSE "dead")
  /\ UNCHANGED <<table, sock_, dispatcher_thread_, write_mu_, ops, fd, read_buffer,
                 peer_closed, network>>

-----------------------------------------------------------------------------
(* The server.                                                             *)

Reply(g, id) ==
  /\ g = sock_ /\ id \in sent[g] /\ ~hung_up[g]
  /\ sent' = [sent EXCEPT ![g] = @ \ {id}]
  /\ inbox' = [inbox EXCEPT ![g] = @ \cup {id}]
  /\ UNCHANGED <<table, client, write_mu_, ops, dispatchers, hung_up>>

HangUp(g) ==
  /\ "hang up" \in Faults /\ g = sock_ /\ ~hung_up[g]
  /\ hung_up' = [hung_up EXCEPT ![g] = TRUE]
  /\ UNCHANGED <<table, client, write_mu_, ops, dispatchers, sent, inbox>>

-----------------------------------------------------------------------------

InCall(id) == AddCall(id) \/ LockWrite(id) \/ WriteMessage(id) \/ WriteFails(id)
              \/ PopFailed(id) \/ BindFuture(id) \/ AwaitSuspend(id) \/ AwaitResume(id)

InClose(o) == Join(o) \/ CloseFailAll(o) \/ CloseReturn(o)

DispatcherLoop(g) ==
  DStart(g) \/ DSetup(g) \/ DLoop(g) \/ DTimeout(g) \/ DIdle(g) \/ SendHeartbeatRequest(g)
  \/ DWaitError(g) \/ DReadable(g) \/ DRead(g) \/ DReadError(g) \/ DFrame(g) \/ DBadFrame(g)
  \/ DFramesDone(g) \/ DStop(g)

Next ==
  \/ \E id \in Ids : Connect(id) \/ InCall(id) \/ DeadlinePasses(id)
  \/ \E o \in Ops : CloseSection(o) \/ InClose(o)
  \/ \E t \in Conns \cup Ops : Wake(t)
  \/ \E g \in Conns : DispatcherLoop(g) \/ HangUp(g) \/ \E id \in Ids : Reply(g, id)

Spec == Init /\ [][Next]_vars

\* Threads are scheduled, write_mu_ is handed out fairly and time passes.
\* Nothing is assumed of the application, the peer or the network: the server
\* need not reply.
Fairness ==
  /\ \A id \in Ids : WF_vars(InCall(id)) /\ SF_vars(LockWrite(id)) /\ WF_vars(DeadlinePasses(id))
  /\ \A o \in Ops : WF_vars(InClose(o)) /\ WF_vars(pc[o] = "close" /\ CloseSection(o))
  /\ \A t \in Conns \cup Ops : WF_vars(Wake(t))
  /\ \A g \in Conns : WF_vars(DispatcherLoop(g)) /\ SF_vars(SendHeartbeatRequest(g))

FairSpec == Spec /\ Fairness

-----------------------------------------------------------------------------
(* Properties.                                                             *)

TypeOK ==
  /\ PC!TypeOK
  /\ sock_ \in 0 .. MaxConns /\ dispatcher_running_ \in BOOLEAN
  /\ dispatcher_thread_ \in 0 .. MaxConns
  /\ write_mu_ \in Ids \cup {None}
  /\ pc \in [Ops -> {"idle", "connected", "added", "locked", "written", "pop", "bound",
                     "close", "join", "fail", "wake", "done"}]
  /\ to_join \in [Ops -> 0 .. MaxConns]
  /\ dpc \in [Conns -> {"none", "start", "setup", "loop", "wait", "idle", "send", "read",
                        "frames", "stop", "abort", "dead"}]
  /\ fd \in [Conns -> 0 .. MaxConns]
  /\ read_buffer \in [Conns -> SUBSET Ids] /\ peer_closed \in [Conns -> BOOLEAN]
  /\ sent \in [Conns -> SUBSET Ids] /\ inbox \in [Conns -> SUBSET Ids]
  /\ hung_up \in [Conns -> BOOLEAN] /\ before \in [Closes -> SUBSET Ids]

\* No dispatcher thread is leaked: each one that runs is the client's
\* dispatcher_thread_ or is being joined by one Close, never both, and a client
\* without a socket has none.  So Connect never overwrites a joinable
\* std::thread, and once every Close has returned on a client without a socket,
\* no thread uses the client any more.  That Close returns is not part of it.
DispatcherOwned ==
  /\ sock_ = 0 => dispatcher_thread_ = 0
  /\ \A g \in Conns : dpc[g] \notin {"none", "dead"} =>
       LET joiners == {o \in Ops : pc[o] = "join" /\ to_join[o] = g} IN
       IF dispatcher_thread_ = g THEN joiners = {} ELSE \E o \in joiners : joiners = {o}

\* When Close returns, a result has been written for every call that was
\* waiting when it began, whatever dispatchers and other threads did.
CloseSettlesCalls ==
  \A c \in Closes : pc[c] = "done" => \A id \in before[c] : first[id] # NoResult

\* With the client's use of the table (send, then bind, while dispatchers and
\* Close settle it), the defensive errors of BindAsync and of the coroutine
\* awaiter never reach a caller.
NoFallback == PC!NoFallback

Returned(id) == pc[id] = "done" \/ (pc[id] = "bound" /\ caller[id] = "returned")

\* A call that has begun returns: with the response, or with an error when the
\* deadline passes or the connection is lost.  ("If the connection is lost, a
\* reconnect is attempted automatically", rpc_client.h:76.)
CallsReturn == \A id \in Ids : (pc[id] # "idle") ~> Returned(id)
=============================================================================

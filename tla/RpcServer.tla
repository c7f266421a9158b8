----------------------------- MODULE RpcServer ------------------------------
(***************************************************************************)
(* The lifecycle of the server (src/src/server/rpc_server.cpp): threads    *)
(* that call Start and Stop.  Start runs the accept loop and owns the      *)
(* acceptor, the business pool and the workers, which it creates and       *)
(* destroys without lifecycle_mu_; a section under lifecycle_mu_ is one    *)
(* step, everything else is one step per resource.  stop_requested_ and    *)
(* accepting_new_connections_, which are stored one after the other (lines *)
(* 200-201, 316-317, 347-348), change in one step: only the accept loop    *)
(* reads them, it accepts nothing once either says so, and when the stores *)
(* of a Start and a Stop interleave, stop_requested_ ends as in one of the *)
(* two orders.  A connection that its worker refuses is left out.          *)
(***************************************************************************)
EXTENDS Naturals

CONSTANTS
  Threads,       \* threads that use the server
  WorkerCount,   \* worker_count_
  MaxCalls,      \* bound on the calls made by all threads together
  MaxAccepts     \* bound on the connections a worker is given

ASSUME RpcServerAssumption ==
  /\ WorkerCount \in Nat \ {0} /\ MaxCalls \in Nat /\ MaxAccepts \in Nat

VARIABLES
  running, stop_requested, accepting_new_connections,
  acceptor, pool,  \* open, started
  workers,         \* number of entries of workers_
  next_worker,
  given,           \* connections each worker was given (total_accepted_)
  pc, calls

flags == <<running, stop_requested, accepting_new_connections>>
dispatch == <<next_worker, given>>
vars == <<flags, acceptor, pool, workers, dispatch, pc, calls>>

WorkerIds == 0 .. WorkerCount - 1

Init ==
  /\ running = FALSE /\ stop_requested = FALSE /\ accepting_new_connections = FALSE
  /\ acceptor = FALSE /\ pool = FALSE /\ workers = 0
  /\ next_worker = 0 /\ given = [w \in WorkerIds |-> 0]
  /\ pc = [t \in Threads |-> "idle"] /\ calls = 0

At(t, place) == pc[t] = place
Goto(t, place) == pc' = [pc EXCEPT ![t] = place]

InStart ==
  {"publish", "init_acceptor", "start_pool", "start_workers", "accept", "close_acceptor",
   "stop_pool", "stop_workers", "fail_pool", "fail_workers", "fail_acceptor", "not_running"}
InStop == {"request_stop", "wait_stopped"}

-----------------------------------------------------------------------------
(* Start.                                                                  *)

\* Faulty variant: a second Start is not refused.
StartCall_Twice(t) ==
  /\ At(t, "idle") /\ calls < MaxCalls
  /\ calls' = calls + 1
  /\ running' = TRUE
  /\ Goto(t, "publish")
  /\ UNCHANGED <<stop_requested, accepting_new_connections, acceptor, pool, workers, dispatch>>

StartCall(t) ==
  /\ At(t, "idle") /\ calls < MaxCalls
  /\ calls' = calls + 1
  /\ running' = TRUE
  /\ Goto(t, IF running THEN "idle" ELSE "publish")
  /\ UNCHANGED <<stop_requested, accepting_new_connections, acceptor, pool, workers, dispatch>>

\* Faulty variant: the dispatch does not start over.
PublishRunning_KeepsNext(t) ==
  /\ At(t, "publish")
  /\ stop_requested' = FALSE /\ accepting_new_connections' = TRUE
  /\ Goto(t, "init_acceptor")
  /\ UNCHANGED <<running, acceptor, pool, workers, dispatch, calls>>

PublishRunning(t) ==
  /\ At(t, "publish")
  /\ stop_requested' = FALSE /\ accepting_new_connections' = TRUE
  /\ next_worker' = 0
  /\ Goto(t, "init_acceptor")
  /\ UNCHANGED <<running, acceptor, pool, workers, given, calls>>

\* Each phase succeeds, or the phases so far are taken back.  A failing
\* InitAcceptor may leave the listening socket open.
InitAcceptor(t) ==
  /\ At(t, "init_acceptor")
  /\ \/ acceptor' = TRUE /\ Goto(t, "start_pool")
     \/ acceptor' \in BOOLEAN /\ Goto(t, "fail_acceptor")
  /\ UNCHANGED <<flags, pool, workers, dispatch, calls>>

\* A server may be configured without business threads.
StartBusinessThreadPool(t) ==
  /\ At(t, "start_pool")
  /\ \/ pool' \in BOOLEAN /\ Goto(t, "start_workers")
     \/ UNCHANGED pool /\ Goto(t, "fail_acceptor")
  /\ UNCHANGED <<flags, acceptor, workers, dispatch, calls>>

\* One iteration of the loop of StartWorkers, its end, or its failure.
StartWorkers(t) ==
  /\ At(t, "start_workers")
  /\ \/ /\ workers < WorkerCount
        /\ workers' = workers + 1 /\ given' = [given EXCEPT ![workers] = 0]
        /\ UNCHANGED pc
     \/ workers = WorkerCount /\ Goto(t, "accept") /\ UNCHANGED <<workers, given>>
     \/ workers < WorkerCount /\ Goto(t, "fail_pool") /\ UNCHANGED <<workers, given>>
  /\ UNCHANGED <<flags, acceptor, pool, next_worker, calls>>

\* The accept loop gives a connection to the workers in turn (SelectWorker).
Accept(t) ==
  /\ At(t, "accept") /\ accepting_new_connections
  /\ given[next_worker] < MaxAccepts
  /\ given' = [given EXCEPT ![next_worker] = @ + 1]
  /\ next_worker' = (next_worker + 1) % workers
  /\ UNCHANGED <<flags, acceptor, pool, workers, pc, calls>>

AcceptLoopEnds(t) ==
  /\ At(t, "accept")
  /\ accepting_new_connections' = FALSE /\ stop_requested' = TRUE
  /\ Goto(t, "close_acceptor")
  /\ UNCHANGED <<running, acceptor, pool, workers, dispatch, calls>>

SeesStop(t) == stop_requested /\ AcceptLoopEnds(t)
FatalError(t) == ~stop_requested /\ AcceptLoopEnds(t)

\* Tear-down: acceptor, pool, workers after the accept loop; pool, workers,
\* acceptor when the workers could not be started.
CloseAcceptor(t) ==
  /\ pc[t] \in {"close_acceptor", "fail_acceptor"}
  /\ acceptor' = FALSE
  /\ Goto(t, IF At(t, "close_acceptor") THEN "stop_pool" ELSE "not_running")
  /\ UNCHANGED <<flags, pool, workers, dispatch, calls>>

StopBusinessThreadPool(t) ==
  /\ pc[t] \in {"stop_pool", "fail_pool"}
  /\ pool' = FALSE
  /\ Goto(t, IF At(t, "stop_pool") THEN "stop_workers" ELSE "fail_workers")
  /\ UNCHANGED <<flags, acceptor, workers, dispatch, calls>>

\* Faulty variant: the failure path forgets the acceptor.
StopWorkers_KeepsAcceptor(t) ==
  /\ pc[t] \in {"stop_workers", "fail_workers"}
  /\ workers' = 0
  /\ Goto(t, "not_running")
  /\ UNCHANGED <<flags, acceptor, pool, dispatch, calls>>

StopWorkers(t) ==
  /\ pc[t] \in {"stop_workers", "fail_workers"}
  /\ workers' = 0
  /\ Goto(t, IF At(t, "stop_workers") THEN "not_running" ELSE "fail_acceptor")
  /\ UNCHANGED <<flags, acceptor, pool, dispatch, calls>>

\* Faulty variant: running_ stays set.
NotRunning_Keeps(t) ==
  /\ At(t, "not_running")
  /\ Goto(t, "idle")
  /\ UNCHANGED <<flags, acceptor, pool, workers, dispatch, calls>>

NotRunning(t) ==
  /\ At(t, "not_running")
  /\ running' = FALSE
  /\ Goto(t, "idle")
  /\ UNCHANGED <<stop_requested, accepting_new_connections, acceptor, pool, workers,
                 dispatch, calls>>

-----------------------------------------------------------------------------
(* Stop.                                                                   *)

\* Without a running server Stop cleans up by itself, under lifecycle_mu_.
StopCall(t) ==
  /\ At(t, "idle") /\ calls < MaxCalls
  /\ calls' = calls + 1
  /\ IF running
       THEN Goto(t, "request_stop") /\ UNCHANGED <<flags, acceptor, pool, workers>>
       ELSE /\ stop_requested' = TRUE /\ accepting_new_connections' = FALSE
            /\ pool' = FALSE /\ workers' = 0 /\ acceptor' = FALSE
            /\ UNCHANGED <<running, pc>>
  /\ UNCHANGED dispatch

StopRequest(t) ==
  /\ At(t, "request_stop")
  /\ accepting_new_connections' = FALSE /\ stop_requested' = TRUE
  /\ Goto(t, "wait_stopped")
  /\ UNCHANGED <<running, acceptor, pool, workers, dispatch, calls>>

\* lifecycle_cv_.wait until the server is not running.
StopReturn(t) ==
  /\ At(t, "wait_stopped") /\ ~running
  /\ Goto(t, "idle")
  /\ UNCHANGED <<flags, acceptor, pool, workers, dispatch, calls>>

-----------------------------------------------------------------------------

\* What a thread inside Start or Stop does by itself.
Proceed(t) ==
  \/ PublishRunning(t) \/ InitAcceptor(t) \/ StartBusinessThreadPool(t) \/ StartWorkers(t)
  \/ SeesStop(t) \/ CloseAcceptor(t) \/ StopBusinessThreadPool(t) \/ StopWorkers(t)
  \/ NotRunning(t) \/ StopRequest(t) \/ StopReturn(t)

Next == \E t \in Threads :
  StartCall(t) \/ StopCall(t) \/ Accept(t) \/ FatalError(t) \/ Proceed(t)

Spec == Init /\ [][Next]_vars

\* Threads inside a call keep running; nobody has to call, connect or fail.
FairSpec == Spec /\ \A t \in Threads : WF_vars(Proceed(t))

-----------------------------------------------------------------------------
(* Properties.                                                             *)

TypeOK ==
  /\ {running, stop_requested, accepting_new_connections, acceptor, pool} \subseteq BOOLEAN
  /\ workers \in 0 .. WorkerCount /\ next_worker \in WorkerIds
  /\ given \in [WorkerIds -> 0 .. MaxAccepts] /\ calls \in 0 .. MaxCalls
  /\ pc \in [Threads -> {"idle"} \cup InStart \cup InStop]

\* Start changes the acceptor, the pool and the workers without a lock, and Stop
\* changes them when the server is not running: a thread inside Start is the only
\* one and running_ tells Stop to keep off.
OneOwner ==
  \A t \in Threads : pc[t] \in InStart =>
    running /\ \A u \in Threads : pc[u] \in InStart => u = t

\* A server that is not running holds nothing, whichever phase of Start failed:
\* the next Start finds a clean server and a Stop that returns leaves none behind.
NotRunningHoldsNothing == ~running => ~acceptor /\ ~pool /\ workers = 0

\* In the accept loop every worker is there, and connections have gone to them in
\* turn, beginning with the first one also after a restart.
DispatchInTurn ==
  (\E t \in Threads : At(t, "accept")) =>
    /\ workers = WorkerCount
    /\ \A v, w \in WorkerIds : v < w => given[v] - given[w] \in {0, 1}

\* A Stop whose request still stands gets its server down, from whatever phase of
\* Start, and returns; only a Start that publishes running_ again, and resets
\* stop_requested_, can make it wait on.
StopHonoured ==
  \A t \in Threads :
    (At(t, "wait_stopped") /\ stop_requested) ~> (At(t, "idle") \/ ~stop_requested)
=============================================================================

-------------------------- MODULE RpcServerProofs ---------------------------
(***************************************************************************)
(* Proofs about the lifecycle of the server for any number of threads and  *)
(* workers: Start has the acceptor, the pool and the workers to itself, a  *)
(* server that is not running holds none of them, and connections go to    *)
(* the workers in turn.                                                    *)
(***************************************************************************)
EXTENDS RpcServer, TLAPS

\* What a thread at a place of Start can rely on: the resources that are not there
\* yet, or not any more, and a dispatch that starts over.
Phase(place) ==
  /\ place \in {"publish", "init_acceptor"} => ~acceptor
  /\ place \in {"publish", "init_acceptor", "start_pool", "fail_acceptor"} =>
       ~pool /\ workers = 0
  /\ place \in {"init_acceptor", "start_pool", "start_workers"} => next_worker = 0
  /\ place = "start_workers" => \A v \in WorkerIds : v < workers => given[v] = 0
  /\ place = "accept" => workers = WorkerCount
  /\ place = "fail_workers" => ~pool
  /\ place \in {"stop_pool", "stop_workers", "not_running"} => ~acceptor
  /\ place \in {"stop_workers", "not_running"} => ~pool
  /\ place = "not_running" => workers = 0

Phases == \A t \in Threads : pc[t] \in InStart => Phase(pc[t])

\* The workers before next_worker_ are one connection ahead of the others.
Ahead(v, w) ==
  given[v] + (IF w < next_worker THEN 1 ELSE 0) = given[w] + (IF v < next_worker THEN 1 ELSE 0)

Turn == (\E t \in Threads : At(t, "accept")) => \A v, w \in WorkerIds : Ahead(v, w)

IndInv == TypeOK /\ OneOwner /\ NotRunningHoldsNothing /\ Phases /\ Turn

-----------------------------------------------------------------------------

\* There is a worker.
LEMMA FirstWorker == 0 \in WorkerIds
BY RpcServerAssumption DEF WorkerIds

\* The last worker is followed by the first.
LEMMA NextInTurn ==
  ASSUME NEW n \in Nat \ {0}, NEW a \in 0 .. n - 1
  PROVE  (a + 1) % n = IF a = n - 1 THEN 0 ELSE a + 1
<1>1. CASE a = n - 1
  BY <1>1
<1>2. CASE a # n - 1
  BY <1>2
<1> QED  BY <1>1, <1>2

\* IndInv holds at first.
LEMMA InitInv == Init => IndInv
<1> SUFFICES ASSUME Init PROVE IndInv
  OBVIOUS
<1>0. 0 \in 0 .. WorkerCount /\ 0 \in 0 .. MaxCalls /\ 0 \in 0 .. MaxAccepts
  BY RpcServerAssumption DEF WorkerIds
<1>1. TypeOK
  BY Zenon, <1>0, FirstWorker DEF Init, TypeOK
<1>2. \A t \in Threads : pc[t] = "idle"
  BY Zenon DEF Init
<1>3. OneOwner /\ Phases /\ Turn
  BY <1>2 DEF OneOwner, Phases, Turn, At, InStart
<1> QED  BY <1>1, <1>3 DEF IndInv, Init, NotRunningHoldsNothing

\* A thread inside Start goes on: nobody else is there.
LEMMA OwnerStep ==
  ASSUME IndInv, NEW t \in Threads, NEW x \in InStart, pc[t] \in InStart,
         pc' = [pc EXCEPT ![t] = x], running' = running, Phase(x)',
         x = "accept" => \A v, w \in WorkerIds : Ahead(v, w)'
  PROVE  OneOwner' /\ NotRunningHoldsNothing' /\ Phases' /\ Turn'
<1>1. running /\ \A u \in Threads : u # t => pc[u] \notin InStart
  BY DEF IndInv, OneOwner
<1>2. pc'[t] = x /\ \A u \in Threads : u # t => pc'[u] = pc[u]
  BY Zenon DEF IndInv, TypeOK
<1>3. OneOwner'
  BY Zenon, <1>1, <1>2 DEF OneOwner
<1>4. NotRunningHoldsNothing'
  BY <1>1 DEF NotRunningHoldsNothing
<1>5. Phases'
  BY Zenon, <1>1, <1>2 DEF Phases
<1>6. Turn'
  <2>1. "accept" \in InStart
    BY DEF InStart
  <2> QED  BY Zenon, <2>1, <1>1, <1>2 DEF Turn, At
<1> QED  BY <1>3, <1>4, <1>5, <1>6

\* A thread outside Start moves and leaves the server alone.
LEMMA OtherStep ==
  ASSUME IndInv, NEW t \in Threads, NEW x, x \notin InStart, pc[t] \notin InStart,
         pc' = [pc EXCEPT ![t] = x],
         UNCHANGED <<running, acceptor, pool, workers, dispatch>>
  PROVE  OneOwner' /\ NotRunningHoldsNothing' /\ Phases' /\ Turn'
<1>1. \A u \in Threads : pc'[u] \in InStart => pc'[u] = pc[u]
  BY Zenon DEF IndInv, TypeOK
<1>2. OneOwner' /\ NotRunningHoldsNothing'
  BY <1>1 DEF IndInv, OneOwner, NotRunningHoldsNothing
<1>3. Phases'
  BY <1>1 DEF IndInv, Phases, Phase, dispatch
<1>4. Turn'
  <2>1. "accept" \in InStart
    BY DEF InStart
  <2> QED  BY Zenon, <2>1, <1>1 DEF IndInv, Turn, At, Ahead, dispatch
<1> QED  BY <1>2, <1>3, <1>4

\* StartCall preserves IndInv.
LEMMA StartCallInv == \A t \in Threads : IndInv /\ StartCall(t) => IndInv'
<1> SUFFICES ASSUME NEW t \in Threads, IndInv, StartCall(t) PROVE IndInv'
  OBVIOUS
<1>0. calls' \in 0 .. MaxCalls
  BY RpcServerAssumption DEF IndInv, TypeOK, StartCall
<1>1. TypeOK'
  <2>1. "publish" \in InStart
    BY DEF InStart
  <2> QED  BY Zenon, <1>0, <2>1 DEF IndInv, StartCall, Goto, TypeOK, dispatch
<1>2. CASE running
  <2>1. pc' = [pc EXCEPT ![t] = "idle"] /\ "idle" \notin InStart /\ pc[t] \notin InStart
    BY <1>2 DEF StartCall, Goto, At, InStart
  <2>2. UNCHANGED <<running, acceptor, pool, workers, dispatch>>
    BY <1>2 DEF StartCall
  <2> QED  BY Zenon, <1>1, <2>1, <2>2, OtherStep DEF IndInv
<1>3. CASE ~running
  <2>1. \A u \in Threads : pc[u] \notin InStart
    BY <1>3 DEF IndInv, OneOwner
  <2>2. pc'[t] = "publish" /\ \A u \in Threads : u # t => pc'[u] = pc[u]
    BY <1>3 DEF IndInv, TypeOK, StartCall, Goto
  <2>3. OneOwner' /\ NotRunningHoldsNothing'
    BY <2>1, <2>2 DEF StartCall, OneOwner, NotRunningHoldsNothing
  <2>4. ~acceptor' /\ ~pool' /\ workers' = 0
    BY <1>3 DEF IndInv, NotRunningHoldsNothing, StartCall
  <2>5. Phases'
    BY <2>1, <2>2, <2>4 DEF Phases, Phase
  <2>6. Turn'
    BY <2>1, <2>2 DEF Turn, At, InStart
  <2> QED  BY <1>1, <2>3, <2>5, <2>6 DEF IndInv
<1> QED  BY <1>2, <1>3

\* PublishRunning preserves IndInv.
LEMMA PublishRunningInv == \A t \in Threads : IndInv /\ PublishRunning(t) => IndInv'
<1> SUFFICES ASSUME NEW t \in Threads, IndInv, PublishRunning(t) PROVE IndInv'
  OBVIOUS
<1>1. TypeOK'
  BY Zenon, FirstWorker DEF IndInv, PublishRunning, Goto, TypeOK, InStart
<1>2. PICK x \in {"init_acceptor"} : pc' = [pc EXCEPT ![t] = x] /\ Phase(x)'
  BY DEF IndInv, Phases, Phase, PublishRunning, Goto, At, InStart
<1>3. pc[t] \in InStart /\ x \in InStart /\ running' = running
  BY <1>2 DEF PublishRunning, At, InStart, flags
<1> QED  BY Zenon, <1>1, <1>2, <1>3, OwnerStep DEF IndInv

\* InitAcceptor preserves IndInv.
LEMMA InitAcceptorInv == \A t \in Threads : IndInv /\ InitAcceptor(t) => IndInv'
<1> SUFFICES ASSUME NEW t \in Threads, IndInv, InitAcceptor(t) PROVE IndInv'
  OBVIOUS
<1>1. TypeOK'
  BY Zenon DEF IndInv, InitAcceptor, Goto, TypeOK, InStart, flags, dispatch
<1>2. PICK x \in {"start_pool", "fail_acceptor"} : pc' = [pc EXCEPT ![t] = x] /\ Phase(x)'
  BY DEF IndInv, Phases, Phase, InitAcceptor, Goto, At, InStart, dispatch
<1>3. pc[t] \in InStart /\ x \in InStart /\ running' = running
  BY <1>2 DEF InitAcceptor, At, InStart, flags
<1> QED  BY Zenon, <1>1, <1>2, <1>3, OwnerStep DEF IndInv

\* StartBusinessThreadPool preserves IndInv.
LEMMA StartBusinessThreadPoolInv == \A t \in Threads : IndInv /\ StartBusinessThreadPool(t) => IndInv'
<1> SUFFICES ASSUME NEW t \in Threads, IndInv, StartBusinessThreadPool(t) PROVE IndInv'
  OBVIOUS
<1>1. TypeOK'
  BY DEF IndInv, StartBusinessThreadPool, Goto, TypeOK, InStart, flags, dispatch
<1>2. PICK x \in {"start_workers", "fail_acceptor"} : pc' = [pc EXCEPT ![t] = x] /\ Phase(x)'
  BY DEF IndInv, Phases, Phase, StartBusinessThreadPool, Goto, At, InStart, TypeOK, WorkerIds, dispatch
<1>3. pc[t] \in InStart /\ x \in InStart /\ running' = running
  BY <1>2 DEF StartBusinessThreadPool, At, InStart, flags
<1> QED  BY Zenon, <1>1, <1>2, <1>3, OwnerStep DEF IndInv

\* StartWorkers preserves IndInv.
LEMMA StartWorkersInv == \A t \in Threads : IndInv /\ StartWorkers(t) => IndInv'
<1> SUFFICES ASSUME NEW t \in Threads, IndInv, StartWorkers(t) PROVE IndInv'
  OBVIOUS
<1>1. pc[t] \in InStart /\ pc[t] = "start_workers" /\ running' = running
  BY DEF StartWorkers, At, InStart, flags
<1>2. next_worker = 0 /\ next_worker' = 0 /\ \A v \in WorkerIds : v < workers => given[v] = 0
  BY <1>1 DEF IndInv, Phases, Phase, StartWorkers
<1>3. workers \in 0 .. WorkerCount /\ given \in [WorkerIds -> 0 .. MaxAccepts]
  BY DEF IndInv, TypeOK
<1>4. CASE workers < WorkerCount /\ workers' = workers + 1 /\ pc' = pc
           /\ given' = [given EXCEPT ![workers] = 0]
  <2>1. TypeOK'
    BY <1>2, <1>3, <1>4, RpcServerAssumption DEF IndInv, StartWorkers, TypeOK, WorkerIds, flags
  <2>2. \A v \in WorkerIds : v < workers' => given'[v] = 0
    BY <1>2, <1>3, <1>4 DEF WorkerIds
  <2>3. pc' = [pc EXCEPT ![t] = "start_workers"]
    BY <1>1, <1>4 DEF IndInv, TypeOK
  <2>4. Phase("start_workers")'
    BY <1>2, <2>2 DEF Phase
  <2> QED  BY Zenon, <1>1, <2>1, <2>3, <2>4, OwnerStep DEF IndInv
<1>5. CASE workers = WorkerCount /\ Goto(t, "accept") /\ UNCHANGED <<workers, given>>
  <2>1. TypeOK'
    BY <1>5 DEF IndInv, StartWorkers, Goto, TypeOK, InStart, flags
  <2>2. \A v, w \in WorkerIds : Ahead(v, w)'
    BY <1>2, <1>3, <1>5 DEF Ahead, WorkerIds
  <2>3. "accept" \in InStart /\ Phase("accept")' /\ pc' = [pc EXCEPT ![t] = "accept"]
    BY <1>5 DEF InStart, Phase, Goto
  <2> QED  BY Zenon, <1>1, <2>1, <2>2, <2>3, OwnerStep DEF IndInv
<1>6. CASE Goto(t, "fail_pool") /\ UNCHANGED <<workers, given>>
  <2>1. TypeOK'
    BY <1>6 DEF IndInv, StartWorkers, Goto, TypeOK, InStart, flags
  <2>2. "fail_pool" \in InStart /\ Phase("fail_pool")' /\ pc' = [pc EXCEPT ![t] = "fail_pool"]
    BY <1>6 DEF InStart, Phase, Goto
  <2> QED  BY Zenon, <1>1, <2>1, <2>2, OwnerStep DEF IndInv
<1> QED  BY <1>4, <1>5, <1>6 DEF StartWorkers

\* Accept preserves IndInv.
LEMMA AcceptInv == \A t \in Threads : IndInv /\ Accept(t) => IndInv'
<1> SUFFICES ASSUME NEW t \in Threads, IndInv, Accept(t) PROVE IndInv'
  OBVIOUS
<1>1. pc[t] \in InStart /\ pc[t] = "accept" /\ running' = running /\ workers = WorkerCount
  BY DEF IndInv, Phases, Phase, Accept, At, InStart, flags
<1>2. /\ next_worker \in WorkerIds /\ given \in [WorkerIds -> 0 .. MaxAccepts]
      /\ \A v, w \in WorkerIds : Ahead(v, w)
  BY <1>1 DEF IndInv, TypeOK, Turn, At
<1>3. next_worker' = IF next_worker = WorkerCount - 1 THEN 0 ELSE next_worker + 1
  BY <1>1, <1>2, NextInTurn, RpcServerAssumption DEF Accept, WorkerIds
<1>4. /\ given'[next_worker] = given[next_worker] + 1
      /\ \A v \in WorkerIds : v # next_worker => given'[v] = given[v]
  BY <1>2 DEF Accept
<1>5. TypeOK'
  <2>1. next_worker' \in WorkerIds
    BY <1>2, <1>3, RpcServerAssumption DEF WorkerIds
  <2>2. given' \in [WorkerIds -> 0 .. MaxAccepts]
    BY <1>2, RpcServerAssumption DEF Accept
  <2> QED  BY <2>1, <2>2 DEF IndInv, Accept, TypeOK, flags
<1>6. ASSUME NEW v \in WorkerIds, NEW w \in WorkerIds PROVE Ahead(v, w)'
  <2>1. Ahead(v, w) /\ given[v] \in Nat /\ given[w] \in Nat
    BY <1>2, RpcServerAssumption
  <2>2. v \in 0 .. WorkerCount - 1 /\ w \in 0 .. WorkerCount - 1
        /\ next_worker \in 0 .. WorkerCount - 1
    BY <1>2 DEF WorkerIds
  <2>3. CASE next_worker = WorkerCount - 1
    BY <1>3, <1>4, <2>1, <2>2, <2>3, RpcServerAssumption DEF Ahead
  <2>4. CASE next_worker # WorkerCount - 1
    BY <1>3, <1>4, <2>1, <2>2, <2>4, RpcServerAssumption DEF Ahead
  <2> QED  BY <2>3, <2>4
<1>7. pc' = [pc EXCEPT ![t] = "accept"] /\ "accept" \in InStart /\ Phase("accept")'
  BY <1>1 DEF IndInv, TypeOK, Accept, InStart, Phase
<1> QED  BY Zenon, <1>1, <1>5, <1>6, <1>7, OwnerStep DEF IndInv

\* AcceptLoopEnds preserves IndInv.
LEMMA AcceptLoopEndsInv == \A t \in Threads : IndInv /\ AcceptLoopEnds(t) => IndInv'
<1> SUFFICES ASSUME NEW t \in Threads, IndInv, AcceptLoopEnds(t) PROVE IndInv'
  OBVIOUS
<1>1. TypeOK'
  BY Zenon DEF IndInv, AcceptLoopEnds, Goto, TypeOK, InStart, dispatch
<1>2. PICK x \in {"close_acceptor"} : pc' = [pc EXCEPT ![t] = x] /\ Phase(x)'
  BY DEF Phase, AcceptLoopEnds, Goto
<1>3. pc[t] \in InStart /\ x \in InStart /\ running' = running
  BY <1>2 DEF AcceptLoopEnds, At, InStart, flags
<1> QED  BY Zenon, <1>1, <1>2, <1>3, OwnerStep DEF IndInv

\* CloseAcceptor preserves IndInv.
LEMMA CloseAcceptorInv == \A t \in Threads : IndInv /\ CloseAcceptor(t) => IndInv'
<1> SUFFICES ASSUME NEW t \in Threads, IndInv, CloseAcceptor(t) PROVE IndInv'
  OBVIOUS
<1>1. TypeOK'
  BY Zenon DEF IndInv, CloseAcceptor, Goto, At, TypeOK, InStart, flags, dispatch
<1>2. PICK x \in {"stop_pool", "not_running"} : pc' = [pc EXCEPT ![t] = x] /\ Phase(x)'
  BY Zenon DEF IndInv, Phases, Phase, CloseAcceptor, Goto, At, InStart
<1>3. pc[t] \in InStart /\ x \in InStart /\ running' = running
  BY <1>2 DEF CloseAcceptor, At, InStart, flags
<1> QED  BY Zenon, <1>1, <1>2, <1>3, OwnerStep DEF IndInv

\* StopBusinessThreadPool preserves IndInv.
LEMMA StopBusinessThreadPoolInv == \A t \in Threads : IndInv /\ StopBusinessThreadPool(t) => IndInv'
<1> SUFFICES ASSUME NEW t \in Threads, IndInv, StopBusinessThreadPool(t) PROVE IndInv'
  OBVIOUS
<1>1. TypeOK'
  BY Zenon DEF IndInv, StopBusinessThreadPool, Goto, At, TypeOK, InStart, flags, dispatch
<1>2. PICK x \in {"stop_workers", "fail_workers"} : pc' = [pc EXCEPT ![t] = x] /\ Phase(x)'
  BY Zenon DEF IndInv, Phases, Phase, StopBusinessThreadPool, Goto, At, InStart
<1>3. pc[t] \in InStart /\ x \in InStart /\ running' = running
  BY <1>2 DEF StopBusinessThreadPool, At, InStart, flags
<1> QED  BY Zenon, <1>1, <1>2, <1>3, OwnerStep DEF IndInv

\* StopWorkers preserves IndInv.
LEMMA StopWorkersInv == \A t \in Threads : IndInv /\ StopWorkers(t) => IndInv'
<1> SUFFICES ASSUME NEW t \in Threads, IndInv, StopWorkers(t) PROVE IndInv'
  OBVIOUS
<1>1. TypeOK'
  BY RpcServerAssumption DEF IndInv, StopWorkers, Goto, At, TypeOK, InStart, flags, dispatch
<1>2. PICK x \in {"not_running", "fail_acceptor"} : pc' = [pc EXCEPT ![t] = x] /\ Phase(x)'
  BY Zenon DEF IndInv, Phases, Phase, StopWorkers, Goto, At, InStart
<1>3. pc[t] \in InStart /\ x \in InStart /\ running' = running
  BY <1>2 DEF StopWorkers, At, InStart, flags
<1> QED  BY Zenon, <1>1, <1>2, <1>3, OwnerStep DEF IndInv

\* NotRunning preserves IndInv.
LEMMA NotRunningInv == \A t \in Threads : IndInv /\ NotRunning(t) => IndInv'
<1> SUFFICES ASSUME NEW t \in Threads, IndInv, NotRunning(t) PROVE IndInv'
  OBVIOUS
<1>1. TypeOK'
  BY Zenon DEF IndInv, NotRunning, Goto, TypeOK, dispatch
<1>2. pc[t] \in InStart /\ ~acceptor /\ ~pool /\ workers = 0
  BY DEF IndInv, Phases, Phase, NotRunning, At, InStart
<1>3. \A u \in Threads : pc'[u] \notin InStart
  BY <1>2 DEF IndInv, OneOwner, TypeOK, NotRunning, Goto, InStart
<1>4. OneOwner' /\ Phases' /\ Turn'
  BY <1>3 DEF OneOwner, Phases, Turn, At, InStart
<1> QED  BY <1>1, <1>2, <1>4 DEF IndInv, NotRunning, NotRunningHoldsNothing

\* StopCall preserves IndInv.
LEMMA StopCallInv == \A t \in Threads : IndInv /\ StopCall(t) => IndInv'
<1> SUFFICES ASSUME NEW t \in Threads, IndInv, StopCall(t) PROVE IndInv'
  OBVIOUS
<1>0. calls' \in 0 .. MaxCalls /\ 0 \in 0 .. WorkerCount
  BY RpcServerAssumption DEF IndInv, TypeOK, StopCall
<1>1. TypeOK'
  <2>1. "request_stop" \in InStop
    BY DEF InStop
  <2> QED  BY Zenon, <1>0, <2>1 DEF IndInv, StopCall, Goto, TypeOK, flags, dispatch
<1>2. CASE running
  <2>1. "request_stop" \notin InStart /\ pc[t] \notin InStart
    BY DEF StopCall, At, InStart
  <2> QED  BY <1>1, <1>2, <2>1, OtherStep DEF IndInv, StopCall, Goto, flags
<1>3. CASE ~running
  <2>1. \A u \in Threads : pc'[u] \notin InStart
    BY <1>3 DEF IndInv, OneOwner, StopCall
  <2>2. OneOwner' /\ Phases' /\ Turn'
    BY <2>1 DEF OneOwner, Phases, Turn, At, InStart
  <2> QED  BY <1>1, <1>3, <2>2 DEF IndInv, StopCall, NotRunningHoldsNothing
<1> QED  BY <1>2, <1>3

\* StopRequest preserves IndInv.
LEMMA StopRequestInv == \A t \in Threads : IndInv /\ StopRequest(t) => IndInv'
<1> SUFFICES ASSUME NEW t \in Threads, IndInv, StopRequest(t) PROVE IndInv'
  OBVIOUS
<1>1. TypeOK'
  BY Zenon DEF IndInv, StopRequest, Goto, TypeOK, InStop, dispatch
<1>2. "wait_stopped" \notin InStart /\ pc[t] \notin InStart
  BY DEF StopRequest, At, InStart
<1> QED  BY Zenon, <1>1, <1>2, OtherStep DEF IndInv, StopRequest, Goto

\* StopReturn preserves IndInv.
LEMMA StopReturnInv == \A t \in Threads : IndInv /\ StopReturn(t) => IndInv'
<1> SUFFICES ASSUME NEW t \in Threads, IndInv, StopReturn(t) PROVE IndInv'
  OBVIOUS
<1>1. TypeOK'
  BY DEF IndInv, StopReturn, Goto, TypeOK, flags, dispatch
<1>2. "idle" \notin InStart /\ pc[t] \notin InStart
  BY DEF StopReturn, At, InStart
<1> QED  BY Zenon, <1>1, <1>2, OtherStep DEF IndInv, StopReturn, Goto, flags

-----------------------------------------------------------------------------

\* The inductive invariant holds in every state of the server (all actions of
\* rpc_server.cpp's Start and Stop).
THEOREM Invariance == Spec => []IndInv
<1>1. IndInv /\ [Next]_vars => IndInv'
  <2> SUFFICES ASSUME IndInv, [Next]_vars PROVE IndInv'
    OBVIOUS
  <2>1. CASE UNCHANGED vars
    BY Zenon, <2>1 DEF IndInv, vars, flags, dispatch, TypeOK, OneOwner, NotRunningHoldsNothing,
       Phases, Phase, Turn, Ahead, At
  <2>2. ASSUME NEW t \in Threads, Proceed(t) PROVE IndInv'
    BY Zenon, <2>2, PublishRunningInv, InitAcceptorInv, StartBusinessThreadPoolInv,
       StartWorkersInv, AcceptLoopEndsInv, CloseAcceptorInv, StopBusinessThreadPoolInv,
       StopWorkersInv, NotRunningInv, StopRequestInv, StopReturnInv DEF Proceed, SeesStop
  <2>3. ASSUME NEW t \in Threads, StartCall(t) \/ StopCall(t) \/ Accept(t) \/ FatalError(t)
        PROVE  IndInv'
    BY Zenon, <2>3, StartCallInv, StopCallInv, AcceptInv, AcceptLoopEndsInv DEF FatalError
  <2> QED  BY Zenon, <2>1, <2>2, <2>3 DEF Next
<1> QED  BY <1>1, InitInv, PTL DEF Spec

\* The state of the server keeps its type; in particular next_worker_ is always
\* the index of a worker (SelectWorker).
THEOREM ServerTypeOK == Spec => []TypeOK
BY Invariance, PTL DEF IndInv

\* A thread inside Start is the only one and running_ is set: nobody else touches
\* the acceptor, the pool and the workers, which Start changes without a lock.
THEOREM ServerOneOwner == Spec => []OneOwner
BY Invariance, PTL DEF IndInv

\* Whichever phase of Start failed, and whoever called Stop: a server that is not
\* running has no acceptor, no pool and no workers.
THEOREM ServerNotRunningHoldsNothing == Spec => []NotRunningHoldsNothing
BY Invariance, PTL DEF IndInv

\* The accept loop gives connections to the workers in turn, beginning with the
\* first one also after a restart (SelectWorker, StartWorkers).
THEOREM ServerDispatchInTurn == Spec => []DispatchInTurn
<1>1. IndInv => DispatchInTurn
  <2> SUFFICES ASSUME IndInv, \E t \in Threads : At(t, "accept") PROVE
        /\ workers = WorkerCount
        /\ \A v, w \in WorkerIds : v < w => given[v] - given[w] \in {0, 1}
    BY DEF DispatchInTurn
  <2>1. workers = WorkerCount
    BY DEF IndInv, Phases, Phase, At, InStart
  <2>2. ASSUME NEW v \in WorkerIds, NEW w \in WorkerIds, v < w
        PROVE  given[v] - given[w] \in {0, 1}
    <3>1. Ahead(v, w) /\ given[v] \in Nat /\ given[w] \in Nat /\ next_worker \in Nat
      BY RpcServerAssumption DEF IndInv, TypeOK, Turn, WorkerIds
    <3> QED  BY <2>2, <3>1 DEF Ahead, WorkerIds
  <2> QED  BY <2>1, <2>2
<1> QED  BY <1>1, Invariance, PTL
=============================================================================

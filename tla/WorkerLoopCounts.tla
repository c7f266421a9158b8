-------------------------- MODULE WorkerLoopCounts --------------------------
(***************************************************************************)
(* The theorems about the worker loop that rest on the places of its       *)
(* requests, or on the sizes of its sets and queues: a request is in one   *)
(* place, the count of the requests in flight is exact and bounded, and    *)
(* sockets are closed by who owns them.  The sizes need the library's      *)
(* facts on finite sets, which the other proofs do without.                *)
(***************************************************************************)
EXTENDS WorkerLoopProofs, FiniteSetTheorems

\* The places of the requests in every reachable state.
THEOREM PlaceInvHolds == Spec => []PlaceInv
<1>1. WInv /\ PlaceInv /\ [Next]_vars => PlaceInv'
  BY Zenon, NextMoves
<1> QED
  BY <1>1, InitPlaces, WInvHolds, PTL DEF Spec

\* RequestInOnePlace: a request, or its response, is in one place on its way from
\* the socket through the business pool and back, so it is answered at most once.
THEOREM RequestInOnePlaceHolds == Spec => []RequestInOnePlace
  BY PlacesApart, WInvHolds, PlaceInvHolds, PTL

-----------------------------------------------------------------------------
(* The requests in flight.                                                 *)

\* The requests the pool has not run yet.
InHand == {t \in tasks : t.stage = "run"}

FlightInv == IsFiniteSet(InHand) /\ InFlightExact

\* The three numbers InFlightExact adds up.
LEMMA FlightNumbers ==
  ASSUME WInv, FlightInv
  PROVE  /\ Cardinality(InHand) \in Nat /\ Len(responses) \in Nat /\ Len(local) \in Nat
         /\ pool # "destroyed" /\ accepting =>
              /\ in_flight_request_count \in Nat
              /\ in_flight_request_count = Cardinality(InHand) + Len(responses) + Len(local)
<1>1. Cardinality(InHand) \in Nat
  BY Zenon, FS_CardinalityType DEF FlightInv
<1>2. Len(responses) \in Nat /\ Len(local) \in Nat
  BY Zenon, EmptySeq DEF WInv, Dispatched
<1>3. pool # "destroyed" /\ accepting =>
        in_flight_request_count = Cardinality(InHand) + Len(responses) + Len(local)
  BY Zenon DEF FlightInv, InFlightExact, InHand
<1> QED
  BY <1>1, <1>2, <1>3

\* A step that moves no request into the pool, out of it or to the loop.
LEMMA FlightKept ==
  ASSUME FlightInv, InHand' = InHand, UNCHANGED <<responses, local, in_flight_request_count>>,
         accepting' => accepting, pool = "destroyed" => pool' = pool
  PROVE  FlightInv'
  BY Zenon DEF FlightInv, InFlightExact, InHand

\* The pool runs a handler: its result is queued unless the loop has ended,
LEMMA RunHandlerFlight ==
  ASSUME WInv, FlightInv, NEW t \in tasks, RunHandler(t)
  PROVE  FlightInv'
<1>1. /\ t.stage = "run" /\ tasks' = (tasks \ {t}) \cup {[t EXCEPT !.stage = "wake"]}
      /\ UNCHANGED <<pool, accepting, local, in_flight_request_count>>
      /\ accepting => responses' = Append(responses, t)
  BY DEF RunHandler, loopVars, connVars
<1>2. t \in GoodCalls /\ t \in Calls /\ responses \in Seq(GoodCalls)
  BY Zenon DEF WInv, Dispatched, GoodCalls
<1>3. [t EXCEPT !.stage = "wake"].stage = "wake"
  BY <1>2 DEF Calls
<1>4. InHand' = InHand \ {t} /\ t \in InHand
  BY Zenon, <1>1, <1>3 DEF InHand
<1>5. IsFiniteSet(InHand') /\ Cardinality(InHand') = Cardinality(InHand) - 1
  BY Zenon, <1>4, FS_RemoveElement DEF FlightInv
<1>6. Cardinality(InHand) > 0
  <2>1. Cardinality(InHand) \in Nat /\ Cardinality(InHand) # 0
    BY Zenon, <1>4, FlightNumbers, FS_EmptySet DEF FlightInv
  <2> QED
    BY <2>1
<1>7. Len(Append(responses, t)) = Len(responses) + 1
  BY Zenon, <1>2, AppendSeq
<1>8. ASSUME pool # "destroyed", accepting
      PROVE  in_flight_request_count
               = (Cardinality(InHand) - 1) + (Len(responses) + 1) + Len(local)
  <2>1. /\ Cardinality(InHand) \in Nat /\ Len(responses) \in Nat /\ Len(local) \in Nat
        /\ in_flight_request_count \in Nat
        /\ in_flight_request_count = Cardinality(InHand) + Len(responses) + Len(local)
    BY Zenon, <1>8, FlightNumbers
  <2> QED
    BY <1>6, <2>1
<1> QED
  BY Zenon, <1>1, <1>5, <1>7, <1>8 DEF FlightInv, InFlightExact, InHand

\* and then wakes the loop.
LEMMA WakeLoopFlight ==
  ASSUME FlightInv, NEW t \in tasks, WakeLoop(t)
  PROVE  FlightInv'
<1>1. /\ t.stage = "wake" /\ tasks' = tasks \ {t}
      /\ UNCHANGED <<pool, accepting, responses, local, in_flight_request_count>>
  BY Zenon DEF WakeLoop, loopVars, connVars
<1>2. InHand' = InHand
  BY <1>1 DEF InHand
<1> QED
  BY Zenon, <1>1, <1>2, FlightKept

\* The loop takes the queue over, when it has delivered what it took before,
LEMMA SwapCompletedFlight ==
  ASSUME WInv, FlightInv, SwapCompleted
  PROVE  FlightInv'
<1>1. /\ pc = "swap_completed" /\ local' = responses /\ responses' = <<>>
      /\ UNCHANGED <<pool, tasks, accepting, in_flight_request_count>>
  BY Zenon DEF SwapCompleted, LoopAt, poolVars, connVars
<1>2. local = <<>>
  BY <1>1 DEF WInv, Control
<1>3. Len(local) = 0 /\ Len(responses') = 0
  BY <1>1, <1>2
<1>4. ASSUME pool # "destroyed", accepting
      PROVE  in_flight_request_count = Cardinality(InHand) + 0 + Len(responses)
  <2>1. /\ Cardinality(InHand) \in Nat /\ Len(responses) \in Nat /\ Len(local) \in Nat
        /\ in_flight_request_count \in Nat
        /\ in_flight_request_count = Cardinality(InHand) + Len(responses) + Len(local)
    BY Zenon, <1>4, FlightNumbers
  <2> QED
    BY <1>3, <2>1
<1> QED
  BY Zenon, <1>1, <1>3, <1>4 DEF FlightInv, InFlightExact, InHand

\* and counts a result whether its connection is still there or not.
LEMMA DrainCompletedFlight ==
  ASSUME WInv, FlightInv, DrainCompletedResponses
  PROVE  FlightInv'
<1>1. /\ local # <<>> /\ local' = Tail(local) /\ CountCompleted(Head(local))
      /\ UNCHANGED <<pool, tasks, accepting, responses>>
  BY Zenon DEF DrainCompletedResponses, poolVars, queueVars
<1>2. local \in Seq(GoodCalls)
  BY Zenon DEF WInv, Dispatched
<1>3. Len(Tail(local)) = Len(local) - 1
  BY Zenon, <1>1, <1>2, TailSeq
<1>4. Len(local) > 0
  BY <1>1, <1>2, EmptySeq
<1>5. ASSUME pool # "destroyed", accepting
      PROVE  in_flight_request_count' = Cardinality(InHand) + Len(responses) + (Len(local) - 1)
  <2>1. /\ Cardinality(InHand) \in Nat /\ Len(responses) \in Nat /\ Len(local) \in Nat
        /\ in_flight_request_count \in Nat
        /\ in_flight_request_count = Cardinality(InHand) + Len(responses) + Len(local)
    BY Zenon, <1>5, FlightNumbers
  <2> QED
    BY <1>1, <1>4, <2>1 DEF CountCompleted
<1> QED
  BY Zenon, <1>1, <1>3, <1>5 DEF FlightInv, InFlightExact, InHand

\* A request handed to an open pool is new to it.
LEMMA DispatchFlight ==
  ASSUME WInv, PlaceInv, FlightInv, NEW f \in DOMAIN connections,
         Complete(connections[f]), DispatchRequest(f),
         UNCHANGED <<pool, accepting, responses, local>>
  PROVE  FlightInv'
<1> DEFINE c == connections[f]
<1> DEFINE x == NextFrame(f)
<1>1. CASE /\ UNCHANGED tasks
           /\ UNCHANGED in_flight_request_count \/ pool = "destroyed"
  BY Zenon, <1>1 DEF FlightInv, InFlightExact, InHand
<1>2. CASE /\ tasks' = tasks \cup {[fd |-> f, token |-> c.connection_token, req |-> x,
                                    stage |-> "run"]}
           /\ in_flight_request_count' = in_flight_request_count + 1
  <2>1. /\ GoodConn(c) /\ c.read_buffer \in Seq(Frames) /\ c.read_buffer # <<>>
        /\ Len(c.read_buffer) > 1 \/ Head(c.read_buffer).part = "whole"
    BY Zenon, PairOf DEF Complete
  <2>2. x \in Frames /\ x.part # "rest" /\ x = Head(c.read_buffer)
    BY Zenon, <2>1, NextFrameGood DEF NextFrame
  <2>3. Once(c.read_buffer)
    BY DEF PlaceInv, OnceAt
  <2>4. Holds(c.read_buffer, x.id)
    BY Zenon, <2>1, <2>2, <2>3, LeftIds
  <2>5. At(x.id, "read", f)
    BY Zenon, <2>4 DEF At, InRead
  <2>6. ~InPool(x.id)
    BY <2>5 DEF PlaceInv, OneSpot, At
  <2>7. PICK w : w = [fd |-> f, token |-> c.connection_token, req |-> x, stage |-> "run"]
    BY Zenon
  <2>8. w.req = x /\ w.stage = "run" /\ tasks' = tasks \cup {w}
    BY <1>2, <2>7
  <2>9. w \notin InHand /\ InHand' = InHand \cup {w}
    BY Zenon, <2>6, <2>8 DEF InHand, InPool
  <2>10. IsFiniteSet(InHand') /\ Cardinality(InHand') = Cardinality(InHand) + 1
    BY Zenon, <2>9, FS_AddElement DEF FlightInv
  <2>11. ASSUME pool # "destroyed", accepting
         PROVE  in_flight_request_count'
                  = (Cardinality(InHand) + 1) + Len(responses) + Len(local)
    <3>1. /\ Cardinality(InHand) \in Nat /\ Len(responses) \in Nat /\ Len(local) \in Nat
          /\ in_flight_request_count \in Nat
          /\ in_flight_request_count = Cardinality(InHand) + Len(responses) + Len(local)
      BY Zenon, <2>11, FlightNumbers
    <3> QED
      BY <1>2, <3>1
  <2> QED
    BY Zenon, <2>10, <2>11 DEF FlightInv, InFlightExact, InHand
<1> QED
  BY Zenon, <1>1, <1>2 DEF DispatchRequest

\* A connection's parser hands a request to the pool or leaves the pool alone.
LEMMA TryParseFlight ==
  ASSUME WInv, PlaceInv, FlightInv, NEW f \in DOMAIN connections, TryParseRequests(f)
  PROVE  FlightInv'
<1>1. UNCHANGED <<pool, accepting, responses, local>>
  BY Zenon DEF TryParseRequests, queueVars, loopVars
<1>2. CASE Complete(connections[f]) /\ DispatchRequest(f)
  BY Zenon, <1>1, <1>2, DispatchFlight
<1>3. CASE UNCHANGED <<tasks, in_flight_request_count>>
  BY Zenon, <1>1, <1>3, FlightKept DEF InHand
<1> QED
  BY Zenon, <1>2, <1>3
  DEF TryParseRequests, AnswerPing, HandleOneRequest, AnswerAtOnce, RejectHeader

\* The loop's steps keep the count,
LEMMA LoopStepFlight ==
  ASSUME WInv, PlaceInv, FlightInv, LoopStep
  PROVE  FlightInv'
<1> DEFINE Same ==
       UNCHANGED <<pool, tasks, responses, local, in_flight_request_count, accepting>>
<1>1. CASE \/ EpollWait \/ EpollWaitFails \/ LeaveRun \/ DrainWakeFd \/ DrainWakeFdFails
           \/ DrainsDone \/ EventsDone
  <2>1. Same
    BY Zenon, <1>1
    DEF EpollWait, EpollWaitFails, LeaveRun, DrainWakeFd, DrainWakeFdFails, DrainsDone,
        EventsDone, poolVars, queueVars, connVars
  <2> QED
    BY Zenon, <2>1, FlightKept DEF InHand
<1>2. CASE DrainPendingConnections \/ DrainPendingFails \/ UpdateAfterResponse \/ Tick
  <2>1. Same
    BY Zenon, <1>2
    DEF DrainPendingConnections, DrainPendingFails, UpdateAfterResponse, Tick, poolVars,
        queueVars
  <2> QED
    BY Zenon, <2>1, FlightKept DEF InHand
<1>3. CASE (\E e \in events : TakeEvent(e)) \/ EventOut \/ EventEnd
  <2>1. Same
    BY Zenon, <1>3 DEF TakeEvent, EventOut, EventEnd, poolVars, queueVars
  <2> QED
    BY Zenon, <2>1, FlightKept DEF InHand
<1>4. CASE \E fd \in DOMAIN connections : ReadRequestCo(fd) \/ WriteResponseCo(fd)
  <2>1. Same
    BY Zenon, <1>4 DEF ReadRequestCo, WriteResponseCo, poolVars, queueVars, loopVars
  <2> QED
    BY Zenon, <2>1, FlightKept DEF InHand
<1>5. CASE CloseAllConnections
  <2>1. ~accepting' /\ UNCHANGED <<pool, tasks, responses, local, in_flight_request_count>>
    BY <1>5 DEF CloseAllConnections, poolVars
  <2> QED
    BY Zenon, <2>1, FlightKept DEF InHand
<1>6. CASE \/ SwapCompleted \/ DrainCompletedResponses
           \/ \E fd \in DOMAIN connections : TryParseRequests(fd)
  BY Zenon, <1>6, SwapCompletedFlight, DrainCompletedFlight, TryParseFlight
<1> QED
  BY Zenon, <1>1, <1>2, <1>3, <1>4, <1>5, <1>6 DEF LoopStep

\* and so do all steps.
LEMMA NextFlight == WInv /\ PlaceInv /\ FlightInv /\ [Next]_vars => FlightInv'
<1> SUFFICES ASSUME WInv, PlaceInv, FlightInv, [Next]_vars PROVE FlightInv'
  OBVIOUS
<1>1. CASE LoopStep
  BY Zenon, <1>1, LoopStepFlight
<1>2. CASE \E t \in tasks : RunHandler(t) \/ WakeLoop(t)
  BY Zenon, <1>2, RunHandlerFlight, WakeLoopFlight
<1>3. CASE Wakeup \/ StopPool \/ RequestStop \/ EnqueueConnection \/ UNCHANGED vars
  <2>1. UNCHANGED <<tasks, responses, local, in_flight_request_count, accepting>>
    BY Zenon, <1>3 DEF Wakeup, StopPool, RequestStop, EnqueueConnection, vars,
                       poolVars, queueVars, loopVars, connVars
  <2>2. pool = "destroyed" => pool' = pool
    BY <1>3 DEF Wakeup, StopPool, RequestStop, EnqueueConnection, vars, poolVars
  <2> QED
    BY Zenon, <2>1, <2>2, FlightKept DEF InHand
<1>4. CASE \E fd \in Fds : AcceptConnection(fd) \/ ClientStep(fd)
  <2>1. UNCHANGED <<pool, tasks, responses, local, in_flight_request_count, accepting>>
    BY Zenon, <1>4 DEF AcceptConnection, ClientStep, ClientSends, ClientSendsRest,
                       ClientReceives, ClientCloses, poolVars, queueVars, loopVars, connVars
  <2> QED
    BY Zenon, <2>1, FlightKept DEF InHand
<1>5. CASE JoinPool
  <2>1. InHand' = {} /\ pool' = "destroyed"
    BY <1>5 DEF JoinPool, InHand
  <2> QED
    BY Zenon, <2>1, FS_EmptySet DEF FlightInv, InFlightExact
<1> QED
  BY Zenon, <1>1, <1>2, <1>3, <1>4, <1>5 DEF Next

\* InFlightExact: until the pool is destroyed or the loop has ended,
\* in_flight_request_count_ is the number of requests handed to the pool whose
\* result the loop has not taken yet, so a drained loop counts none.
THEOREM InFlightExactHolds == Spec => []InFlightExact
<1>1. ASSUME Init PROVE FlightInv
  <2>1. /\ InHand = {} /\ Len(responses) = 0 /\ Len(local) = 0
        /\ in_flight_request_count = 0
    BY <1>1 DEF Init, InHand
  <2>2. IsFiniteSet(InHand) /\ Cardinality(InHand) = 0
    BY Zenon, <2>1, FS_EmptySet
  <2>3. in_flight_request_count = Cardinality(InHand) + Len(responses) + Len(local)
    BY <2>1, <2>2
  <2> QED
    BY Zenon, <2>2, <2>3 DEF FlightInv, InFlightExact, InHand
<1>2. Spec => []FlightInv
  BY <1>1, NextFlight, WInvHolds, PlaceInvHolds, PTL DEF Spec
<1>3. FlightInv => InFlightExact
  BY Zenon DEF FlightInv
<1> QED
  BY <1>2, <1>3, PTL

\* A queue without repetitions holds as many elements as it is long.
LEMMA QueueSize ==
  ASSUME NEW S, NEW p \in Seq(S), \A i, j \in DOMAIN p : p[i] = p[j] => i = j
  PROVE  /\ IsFiniteSet({p[i] : i \in DOMAIN p})
         /\ Cardinality({p[i] : i \in DOMAIN p}) = Len(p)
<1> DEFINE T == {p[i] : i \in DOMAIN p}
<1>1. Len(p) \in Nat /\ DOMAIN p = 1 .. Len(p)
  BY EmptySeq
<1>2. p \in Bijection(1 .. Len(p), T)
  BY <1>1 DEF Bijection, Injection, Surjection, IsInjective
<1>3. ExistsBijection(1 .. Len(p), T)
  BY Zenon, <1>2 DEF ExistsBijection
<1> QED
  BY <1>1, <1>3, FS_CountingElements, FS_NatBijection

\* The sizes of disjoint sets add up.
LEMMA DisjointUnion ==
  ASSUME NEW S, NEW T, IsFiniteSet(S), IsFiniteSet(T), S \cap T = {}
  PROVE  IsFiniteSet(S \cup T) /\ Cardinality(S \cup T) = Cardinality(S) + Cardinality(T)
<1>1. Cardinality(S) \in Nat /\ Cardinality(T) \in Nat /\ Cardinality(S \cap T) = 0
  BY Zenon, FS_CardinalityType, FS_EmptySet
<1>2. /\ IsFiniteSet(S \cup T)
      /\ Cardinality(S \cup T) = Cardinality(S) + Cardinality(T) - Cardinality(S \cap T)
  BY Zenon, FS_Union
<1> QED
  BY <1>1, <1>2

\* SocketsOwned: no descriptor is leaked and none has two owners; an open socket
\* belongs to a connection, waits in pending_connections_ or is in the acceptor's
\* hands, also when the loop has failed and ended.
THEOREM SocketsOwnedHolds == Spec => []SocketsOwned
<1>1. ASSUME WInv PROVE SocketsOwned
  <2>1. /\ DOMAIN sockets = DOMAIN connections \cup Queued \cup Handed
        /\ DOMAIN connections \cap Queued = {} /\ DOMAIN sockets \subseteq Fds
        /\ (DOMAIN connections \cup Queued) \cap Handed = {}
        /\ pending_connections \in Seq(Fds)
        /\ \A i, j \in DOMAIN pending_connections :
             pending_connections[i] = pending_connections[j] => i = j
    BY <1>1 DEF WInv, Data, Ownership
  <2>2. IsFiniteSet(DOMAIN connections) /\ IsFiniteSet(Handed)
    <3>1. IsFiniteSet(Fds) /\ DOMAIN connections \subseteq Fds /\ Handed \subseteq Fds
      BY <2>1, WorkerLoopAssumption
    <3> QED
      BY Zenon, <3>1, FS_Subset
  <2>3. IsFiniteSet(Queued) /\ Cardinality(Queued) = Len(pending_connections)
    BY Zenon, <2>1, QueueSize DEF Queued
  <2>4. /\ IsFiniteSet(DOMAIN connections \cup Queued)
        /\ Cardinality(DOMAIN connections \cup Queued)
             = Cardinality(DOMAIN connections) + Len(pending_connections)
    BY Zenon, <2>1, <2>2, <2>3, DisjointUnion
  <2>5. Cardinality(DOMAIN sockets)
          = Cardinality(DOMAIN connections) + Len(pending_connections) + Cardinality(Handed)
    BY Zenon, <2>1, <2>2, <2>4, DisjointUnion
  <2> QED
    BY <2>1, <2>5 DEF SocketsOwned, Queued, Handed
<1> QED
  BY <1>1, WInvHolds, PTL

-----------------------------------------------------------------------------
(* The bound of the count of the requests in flight.                       *)

Unread == {n \in 1 .. MaxRequests : IsUnread(n)}

\* A request is counted once, after it has been parsed.
BudgetInv ==
  in_flight_request_count \in Nat /\ in_flight_request_count + Cardinality(Unread) <= sent

\* The requests still to be parsed can be counted.
LEMMA UnreadFinite == IsFiniteSet(Unread) /\ Cardinality(Unread) \in Nat
<1>1. IsFiniteSet(1 .. MaxRequests)
  BY FS_Interval, WorkerLoopAssumption
<1>2. IsFiniteSet(Unread)
  BY Zenon, <1>1, FS_Subset DEF Unread
<1> QED
  BY Zenon, <1>2, FS_CardinalityType

\* A step parses a request for each one it counts, and sends one for each it adds.
LEMMA NextBudget == WInv /\ PlaceInv /\ BudgetInv /\ [Next]_vars => BudgetInv'
<1> SUFFICES ASSUME WInv, PlaceInv, BudgetInv, UnreadStep PROVE BudgetInv'
  BY Zenon, NextMoves
<1>1. /\ IsFiniteSet(Unread) /\ Cardinality(Unread) \in Nat
      /\ in_flight_request_count \in Nat /\ sent \in Nat
      /\ in_flight_request_count + Cardinality(Unread) <= sent
  BY UnreadFinite DEF BudgetInv, WInv, Data, SocketInv
<1>2. CASE /\ FewerUnread /\ sent' = sent
           /\ \/ in_flight_request_count' = in_flight_request_count
              \/ in_flight_request_count' =
                   IF in_flight_request_count > 0 THEN in_flight_request_count - 1 ELSE 0
  <2>1. Unread' \subseteq Unread
    BY Zenon, <1>2 DEF Unread, FewerUnread
  <2>2. Cardinality(Unread') \in Nat /\ Cardinality(Unread') <= Cardinality(Unread)
    BY Zenon, <1>1, <2>1, FS_Subset, FS_CardinalityType
  <2>3. in_flight_request_count' \in Nat /\ in_flight_request_count' <= in_flight_request_count
    BY <1>1, <1>2
  <2> QED
    BY <1>1, <1>2, <2>2, <2>3 DEF BudgetInv
<1>3. CASE /\ \A n : IsUnread(n)' => IsUnread(n) \/ n = sent + 1
           /\ sent' = sent + 1 /\ in_flight_request_count' = in_flight_request_count
  <2>1. Unread' \subseteq Unread \cup {sent + 1}
    BY Zenon, <1>3 DEF Unread
  <2>2. /\ IsFiniteSet(Unread \cup {sent + 1})
        /\ \/ Cardinality(Unread \cup {sent + 1}) = Cardinality(Unread)
           \/ Cardinality(Unread \cup {sent + 1}) = Cardinality(Unread) + 1
    BY Zenon, <1>1, FS_AddElement
  <2>3. /\ Cardinality(Unread') \in Nat
        /\ Cardinality(Unread') <= Cardinality(Unread \cup {sent + 1})
    BY Zenon, <2>1, <2>2, FS_Subset, FS_CardinalityType
  <2> QED
    BY <1>1, <1>3, <2>2, <2>3 DEF BudgetInv
<1>4. ASSUME NEW x, IsUnread(x), \A n : IsUnread(n)' => IsUnread(n) /\ n # x,
             sent' = sent, in_flight_request_count' = in_flight_request_count + 1,
             x \in 1 .. MaxRequests
      PROVE  BudgetInv'
  <2>1. x \in Unread /\ Unread' \subseteq Unread \ {x}
    BY Zenon, <1>4 DEF Unread
  <2>2. /\ IsFiniteSet(Unread \ {x})
        /\ Cardinality(Unread \ {x}) = Cardinality(Unread) - 1
    BY Zenon, <1>1, <2>1, FS_RemoveElement
  <2>3. /\ Cardinality(Unread') \in Nat
        /\ Cardinality(Unread') <= Cardinality(Unread \ {x})
    BY Zenon, <2>1, <2>2, FS_Subset, FS_CardinalityType
  <2> QED
    BY <1>1, <1>4, <2>2, <2>3 DEF BudgetInv
<1>5. ASSUME NEW x, IsUnread(x)
      PROVE  x \in 1 .. MaxRequests
  <2>1. \E fd : At(x, "wire", fd) \/ At(x, "read", fd)
    BY <1>5 DEF IsUnread, At
  <2>2. x \in 1 .. sent /\ sent \in 0 .. MaxRequests
    BY Zenon, <2>1, PlacesSent DEF WInv, Data, SocketInv
  <2> QED
    BY <2>2, WorkerLoopAssumption
<1> QED
  BY Zenon, <1>2, <1>3, <1>4, <1>5 DEF UnreadStep

\* At first nothing has been sent.
LEMMA InitBudget == Init => BudgetInv
<1> SUFFICES ASSUME Init PROVE BudgetInv
  OBVIOUS
<1>1. DOMAIN sockets = {} /\ DOMAIN connections = {}
  BY DEF Init
<1>2. Unread = {}
  BY Zenon, <1>1 DEF Unread, IsUnread, OnWire, InRead
<1>3. Cardinality(Unread) = 0
  BY Zenon, <1>2, FS_EmptySet
<1> QED
  BY <1>3 DEF Init, BudgetInv

\* A frame, and a call, of the types TypeOK names.
LEMMA TypedRequest ==
  ASSUME WInv, NEW r \in Frames, r.id \in 1 .. sent, r.kind \in Kinds, r.client \in 1 .. clients,
         r.part # "rest"
  PROVE  r \in Requests
<1>1. 1 .. sent \subseteq 1 .. MaxRequests /\ 1 .. clients \subseteq 1 .. MaxClients
  BY WorkerLoopAssumption DEF WInv, Data, SocketInv
<1>2. r.part \in {"whole", "first"}
  BY DEF Frames, Parts
<1> QED
  BY Zenon, <1>1, <1>2 DEF Frames, Requests

\* TypeOK: the queues and buffers hold requests that were sent, a write buffer
\* never exceeds its limit, tokens do not outnumber the clients, and the requests
\* in flight not those that were sent, also when a destroyed pool takes some.
THEOREM WorkerLoopTypeOK == Spec => []TypeOK
<1>1. ASSUME WInv, BudgetInv
      PROVE  TypeOK
  <2>1. /\ DOMAIN connections \subseteq DOMAIN sockets /\ DOMAIN sockets \subseteq Fds
    BY Zenon, <1>1 DEF WInv, Data, Ownership
  <2>2. answered \subseteq Requests
    BY Zenon, <1>1, TypedRequest DEF WInv, Answers
  <2>3. next_token \in 1 .. MaxClients + 1
    <3>1. Len(pending_connections) \in Nat
      BY Zenon, <1>1, EmptySeq DEF WInv, Data, Ownership
    <3> QED
      BY <1>1, <3>1, WorkerLoopAssumption DEF WInv, Data, Tokens, SocketInv
  <2>4. in_flight_request_count \in 0 .. MaxRequests
    <3>1. Cardinality(Unread) \in Nat
      BY Zenon, UnreadFinite
    <3> QED
      BY <1>1, <3>1, WorkerLoopAssumption DEF WInv, Data, SocketInv, BudgetInv
  <2>5. GoodCalls \subseteq Dispatches
    <3> SUFFICES ASSUME NEW t \in GoodCalls PROVE t \in Dispatches
      BY Zenon
    <3>1. t \in Calls /\ GoodCall(t)
      BY Zenon DEF GoodCalls
    <3>2. t.req \in Requests
      BY Zenon, <1>1, <3>1, TypedRequest DEF Calls, GoodCall
    <3>3. t.token \in 1 .. MaxClients
      BY <2>3, <3>1, WorkerLoopAssumption DEF GoodCall
    <3> QED
      BY Zenon, <3>1, <3>2, <3>3 DEF Calls, Dispatches
  <2>6. /\ tasks \subseteq Dispatches
        /\ responses \in Seq(Dispatches) /\ local \in Seq(Dispatches)
    <3>1. tasks \subseteq GoodCalls /\ responses \in Seq(GoodCalls) /\ local \in Seq(GoodCalls)
      BY Zenon, <1>1 DEF WInv, Dispatched
    <3> QED
      BY Zenon, <2>5, <3>1, SeqLarger
  <2>7. ASSUME NEW fd \in DOMAIN connections
        PROVE  /\ connections[fd].at \in {"wait_read", "wait_write", "read", "parse", "flush", "done"}
               /\ connections[fd].write_buffer \in Seq(Requests)
               /\ Len(connections[fd].write_buffer) <= MaxWriteBuffer
    <3>1. PICK c : c = connections[fd]
      BY Zenon
    <3>2. /\ c \in Conns /\ GoodConn(c) /\ c.write_buffer \in Seq(Frames)
          /\ GoodBuffers(c, sent) /\ fd \in DOMAIN sockets
          /\ GoodSocket(sockets[fd], clients, sent) /\ c.peer = sockets[fd].client
      BY Zenon, <1>1, <3>1, BuffersOf DEF WInv, Data, ConnInv, Streams
    <3>3. PICK b \in Seq(Frames) : b = c.write_buffer
      BY Zenon, <3>2
    <3>4. \A i \in DOMAIN b : b[i] \in Frames
      OBVIOUS
    <3>5. \A i \in DOMAIN b : b[i] \in Requests
      BY Zenon, <1>1, <3>2, <3>3, <3>4, TypedRequest DEF GoodBuffers, From, Requested, GoodSocket
    <3>6. b \in Seq(Requests)
      BY <3>5
    <3> QED
      BY Zenon, <3>1, <3>2, <3>3, <3>6 DEF GoodConn, Conns, Places
  <2> QED
    BY Zenon, <2>1, <2>2, <2>3, <2>4, <2>6, <2>7 DEF TypeOK
<1>2. Spec => []BudgetInv
  BY InitBudget, NextBudget, WInvHolds, PlaceInvHolds, PTL DEF Spec
<1> QED
  BY <1>1, <1>2, WInvHolds, PTL
=============================================================================

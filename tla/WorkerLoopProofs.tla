-------------------------- MODULE WorkerLoopProofs --------------------------
(***************************************************************************)
(* Proofs about a worker loop for any number of descriptors, clients and   *)
(* requests and any buffer sizes, with and without a business pool, with   *)
(* failing system calls, time-outs and a stopping server.                  *)
(*                                                                         *)
(* First the places of the requests: in a state where WInv holds every     *)
(* step preserves PlaceInv and counts only requests that it has parsed     *)
(* (NextMoves).  Then WInv itself: there is a lemma for each action.  The  *)
(* safety properties follow from WInv; those that rest on the places or on *)
(* the sizes of sets are in WorkerLoopCounts.                              *)
(***************************************************************************)
EXTENDS WorkerLoopInvariant, TLAPS

-----------------------------------------------------------------------------
(* The places of the requests.                                             *)

\* The first d elements are taken off.
LEMMA DropIds ==
  ASSUME NEW s \in Seq(Frames), NEW t \in Seq(Frames), NEW d \in 0 .. Len(s),
         Len(t) = Len(s) - d, \A i \in 1 .. Len(s) - d : t[i] = s[i + d], Once(s)
  PROVE  /\ Once(t) /\ \A n : Holds(t, n) => Holds(s, n)
         /\ \A i \in Starts(s) : i <= d => ~Holds(t, s[i].id)
<1>1. \A i \in Starts(t) : i + d \in Starts(s) /\ t[i] = s[i + d] /\ i \in Nat \ {0}
  BY DEF Starts
<1>2. \A i, j \in Nat : i + d = j + d => i = j
  OBVIOUS
<1>3. \A i, j : j \in Nat \ {0} /\ i = j + d => ~(i <= d)
  OBVIOUS
<1>4. Once(t)
  <2> SUFFICES ASSUME NEW i \in Starts(t), NEW j \in Starts(t), t[i].id = t[j].id
               PROVE  i = j
    BY Zenon DEF Once
  <2>1. i + d = j + d
    BY ZenonT(40), <1>1 DEF Once
  <2> QED
    BY <1>1, <1>2, <2>1
<1>5. \A n : Holds(t, n) => Holds(s, n)
  BY Zenon, <1>1 DEF Holds
<1>6. \A i \in Starts(s) : i <= d => ~Holds(t, s[i].id)
  BY Zenon, <1>1, <1>3 DEF Holds, Once
<1> QED
  BY Zenon, <1>4, <1>5, <1>6

\* The first frame of a buffer is taken out.
LEMMA LeftIds ==
  ASSUME NEW s \in Seq(Frames), s # <<>>, Len(s) > 1 \/ Head(s).part = "whole",
         Head(s).part # "rest", Once(s)
  PROVE  /\ Once(Left(s)) /\ Holds(s, Head(s).id)
         /\ \A n : Holds(Left(s), n) => Holds(s, n) /\ n # Head(s).id
<1>1. 1 \in Starts(s) /\ s[1] = Head(s) /\ Len(s) \in Nat
  BY DEF Starts
<1>2. /\ Tail(s) \in Seq(Frames) /\ Len(Tail(s)) = Len(s) - 1
      /\ \A i \in 1 .. Len(s) - 1 : Tail(s)[i] = s[i + 1]
  OBVIOUS
<1>3. PICK d \in {1, 2} : /\ d <= Len(s) /\ Len(Left(s)) = Len(s) - d
                          /\ Left(s) \in Seq(Frames)
                          /\ \A i \in 1 .. Len(s) - d : Left(s)[i] = s[i + d]
  <2>1. CASE Head(s).part = "whole"
    <3>1. Left(s) = Tail(s) /\ 1 <= Len(s)
      BY <2>1 DEF Left
    <3> QED
      BY Zenon, <1>2, <3>1
  <2>2. CASE Head(s).part # "whole"
    <3>1. Left(s) = Tail(Tail(s)) /\ 2 <= Len(s)
      BY <1>1, <2>2 DEF Left
    <3>2. PICK u \in Seq(Frames) : u = Tail(s)
      BY Zenon, <1>2
    <3>3. Len(u) = Len(s) - 1 /\ \A i \in 1 .. Len(s) - 1 : u[i] = s[i + 1]
      BY Zenon, <1>2, <3>2
    <3>4. /\ Tail(u) \in Seq(Frames) /\ Len(Tail(u)) = Len(s) - 2
          /\ \A i \in 1 .. Len(s) - 2 : Tail(u)[i] = u[i + 1]
      BY <1>1, <3>1, <3>3
    <3>5. \A i \in 1 .. Len(s) - 2 : Tail(u)[i] = s[i + 2]
      BY <1>1, <3>3, <3>4
    <3> QED
      BY Zenon, <3>1, <3>2, <3>4, <3>5
  <2> QED
    BY Zenon, <2>1, <2>2
<1>4. d \in 0 .. Len(s) /\ 1 <= d
  BY <1>1, <1>3
<1>5. /\ Once(Left(s)) /\ \A n : Holds(Left(s), n) => Holds(s, n)
      /\ \A i \in Starts(s) : i <= d => ~Holds(Left(s), s[i].id)
  BY Zenon, <1>3, <1>4, DropIds
<1>6. Holds(s, Head(s).id)
  BY Zenon, <1>1 DEF Holds
<1>7. ~Holds(Left(s), Head(s).id)
  BY Zenon, <1>1, <1>4, <1>5
<1> QED
  BY Zenon, <1>5, <1>6, <1>7

\* The types the invariant gives to a connection, its buffers and its socket.
LEMMA BuffersOf ==
  ASSUME WInv, NEW fd \in DOMAIN connections
  PROVE  LET c == connections[fd]
             s == sockets[fd]
         IN /\ c \in Conns /\ c.read_buffer \in Seq(Frames) /\ c.write_buffer \in Seq(Frames)
            /\ GoodBuffers(c, sent)
            /\ fd \in DOMAIN sockets /\ s \in Sockets /\ GoodSocket(s, clients, sent)
            /\ s.wire \in Seq(Frames) /\ s.out \in Seq(Frames)
<1>1. /\ connections[fd] \in Conns /\ GoodBuffers(connections[fd], sent)
      /\ fd \in DOMAIN sockets /\ sockets[fd] \in Sockets /\ GoodSocket(sockets[fd], clients, sent)
  BY Zenon DEF WInv, Data, ConnInv, GoodConn, BufferInv, Ownership, SocketInv
<1>2. connections[fd].read_buffer \in Seq(Frames) /\ connections[fd].write_buffer \in Seq(Frames)
  BY Zenon, <1>1 DEF Conns
<1>3. sockets[fd].wire \in Seq(Frames) /\ sockets[fd].out \in Seq(Frames)
  BY Zenon, <1>1 DEF Sockets
<1> QED
  BY Zenon, <1>1, <1>2, <1>3

\* Whatever is anywhere has been sent.
LEMMA PlacesSent ==
  ASSUME WInv, NEW n, NEW k, NEW fd, At(n, k, fd)
  PROVE  n \in 1 .. sent
<1>1. CASE Answered(n)
  BY Zenon, <1>1 DEF Answered, WInv, Answers
<1>2. CASE InPool(n) \/ InQueue(n) \/ InLocal(n)
  <2>1. /\ \A t \in tasks : t.req.id \in 1 .. sent
        /\ \A i \in DOMAIN responses : responses[i].req.id \in 1 .. sent
        /\ \A i \in DOMAIN local : local[i].req.id \in 1 .. sent
    BY DEF WInv, Dispatched, GoodCalls, GoodCall
  <2> QED
    BY Zenon, <1>2, <2>1 DEF InPool, InQueue, InLocal
<1>3. CASE OnWire(n, fd) \/ InOut(n, fd)
  BY Zenon, <1>3 DEF OnWire, InOut, Holds, Starts, WInv, Data, SocketInv, GoodSocket, From
<1>4. CASE InRead(n, fd) \/ InWrite(n, fd)
  BY Zenon, <1>4 DEF InRead, InWrite, Holds, Starts, WInv, Data, BufferInv, GoodBuffers, From
<1> QED
  BY Zenon, <1>1, <1>2, <1>3, <1>4 DEF At

\* A step brings nothing to a place: what is there was there before.
Calm(kind, fd) ==
  /\ kind = "answered" /\ fd = 0 => answered' = answered
  /\ kind = "pool" /\ fd = 0 => \A t \in tasks' : t.stage = "run" => t \in tasks
  /\ kind = "queue" /\ fd = 0 => responses' = responses
  /\ kind = "local" /\ fd = 0 => local' = local
  /\ kind = "wire" /\ fd \in DOMAIN sockets' =>
       \/ fd \in DOMAIN sockets /\ sockets'[fd].wire = sockets[fd].wire
       \/ sockets'[fd].wire = <<>>
  /\ kind = "out" /\ fd \in DOMAIN sockets' =>
       \/ fd \in DOMAIN sockets /\ sockets'[fd].out = sockets[fd].out
       \/ sockets'[fd].out = <<>>
  /\ kind = "read" /\ fd \in DOMAIN connections' =>
       \/ fd \in DOMAIN connections /\ connections'[fd].read_buffer = connections[fd].read_buffer
       \/ connections'[fd].read_buffer = <<>>
  /\ kind = "write" /\ fd \in DOMAIN connections' =>
       \/ fd \in DOMAIN connections /\ connections'[fd].write_buffer = connections[fd].write_buffer
       \/ connections'[fd].write_buffer = <<>>

\* The empty sequence holds nothing.
LEMMA NothingHeld == Once(<<>>) /\ \A n : ~Holds(<<>>, n)
  BY DEF Once, Holds, Starts

SameBuffers(c, d) == d.read_buffer = c.read_buffer /\ d.write_buffer = c.write_buffer

\* Request n is still to be parsed.
IsUnread(n) == \E fd : OnWire(n, fd) \/ InRead(n, fd)

FewerUnread == \A n : IsUnread(n)' => IsUnread(n)

\* A request is sent, or parsed and counted, or nothing new is sent or counted.
UnreadStep ==
  \/ /\ FewerUnread /\ sent' = sent
     /\ \/ in_flight_request_count' = in_flight_request_count
        \/ in_flight_request_count' =
             IF in_flight_request_count > 0 THEN in_flight_request_count - 1 ELSE 0
  \/ /\ \A n : IsUnread(n)' => IsUnread(n) \/ n = sent + 1
     /\ sent' = sent + 1 /\ in_flight_request_count' = in_flight_request_count
  \/ \E x : /\ IsUnread(x) /\ \A n : IsUnread(n)' => IsUnread(n) /\ n # x
            /\ sent' = sent /\ in_flight_request_count' = in_flight_request_count + 1

\* Every step preserves PlaceInv and is an UnreadStep.  Most steps bring no request
\* to any place (CalmStep); the others bring requests to one place, and take them
\* from another (MoveStep) or are the client's that sends them (NewStep).
LEMMA NextMoves == WInv /\ PlaceInv /\ [Next]_vars => PlaceInv' /\ UnreadStep
\* A place to which the step brings nothing.
<1>CalmPlace.
    ASSUME NEW k, NEW fd, Calm(k, fd), OnceAt(k, fd)
    PROVE  OnceAt(k, fd)' /\ \A n : At(n, k, fd)' => At(n, k, fd)
  <2> USE <1>CalmPlace
  <2>1. OnceAt(k, fd)'
    BY ZenonT(40), NothingHeld DEF OnceAt, Calm
  <2>2. ASSUME NEW n, At(n, k, fd)'
        PROVE  At(n, k, fd)
    <3>1. CASE k = "answered"
      BY <2>2, <3>1 DEF At, Calm, Answered
    <3>2. CASE k = "pool"
      BY <2>2, <3>2 DEF At, Calm, InPool
    <3>3. CASE k = "queue"
      BY <2>2, <3>3 DEF At, Calm, InQueue
    <3>4. CASE k = "local"
      BY <2>2, <3>4 DEF At, Calm, InLocal
    <3>5. CASE k = "wire"
      <4>1. OnWire(n, fd)'
        BY <2>2, <3>5 DEF At
      <4>2. OnWire(n, fd)
        BY Zenon, <3>5, <4>1, NothingHeld DEF Calm, OnWire
      <4> QED
        BY Zenon, <3>5, <4>2 DEF At
    <3>6. CASE k = "out"
      <4>1. InOut(n, fd)'
        BY <2>2, <3>6 DEF At
      <4>2. InOut(n, fd)
        BY Zenon, <3>6, <4>1, NothingHeld DEF Calm, InOut
      <4> QED
        BY Zenon, <3>6, <4>2 DEF At
    <3>7. CASE k = "read"
      <4>1. InRead(n, fd)'
        BY <2>2, <3>7 DEF At
      <4>2. InRead(n, fd)
        BY Zenon, <3>7, <4>1, NothingHeld DEF Calm, InRead
      <4> QED
        BY Zenon, <3>7, <4>2 DEF At
    <3>8. CASE k = "write"
      <4>1. InWrite(n, fd)'
        BY <2>2, <3>8 DEF At
      <4>2. InWrite(n, fd)
        BY Zenon, <3>8, <4>1, NothingHeld DEF Calm, InWrite
      <4> QED
        BY Zenon, <3>8, <4>2 DEF At
    <3> QED
      BY Zenon, <2>2, <3>1, <3>2, <3>3, <3>4, <3>5, <3>6, <3>7, <3>8 DEF At
  <2> QED
    BY Zenon, <2>1, <2>2

\* A step that brings nothing anywhere.
<1>CalmStep.
    ASSUME PlaceInv, \A k, fd : Calm(k, fd)
    PROVE  PlaceInv'
  <2> USE <1>CalmStep
  <2>1. \A k, fd : OnceAt(k, fd)' /\ \A n : At(n, k, fd)' => At(n, k, fd)
    BY Zenon, <1>CalmPlace DEF PlaceInv
  <2>2. ASSUME NEW n, NEW l, NEW m, NEW fd, NEW gd, At(n, l, fd)', At(n, m, gd)'
        PROVE  l = m /\ fd = gd
    <3>1. At(n, l, fd) /\ At(n, m, gd)
      BY Zenon, <2>1, <2>2
    <3> QED
      BY Zenon, <3>1 DEF PlaceInv, OneSpot
  <2> QED
    BY Zenon, <2>1, <2>2 DEF PlaceInv, OneSpot

\* A step that takes the requests of M from the place k, f to the place k0, f0.
<1>MoveStep.
    ASSUME PlaceInv, NEW M, NEW k, NEW f, NEW k0, NEW f0, \A n \in M : At(n, k, f),
           \A l, fd : Calm(l, fd) \/ (l = k /\ fd = f) \/ (l = k0 /\ fd = f0),
           OnceAt(k, f)', \A n : At(n, k, f)' => At(n, k, f) /\ n \notin M,
           OnceAt(k0, f0)', \A n : At(n, k0, f0)' => At(n, k0, f0) \/ n \in M
    PROVE  PlaceInv'
  <2> USE <1>MoveStep
  <2>1. ASSUME NEW l, NEW fd
        PROVE  /\ OnceAt(l, fd)'
               /\ \A n : At(n, l, fd)' => \/ At(n, l, fd) /\ (n \notin M \/ ~(l = k /\ fd = f))
                                          \/ n \in M /\ l = k0 /\ fd = f0
    <3>1. OnceAt(l, fd)
      BY Zenon DEF PlaceInv
    <3>2. CASE Calm(l, fd) /\ ~(l = k /\ fd = f)
      BY Zenon, <3>1, <3>2, <1>CalmPlace
    <3>3. CASE l = k /\ fd = f
      BY Zenon, <3>3
    <3>4. CASE l = k0 /\ fd = f0 /\ ~(l = k /\ fd = f)
      BY Zenon, <3>4
    <3> QED
      BY Zenon, <3>2, <3>3, <3>4
  <2>2. ASSUME NEW n \in M, NEW l, NEW fd, At(n, l, fd)'
        PROVE  l = k0 /\ fd = f0
    BY Zenon, <2>1, <2>2 DEF PlaceInv, OneSpot
  <2>3. ASSUME NEW n, n \notin M, NEW l, NEW fd, At(n, l, fd)'
        PROVE  At(n, l, fd)
    BY Zenon, <2>1, <2>3
  <2>4. ASSUME NEW n, NEW l, NEW m, NEW fd, NEW gd, At(n, l, fd)', At(n, m, gd)'
        PROVE  l = m /\ fd = gd
    <3>1. CASE n \in M
      BY <2>2, <2>4, <3>1
    <3>2. CASE n \notin M
      <4>1. At(n, l, fd) /\ At(n, m, gd)
        BY Zenon, <2>3, <2>4, <3>2
      <4> QED
        BY Zenon, <4>1 DEF PlaceInv, OneSpot
    <3> QED
      BY Zenon, <3>1, <3>2
  <2> QED
    BY Zenon, <2>1, <2>4 DEF PlaceInv, OneSpot

\* The same for a single request.
<1>MoveOne.
    ASSUME PlaceInv, NEW n0, NEW k, NEW f, NEW k0, NEW f0, At(n0, k, f),
           \A l, fd : Calm(l, fd) \/ (l = k /\ fd = f) \/ (l = k0 /\ fd = f0),
           OnceAt(k, f)', \A n : At(n, k, f)' => At(n, k, f) /\ n # n0,
           OnceAt(k0, f0)', \A n : At(n, k0, f0)' => At(n, k0, f0) \/ n = n0
    PROVE  PlaceInv'
  <2> USE <1>MoveOne
  <2> DEFINE M == {n0}
  <2>1. /\ \A n \in M : At(n, k, f)
        /\ \A n : At(n, k, f)' => At(n, k, f) /\ n \notin M
        /\ \A n : At(n, k0, f0)' => At(n, k0, f0) \/ n \in M
    BY Zenon
  <2> HIDE DEF M
  <2> QED
    BY Zenon, <2>1, <1>MoveStep

(* Actions that move nothing.                                              *)

\* The queues, the sockets and the connections are left alone.
<1>IdlePlaces.
    ASSUME PlaceInv, UNCHANGED <<answered, responses, local, sockets, connections>>,
           tasks' \subseteq tasks
    PROVE  PlaceInv'
  <2> USE <1>IdlePlaces
  <2>1. \A k, fd : Calm(k, fd)
    BY Zenon DEF Calm
  <2> QED
    BY Zenon, <2>1, <1>CalmStep

\* A new socket is empty; a client that closes its end takes nothing back.
<1>AcceptPlaces.
    ASSUME PlaceInv, NEW f, AcceptConnection(f)
    PROVE  PlaceInv'
  <2> USE <1>AcceptPlaces
  <2>1. UNCHANGED <<answered, responses, local, connections, tasks>>
    BY Zenon DEF AcceptConnection, poolVars, queueVars, loopVars, connVars
  <2>2. \A fd \in DOMAIN sockets' :
          \/ sockets'[fd].wire = <<>> /\ sockets'[fd].out = <<>>
          \/ fd \in DOMAIN sockets /\ sockets'[fd] = sockets[fd]
    BY DEF AcceptConnection, With
  <2>3. \A k, fd : Calm(k, fd)
    BY Zenon, <2>1, <2>2 DEF Calm
  <2> QED
    BY Zenon, <2>3, <1>CalmStep

\* A client closes: nothing moves.
<1>ClientClosesPlaces.
    ASSUME WInv, PlaceInv, NEW f, ClientCloses(f)
    PROVE  PlaceInv'
  <2> USE <1>ClientClosesPlaces
  <2>1. UNCHANGED <<answered, responses, local, connections, tasks>>
    BY Zenon DEF ClientCloses, poolVars, queueVars, loopVars, connVars
  <2>2. \A fd \in DOMAIN sockets' : /\ fd \in DOMAIN sockets
                                    /\ sockets'[fd].wire = sockets[fd].wire
                                    /\ sockets'[fd].out = sockets[fd].out
    BY DEF ClientCloses, WInv, Data, SocketInv, Sockets
  <2>3. \A k, fd : Calm(k, fd)
    BY Zenon, <2>1, <2>2 DEF Calm
  <2> QED
    BY Zenon, <2>3, <1>CalmStep

\* Connections are opened without anything in their buffers, change without their
\* buffers, or are closed; sockets are closed.
<1>ConnPlaces.
    ASSUME PlaceInv, UNCHANGED <<answered, responses, local>>, tasks' \subseteq tasks,
           \A fd \in DOMAIN sockets' : fd \in DOMAIN sockets /\ sockets'[fd] = sockets[fd],
           \A fd \in DOMAIN connections' :
             \/ /\ fd \in DOMAIN connections
                /\ connections'[fd].read_buffer = connections[fd].read_buffer
                /\ connections'[fd].write_buffer = connections[fd].write_buffer
             \/ /\ connections'[fd].read_buffer = <<>>
                /\ connections'[fd].write_buffer = <<>>
    PROVE  PlaceInv'
  <2> USE <1>ConnPlaces
  <2>1. \A k, fd : Calm(k, fd)
    BY Zenon DEF Calm
  <2> QED
    BY Zenon, <2>1, <1>CalmStep

(* The requests that begin in a sequence.                                  *)

\* A frame is appended.
<1>AppendIds.
    ASSUME NEW s \in Seq(Frames), NEW x \in Frames
    PROVE  /\ \A n : Holds(Append(s, x), n) => Holds(s, n) \/ n = x.id
           /\ Once(s) /\ ~Holds(s, x.id) => Once(Append(s, x))
  <2> USE <1>AppendIds
  <2>1. \A i \in Starts(Append(s, x)) : \/ i \in Starts(s) /\ Append(s, x)[i] = s[i]
                                        \/ i = Len(s) + 1 /\ Append(s, x)[i] = x
    BY DEF Starts
  <2> QED
    BY Zenon, <2>1 DEF Holds, Once

\* Two sequences are joined,
<1>ConcatIds.
    ASSUME NEW s \in Seq(Frames), NEW t \in Seq(Frames)
    PROVE  /\ \A n : Holds(s \o t, n) => Holds(s, n) \/ Holds(t, n)
           /\ Once(s) /\ Once(t) /\ (\A n : ~(Holds(s, n) /\ Holds(t, n))) => Once(s \o t)
  <2> USE <1>ConcatIds
  <2>1. \A i \in Starts(s \o t) :
          \/ i \in Starts(s) /\ (s \o t)[i] = s[i]
          \/ i - Len(s) \in Starts(t) /\ (s \o t)[i] = t[i - Len(s)]
    <3> SUFFICES ASSUME NEW i \in Starts(s \o t)
                 PROVE  \/ i \in Starts(s) /\ (s \o t)[i] = s[i]
                        \/ i - Len(s) \in Starts(t) /\ (s \o t)[i] = t[i - Len(s)]
      BY Zenon
    <3>1. i \in DOMAIN (s \o t) /\ (s \o t)[i].part # "rest"
      BY Zenon DEF Starts
    <3>2. /\ Len(s) \in Nat /\ Len(t) \in Nat /\ DOMAIN s = 1 .. Len(s) /\ DOMAIN t = 1 .. Len(t)
          /\ i \in 1 .. Len(s) + Len(t)
      BY <3>1
    <3>3. CASE i \in 1 .. Len(s)
      BY <3>1, <3>2, <3>3 DEF Starts
    <3>4. CASE i \notin 1 .. Len(s)
      <4>1. i - Len(s) \in 1 .. Len(t) /\ Len(s) + (i - Len(s)) = i
        BY <3>2, <3>4
      <4>2. (s \o t)[i] = t[i - Len(s)]
        BY <4>1
      <4> QED
        BY Zenon, <3>1, <3>2, <4>1, <4>2 DEF Starts
    <3> QED
      BY Zenon, <3>3, <3>4
  <2>2. \A i \in Starts(s \o t) : i \in Nat
    BY DEF Starts
  <2>3. \A i, j \in Nat : i - Len(s) = j - Len(s) => i = j
    OBVIOUS
  <2>4. \A n : Holds(s \o t, n) => Holds(s, n) \/ Holds(t, n)
    BY Zenon, <2>1 DEF Holds
  <2>5. ASSUME Once(s), Once(t), \A n : ~(Holds(s, n) /\ Holds(t, n)),
               NEW i \in Starts(s \o t), NEW j \in Starts(s \o t), (s \o t)[i].id = (s \o t)[j].id
        PROVE  i = j
    <3>1. CASE i \in Starts(s) /\ j \in Starts(s) /\ (s \o t)[i] = s[i] /\ (s \o t)[j] = s[j]
      BY Zenon, <2>5, <3>1 DEF Once
    <3>2. CASE /\ i - Len(s) \in Starts(t) /\ j - Len(s) \in Starts(t)
               /\ (s \o t)[i] = t[i - Len(s)] /\ (s \o t)[j] = t[j - Len(s)]
      BY Zenon, <2>2, <2>3, <2>5, <3>2 DEF Once
    <3>3. CASE /\ i \in Starts(s) /\ j - Len(s) \in Starts(t)
               /\ (s \o t)[i] = s[i] /\ (s \o t)[j] = t[j - Len(s)]
      BY Zenon, <2>5, <3>3 DEF Holds
    <3>4. CASE /\ j \in Starts(s) /\ i - Len(s) \in Starts(t)
               /\ (s \o t)[j] = s[j] /\ (s \o t)[i] = t[i - Len(s)]
      BY Zenon, <2>5, <3>4 DEF Holds
    <3> QED
      BY Zenon, <2>1, <2>5, <3>1, <3>2, <3>3, <3>4
  <2> QED
    BY Zenon, <2>4, <2>5 DEF Once

\* The first d elements.
<1>PrefixIds.
    ASSUME NEW s \in Seq(Frames), NEW d \in 0 .. Len(s), Once(s)
    PROVE  /\ Once(SubSeq(s, 1, d))
           /\ \A n : Holds(SubSeq(s, 1, d), n) => \E i \in Starts(s) : i <= d /\ s[i].id = n
  <2> USE <1>PrefixIds
  <2>1. Len(s) \in Nat /\ d \in Nat /\ d <= Len(s) /\ DOMAIN s = 1 .. Len(s)
    OBVIOUS
  <2>2. /\ DOMAIN SubSeq(s, 1, d) = 1 .. d
        /\ \A i \in 1 .. d : SubSeq(s, 1, d)[i] = s[i]
    <3>1. 1 \in 1 .. Len(s) + 1 /\ d \in 0 .. Len(s) /\ 1 <= d + 1
      BY <2>1
    <3>2. /\ DOMAIN SubSeq(s, 1, d) = 1 .. d - 1 + 1
          /\ \A i \in 1 .. d - 1 + 1 : SubSeq(s, 1, d)[i] = s[1 + i - 1]
      BY <3>1
    <3> QED
      BY <2>1, <3>2
  <2>3. \A i \in Starts(SubSeq(s, 1, d)) :
          i \in Starts(s) /\ i <= d /\ SubSeq(s, 1, d)[i] = s[i]
    BY <2>1, <2>2 DEF Starts
  <2> QED
    BY Zenon, <2>3 DEF Holds, Once

\* A result is queued,
<1>AppendCall.
    ASSUME NEW q \in Seq(GoodCalls), NEW t \in GoodCalls
    PROVE  /\ \A i \in DOMAIN Append(q, t) : \/ i \in DOMAIN q /\ Append(q, t)[i] = q[i]
                                             \/ i = Len(q) + 1 /\ Append(q, t)[i] = t
           /\ CallsOnce(q) /\ (\A i \in DOMAIN q : q[i].req.id # t.req.id)
                => CallsOnce(Append(q, t))
  <2> USE <1>AppendCall
  <2>1. \A i \in DOMAIN Append(q, t) : \/ i \in DOMAIN q /\ Append(q, t)[i] = q[i]
                                       \/ i = Len(q) + 1 /\ Append(q, t)[i] = t
    OBVIOUS
  <2> QED
    BY Zenon, <2>1 DEF CallsOnce

\* and the first of a queue is taken out.
<1>TailCalls.
    ASSUME NEW q \in Seq(GoodCalls), q # <<>>, CallsOnce(q)
    PROVE  /\ Head(q) \in GoodCalls /\ \E i \in DOMAIN q : q[i] = Head(q)
           /\ CallsOnce(Tail(q))
           /\ \A i \in DOMAIN Tail(q) : /\ \E j \in DOMAIN q : Tail(q)[i] = q[j]
                                        /\ Tail(q)[i].req.id # Head(q).req.id
  <2> USE <1>TailCalls
  <2>1. /\ 1 \in DOMAIN q /\ Head(q) = q[1] /\ q[1] \in GoodCalls
        /\ \A i \in DOMAIN Tail(q) : i + 1 \in DOMAIN q /\ Tail(q)[i] = q[i + 1] /\ i + 1 # 1
                                     /\ i \in Nat
    OBVIOUS
  <2>2. \A i, j \in Nat : i + 1 = j + 1 => i = j
    OBVIOUS
  <2>3. ASSUME NEW i \in DOMAIN Tail(q), NEW j \in DOMAIN Tail(q),
               Tail(q)[i].req.id = Tail(q)[j].req.id
        PROVE  i = j
    <3>1. q[i + 1].req.id = q[j + 1].req.id /\ i + 1 \in DOMAIN q /\ j + 1 \in DOMAIN q
      BY <2>1, <2>3
    <3>2. i + 1 = j + 1
      BY Zenon, <3>1 DEF CallsOnce
    <3> QED
      BY <2>1, <2>2, <3>2
  <2>4. ASSUME NEW i \in DOMAIN Tail(q)
        PROVE  /\ \E j \in DOMAIN q : Tail(q)[i] = q[j]
               /\ Tail(q)[i].req.id # Head(q).req.id
    BY Zenon, <2>1, <2>4 DEF CallsOnce
  <2> QED
    BY Zenon, <2>1, <2>3, <2>4 DEF CallsOnce

(* What the operations do to the buffers of a connection.                  *)

\* Notifications, errors and the interest in EPOLLOUT leave the buffers alone.
<1>BuffersStay.
    ASSUME NEW c \in Conns
    PROVE  /\ SameBuffers(c, NotifyReadable(c)) /\ SameBuffers(c, NotifyWritable(c))
           /\ SameBuffers(c, EnterError(c)) /\ SameBuffers(c, CoroutineFails(c))
           /\ SameBuffers(c, HandleConnectionCo(c))
           /\ \A b : SameBuffers(c, [c EXCEPT !.epollout = b])
  <2> USE <1>BuffersStay
  <2>1. SameBuffers(c, NotifyReadable(c)) /\ SameBuffers(c, NotifyWritable(c))
    BY DEF SameBuffers, NotifyReadable, WaitReadableCo, NotifyWritable, WaitWritableCo, Conns
  <2>2. SameBuffers(c, EnterError(c)) /\ SameBuffers(c, CoroutineFails(c))
    BY DEF SameBuffers, CoroutineFails, EnterError, MarkClosing, Conns
  <2>3. SameBuffers(c, HandleConnectionCo(c))
    BY DEF SameBuffers, HandleConnectionCo, WaitReadableCo, WaitWritableCo, Conns
  <2>4. \A b : SameBuffers(c, [c EXCEPT !.epollout = b])
    BY DEF SameBuffers, Conns
  <2> QED
    BY Zenon, <2>1, <2>2, <2>3, <2>4

\* Responses are appended to the write buffer and sent from its head, frames are
\* appended to the read buffer and taken out at its head.
<1>BuffersMove.
    ASSUME NEW c \in Conns
    PROVE  /\ \A r : LET d == NotifyReadable(EnqueueResponse(c, r)) IN
                d.read_buffer = c.read_buffer /\ d.write_buffer = Append(c.write_buffer, r)
           /\ \A n : LET d == OnWritable(c, n) IN
                /\ d.read_buffer = c.read_buffer
                /\ d.write_buffer = SubSeq(c.write_buffer, n + 1, Len(c.write_buffer))
           /\ \A parts, closed : LET d == OnReadable(c, parts, closed) IN
                /\ d.write_buffer = c.write_buffer
                /\ d.read_buffer = IF closed THEN c.read_buffer ELSE c.read_buffer \o parts
           /\ LET d == Consumed(c) IN
                d.read_buffer = Left(c.read_buffer) /\ d.write_buffer = c.write_buffer
           /\ \A r : LET d == Consumed(EnqueueResponse(c, r)) IN
                d.read_buffer = Left(c.read_buffer) /\ d.write_buffer = Append(c.write_buffer, r)
  <2> USE <1>BuffersMove
  <2>1. ASSUME NEW r
        PROVE  LET d == NotifyReadable(EnqueueResponse(c, r)) IN
               d.read_buffer = c.read_buffer /\ d.write_buffer = Append(c.write_buffer, r)
    BY DEF NotifyReadable, WaitReadableCo, EnqueueResponse, Conns
  <2>2. ASSUME NEW n
        PROVE  LET d == OnWritable(c, n) IN
               /\ d.read_buffer = c.read_buffer
               /\ d.write_buffer = SubSeq(c.write_buffer, n + 1, Len(c.write_buffer))
    BY ZenonT(40) DEF OnWritable, HandleConnectionCo, WaitReadableCo, WaitWritableCo, Conns
  <2>3. ASSUME NEW parts, NEW closed
        PROVE  LET d == OnReadable(c, parts, closed) IN
               /\ d.write_buffer = c.write_buffer
               /\ d.read_buffer = IF closed THEN c.read_buffer ELSE c.read_buffer \o parts
    BY DEF OnReadable, MarkClosing, Buffered, Conns
  <2>4. LET d == Consumed(c) IN
        d.read_buffer = Left(c.read_buffer) /\ d.write_buffer = c.write_buffer
    BY DEF Consumed, Left, Conns
  <2>5. ASSUME NEW r
        PROVE  LET d == Consumed(EnqueueResponse(c, r)) IN
               d.read_buffer = Left(c.read_buffer) /\ d.write_buffer = Append(c.write_buffer, r)
    BY DEF Consumed, Left, EnqueueResponse, Conns
  <2> QED
    BY Zenon, <2>1, <2>2, <2>3, <2>4, <2>5

(* Actions that move a request.                                            *)

\* The pool's thread queues the result, or drops it when the loop has ended.
<1>RunHandlerPlaces.
    ASSUME WInv, PlaceInv, NEW t \in tasks, RunHandler(t)
    PROVE  PlaceInv'
  <2> USE <1>RunHandlerPlaces
  <2> DEFINE n0 == t.req.id
  <2>1. UNCHANGED <<answered, local, sockets, connections>>
    BY Zenon DEF RunHandler, clientVars, loopVars, connVars
  <2>2. /\ t \in GoodCalls /\ t.stage = "run" /\ responses \in Seq(GoodCalls)
        /\ \A u \in tasks' : u.stage = "run" => u \in tasks /\ u # t
    BY DEF WInv, Dispatched, RunHandler, GoodCalls, Calls
  <2>3. At(n0, "pool", 0)
    BY Zenon, <2>2 DEF At, InPool
  <2>4. OnceAt("pool", 0) /\ OnceAt("queue", 0)
    BY Zenon DEF PlaceInv
  <2>5. \A n : At(n, "pool", 0)' => At(n, "pool", 0) /\ n # n0
    <3>1. \A n : InPool(n)' => InPool(n) /\ n # n0
      BY <2>2, <2>4 DEF InPool, OnceAt
    <3> QED
      BY <3>1 DEF At
  <2>6. OnceAt("pool", 0)'
    BY <2>2, <2>4 DEF OnceAt
  <2>7. ~InQueue(n0)
    BY <2>3 DEF PlaceInv, OneSpot, At
  <2>8. CallsOnce(responses') /\ \A n : InQueue(n)' => InQueue(n) \/ n = n0
    <3>1. CallsOnce(responses)
      BY <2>4 DEF OnceAt
    <3>2. CASE responses' = responses
      BY Zenon, <3>1, <3>2 DEF InQueue
    <3>3. CASE responses' = Append(responses, t)
      <4>1. CallsOnce(Append(responses, t))
        BY Zenon, <2>2, <2>7, <3>1, <1>AppendCall DEF InQueue
      <4>2. \A i \in DOMAIN Append(responses, t) :
              \/ i \in DOMAIN responses /\ Append(responses, t)[i] = responses[i]
              \/ Append(responses, t)[i] = t
        BY Zenon, <2>2, <1>AppendCall
      <4> QED
        BY Zenon, <3>3, <4>1, <4>2 DEF InQueue
    <3> QED
      BY Zenon, <3>2, <3>3 DEF RunHandler
  <2>9. OnceAt("queue", 0)' /\ \A n : At(n, "queue", 0)' => At(n, "queue", 0) \/ n = n0
    BY <2>8 DEF OnceAt, At
  <2>10. \A l, fd : Calm(l, fd) \/ (l = "pool" /\ fd = 0) \/ (l = "queue" /\ fd = 0)
    BY <2>1, <2>2 DEF Calm
  <2> QED
    BY Zenon, <2>3, <2>5, <2>6, <2>9, <2>10, <1>MoveOne

\* The loop takes the results out of the shared queue, all at once.
<1>SwapCompletedPlaces.
    ASSUME WInv, PlaceInv, SwapCompleted
    PROVE  PlaceInv'
  <2> USE <1>SwapCompletedPlaces
  <2> DEFINE M == {responses[i].req.id : i \in DOMAIN responses}
  <2>1. /\ UNCHANGED <<answered, tasks, sockets, connections>>
        /\ local' = responses /\ responses' = <<>> /\ local = <<>>
    BY DEF SwapCompleted, LoopAt, clientVars, poolVars, connVars, WInv, Control
  <2>2. OnceAt("queue", 0)
    BY Zenon DEF PlaceInv
  <2>3. OnceAt("queue", 0)' /\ OnceAt("local", 0)'
    BY <2>1, <2>2 DEF OnceAt, CallsOnce
  <2>4. \A n \in M : At(n, "queue", 0)
    BY DEF At, InQueue
  <2>5. \A n : ~At(n, "queue", 0)'
    BY <2>1 DEF At, InQueue
  <2>6. \A n : At(n, "local", 0)' => n \in M
    BY <2>1 DEF At, InLocal
  <2>7. \A l, fd : Calm(l, fd) \/ (l = "queue" /\ fd = 0) \/ (l = "local" /\ fd = 0)
    BY <2>1 DEF Calm
  <2> HIDE DEF M
  <2> QED
    BY Zenon, <2>3, <2>4, <2>5, <2>6, <2>7, <1>MoveStep

\* A function changed at one point.
<1>ExceptAt.
    ASSUME NEW S, NEW D, NEW g \in [D -> S], NEW f \in D, NEW v
    PROVE  LET h == [g EXCEPT ![f] = v] IN
           DOMAIN h = D /\ h[f] = v /\ \A x \in D : x # f => h[x] = g[x]
    BY <1>ExceptAt

\* A client receives the response at the head of its socket.
<1>ClientReceivesPlaces.
    ASSUME WInv, PlaceInv, NEW f, ClientReceives(f)
    PROVE  PlaceInv'
  <2> USE <1>ClientReceivesPlaces
  <2> DEFINE s == sockets[f].out
  <2>1. /\ UNCHANGED <<tasks, responses, local, connections>>
        /\ f \in DOMAIN sockets /\ s # <<>> /\ answered' = answered \cup {Head(s)}
        /\ sockets' = [sockets EXCEPT ![f].out = Tail(@)]
    BY Zenon DEF ClientReceives, poolVars, queueVars, loopVars, connVars
  <2>2. /\ sockets \in [DOMAIN sockets -> Sockets] /\ sockets[f] \in Sockets
        /\ s \in Seq(Frames) /\ Requested(s)
    BY <2>1 DEF WInv, Data, SocketInv, GoodSocket, Sockets
  <2>3. /\ DOMAIN sockets' = DOMAIN sockets
        /\ sockets'[f].out = Tail(s) /\ sockets'[f].wire = sockets[f].wire
        /\ \A fd \in DOMAIN sockets : fd # f => sockets'[fd] = sockets[fd]
    <3>1. sockets' = [sockets EXCEPT ![f] = [sockets[f] EXCEPT !.out = Tail(s)]]
      BY Zenon, <2>1
    <3>2. /\ [sockets[f] EXCEPT !.out = Tail(s)].out = Tail(s)
          /\ [sockets[f] EXCEPT !.out = Tail(s)].wire = sockets[f].wire
      BY <2>2 DEF Sockets
    <3> HIDE DEF s
    <3> QED
      BY Zenon, <2>1, <2>2, <3>1, <3>2, <1>ExceptAt
  <2> DEFINE n0 == Head(s).id
  <2>4. 1 \in Starts(s) /\ s[1].id = n0
    BY <2>1, <2>2 DEF Starts, Requested
  <2>5. Once(s)
    BY <2>1 DEF PlaceInv, OnceAt
  <2>6. /\ Once(Tail(s)) /\ \A n : Holds(Tail(s), n) => Holds(s, n)
        /\ ~Holds(Tail(s), n0)
    <3>1. /\ Tail(s) \in Seq(Frames) /\ Len(Tail(s)) = Len(s) - 1 /\ 1 \in 0 .. Len(s)
          /\ \A i \in 1 .. Len(s) - 1 : Tail(s)[i] = s[i + 1]
      BY <2>1, <2>2
    <3>2. /\ Once(Tail(s)) /\ \A n : Holds(Tail(s), n) => Holds(s, n)
          /\ \A i \in Starts(s) : i <= 1 => ~Holds(Tail(s), s[i].id)
      BY ZenonT(40), <2>2, <2>5, <3>1, DropIds
    <3>3. 1 <= 1
      OBVIOUS
    <3> QED
      BY Zenon, <2>4, <3>2, <3>3
  <2>7. At(n0, "out", f)
    BY Zenon, <2>1, <2>4 DEF At, InOut, Holds
  <2>8. OnceAt("out", f)' /\ \A n : At(n, "out", f)' => At(n, "out", f) /\ n # n0
    <3>1. \A n : InOut(n, f)' => InOut(n, f) /\ n # n0
      BY Zenon, <2>1, <2>3, <2>6 DEF InOut
    <3> QED
      BY <2>3, <2>6, <3>1 DEF OnceAt, At
  <2>9. OnceAt("answered", 0)' /\ \A n : At(n, "answered", 0)' => At(n, "answered", 0) \/ n = n0
    BY <2>1 DEF OnceAt, At, Answered
  <2>10. \A l, fd : Calm(l, fd) \/ (l = "out" /\ fd = f) \/ (l = "answered" /\ fd = 0)
    BY <2>1, <2>3 DEF Calm
  <2> QED
    BY Zenon, <2>7, <2>8, <2>9, <2>10, <1>MoveOne

\* A step that brings a request that was nowhere to the place k0, f0.
<1>NewStep.
    ASSUME PlaceInv, NEW n0, \A l, fd : ~At(n0, l, fd), NEW k0, NEW f0,
           \A l, fd : Calm(l, fd) \/ (l = k0 /\ fd = f0),
           OnceAt(k0, f0)', \A n : At(n, k0, f0)' => At(n, k0, f0) \/ n = n0
    PROVE  PlaceInv'
  <2> USE <1>NewStep
  <2>1. ASSUME NEW l, NEW fd
        PROVE  /\ OnceAt(l, fd)'
               /\ \A n : At(n, l, fd)' => At(n, l, fd) \/ (n = n0 /\ l = k0 /\ fd = f0)
    BY Zenon, <1>CalmPlace DEF PlaceInv
  <2>2. ASSUME NEW n, NEW l, NEW m, NEW fd, NEW gd, At(n, l, fd)', At(n, m, gd)'
        PROVE  l = m /\ fd = gd
    <3>1. CASE n = n0
      <4>1. ~At(n, l, fd) /\ ~At(n, m, gd)
        BY Zenon, <3>1
      <4>2. l = k0 /\ fd = f0
        BY Zenon, <2>1, <2>2, <4>1
      <4>3. m = k0 /\ gd = f0
        BY Zenon, <2>1, <2>2, <4>1
      <4> QED
        BY <4>2, <4>3
    <3>2. CASE n # n0
      <4>1. At(n, l, fd) /\ At(n, m, gd)
        BY Zenon, <2>1, <2>2, <3>2
      <4> QED
        BY Zenon, <4>1 DEF PlaceInv, OneSpot
    <3> QED
      BY Zenon, <3>1, <3>2
  <2> QED
    BY Zenon, <2>1, <2>2 DEF PlaceInv, OneSpot

\* A client sends: only the frames on one wire change.
<1>WirePlaces.
    ASSUME WInv, PlaceInv, NEW f \in DOMAIN sockets, NEW t,
           sockets' = [sockets EXCEPT ![f] = t], t.out = sockets[f].out,
           UNCHANGED <<answered, tasks, responses, local, connections>>,
           Once(t.wire), \A n : Holds(t.wire, n) => Holds(sockets[f].wire, n) \/ n = sent + 1
    PROVE  PlaceInv'
  <2> USE <1>WirePlaces
  <2>1. \A l, fd : ~At(sent + 1, l, fd)
    <3>1. sent + 1 \notin 1 .. sent
      BY DEF WInv, Data, SocketInv
    <3> QED
      BY Zenon, <3>1, PlacesSent
  <2>2. /\ DOMAIN sockets' = DOMAIN sockets /\ sockets'[f] = t
        /\ \A x \in DOMAIN sockets : x # f => sockets'[x] = sockets[x]
    <3>1. sockets \in [DOMAIN sockets -> Sockets]
      BY Zenon DEF WInv, Data, SocketInv
    <3> QED
      BY Zenon, <3>1, <1>ExceptAt
  <2>3. \A l, fd : Calm(l, fd) \/ (l = "wire" /\ fd = f)
    BY Zenon, <2>2 DEF Calm
  <2>4. OnceAt("wire", f)' /\ \A n : At(n, "wire", f)' => At(n, "wire", f) \/ n = sent + 1
    BY <2>2 DEF OnceAt, At, OnWire
  <2> QED
    BY Zenon, <2>1, <2>3, <2>4, <1>NewStep

\* A client sends: a new request, or the first part of one, is on its wire,
<1>ClientSendsPlaces.
    ASSUME WInv, PlaceInv, NEW f, NEW kind \in Kinds, ClientSends(f, kind)
    PROVE  PlaceInv'
  <2> USE <1>ClientSendsPlaces
  <2> DEFINE s == sockets[f]
  <2>1. /\ f \in DOMAIN sockets /\ s \in Sockets /\ s.client \in Nat /\ s.wire \in Seq(Frames)
    BY Zenon DEF ClientSends, Sockets, WInv, Data, SocketInv, GoodSocket
  <2>2. PICK part \in {"whole", "first"} :
          LET frame == [id |-> sent + 1, kind |-> kind, client |-> s.client, part |-> part]
          IN sockets' = [sockets EXCEPT
               ![f].wire = Append(@, frame),
               ![f].rest = IF part = "first" THEN <<[frame EXCEPT !.part = "rest"]>> ELSE <<>>]
    BY Zenon DEF ClientSends
  <2>3. PICK x : x = [id |-> sent + 1, kind |-> kind, client |-> s.client, part |-> part]
    BY Zenon
  <2>4. x \in Frames /\ x.id = sent + 1
    BY <2>1, <2>3, WorkerLoopAssumption DEF Frames, Parts, WInv, Data, SocketInv
  <2>5. PICK r : r = IF part = "first" THEN <<[x EXCEPT !.part = "rest"]>> ELSE <<>>
    BY Zenon
  <2>6. PICK t : t = [s EXCEPT !.wire = Append(s.wire, x), !.rest = r]
    BY Zenon
  <2>7. t.wire = Append(s.wire, x) /\ t.out = s.out
    BY Zenon, <2>1, <2>6 DEF Sockets
  <2>8. sockets' = [sockets EXCEPT ![f] = t]
    BY Zenon, <2>2, <2>3, <2>5, <2>6
  <2>9. Once(s.wire) /\ ~Holds(s.wire, sent + 1)
    <3>1. sent + 1 \notin 1 .. sent
      BY DEF WInv, Data, SocketInv
    <3>2. ~At(sent + 1, "wire", f)
      BY Zenon, <3>1, PlacesSent
    <3> QED
      BY <2>1, <3>2 DEF PlaceInv, OnceAt, At, OnWire
  <2>10. Once(t.wire) /\ \A n : Holds(t.wire, n) => Holds(s.wire, n) \/ n = sent + 1
    BY Zenon, <2>1, <2>4, <2>7, <2>9, <1>AppendIds
  <2>11. UNCHANGED <<answered, tasks, responses, local, connections>>
    BY Zenon DEF ClientSends, poolVars, queueVars, loopVars, connVars
  <2> QED
    BY Zenon, <2>1, <2>7, <2>8, <2>10, <2>11, <1>WirePlaces

\* and the rest of it carries no request of its own.
<1>ClientSendsRestPlaces.
    ASSUME WInv, PlaceInv, NEW f, ClientSendsRest(f)
    PROVE  PlaceInv'
  <2> USE <1>ClientSendsRestPlaces
  <2> DEFINE s == sockets[f]
  <2>1. /\ f \in DOMAIN sockets /\ s \in Sockets /\ GoodSocket(s, clients, sent)
        /\ s.wire \in Seq(Frames) /\ s.rest \in Seq(Frames)
    BY Zenon DEF ClientSendsRest, Sockets, WInv, Data, SocketInv, GoodSocket
  <2>2. PICK t : t = [s EXCEPT !.wire = s.wire \o s.rest, !.rest = <<>>]
    BY Zenon
  <2>3. t.wire = s.wire \o s.rest /\ t.out = s.out
    BY Zenon, <2>1, <2>2 DEF Sockets
  <2>4. sockets' = [sockets EXCEPT ![f] = t]
    BY ZenonT(40), <2>2 DEF ClientSendsRest
  <2>5. Once(s.wire) /\ Once(s.rest) /\ \A n : ~Holds(s.rest, n)
    BY <2>1 DEF PlaceInv, OnceAt, GoodSocket, Once, Holds, Starts
  <2>6. Once(t.wire) /\ \A n : Holds(t.wire, n) => Holds(s.wire, n)
    BY ZenonT(40), <2>1, <2>3, <2>5, <1>ConcatIds
  <2>7. UNCHANGED <<answered, tasks, responses, local, connections>>
    BY Zenon DEF ClientSendsRest, poolVars, queueVars, loopVars, connVars
  <2> QED
    BY Zenon, <2>1, <2>3, <2>4, <2>6, <2>7, <1>WirePlaces

\* A connection changes alone.
<1>OneConn.
    ASSUME WInv, NEW f \in DOMAIN connections, NEW d, connections' = [connections EXCEPT ![f] = d]
    PROVE  /\ DOMAIN connections' = DOMAIN connections /\ connections'[f] = d
           /\ \A x \in DOMAIN connections : x # f => connections'[x] = connections[x]
  <2> USE <1>OneConn
  <2>1. connections \in [DOMAIN connections -> Conns]
    BY Zenon DEF WInv, Data, ConnInv
  <2> QED
    BY Zenon, <2>1, <1>ExceptAt

\* A function without some of its points.
<1>WithoutAt.
    ASSUME NEW g, NEW S
    PROVE  \A x \in DOMAIN Without(g, S) : x \in DOMAIN g /\ Without(g, S)[x] = g[x]
    BY <1>WithoutAt DEF Without

\* A result is delivered to its connection, or dropped with or without it.
<1>DrainCompletedPlaces.
    ASSUME WInv, PlaceInv, DrainCompletedResponses
    PROVE  PlaceInv'
  <2> USE <1>DrainCompletedPlaces
  <2>1. /\ local # <<>> /\ local' = Tail(local) /\ local \in Seq(GoodCalls)
        /\ UNCHANGED <<answered, tasks, responses>>
    BY Zenon DEF DrainCompletedResponses, poolVars, queueVars, WInv, Dispatched
  <2>2. CallsOnce(local)
    BY DEF PlaceInv, OnceAt
  <2>3. PICK t \in GoodCalls : t = Head(local)
    BY Zenon, <2>1, <2>2, <1>TailCalls
  <2> DEFINE n0 == t.req.id
  <2>4. InLocal(n0) /\ CallsOnce(local') /\ \A n : InLocal(n)' => InLocal(n) /\ n # n0
    <3>1. /\ \E i \in DOMAIN local : local[i] = t
          /\ CallsOnce(Tail(local))
          /\ \A i \in DOMAIN Tail(local) : /\ \E j \in DOMAIN local : Tail(local)[i] = local[j]
                                           /\ Tail(local)[i].req.id # n0
      BY Zenon, <2>1, <2>2, <2>3, <1>TailCalls
    <3> QED
      BY Zenon, <2>1, <3>1 DEF InLocal
  <2>5. At(n0, "local", 0)
    BY Zenon, <2>4 DEF At
  <2>6. OnceAt("local", 0)' /\ \A n : At(n, "local", 0)' => At(n, "local", 0) /\ n # n0
    BY <2>4 DEF OnceAt, At
  <2>7. CASE \/ UNCHANGED <<sockets, connections>>
             \/ \E S : connections' = Without(connections, S) /\ sockets' = Without(sockets, S)
    <3>1. OnceAt("none", 0)' /\ \A n : At(n, "none", 0)' => At(n, "none", 0) \/ n = n0
      BY DEF OnceAt, At
    <3>2. /\ \A fd \in DOMAIN sockets' : fd \in DOMAIN sockets /\ sockets'[fd] = sockets[fd]
          /\ \A fd \in DOMAIN connections' :
               fd \in DOMAIN connections /\ connections'[fd] = connections[fd]
      <4>1. CASE UNCHANGED <<sockets, connections>>
        BY Zenon, <4>1
      <4>2. ASSUME NEW S, connections' = Without(connections, S), sockets' = Without(sockets, S)
            PROVE  /\ \A fd \in DOMAIN sockets' :
                        fd \in DOMAIN sockets /\ sockets'[fd] = sockets[fd]
                   /\ \A fd \in DOMAIN connections' :
                        fd \in DOMAIN connections /\ connections'[fd] = connections[fd]
        BY Zenon, <4>2, <1>WithoutAt
      <4> QED
        BY Zenon, <2>7, <4>1, <4>2
    <3>3. \A l, fd : Calm(l, fd) \/ (l = "local" /\ fd = 0) \/ (l = "none" /\ fd = 0)
      BY Zenon, <2>1, <3>2 DEF Calm
    <3> QED
      BY Zenon, <2>5, <2>6, <3>1, <3>3, <1>MoveOne
  <2>8. CASE TokenMatches(t) /\ Fits(connections[t.fd])
    <3>1. PICK f \in DOMAIN connections : f = t.fd
      BY Zenon, <2>8 DEF TokenMatches
    <3> DEFINE c == connections[f]
    <3>2. PICK d : d = NotifyReadable(EnqueueResponse(c, t.req))
      BY Zenon
    <3>3. connections' = [connections EXCEPT ![f] = d] /\ UNCHANGED sockets
      BY <2>3, <2>8, <3>1, <3>2 DEF DrainCompletedResponses
    <3>4. c \in Conns /\ Fits(c) /\ c.write_buffer \in Seq(Frames) /\ t.req \in Frames
      BY Zenon, <2>8, <3>1, BuffersOf DEF GoodCalls, Calls
    <3>5. d.read_buffer = c.read_buffer /\ d.write_buffer = Append(c.write_buffer, t.req)
      BY Zenon, <3>2, <3>4, <1>BuffersMove
    <3>6. /\ DOMAIN connections' = DOMAIN connections /\ connections'[f] = d
          /\ \A x \in DOMAIN connections : x # f => connections'[x] = connections[x]
      BY Zenon, <3>3, <1>OneConn
    <3>7. ~InWrite(n0, f)
      BY <2>5 DEF PlaceInv, OneSpot, At
    <3>8. Once(c.write_buffer) /\ ~Holds(c.write_buffer, n0)
      BY <3>7 DEF PlaceInv, OnceAt, InWrite
    <3>9. /\ Once(d.write_buffer)
          /\ \A n : Holds(d.write_buffer, n) => Holds(c.write_buffer, n) \/ n = n0
      BY Zenon, <3>4, <3>5, <3>8, <1>AppendIds
    <3>10. OnceAt("write", f)' /\ \A n : At(n, "write", f)' => At(n, "write", f) \/ n = n0
      BY <3>6, <3>9 DEF OnceAt, At, InWrite
    <3>11. \A l, fd : Calm(l, fd) \/ (l = "local" /\ fd = 0) \/ (l = "write" /\ fd = f)
      BY Zenon, <2>1, <3>3, <3>5, <3>6 DEF Calm
    <3> QED
      BY Zenon, <2>5, <2>6, <3>10, <3>11, <1>MoveOne
  <2> QED
    BY Zenon, <2>3, <2>7, <2>8 DEF DrainCompletedResponses, CloseConnection

\* A connection changes, its buffers stay;
<1>SamePlaces.
    ASSUME WInv, PlaceInv, NEW f \in DOMAIN connections, NEW d,
           connections' = [connections EXCEPT ![f] = d],
           d.read_buffer = connections[f].read_buffer,
           d.write_buffer = connections[f].write_buffer,
           UNCHANGED <<sockets, answered, tasks, responses, local>>
    PROVE  PlaceInv'
  <2> USE <1>SamePlaces
  <2>1. /\ DOMAIN connections' = DOMAIN connections /\ connections'[f] = d
        /\ \A x \in DOMAIN connections : x # f => connections'[x] = connections[x]
    BY Zenon, <1>OneConn
  <2>2. \A l, fd : Calm(l, fd)
    BY Zenon, <2>1 DEF Calm
  <2> QED
    BY Zenon, <2>2, <1>CalmStep

\* its coroutine fails.
<1>FailPlaces.
    ASSUME WInv, PlaceInv, NEW f \in DOMAIN connections,
           connections' = [connections EXCEPT ![f] = CoroutineFails(@)],
           UNCHANGED <<sockets, answered, tasks, responses, local>>
    PROVE  PlaceInv'
  <2> USE <1>FailPlaces
  <2>1. SameBuffers(connections[f], CoroutineFails(connections[f]))
    BY Zenon, BuffersOf, <1>BuffersStay
  <2> QED
    BY Zenon, <2>1, <1>SamePlaces DEF SameBuffers

\* The coroutine takes a request out of its buffer: a task for the pool,
<1>DispatchPlaces.
    ASSUME WInv, PlaceInv, NEW f \in DOMAIN connections, connections[f].at = "parse",
           Complete(connections[f]), DispatchRequest(f),
           UNCHANGED <<sockets, answered, responses, local>>
    PROVE  PlaceInv'
  <2> USE <1>DispatchPlaces
  <2> DEFINE c == connections[f]
  <2> DEFINE x == NextFrame(f)
  <2>1. /\ c \in Conns /\ c.read_buffer \in Seq(Frames) /\ c.read_buffer # <<>>
        /\ Len(c.read_buffer) > 1 \/ Head(c.read_buffer).part = "whole"
    BY Zenon, BuffersOf DEF Complete
  <2>2. x \in Frames /\ x.part # "rest" /\ x = Head(c.read_buffer)
    BY <2>1, BuffersOf DEF NextFrame, GoodBuffers
  <2>3. Once(c.read_buffer)
    BY DEF PlaceInv, OnceAt
  <2>4. /\ Once(Left(c.read_buffer)) /\ Holds(c.read_buffer, x.id)
        /\ \A n : Holds(Left(c.read_buffer), n) => Holds(c.read_buffer, n) /\ n # x.id
    BY Zenon, <2>1, <2>2, <2>3, LeftIds
  <2>5. At(x.id, "read", f)
    BY Zenon, <2>4 DEF At, InRead
  <2>6. ~InPool(x.id)
    BY <2>5 DEF PlaceInv, OneSpot, At
  <2>7. CASE connections' = [connections EXCEPT ![f] = CoroutineFails(@)] /\ UNCHANGED tasks
    BY Zenon, <2>7, <1>FailPlaces
  <2>8. CASE /\ connections' = [connections EXCEPT ![f] = Consumed(@)]
             /\ \/ tasks' = tasks
                \/ tasks' = tasks \cup {[fd |-> f, token |-> c.connection_token, req |-> x,
                                         stage |-> "run"]}
    <3>1. Consumed(c).read_buffer = Left(c.read_buffer) /\ Consumed(c).write_buffer = c.write_buffer
      BY Zenon, <2>1, <1>BuffersMove
    <3>2. /\ DOMAIN connections' = DOMAIN connections /\ connections'[f] = Consumed(c)
          /\ \A y \in DOMAIN connections : y # f => connections'[y] = connections[y]
      BY ZenonT(40), <2>8, <1>OneConn
    <3>3. OnceAt("read", f)' /\ \A n : At(n, "read", f)' => At(n, "read", f) /\ n # x.id
      BY <2>4, <3>1, <3>2 DEF OnceAt, At, InRead
    <3>4. PICK w : w = [fd |-> f, token |-> c.connection_token, req |-> x, stage |-> "run"]
      BY Zenon
    <3>5. w.req = x /\ tasks' \subseteq tasks \cup {w}
      BY SMTT(30), <2>8, <3>4
    <3>6. OnceAt("pool", 0)' /\ \A n : At(n, "pool", 0)' => At(n, "pool", 0) \/ n = x.id
      <4>1. \A u, v \in tasks : u.stage = "run" /\ v.stage = "run" /\ u.req.id = v.req.id => u = v
        BY DEF PlaceInv, OnceAt
      <4>2. \A u \in tasks' : u.stage = "run" => (u \in tasks /\ u.req.id # x.id) \/ u = w
        BY Zenon, <2>6, <3>5 DEF InPool
      <4>3. \A u, v \in tasks' : u.stage = "run" /\ v.stage = "run" /\ u.req.id = v.req.id => u = v
        BY Zenon, <3>5, <4>1, <4>2
      <4>4. \A n : InPool(n)' => InPool(n) \/ n = x.id
        BY Zenon, <3>5, <4>2 DEF InPool
      <4> QED
        BY SMTT(30), <4>3, <4>4 DEF OnceAt, At
    <3>7. \A l, fd : Calm(l, fd) \/ (l = "read" /\ fd = f) \/ (l = "pool" /\ fd = 0)
      BY Zenon, <3>1, <3>2 DEF Calm
    <3> QED
      BY Zenon, <2>5, <3>3, <3>6, <3>7, <1>MoveOne
  <2> QED
    BY Zenon, <2>7, <2>8 DEF DispatchRequest

\* or it is answered at once.
<1>AnswerPlaces.
    ASSUME WInv, PlaceInv, NEW f \in DOMAIN connections, connections[f].at = "parse",
           Complete(connections[f]), AnswerAtOnce(f),
           UNCHANGED <<sockets, answered, responses, local>>
    PROVE  PlaceInv'
  <2> USE <1>AnswerPlaces
  <2> DEFINE c == connections[f]
  <2> DEFINE x == NextFrame(f)
  <2>1. /\ c \in Conns /\ c.read_buffer \in Seq(Frames) /\ c.read_buffer # <<>>
        /\ Len(c.read_buffer) > 1 \/ Head(c.read_buffer).part = "whole"
        /\ c.write_buffer \in Seq(Frames) /\ tasks' = tasks
    BY Zenon, BuffersOf DEF Complete, AnswerAtOnce
  <2>2. x \in Frames /\ x.part # "rest" /\ x = Head(c.read_buffer)
    BY <2>1, BuffersOf DEF NextFrame, GoodBuffers
  <2>3. Once(c.read_buffer) /\ Once(c.write_buffer)
    BY DEF PlaceInv, OnceAt
  <2>4. /\ Once(Left(c.read_buffer)) /\ Holds(c.read_buffer, x.id)
        /\ \A n : Holds(Left(c.read_buffer), n) => Holds(c.read_buffer, n) /\ n # x.id
    BY Zenon, <2>1, <2>2, <2>3, LeftIds
  <2>5. At(x.id, "read", f)
    BY Zenon, <2>4 DEF At, InRead
  <2>6. ~Holds(c.write_buffer, x.id)
    <3>1. ~InWrite(x.id, f)
      BY <2>5 DEF PlaceInv, OneSpot, At
    <3> QED
      BY Zenon, <3>1 DEF InWrite
  <2>7. CASE ~Fits(c)
    BY Zenon, <2>1, <2>7, <1>FailPlaces DEF AnswerAtOnce
  <2>8. CASE Fits(c)
    <3>1. PICK d : d = Consumed(EnqueueResponse(c, x))
      BY Zenon
    <3>2. connections' = [connections EXCEPT ![f] = d]
      BY Zenon, <2>8, <3>1 DEF AnswerAtOnce
    <3>3. d.read_buffer = Left(c.read_buffer) /\ d.write_buffer = Append(c.write_buffer, x)
      BY Zenon, <2>1, <2>2, <2>8, <3>1, <1>BuffersMove
    <3>4. /\ DOMAIN connections' = DOMAIN connections /\ connections'[f] = d
          /\ \A y \in DOMAIN connections : y # f => connections'[y] = connections[y]
      BY ZenonT(40), <3>2, <1>OneConn
    <3>5. OnceAt("read", f)' /\ \A n : At(n, "read", f)' => At(n, "read", f) /\ n # x.id
      BY <2>4, <3>3, <3>4 DEF OnceAt, At, InRead
    <3>6. /\ Once(d.write_buffer)
          /\ \A n : Holds(d.write_buffer, n) => Holds(c.write_buffer, n) \/ n = x.id
      BY ZenonT(40), <2>1, <2>2, <2>3, <2>6, <3>3, <1>AppendIds
    <3>7. OnceAt("write", f)' /\ \A n : At(n, "write", f)' => At(n, "write", f) \/ n = x.id
      BY <3>4, <3>6 DEF OnceAt, At, InWrite
    <3>8. \A l, fd : Calm(l, fd) \/ (l = "read" /\ fd = f) \/ (l = "write" /\ fd = f)
      BY Zenon, <2>1, <3>3, <3>4 DEF Calm
    <3> QED
      BY Zenon, <2>5, <3>5, <3>7, <3>8, <1>MoveOne
  <2> QED
    BY Zenon, <2>7, <2>8

\* A connection and its socket change together.
<1>OnePair.
    ASSUME WInv, NEW f \in DOMAIN connections, NEW d, connections' = [connections EXCEPT ![f] = d],
           NEW t, sockets' = [sockets EXCEPT ![f] = t]
    PROVE  /\ DOMAIN connections' = DOMAIN connections /\ connections'[f] = d
           /\ \A x \in DOMAIN connections : x # f => connections'[x] = connections[x]
           /\ DOMAIN sockets' = DOMAIN sockets /\ sockets'[f] = t /\ f \in DOMAIN sockets
           /\ \A x \in DOMAIN sockets : x # f => sockets'[x] = sockets[x]
  <2> USE <1>OnePair
  <2>1. sockets \in [DOMAIN sockets -> Sockets] /\ f \in DOMAIN sockets
    BY Zenon, BuffersOf DEF WInv, Data, SocketInv
  <2>2. /\ DOMAIN sockets' = DOMAIN sockets /\ sockets'[f] = t
        /\ \A x \in DOMAIN sockets : x # f => sockets'[x] = sockets[x]
    BY Zenon, <2>1, <1>ExceptAt
  <2> QED
    BY Zenon, <2>1, <2>2, <1>OneConn

\* The coroutine reads what is on the wire.
<1>ReadRequestCoPlaces.
    ASSUME WInv, PlaceInv, NEW f \in DOMAIN connections, ReadRequestCo(f)
    PROVE  PlaceInv'
  <2> USE <1>ReadRequestCoPlaces
  <2> DEFINE c == connections[f]
             s == sockets[f]
  <2>1. c.at = "read" /\ UNCHANGED <<answered, tasks, responses, local>>
    BY Zenon DEF ReadRequestCo, poolVars, queueVars, loopVars
  <2>2. CASE /\ connections' = [connections EXCEPT ![f] = CoroutineFails(@)]
             /\ UNCHANGED sockets
    BY Zenon, <2>1, <2>2, <1>FailPlaces
  <2>3. CASE /\ connections' = [connections EXCEPT ![f] = OnReadable(@, s.wire, s.fin)]
             /\ sockets' = [sockets EXCEPT ![f].wire = <<>>]
    <3>1. PICK d : d = OnReadable(c, s.wire, s.fin)
      BY Zenon
    <3>2. /\ c \in Conns /\ f \in DOMAIN sockets /\ s \in Sockets
          /\ c.read_buffer \in Seq(Frames) /\ s.wire \in Seq(Frames)
      BY Zenon, BuffersOf
    <3>4. /\ d.write_buffer = c.write_buffer
          /\ d.read_buffer = IF s.fin THEN c.read_buffer ELSE c.read_buffer \o s.wire
      BY <3>1, <3>2, <1>BuffersMove
    <3>5. PICK t : t = [s EXCEPT !.wire = <<>>]
      BY Zenon
    <3>6. t.wire = <<>> /\ t.out = s.out
      BY Zenon, <3>2, <3>5 DEF Sockets
    <3>7. /\ connections' = [connections EXCEPT ![f] = d]
          /\ sockets' = [sockets EXCEPT ![f] = t]
      BY <2>3, <3>1, <3>5
    <3>8. /\ DOMAIN connections' = DOMAIN connections /\ connections'[f] = d
          /\ \A x \in DOMAIN connections : x # f => connections'[x] = connections[x]
          /\ DOMAIN sockets' = DOMAIN sockets /\ sockets'[f] = t
          /\ \A x \in DOMAIN sockets : x # f => sockets'[x] = sockets[x]
      BY Zenon, <3>7, <1>OnePair
    <3>9. \A l, fd : Calm(l, fd) \/ (l = "read" /\ fd = f)
      BY Zenon, <2>1, <3>4, <3>6, <3>8 DEF Calm
    <3>10. Once(c.read_buffer) /\ Once(s.wire)
      BY <3>2 DEF PlaceInv, OnceAt
    <3>11. \A n : ~(Holds(c.read_buffer, n) /\ Holds(s.wire, n))
      <4>1. \A n : ~(InRead(n, f) /\ OnWire(n, f))
        BY DEF PlaceInv, OneSpot, At
      <4> QED
        BY Zenon, <3>2, <4>1 DEF InRead, OnWire
    <3>12. /\ Once(d.read_buffer)
           /\ \A n : Holds(d.read_buffer, n) => Holds(c.read_buffer, n) \/ Holds(s.wire, n)
      <4>1. CASE s.fin
        BY Zenon, <3>4, <3>10, <4>1
      <4>2. CASE ~s.fin
        BY Zenon, <3>2, <3>4, <3>10, <3>11, <4>2, <1>ConcatIds
      <4> QED
        BY Zenon, <4>1, <4>2
    <3> DEFINE M == {s.wire[i].id : i \in Starts(s.wire)}
    <3>13. \A n : Holds(s.wire, n) <=> n \in M
      BY Zenon DEF Holds
    <3> HIDE DEF M
    <3>14. \A n \in M : At(n, "wire", f)
      BY Zenon, <3>2, <3>13 DEF At, OnWire
    <3>15. OnceAt("wire", f)' /\ \A n : ~At(n, "wire", f)'
      BY SMTT(30), <3>6, <3>8, NothingHeld DEF OnceAt, At, OnWire
    <3>16. OnceAt("read", f)' /\ \A n : At(n, "read", f)' => At(n, "read", f) \/ n \in M
      BY <3>8, <3>12, <3>13 DEF OnceAt, At, InRead
    <3> QED
      BY Zenon, <3>9, <3>14, <3>15, <3>16, <1>MoveStep
  <2> QED
    BY Zenon, <2>2, <2>3 DEF ReadRequestCo

\* A sequence is cut in two.
<1>CutIds.
    ASSUME NEW s \in Seq(Frames), NEW d \in 0 .. Len(s), Once(s)
    PROVE  LET h == SubSeq(s, 1, d)
               t == SubSeq(s, d + 1, Len(s))
           IN /\ h \in Seq(Frames) /\ Once(h) /\ Once(t)
              /\ \A n : Holds(h, n) => Holds(s, n) /\ ~Holds(t, n)
              /\ \A n : Holds(t, n) => Holds(s, n)
  <2> USE <1>CutIds
  <2> DEFINE h == SubSeq(s, 1, d)
             t == SubSeq(s, d + 1, Len(s))
  <2>1. Len(s) \in Nat /\ d + 1 \in 1 .. Len(s) + 1 /\ Len(s) \in 0 .. Len(s) /\ d + 1 <= Len(s) + 1
    OBVIOUS
  <2>2. /\ t \in Seq(Frames) /\ Len(t) = Len(s) - (d + 1) + 1
        /\ \A i \in 1 .. Len(s) - (d + 1) + 1 : t[i] = s[d + 1 + i - 1]
    BY <2>1
  <2>3. Len(t) = Len(s) - d /\ \A i \in 1 .. Len(s) - d : t[i] = s[i + d]
    <3>1. Len(s) - (d + 1) + 1 = Len(s) - d
      BY <2>1
    <3>2. ASSUME NEW i \in 1 .. Len(s) - d PROVE t[i] = s[i + d]
      <4>1. i \in 1 .. Len(s) - (d + 1) + 1 /\ d + 1 + i - 1 = i + d
        BY <2>1, <3>2
      <4> QED
        BY Zenon, <2>2, <4>1
    <3> QED
      BY Zenon, <2>2, <3>1, <3>2
  <2>4. /\ Once(t) /\ \A n : Holds(t, n) => Holds(s, n)
        /\ \A i \in Starts(s) : i <= d => ~Holds(t, s[i].id)
    BY Zenon, <2>2, <2>3, DropIds
  <2>5. Once(h) /\ \A n : Holds(h, n) => \E i \in Starts(s) : i <= d /\ s[i].id = n
    BY Zenon, <1>PrefixIds
  <2>6. h \in Seq(Frames)
    OBVIOUS
  <2>7. \A n : Holds(h, n) => Holds(s, n) /\ ~Holds(t, n)
    <3> SUFFICES ASSUME NEW n, Holds(h, n)
                 PROVE  Holds(s, n) /\ ~Holds(t, n)
      BY Zenon
    <3>1. PICK i \in Starts(s) : i <= d /\ s[i].id = n
      BY Zenon, <2>5
    <3>2. Holds(s, n)
      BY Zenon, <3>1 DEF Holds
    <3>3. ~Holds(t, n)
      BY Zenon, <2>4, <3>1
    <3> QED
      BY Zenon, <3>2, <3>3
  <2> QED
    BY Zenon, <2>4, <2>5, <2>6, <2>7

\* The coroutine sends what the socket takes.
<1>WriteResponseCoPlaces.
    ASSUME WInv, PlaceInv, NEW f \in DOMAIN connections, WriteResponseCo(f)
    PROVE  PlaceInv'
  <2> USE <1>WriteResponseCoPlaces
  <2> DEFINE c == connections[f]
             s == sockets[f]
             room == SendBuffer - Len(s.out)
             m == IF room < Len(c.write_buffer) THEN room ELSE Len(c.write_buffer)
  <2>1. c.at = "flush" /\ UNCHANGED <<answered, tasks, responses, local>>
    BY Zenon DEF WriteResponseCo, poolVars, queueVars, loopVars
  <2>2. CASE /\ connections' = [connections EXCEPT ![f] = CoroutineFails(@)]
             /\ UNCHANGED sockets
    BY Zenon, <2>1, <2>2, <1>FailPlaces
  <2>3. CASE /\ connections' = [connections EXCEPT ![f] = OnWritable(@, m)]
             /\ sockets' = [sockets EXCEPT ![f].out = @ \o SubSeq(c.write_buffer, 1, m)]
    <3>1. /\ c \in Conns /\ f \in DOMAIN sockets /\ s \in Sockets /\ GoodSocket(s, clients, sent)
          /\ c.write_buffer \in Seq(Frames) /\ s.out \in Seq(Frames)
      BY Zenon, BuffersOf
    <3>2. m \in 0 .. Len(c.write_buffer)
      <4>1. Len(s.out) \in Nat /\ Len(c.write_buffer) \in Nat /\ Len(s.out) <= SendBuffer
        BY <3>1 DEF GoodSocket
      <4>2. \A a, b \in Nat : a <= SendBuffer =>
              (IF SendBuffer - a < b THEN SendBuffer - a ELSE b) \in 0 .. b
        BY WorkerLoopAssumption
      <4> QED
        BY Zenon, <4>1, <4>2
    <3> HIDE DEF m
    <3>3. PICK h : h = SubSeq(c.write_buffer, 1, m)
      BY Zenon
    <3>4. PICK b : b = SubSeq(c.write_buffer, m + 1, Len(c.write_buffer))
      BY Zenon
    <3>5. Once(c.write_buffer) /\ Once(s.out)
      BY <3>1 DEF PlaceInv, OnceAt
    <3>6. /\ h \in Seq(Frames) /\ Once(h) /\ Once(b)
          /\ \A n : Holds(h, n) => Holds(c.write_buffer, n) /\ ~Holds(b, n)
          /\ \A n : Holds(b, n) => Holds(c.write_buffer, n)
      BY Zenon, <3>1, <3>2, <3>3, <3>4, <3>5, <1>CutIds
    <3>7. PICK d : d = OnWritable(c, m)
      BY Zenon
    <3>8. d.read_buffer = c.read_buffer /\ d.write_buffer = b
      BY Zenon, <2>1, <3>1, <3>2, <3>4, <3>7, <1>BuffersMove
    <3>9. PICK t : t = [s EXCEPT !.out = s.out \o h]
      BY Zenon
    <3>10. t.wire = s.wire /\ t.out = s.out \o h
      BY Zenon, <3>1, <3>9 DEF Sockets
    <3>11. /\ connections' = [connections EXCEPT ![f] = d]
           /\ sockets' = [sockets EXCEPT ![f] = t]
      BY <2>3, <3>3, <3>7, <3>9
    <3>12. /\ DOMAIN connections' = DOMAIN connections /\ connections'[f] = d
           /\ \A x \in DOMAIN connections : x # f => connections'[x] = connections[x]
           /\ DOMAIN sockets' = DOMAIN sockets /\ sockets'[f] = t
           /\ \A x \in DOMAIN sockets : x # f => sockets'[x] = sockets[x]
      BY Zenon, <3>11, <1>OnePair
    <3>13. \A l, fd : Calm(l, fd) \/ (l = "write" /\ fd = f) \/ (l = "out" /\ fd = f)
      BY Zenon, <2>1, <3>8, <3>10, <3>12 DEF Calm
    <3>14. \A n : ~(Holds(s.out, n) /\ Holds(c.write_buffer, n))
      <4>1. \A n : ~(InOut(n, f) /\ InWrite(n, f))
        BY DEF PlaceInv, OneSpot, At
      <4> QED
        BY Zenon, <3>1, <4>1 DEF InOut, InWrite
    <3>15. Once(t.out) /\ \A n : Holds(t.out, n) => Holds(s.out, n) \/ Holds(h, n)
      BY Zenon, <3>1, <3>5, <3>6, <3>10, <3>14, <1>ConcatIds
    <3> DEFINE M == {h[i].id : i \in Starts(h)}
    <3>16. \A n : Holds(h, n) <=> n \in M
      BY Zenon DEF Holds
    <3> HIDE DEF M
    <3>17. \A n \in M : At(n, "write", f)
      BY ZenonT(40), <3>6, <3>16 DEF At, InWrite
    <3>18. OnceAt("write", f)' /\ \A n : At(n, "write", f)' => At(n, "write", f) /\ n \notin M
      <4>1. \A n : InWrite(n, f)' => InWrite(n, f) /\ n \notin M
        BY ZenonT(40), <3>6, <3>8, <3>12, <3>16 DEF InWrite
      <4> QED
        BY <3>6, <3>8, <3>12, <4>1 DEF OnceAt, At
    <3>19. OnceAt("out", f)' /\ \A n : At(n, "out", f)' => At(n, "out", f) \/ n \in M
      <4>1. \A n : InOut(n, f)' => InOut(n, f) \/ n \in M
        BY Zenon, <3>1, <3>12, <3>15, <3>16 DEF InOut
      <4> QED
        BY <3>12, <3>15, <4>1 DEF OnceAt, At
    <3> QED
      BY Zenon, <3>13, <3>17, <3>18, <3>19, <1>MoveStep
  <2> QED
    BY Zenon, <2>2, <2>3 DEF WriteResponseCo

\* TryParseRequests, with the two lemmas above.
<1>TryParsePlaces.
    ASSUME WInv, PlaceInv, NEW f \in DOMAIN connections, TryParseRequests(f)
    PROVE  PlaceInv'
  <2> USE <1>TryParsePlaces
  <2>1. connections[f].at = "parse" /\ UNCHANGED <<sockets, answered, responses, local>>
    BY Zenon DEF TryParseRequests, clientVars, queueVars, loopVars
  <2>2. CASE /\ connections' = [connections EXCEPT ![f] = HandleConnectionCo(@)]
             /\ UNCHANGED tasks
    <3>1. SameBuffers(connections[f], HandleConnectionCo(connections[f]))
      BY Zenon, BuffersOf, <1>BuffersStay
    <3> QED
      BY Zenon, <2>1, <2>2, <3>1, <1>SamePlaces DEF SameBuffers
  <2>3. CASE Complete(connections[f]) /\ DispatchRequest(f)
    BY Zenon, <2>1, <2>3, <1>DispatchPlaces
  <2>4. CASE Complete(connections[f]) /\ (AnswerPing(f) \/ HandleOneRequest(f))
    BY Zenon, <2>1, <2>4, <1>AnswerPlaces DEF AnswerPing, HandleOneRequest
  <2>5. CASE RejectHeader(f)
    BY Zenon, <2>1, <2>5, <1>FailPlaces DEF RejectHeader
  <2> QED
    BY Zenon, <2>2, <2>3, <2>4, <2>5 DEF TryParseRequests

\* Sockets become connections, with empty buffers.
<1>AdoptPlaces.
    ASSUME PlaceInv, NEW n, Adopt(n), UNCHANGED <<answered, tasks, responses, local>>,
           \A fd \in DOMAIN sockets' : fd \in DOMAIN sockets /\ sockets'[fd] = sockets[fd]
    PROVE  PlaceInv'
  <2> USE <1>AdoptPlaces
  <2>1. \A token, peer : /\ NewConnection(token, peer).read_buffer = <<>>
                         /\ NewConnection(token, peer).write_buffer = <<>>
    BY DEF NewConnection
  <2>2. \A fd \in DOMAIN connections' :
          \/ fd \in DOMAIN connections /\ connections'[fd] = connections[fd]
          \/ \E token, peer : connections'[fd] = NewConnection(token, peer)
    BY Zenon DEF Adopt
  <2>3. \A fd \in DOMAIN connections' :
          \/ fd \in DOMAIN connections /\ connections'[fd] = connections[fd]
          \/ connections'[fd].read_buffer = <<>> /\ connections'[fd].write_buffer = <<>>
    <3> SUFFICES ASSUME NEW fd \in DOMAIN connections',
                        NEW token, NEW peer, connections'[fd] = NewConnection(token, peer)
                 PROVE  connections'[fd].read_buffer = <<>> /\ connections'[fd].write_buffer = <<>>
      BY Zenon, <2>2
    <3> QED
      BY <2>1
  <2> QED
    BY ZenonT(40), <2>3, <1>ConnPlaces

\* Sockets become connections, with empty buffers.
<1>DrainPendingPlaces.
    ASSUME PlaceInv, DrainPendingConnections \/ DrainPendingFails
    PROVE  PlaceInv'
  <2> USE <1>DrainPendingPlaces
  <2>1. UNCHANGED <<answered, tasks, responses, local>>
    BY Zenon DEF DrainPendingConnections, DrainPendingFails, clientVars, poolVars
  <2>2. CASE DrainPendingConnections
    <3>1. UNCHANGED sockets /\ Adopt(Len(pending_connections))
      BY Zenon, <2>2 DEF DrainPendingConnections, AdoptPending, clientVars
    <3> QED
      BY Zenon, <2>1, <3>1, <1>AdoptPlaces
  <2>3. CASE DrainPendingFails
    <3>1. PICK n \in 0 .. Len(pending_connections) - 1 :
            /\ Adopt(n)
            /\ sockets' = Without(sockets, {pending_connections[i] :
                                              i \in n + 1 .. Len(pending_connections)})
      BY Zenon, <2>3 DEF DrainPendingFails
    <3>2. \A fd \in DOMAIN sockets' : fd \in DOMAIN sockets /\ sockets'[fd] = sockets[fd]
      BY Zenon, <3>1, <1>WithoutAt
    <3> QED
      BY Zenon, <2>1, <3>1, <3>2, <1>AdoptPlaces
  <2> QED
    BY Zenon, <2>2, <2>3

\* A connection is closed, or its interest renewed.
<1>ClosePlaces.
    ASSUME PlaceInv, NEW f, CloseConnection(f), UNCHANGED <<answered, tasks, responses, local>>
    PROVE  PlaceInv'
  <2> USE <1>ClosePlaces
  <2>1. /\ \A fd \in DOMAIN sockets' : fd \in DOMAIN sockets /\ sockets'[fd] = sockets[fd]
        /\ \A fd \in DOMAIN connections' :
             fd \in DOMAIN connections /\ connections'[fd] = connections[fd]
    BY Zenon, <1>WithoutAt DEF CloseConnection
  <2> QED
    BY Zenon, <2>1, <1>ConnPlaces

\* A connection is closed, or its interest renewed.
<1>RenewPlaces.
    ASSUME WInv, PlaceInv, UpdateAfterResponse \/ EventEnd
    PROVE  PlaceInv'
  <2> USE <1>RenewPlaces
  <2>1. UNCHANGED <<answered, tasks, responses, local>> /\ pc \in Busy
    BY Zenon DEF UpdateAfterResponse, EventEnd, poolVars, queueVars, LoopAt, Busy
  <2>2. PICK f \in DOMAIN connections : f = current.fd
    BY Zenon, <2>1 DEF WInv, Control
  <2>3. CASE CloseConnection(f)
    BY Zenon, <2>1, <2>3, <1>ClosePlaces
  <2>4. CASE UpdateEpollInterest(f) /\ UNCHANGED sockets
    <3> DEFINE c == connections[f]
    <3>1. PICK b : b = HasPendingWrite(c)
      BY Zenon
    <3>2. b \in BOOLEAN
      BY <3>1 DEF HasPendingWrite
    <3>3. PICK d : d = [c EXCEPT !.epollout = b]
      BY Zenon
    <3>4. d.read_buffer = c.read_buffer /\ d.write_buffer = c.write_buffer
      BY Zenon, <3>2, <3>3, BuffersOf, <1>BuffersStay DEF SameBuffers
    <3>5. connections' = [connections EXCEPT ![f] = d]
      BY Zenon, <2>4, <3>1, <3>3 DEF UpdateEpollInterest
    <3> QED
      BY Zenon, <2>1, <2>4, <3>4, <3>5, <1>SamePlaces
  <2> QED
    BY Zenon, <2>2, <2>3, <2>4 DEF UpdateAfterResponse, EventEnd

\* Deadlines pass; events are applied; the loop ends.
<1>TickPlaces.
    ASSUME WInv, PlaceInv, Tick
    PROVE  PlaceInv'
  <2> USE <1>TickPlaces
  <2>1. UNCHANGED <<answered, tasks, responses, local, sockets>>
    BY Zenon DEF Tick, clientVars, poolVars, queueVars
  <2>2. PICK late : connections' = [fd \in DOMAIN connections |->
                       IF fd \in late THEN EnterError(connections[fd]) ELSE connections[fd]]
    BY Zenon DEF Tick
  <2>3. \A fd \in DOMAIN connections : SameBuffers(connections[fd], EnterError(connections[fd]))
    BY Zenon, BuffersOf, <1>BuffersStay
  <2>4. \A fd \in DOMAIN connections' :
          \/ fd \in DOMAIN connections /\ connections'[fd] = connections[fd]
          \/ fd \in DOMAIN connections /\ connections'[fd] = EnterError(connections[fd])
    BY Zenon, <2>2
  <2>5. \A l, fd : Calm(l, fd)
    BY Zenon, <2>1, <2>3, <2>4 DEF Calm, SameBuffers
  <2> QED
    BY Zenon, <2>5, <1>CalmStep

\* An event wakes its connection's coroutine.
<1>EventPlaces.
    ASSUME WInv, PlaceInv, EventOut \/ \E e \in events : TakeEvent(e)
    PROVE  PlaceInv'
  <2> USE <1>EventPlaces
  <2>1. UNCHANGED <<answered, tasks, responses, local, sockets>>
    BY Zenon DEF EventOut, TakeEvent, clientVars, poolVars, queueVars
  <2>2. ASSUME NEW f \in DOMAIN connections
        PROVE  /\ NotifyReadable(connections[f]).read_buffer = connections[f].read_buffer
               /\ NotifyReadable(connections[f]).write_buffer = connections[f].write_buffer
               /\ NotifyWritable(connections[f]).read_buffer = connections[f].read_buffer
               /\ NotifyWritable(connections[f]).write_buffer = connections[f].write_buffer
    BY Zenon, BuffersOf, <1>BuffersStay DEF SameBuffers
  <2>3. CASE EventOut
    <3>1. PICK f \in DOMAIN connections : f = current.fd
      BY Zenon, <2>3 DEF WInv, Control, EventOut, LoopAt, Busy
    <3>2. PICK d : d = IF current.out THEN NotifyWritable(connections[f]) ELSE connections[f]
      BY Zenon
    <3>3. connections' = [connections EXCEPT ![f] = d]
      BY Zenon, <2>3, <3>1, <3>2 DEF EventOut
    <3>4. d.read_buffer = connections[f].read_buffer /\ d.write_buffer = connections[f].write_buffer
      BY Zenon, <2>2, <3>2
    <3> QED
      BY Zenon, <2>1, <3>3, <3>4, <1>SamePlaces
  <2>4. ASSUME NEW e \in events, TakeEvent(e)
        PROVE  PlaceInv'
    <3>1. CASE e.fd \notin DOMAIN connections
      BY Zenon, <2>1, <2>4, <3>1, <1>IdlePlaces DEF TakeEvent
    <3>2. CASE e.fd \in DOMAIN connections
      <4>1. PICK f \in DOMAIN connections : f = e.fd
        BY Zenon, <3>2
      <4>2. PICK d : d = IF e.in THEN NotifyReadable(connections[f]) ELSE connections[f]
        BY Zenon
      <4>3. connections' = [connections EXCEPT ![f] = d]
        BY Zenon, <2>4, <3>2, <4>1, <4>2 DEF TakeEvent
      <4>4. d.read_buffer = connections[f].read_buffer /\ d.write_buffer = connections[f].write_buffer
        BY Zenon, <2>2, <4>2
      <4> QED
        BY Zenon, <2>1, <4>3, <4>4, <1>SamePlaces
    <3> QED
      BY Zenon, <3>1, <3>2
  <2> QED
    BY Zenon, <2>3, <2>4

\* Every connection is closed, and its requests are lost.
<1>CloseAllPlaces.
    ASSUME PlaceInv, CloseAllConnections
    PROVE  PlaceInv'
  <2> USE <1>CloseAllPlaces
  <2>1. /\ UNCHANGED <<answered, tasks, responses, local>> /\ connections' = <<>>
        /\ sockets' = Without(sockets, DOMAIN connections)
    BY Zenon DEF CloseAllConnections, poolVars
  <2>2. DOMAIN connections' = {}
    BY <2>1
  <2>3. \A fd \in DOMAIN sockets' : fd \in DOMAIN sockets /\ sockets'[fd] = sockets[fd]
    BY Zenon, <2>1, <1>WithoutAt
  <2>4. \A l, fd : Calm(l, fd)
    BY Zenon, <2>1, <2>2, <2>3 DEF Calm
  <2> QED
    BY Zenon, <2>4, <1>CalmStep

\* All steps of the loop preserve PlaceInv,
<1>LoopStepPlaces.
    ASSUME WInv, PlaceInv, LoopStep
    PROVE  PlaceInv'
  <2> USE <1>LoopStepPlaces
  <2>1. CASE \/ EpollWait \/ EpollWaitFails \/ LeaveRun \/ DrainWakeFd \/ DrainWakeFdFails
             \/ DrainsDone \/ EventsDone
    <3>1. UNCHANGED <<answered, tasks, responses, local, sockets, connections>>
      BY Zenon, <2>1
      DEF EpollWait, EpollWaitFails, LeaveRun, DrainWakeFd, DrainWakeFdFails, DrainsDone,
          EventsDone, clientVars, poolVars, queueVars, connVars
    <3> QED
      BY Zenon, <3>1, <1>IdlePlaces
  <2>2. CASE DrainPendingConnections \/ DrainPendingFails \/ SwapCompleted
    BY Zenon, <2>2, <1>DrainPendingPlaces, <1>SwapCompletedPlaces
  <2>3. CASE DrainCompletedResponses \/ UpdateAfterResponse \/ EventEnd \/ Tick
    BY Zenon, <2>3, <1>DrainCompletedPlaces, <1>RenewPlaces, <1>TickPlaces
  <2>4. CASE (\E e \in events : TakeEvent(e)) \/ EventOut
    BY Zenon, <2>4, <1>EventPlaces
  <2>5. CASE CloseAllConnections
    BY Zenon, <2>5, <1>CloseAllPlaces
  <2>6. CASE \E fd \in DOMAIN connections :
               ReadRequestCo(fd) \/ TryParseRequests(fd) \/ WriteResponseCo(fd)
    BY Zenon, <2>6, <1>ReadRequestCoPlaces, <1>TryParsePlaces, <1>WriteResponseCoPlaces
  <2> QED
    BY Zenon, <2>1, <2>2, <2>3, <2>4, <2>5, <2>6 DEF LoopStep

\* and all steps at all.
<1>NextPlaces.
    WInv /\ PlaceInv /\ [Next]_vars => PlaceInv'
  <2> SUFFICES ASSUME WInv, PlaceInv, [Next]_vars PROVE PlaceInv'
    OBVIOUS
  <2>1. CASE LoopStep
    BY Zenon, <2>1, <1>LoopStepPlaces
  <2>2. CASE \E t \in tasks : RunHandler(t)
    BY Zenon, <2>2, <1>RunHandlerPlaces
  <2>3. CASE JoinPool \/ \E t \in tasks : WakeLoop(t)
    <3>1. /\ UNCHANGED <<answered, responses, local, sockets, connections>>
          /\ tasks' \subseteq tasks
      BY Zenon, <2>3 DEF JoinPool, WakeLoop, clientVars, queueVars, loopVars, connVars
    <3> QED
      BY Zenon, <3>1, <1>IdlePlaces
  <2>4. CASE Wakeup \/ StopPool \/ RequestStop \/ EnqueueConnection \/ UNCHANGED vars
    <3>1. UNCHANGED <<answered, tasks, responses, local, sockets, connections>>
      BY Zenon, <2>4 DEF Wakeup, StopPool, RequestStop, EnqueueConnection, vars,
                         clientVars, poolVars, queueVars, loopVars, connVars
    <3> QED
      BY Zenon, <3>1, <1>IdlePlaces
  <2>5. CASE \E fd \in Fds : AcceptConnection(fd)
    BY Zenon, <2>5, <1>AcceptPlaces
  <2>6. CASE \E fd \in Fds : ClientStep(fd)
    BY Zenon, <2>6, <1>ClientSendsPlaces, <1>ClientSendsRestPlaces, <1>ClientReceivesPlaces,
       <1>ClientClosesPlaces DEF ClientStep
  <2> QED
    BY Zenon, <2>1, <2>2, <2>3, <2>4, <2>5, <2>6 DEF Next

(* The requests that are still to be parsed: what a step may do to them    *)
(* and to the count of the requests in flight.                             *)

\* The wires and the read buffers are left alone, or emptied.
<1>UnreadCalm.
    ASSUME PlaceInv, \A fd : Calm("wire", fd) /\ Calm("read", fd)
    PROVE  FewerUnread
  <2> USE <1>UnreadCalm
  <2>1. \A n, fd : /\ At(n, "wire", fd)' => At(n, "wire", fd)
                   /\ At(n, "read", fd)' => At(n, "read", fd)
    BY Zenon, <1>CalmPlace DEF PlaceInv
  <2>2. \A n, fd : /\ OnWire(n, fd)' => OnWire(n, fd)
                   /\ InRead(n, fd)' => InRead(n, fd)
    BY <2>1 DEF At
  <2> QED
    BY Zenon, <2>2 DEF FewerUnread, IsUnread

\* Sockets and connections are opened with empty wires and buffers, change without
\* them, or are closed.
<1>UnreadConn.
    ASSUME PlaceInv,
           \A fd \in DOMAIN sockets' :
             \/ fd \in DOMAIN sockets /\ sockets'[fd].wire = sockets[fd].wire
             \/ sockets'[fd].wire = <<>>,
           \A fd \in DOMAIN connections' :
             \/ fd \in DOMAIN connections /\ connections'[fd].read_buffer = connections[fd].read_buffer
             \/ connections'[fd].read_buffer = <<>>
    PROVE  FewerUnread
  <2> USE <1>UnreadConn
  <2>1. \A fd : Calm("wire", fd) /\ Calm("read", fd)
    BY DEF Calm
  <2> QED
    BY Zenon, <2>1, <1>UnreadCalm

\* One connection changes without its read buffer.
<1>UnreadOne.
    ASSUME WInv, PlaceInv,
           NEW f \in DOMAIN connections, NEW d, connections' = [connections EXCEPT ![f] = d],
           d.read_buffer = connections[f].read_buffer,
           \A fd \in DOMAIN sockets' :
             fd \in DOMAIN sockets /\ sockets'[fd].wire = sockets[fd].wire
    PROVE  FewerUnread
  <2> USE <1>UnreadOne
  <2>1. /\ DOMAIN connections' = DOMAIN connections /\ connections'[f] = d
        /\ \A x \in DOMAIN connections : x # f => connections'[x] = connections[x]
    BY Zenon, <1>OneConn
  <2> QED
    BY Zenon, <2>1, <1>UnreadConn

\* A client sends: one more request is to be parsed,
<1>ClientSendsUnread.
    ASSUME WInv, PlaceInv, NEW f, NEW kind \in Kinds, ClientSends(f, kind)
    PROVE  UnreadStep
  <2> USE <1>ClientSendsUnread
  <2> DEFINE s == sockets[f]
  <2>1. /\ f \in DOMAIN sockets /\ s \in Sockets /\ s.client \in Nat /\ s.wire \in Seq(Frames)
        /\ sockets \in [DOMAIN sockets -> Sockets]
    BY Zenon DEF ClientSends, Sockets, WInv, Data, SocketInv, GoodSocket
  <2>2. PICK part \in {"whole", "first"} :
          LET frame == [id |-> sent + 1, kind |-> kind, client |-> s.client, part |-> part]
          IN sockets' = [sockets EXCEPT
               ![f].wire = Append(@, frame),
               ![f].rest = IF part = "first" THEN <<[frame EXCEPT !.part = "rest"]>> ELSE <<>>]
    BY Zenon DEF ClientSends
  <2>3. PICK x : x = [id |-> sent + 1, kind |-> kind, client |-> s.client, part |-> part]
    BY Zenon
  <2>4. x \in Frames /\ x.id = sent + 1
    BY <2>1, <2>3, WorkerLoopAssumption DEF Frames, Parts, WInv, Data, SocketInv
  <2>5. PICK r : r = IF part = "first" THEN <<[x EXCEPT !.part = "rest"]>> ELSE <<>>
    BY Zenon
  <2>6. PICK t : t = [s EXCEPT !.wire = Append(s.wire, x), !.rest = r]
    BY Zenon
  <2>7. t.wire = Append(s.wire, x)
    BY Zenon, <2>1, <2>6 DEF Sockets
  <2>8. sockets' = [sockets EXCEPT ![f] = t]
    BY Zenon, <2>2, <2>3, <2>5, <2>6
  <2>9. \A n : Holds(t.wire, n) => Holds(s.wire, n) \/ n = sent + 1
    BY Zenon, <2>1, <2>4, <2>7, <1>AppendIds
  <2>10. /\ DOMAIN sockets' = DOMAIN sockets /\ sockets'[f] = t
         /\ \A y \in DOMAIN sockets : y # f => sockets'[y] = sockets[y]
    BY Zenon, <2>1, <2>8, <1>ExceptAt
  <2>11. /\ UNCHANGED <<connections, in_flight_request_count>> /\ sent' = sent + 1
    BY Zenon DEF ClientSends, connVars
  <2>12. ASSUME NEW n, IsUnread(n)'
         PROVE  IsUnread(n) \/ n = sent + 1
    <3>1. \A fd : OnWire(n, fd)' => OnWire(n, fd) \/ n = sent + 1
      BY Zenon, <2>1, <2>9, <2>10 DEF OnWire
    <3>2. \A fd : InRead(n, fd)' => InRead(n, fd)
      BY Zenon, <2>11 DEF InRead
    <3> QED
      BY Zenon, <2>12, <3>1, <3>2 DEF IsUnread
  <2> QED
    BY Zenon, <2>11, <2>12 DEF UnreadStep

\* and the rest of it begins no request.
<1>ClientSendsRestUnread.
    ASSUME WInv, PlaceInv, NEW f, ClientSendsRest(f)
    PROVE  FewerUnread
  <2> USE <1>ClientSendsRestUnread
  <2> DEFINE s == sockets[f]
  <2>1. /\ f \in DOMAIN sockets /\ s \in Sockets /\ GoodSocket(s, clients, sent)
        /\ s.wire \in Seq(Frames) /\ s.rest \in Seq(Frames)
        /\ sockets \in [DOMAIN sockets -> Sockets]
    BY Zenon DEF ClientSendsRest, Sockets, WInv, Data, SocketInv, GoodSocket
  <2>2. PICK t : t = [s EXCEPT !.wire = s.wire \o s.rest, !.rest = <<>>]
    BY Zenon
  <2>3. t.wire = s.wire \o s.rest
    BY Zenon, <2>1, <2>2 DEF Sockets
  <2>4. sockets' = [sockets EXCEPT ![f] = t]
    BY Zenon, <2>2 DEF ClientSendsRest
  <2>5. \A n : ~Holds(s.rest, n)
    BY <2>1 DEF GoodSocket, Holds, Starts
  <2>6. \A n : Holds(t.wire, n) => Holds(s.wire, n)
    BY Zenon, <2>1, <2>3, <2>5, <1>ConcatIds
  <2>7. /\ DOMAIN sockets' = DOMAIN sockets /\ sockets'[f] = t
        /\ \A y \in DOMAIN sockets : y # f => sockets'[y] = sockets[y]
    BY Zenon, <2>1, <2>4, <1>ExceptAt
  <2>8. UNCHANGED connections
    BY Zenon DEF ClientSendsRest, connVars
  <2>9. ASSUME NEW n, IsUnread(n)'
        PROVE  IsUnread(n)
    <3>1. \A fd : OnWire(n, fd)' => OnWire(n, fd)
      BY Zenon, <2>1, <2>6, <2>7 DEF OnWire
    <3>2. \A fd : InRead(n, fd)' => InRead(n, fd)
      BY Zenon, <2>8 DEF InRead
    <3> QED
      BY Zenon, <2>9, <3>1, <3>2 DEF IsUnread
  <2> QED
    BY Zenon, <2>9 DEF FewerUnread

\* The coroutine reads what is on the wire.
<1>ReadRequestCoUnread.
    ASSUME WInv, PlaceInv, NEW f \in DOMAIN connections, ReadRequestCo(f)
    PROVE  FewerUnread
  <2> USE <1>ReadRequestCoUnread
  <2> DEFINE c == connections[f]
             s == sockets[f]
  <2>2. /\ c \in Conns /\ f \in DOMAIN sockets /\ s \in Sockets
        /\ c.read_buffer \in Seq(Frames) /\ s.wire \in Seq(Frames)
    BY Zenon, BuffersOf
  <2>3. CASE /\ connections' = [connections EXCEPT ![f] = CoroutineFails(@)]
             /\ UNCHANGED sockets
    <3>1. CoroutineFails(c).read_buffer = c.read_buffer
      BY Zenon, <2>2, <1>BuffersStay DEF SameBuffers
    <3>2. /\ DOMAIN connections' = DOMAIN connections /\ connections'[f] = CoroutineFails(c)
          /\ \A x \in DOMAIN connections : x # f => connections'[x] = connections[x]
      BY Zenon, <2>3, <1>OneConn
    <3> QED
      BY Zenon, <2>3, <3>1, <3>2, <1>UnreadConn
  <2>4. CASE /\ connections' = [connections EXCEPT ![f] = OnReadable(@, s.wire, s.fin)]
             /\ sockets' = [sockets EXCEPT ![f].wire = <<>>]
    <3>1. PICK d : d = OnReadable(c, s.wire, s.fin)
      BY Zenon
    <3>2. d.read_buffer = IF s.fin THEN c.read_buffer ELSE c.read_buffer \o s.wire
      BY <2>2, <3>1, <1>BuffersMove
    <3>3. PICK t : t = [s EXCEPT !.wire = <<>>]
      BY Zenon
    <3>4. t.wire = <<>>
      BY Zenon, <2>2, <3>3 DEF Sockets
    <3>5. /\ connections' = [connections EXCEPT ![f] = d]
          /\ sockets' = [sockets EXCEPT ![f] = t]
      BY <2>4, <3>1, <3>3
    <3>6. /\ DOMAIN connections' = DOMAIN connections /\ connections'[f] = d
          /\ \A x \in DOMAIN connections : x # f => connections'[x] = connections[x]
          /\ DOMAIN sockets' = DOMAIN sockets /\ sockets'[f] = t
          /\ \A x \in DOMAIN sockets : x # f => sockets'[x] = sockets[x]
      BY Zenon, <3>5, <1>OnePair
    <3>7. \A n : Holds(d.read_buffer, n) => Holds(c.read_buffer, n) \/ Holds(s.wire, n)
      BY Zenon, <2>2, <3>2, <1>ConcatIds
    <3>8. ASSUME NEW n, IsUnread(n)' PROVE IsUnread(n)
      <4>1. \A fd : OnWire(n, fd)' => OnWire(n, fd)
        BY Zenon, <3>4, <3>6, NothingHeld DEF OnWire
      <4>2. \A fd : InRead(n, fd)' => InRead(n, fd) \/ OnWire(n, f)
        BY Zenon, <2>2, <3>6, <3>7 DEF InRead, OnWire
      <4> QED
        BY Zenon, <3>8, <4>1, <4>2 DEF IsUnread
    <3> QED
      BY ZenonT(40), <3>8 DEF FewerUnread
  <2> QED
    BY Zenon, <2>3, <2>4 DEF ReadRequestCo

\* A complete request leaves its read buffer.
<1>ConsumeUnread.
    ASSUME WInv, PlaceInv, NEW f \in DOMAIN connections, NEW d,
           Complete(connections[f]), connections' = [connections EXCEPT ![f] = d],
           d.read_buffer = Left(connections[f].read_buffer), UNCHANGED sockets
    PROVE  \E x : IsUnread(x) /\ \A n : IsUnread(n)' => IsUnread(n) /\ n # x
  <2> USE <1>ConsumeUnread
  <2> DEFINE c == connections[f]
  <2>1. /\ c.read_buffer \in Seq(Frames) /\ c.read_buffer # <<>>
        /\ Len(c.read_buffer) > 1 \/ Head(c.read_buffer).part = "whole"
    BY Zenon, BuffersOf DEF Complete
  <2>2. PICK x \in Frames : x.part # "rest" /\ x = Head(c.read_buffer)
    BY SMTT(30), <2>1, BuffersOf DEF GoodBuffers
  <2>3. Once(c.read_buffer)
    BY DEF PlaceInv, OnceAt
  <2>4. /\ Holds(c.read_buffer, x.id)
        /\ \A n : Holds(Left(c.read_buffer), n) => Holds(c.read_buffer, n) /\ n # x.id
    BY Zenon, <2>1, <2>2, <2>3, LeftIds
  <2>5. InRead(x.id, f)
    BY Zenon, <2>4 DEF InRead
  <2>6. /\ \A fd : ~OnWire(x.id, fd)
        /\ \A fd : InRead(x.id, fd) => fd = f
    BY <2>5 DEF PlaceInv, OneSpot, At
  <2>7. /\ DOMAIN connections' = DOMAIN connections /\ connections'[f] = d
        /\ \A y \in DOMAIN connections : y # f => connections'[y] = connections[y]
    BY Zenon, <1>OneConn
  <2>8. ASSUME NEW n, IsUnread(n)' PROVE IsUnread(n) /\ n # x.id
    <3>1. \A fd : OnWire(n, fd)' => OnWire(n, fd) /\ n # x.id
      BY Zenon, <2>6 DEF OnWire
    <3>2. \A fd : InRead(n, fd)' => InRead(n, fd) /\ n # x.id
      BY Zenon, <2>4, <2>6, <2>7 DEF InRead
    <3> QED
      BY Zenon, <2>8, <3>1, <3>2 DEF IsUnread
  <2>9. IsUnread(x.id)
    BY Zenon, <2>5 DEF IsUnread
  <2> QED
    BY Zenon, <2>8, <2>9

\* The loop parses: a request leaves its buffer, counted only when it goes to the pool.
<1>TryParseUnread.
    ASSUME WInv, PlaceInv, NEW f \in DOMAIN connections, TryParseRequests(f)
    PROVE  UnreadStep
  <2> USE <1>TryParseUnread
  <2> DEFINE c == connections[f]
  <2>1. UNCHANGED <<sockets, sent>>
    BY Zenon DEF TryParseRequests, clientVars
  <2>2. c \in Conns
    BY Zenon, BuffersOf
  <2>3. CASE /\ \/ connections' = [connections EXCEPT ![f] = CoroutineFails(@)]
                \/ connections' = [connections EXCEPT ![f] = HandleConnectionCo(@)]
             /\ UNCHANGED in_flight_request_count
    <3>1. /\ CoroutineFails(c).read_buffer = c.read_buffer
          /\ HandleConnectionCo(c).read_buffer = c.read_buffer
      BY Zenon, <2>2, <1>BuffersStay DEF SameBuffers
    <3>2. FewerUnread
      BY Zenon, <2>1, <2>3, <3>1, <1>UnreadOne
    <3> QED
      BY Zenon, <2>1, <2>3, <3>2 DEF UnreadStep
  <2>4. CASE /\ Complete(c) /\ connections' = [connections EXCEPT ![f] = Consumed(@)]
             /\ in_flight_request_count' = in_flight_request_count + 1
    <3>1. Consumed(c).read_buffer = Left(c.read_buffer)
      BY Zenon, <2>2, <1>BuffersMove
    <3>2. \E x : IsUnread(x) /\ \A n : IsUnread(n)' => IsUnread(n) /\ n # x
      BY Zenon, <2>1, <2>4, <3>1, <1>ConsumeUnread
    <3> QED
      BY Zenon, <2>1, <2>4, <3>2 DEF UnreadStep
  <2>5. CASE Complete(c) /\ AnswerAtOnce(f)
    <3>1. CASE ~Fits(c)
      BY Zenon, <2>3, <2>5, <3>1 DEF AnswerAtOnce
    <3>2. CASE Fits(c)
      <4>1. PICK d : d = Consumed(EnqueueResponse(c, NextFrame(f)))
        BY Zenon
      <4>2. d.read_buffer = Left(c.read_buffer)
        BY Zenon, <2>2, <4>1, <1>BuffersMove
      <4>3. connections' = [connections EXCEPT ![f] = d] /\ UNCHANGED in_flight_request_count
        BY Zenon, <2>5, <3>2, <4>1 DEF AnswerAtOnce
      <4>4. \E x : IsUnread(x) /\ \A n : IsUnread(n)' => IsUnread(n) /\ n # x
        BY Zenon, <2>1, <2>5, <4>2, <4>3, <1>ConsumeUnread
      <4> QED
        BY Zenon, <2>1, <4>3, <4>4 DEF UnreadStep, FewerUnread
    <3> QED
      BY Zenon, <3>1, <3>2
  <2> QED
    BY Zenon, <2>3, <2>4, <2>5
    DEF TryParseRequests, DispatchRequest, AnswerPing, HandleOneRequest, RejectHeader

\* The coroutine writes.
<1>WriteResponseCoUnread.
    ASSUME WInv, PlaceInv, NEW f \in DOMAIN connections, WriteResponseCo(f)
    PROVE  FewerUnread
  <2> USE <1>WriteResponseCoUnread
  <2> DEFINE c == connections[f]
             s == sockets[f]
  <2>2. /\ c \in Conns /\ f \in DOMAIN sockets /\ s \in Sockets
        /\ sockets \in [DOMAIN sockets -> Sockets]
    BY Zenon, BuffersOf DEF WInv, Data, SocketInv
  <2>3. PICK d, g : /\ connections' = [connections EXCEPT ![f] = d]
                    /\ d = CoroutineFails(c) \/ \E m : d = OnWritable(c, m)
                    /\ sockets' = sockets \/ sockets' = [sockets EXCEPT ![f] = [s EXCEPT !.out = g]]
    BY ZenonT(40) DEF WriteResponseCo
  <2>4. d.read_buffer = c.read_buffer
    <3>1. CASE d = CoroutineFails(c)
      BY Zenon, <2>2, <3>1, <1>BuffersStay DEF SameBuffers
    <3>2. ASSUME NEW m, d = OnWritable(c, m) PROVE d.read_buffer = c.read_buffer
      BY Zenon, <2>2, <3>2, <1>BuffersMove
    <3> QED
      BY Zenon, <2>3, <3>1, <3>2
  <2>5. \A fd \in DOMAIN sockets' : fd \in DOMAIN sockets /\ sockets'[fd].wire = sockets[fd].wire
    <3>1. [s EXCEPT !.out = g].wire = s.wire
      BY Zenon, <2>2 DEF Sockets
    <3>2. CASE sockets' = sockets
      BY Zenon, <3>2
    <3>3. CASE sockets' = [sockets EXCEPT ![f] = [s EXCEPT !.out = g]]
      <4>1. PICK t : t = [s EXCEPT !.out = g]
        BY Zenon
      <4>2. sockets' = [sockets EXCEPT ![f] = t]
        BY Zenon, <3>3, <4>1
      <4>3. /\ DOMAIN sockets' = DOMAIN sockets /\ sockets'[f] = t
            /\ \A y \in DOMAIN sockets : y # f => sockets'[y] = sockets[y]
        BY Zenon, <2>2, <4>2, <1>ExceptAt
      <4> QED
        BY Zenon, <3>1, <4>1, <4>3
    <3> QED
      BY Zenon, <2>3, <3>2, <3>3
  <2> QED
    BY Zenon, <2>3, <2>4, <2>5, <1>UnreadOne

\* A result is delivered to its connection, or dropped with or without it.
<1>DrainCompletedUnread.
    ASSUME WInv, PlaceInv, DrainCompletedResponses
    PROVE  FewerUnread
  <2> USE <1>DrainCompletedUnread
  <2>3. PICK t : t = Head(local)
    BY Zenon
  <2>4. CASE \/ UNCHANGED <<sockets, connections>>
             \/ \E S : connections' = Without(connections, S) /\ sockets' = Without(sockets, S)
    <3>1. /\ \A fd \in DOMAIN sockets' : fd \in DOMAIN sockets /\ sockets'[fd] = sockets[fd]
          /\ \A fd \in DOMAIN connections' :
               fd \in DOMAIN connections /\ connections'[fd] = connections[fd]
      <4>1. CASE UNCHANGED <<sockets, connections>>
        BY Zenon, <4>1
      <4>2. ASSUME NEW S, connections' = Without(connections, S), sockets' = Without(sockets, S)
            PROVE  /\ \A fd \in DOMAIN sockets' :
                        fd \in DOMAIN sockets /\ sockets'[fd] = sockets[fd]
                   /\ \A fd \in DOMAIN connections' :
                        fd \in DOMAIN connections /\ connections'[fd] = connections[fd]
        BY ZenonT(40), <4>2, <1>WithoutAt
      <4> QED
        BY Zenon, <2>4, <4>1, <4>2
    <3>2. \A fd : Calm("wire", fd) /\ Calm("read", fd)
      BY <3>1 DEF Calm
    <3> QED
      BY Zenon, <3>2, <1>UnreadCalm
  <2>5. CASE TokenMatches(t) /\ Fits(connections[t.fd])
    <3>1. PICK f \in DOMAIN connections : f = t.fd
      BY Zenon, <2>5 DEF TokenMatches
    <3> DEFINE c == connections[f]
    <3>2. PICK d : d = NotifyReadable(EnqueueResponse(c, t.req))
      BY Zenon
    <3>3. connections' = [connections EXCEPT ![f] = d] /\ UNCHANGED sockets
      BY <2>3, <2>5, <3>1, <3>2 DEF DrainCompletedResponses
    <3>4. c \in Conns
      BY Zenon, BuffersOf
    <3>5. d.read_buffer = c.read_buffer
      BY Zenon, <3>2, <3>4, <1>BuffersMove
    <3>6. /\ DOMAIN connections' = DOMAIN connections /\ connections'[f] = d
          /\ \A x \in DOMAIN connections : x # f => connections'[x] = connections[x]
      BY Zenon, <3>3, <1>OneConn
    <3>7. \A fd : Calm("wire", fd) /\ Calm("read", fd)
      BY <3>3, <3>5, <3>6 DEF Calm
    <3> QED
      BY Zenon, <3>7, <1>UnreadCalm
  <2> QED
    BY Zenon, <2>3, <2>4, <2>5 DEF DrainCompletedResponses, CloseConnection

\* Sockets become connections, with empty buffers.
<1>AdoptUnread.
    ASSUME WInv, PlaceInv, DrainPendingConnections \/ DrainPendingFails
    PROVE  FewerUnread
  <2> USE <1>AdoptUnread
  <2>2. PICK n : Adopt(n)
    BY Zenon DEF DrainPendingConnections, AdoptPending, DrainPendingFails
  <2>3. \A fd \in DOMAIN sockets' : fd \in DOMAIN sockets /\ sockets'[fd] = sockets[fd]
    <3>1. CASE DrainPendingConnections
      BY Zenon, <3>1 DEF DrainPendingConnections, clientVars
    <3>2. CASE DrainPendingFails
      <4>1. PICK S : sockets' = Without(sockets, S)
        BY Zenon, <3>2 DEF DrainPendingFails
      <4> QED
        BY Zenon, <4>1, <1>WithoutAt
    <3> QED
      BY Zenon, <3>1, <3>2
  <2>4. \A token, peer : NewConnection(token, peer).read_buffer = <<>>
    BY DEF NewConnection
  <2>5. \A fd \in DOMAIN connections' :
          \/ fd \in DOMAIN connections /\ connections'[fd] = connections[fd]
          \/ \E token, peer : connections'[fd] = NewConnection(token, peer)
    BY Zenon, <2>2 DEF Adopt
  <2> QED
    BY Zenon, <2>3, <2>4, <2>5, <1>UnreadConn

\* A connection is closed, or its interest renewed.
<1>RenewUnread.
    ASSUME WInv, PlaceInv, UpdateAfterResponse \/ EventEnd
    PROVE  FewerUnread
  <2> USE <1>RenewUnread
  <2>1. pc \in Busy
    BY Zenon DEF UpdateAfterResponse, EventEnd, LoopAt, Busy
  <2>2. PICK f \in DOMAIN connections : f = current.fd
    BY Zenon, <2>1 DEF WInv, Control
  <2>3. CASE CloseConnection(f)
    <3>1. /\ \A fd \in DOMAIN sockets' : fd \in DOMAIN sockets /\ sockets'[fd] = sockets[fd]
          /\ \A fd \in DOMAIN connections' :
               fd \in DOMAIN connections /\ connections'[fd] = connections[fd]
      BY Zenon, <2>3, <1>WithoutAt DEF CloseConnection
    <3> QED
      BY Zenon, <3>1, <1>UnreadConn
  <2>4. CASE UpdateEpollInterest(f) /\ UNCHANGED sockets
    <3>1. PICK d : d = [connections[f] EXCEPT !.epollout = HasPendingWrite(connections[f])]
      BY Zenon
    <3>2. d.read_buffer = connections[f].read_buffer
      BY Zenon, <3>1, BuffersOf, <1>BuffersStay DEF SameBuffers
    <3>3. connections' = [connections EXCEPT ![f] = d]
      BY Zenon, <2>4, <3>1 DEF UpdateEpollInterest
    <3> QED
      BY Zenon, <2>4, <3>2, <3>3, <1>UnreadOne
  <2> QED
    BY Zenon, <2>2, <2>3, <2>4 DEF UpdateAfterResponse, EventEnd

\* Deadlines pass.
<1>TickUnread.
    ASSUME WInv, PlaceInv, Tick
    PROVE  FewerUnread
  <2> USE <1>TickUnread
  <2>1. UNCHANGED sockets
    BY Zenon DEF Tick, clientVars
  <2>2. PICK late : connections' = [fd \in DOMAIN connections |->
                       IF fd \in late THEN EnterError(connections[fd]) ELSE connections[fd]]
    BY Zenon DEF Tick
  <2>3. \A fd \in DOMAIN connections : SameBuffers(connections[fd], EnterError(connections[fd]))
    BY Zenon, BuffersOf, <1>BuffersStay
  <2>4. \A fd \in DOMAIN connections' :
          /\ fd \in DOMAIN connections
          /\ connections'[fd] = connections[fd] \/ connections'[fd] = EnterError(connections[fd])
    BY Zenon, <2>2
  <2> QED
    BY Zenon, <2>1, <2>3, <2>4, <1>UnreadConn DEF SameBuffers

\* An event wakes its connection's coroutine.
<1>EventUnread.
    ASSUME WInv, PlaceInv, EventOut \/ \E e \in events : TakeEvent(e)
    PROVE  FewerUnread
  <2> USE <1>EventUnread
  <2>1. UNCHANGED sockets
    BY Zenon DEF EventOut, TakeEvent, clientVars
  <2>2. \A f \in DOMAIN connections :
          /\ NotifyReadable(connections[f]).read_buffer = connections[f].read_buffer
          /\ NotifyWritable(connections[f]).read_buffer = connections[f].read_buffer
    BY Zenon, BuffersOf, <1>BuffersStay DEF SameBuffers
  <2>3. CASE UNCHANGED connections
    BY Zenon, <2>1, <2>3, <1>UnreadConn
  <2>4. ASSUME NEW f \in DOMAIN connections, NEW d, connections' = [connections EXCEPT ![f] = d],
               d \in {connections[f], NotifyReadable(connections[f]), NotifyWritable(connections[f])}
        PROVE  FewerUnread
    BY Zenon, <2>1, <2>2, <2>4, <1>UnreadOne
  <2>5. CASE EventOut
    <3>1. PICK f \in DOMAIN connections : f = current.fd
      BY Zenon, <2>5 DEF WInv, Control, EventOut, LoopAt, Busy
    <3>2. PICK d : d = IF current.out THEN NotifyWritable(connections[f]) ELSE connections[f]
      BY Zenon
    <3> QED
      BY Zenon, <2>4, <2>5, <3>1, <3>2 DEF EventOut
  <2>6. ASSUME NEW e \in events, TakeEvent(e), e.fd \in DOMAIN connections
        PROVE  FewerUnread
    <3>1. PICK f \in DOMAIN connections : f = e.fd
      BY Zenon, <2>6
    <3>2. PICK d : d = IF e.in THEN NotifyReadable(connections[f]) ELSE connections[f]
      BY Zenon
    <3> QED
      BY Zenon, <2>4, <2>6, <3>1, <3>2 DEF TakeEvent
  <2> QED
    BY Zenon, <2>3, <2>5, <2>6 DEF TakeEvent

\* Every step of the loop,
<1>LoopStepUnread.
    ASSUME WInv, PlaceInv, LoopStep
    PROVE  UnreadStep
  <2> USE <1>LoopStepUnread
  <2>1. CASE \/ EpollWait \/ EpollWaitFails \/ LeaveRun \/ DrainWakeFd \/ DrainWakeFdFails
             \/ SwapCompleted \/ DrainsDone \/ EventsDone
    <3>1. UNCHANGED <<sockets, sent, connections, in_flight_request_count>>
      BY Zenon, <2>1
      DEF EpollWait, EpollWaitFails, LeaveRun, DrainWakeFd, DrainWakeFdFails, SwapCompleted,
          DrainsDone, EventsDone, clientVars, connVars
    <3>2. FewerUnread
      BY Zenon, <3>1, <1>UnreadConn
    <3> QED
      BY Zenon, <3>1, <3>2 DEF UnreadStep
  <2>2. CASE DrainPendingConnections \/ DrainPendingFails \/ UpdateAfterResponse \/ EventEnd \/ Tick
    <3>1. UNCHANGED <<sent, in_flight_request_count>>
      BY Zenon, <2>2
      DEF DrainPendingConnections, DrainPendingFails, UpdateAfterResponse, EventEnd, Tick, clientVars
    <3> QED
      BY Zenon, <2>2, <3>1, <1>AdoptUnread, <1>RenewUnread, <1>TickUnread DEF UnreadStep
  <2>3. CASE DrainCompletedResponses
    <3>1. /\ sent' = sent
          /\ in_flight_request_count' =
               IF in_flight_request_count > 0 THEN in_flight_request_count - 1 ELSE 0
      BY Zenon, <2>3 DEF DrainCompletedResponses, CountCompleted
    <3> QED
      BY Zenon, <2>3, <3>1, <1>DrainCompletedUnread DEF UnreadStep
  <2>4. CASE (\E e \in events : TakeEvent(e)) \/ EventOut
    <3>1. UNCHANGED <<sent, in_flight_request_count>>
      BY Zenon, <2>4 DEF EventOut, TakeEvent, clientVars
    <3> QED
      BY Zenon, <2>4, <3>1, <1>EventUnread DEF UnreadStep
  <2>5. CASE CloseAllConnections
    <3>1. /\ UNCHANGED <<sent, in_flight_request_count>> /\ connections' = <<>>
          /\ sockets' = Without(sockets, DOMAIN connections)
      BY Zenon, <2>5 DEF CloseAllConnections
    <3>2. DOMAIN connections' = {}
      BY <3>1
    <3>3. \A fd \in DOMAIN sockets' : fd \in DOMAIN sockets /\ sockets'[fd] = sockets[fd]
      BY Zenon, <3>1, <1>WithoutAt
    <3>4. FewerUnread
      BY Zenon, <3>2, <3>3, <1>UnreadConn
    <3> QED
      BY Zenon, <3>1, <3>4 DEF UnreadStep
  <2>6. CASE \E fd \in DOMAIN connections : ReadRequestCo(fd) \/ WriteResponseCo(fd)
    <3>1. UNCHANGED <<sent, in_flight_request_count>>
      BY Zenon, <2>6 DEF ReadRequestCo, WriteResponseCo
    <3> QED
      BY Zenon, <2>6, <3>1, <1>ReadRequestCoUnread, <1>WriteResponseCoUnread DEF UnreadStep
  <2>7. CASE \E fd \in DOMAIN connections : TryParseRequests(fd)
    BY Zenon, <2>7, <1>TryParseUnread
  <2> QED
    BY Zenon, <2>1, <2>2, <2>3, <2>4, <2>5, <2>6, <2>7 DEF LoopStep

\* and every step at all.
<1>NextUnread.
    WInv /\ PlaceInv /\ [Next]_vars => UnreadStep
  <2> SUFFICES ASSUME WInv, PlaceInv, [Next]_vars PROVE UnreadStep
    OBVIOUS
  <2>1. CASE LoopStep
    BY Zenon, <2>1, <1>LoopStepUnread
  <2>2. CASE \/ \E t \in tasks : RunHandler(t) \/ WakeLoop(t)
             \/ Wakeup \/ StopPool \/ JoinPool \/ RequestStop \/ EnqueueConnection \/ UNCHANGED vars
    <3>1. UNCHANGED <<sockets, sent, connections, in_flight_request_count>>
      BY Zenon, <2>2 DEF RunHandler, WakeLoop, Wakeup, StopPool, JoinPool, RequestStop,
                         EnqueueConnection, vars, clientVars, connVars
    <3>2. FewerUnread
      BY Zenon, <3>1, <1>UnreadConn
    <3> QED
      BY Zenon, <3>1, <3>2 DEF UnreadStep
  <2>3. ASSUME NEW f \in Fds, AcceptConnection(f)
        PROVE  UnreadStep
    <3>1. UNCHANGED <<sent, connections, in_flight_request_count>>
      BY Zenon, <2>3 DEF AcceptConnection, connVars
    <3>2. \A fd \in DOMAIN sockets' :
            \/ sockets'[fd].wire = <<>>
            \/ fd \in DOMAIN sockets /\ sockets'[fd] = sockets[fd]
      BY <2>3 DEF AcceptConnection, With
    <3>3. FewerUnread
      BY Zenon, <3>1, <3>2, <1>UnreadConn
    <3> QED
      BY Zenon, <3>1, <3>3 DEF UnreadStep
  <2>4. ASSUME NEW f \in Fds, ClientReceives(f) \/ ClientCloses(f)
        PROVE  UnreadStep
    <3>1. UNCHANGED <<sent, connections, in_flight_request_count>>
      BY Zenon, <2>4 DEF ClientReceives, ClientCloses, connVars
    <3>2. \A fd \in DOMAIN sockets' :
            fd \in DOMAIN sockets /\ sockets'[fd].wire = sockets[fd].wire
      <4>1. f \in DOMAIN sockets /\ sockets \in [DOMAIN sockets -> Sockets]
        BY Zenon, <2>4 DEF ClientReceives, ClientCloses, WInv, Data, SocketInv
      <4>2. PICK t, g, b : /\ sockets' = [sockets EXCEPT ![f] = t]
                           /\ \/ t = [sockets[f] EXCEPT !.out = g]
                              \/ t = [sockets[f] EXCEPT !.fin = b]
        BY ZenonT(40), <2>4 DEF ClientReceives, ClientCloses
      <4>3. t.wire = sockets[f].wire
        BY Zenon, <4>1, <4>2 DEF Sockets
      <4>4. /\ DOMAIN sockets' = DOMAIN sockets /\ sockets'[f] = t
            /\ \A y \in DOMAIN sockets : y # f => sockets'[y] = sockets[y]
        BY Zenon, <4>1, <4>2, <1>ExceptAt
      <4> QED
        BY Zenon, <4>3, <4>4
    <3>3. FewerUnread
      BY Zenon, <3>1, <3>2, <1>UnreadConn
    <3> QED
      BY Zenon, <3>1, <3>3 DEF UnreadStep
  <2>5. ASSUME NEW f \in Fds, ClientSendsRest(f)
        PROVE  UnreadStep
    <3>1. UNCHANGED <<sent, in_flight_request_count>>
      BY Zenon, <2>5 DEF ClientSendsRest, connVars
    <3> QED
      BY Zenon, <2>5, <3>1, <1>ClientSendsRestUnread DEF UnreadStep
  <2>6. ASSUME NEW f \in Fds, \E kind \in Kinds : ClientSends(f, kind)
        PROVE  UnreadStep
    BY Zenon, <2>6, <1>ClientSendsUnread
  <2> QED
    BY Zenon, <2>1, <2>2, <2>3, <2>4, <2>5, <2>6 DEF Next, ClientStep

<1> QED
  BY Zenon, <1>NextPlaces, <1>NextUnread

\* Initially there are no requests.
LEMMA InitPlaces == Init => PlaceInv
<1> SUFFICES ASSUME Init PROVE PlaceInv
  OBVIOUS
<1>1. /\ answered = {} /\ tasks = {} /\ DOMAIN responses = {} /\ DOMAIN local = {}
      /\ DOMAIN sockets = {} /\ DOMAIN connections = {}
  BY DEF Init
<1>2. \A n, k, fd : ~At(n, k, fd)
  BY ZenonT(40), <1>1 DEF At, Answered, InPool, InQueue, InLocal, OnWire, InOut, InRead, InWrite
<1>3. \A k, fd : OnceAt(k, fd)
  BY Zenon, <1>1 DEF OnceAt, CallsOnce
<1> QED
  BY Zenon, <1>2, <1>3 DEF PlaceInv, OneSpot

\* A copy x of a request is a copy at the place k, fd, and tells where there.
CopyAt(x, k, fd) ==
  \/ k = "answered" /\ fd = 0 /\ x = <<x[1], "answered">>
  \/ k = "pool" /\ fd = 0 /\ x = <<x[1], "pool">>
  \/ /\ k = "queue" /\ fd = 0
     /\ \E i \in DOMAIN responses : responses[i].req.id = x[1] /\ x = <<x[1], "queue", i>>
  \/ /\ k = "local" /\ fd = 0
     /\ \E i \in DOMAIN local : local[i].req.id = x[1] /\ x = <<x[1], "local", i>>
  \/ /\ k = "wire" /\ fd \in DOMAIN sockets
     /\ \E i \in Starts(sockets[fd].wire) :
          sockets[fd].wire[i].id = x[1] /\ x = <<x[1], "wire", fd, i>>
  \/ /\ k = "out" /\ fd \in DOMAIN sockets
     /\ \E i \in Starts(sockets[fd].out) :
          sockets[fd].out[i].id = x[1] /\ x = <<x[1], "out", fd, i>>
  \/ /\ k = "read" /\ fd \in DOMAIN connections
     /\ \E i \in Starts(connections[fd].read_buffer) :
          connections[fd].read_buffer[i].id = x[1] /\ x = <<x[1], "read", fd, i>>
  \/ /\ k = "write" /\ fd \in DOMAIN connections
     /\ \E i \in Starts(connections[fd].write_buffer) :
          connections[fd].write_buffer[i].id = x[1] /\ x = <<x[1], "write", fd, i>>

\* Two copies of a request at the same place are one.
LEMMA OneCopy ==
  ASSUME NEW x, NEW y, x[1] = y[1], NEW k, NEW fd, CopyAt(x, k, fd), CopyAt(y, k, fd),
         OnceAt(k, fd)
  PROVE  x = y
<1>1. CASE k \in {"answered", "pool"}
  BY <1>1 DEF CopyAt
<1>2. CASE k = "queue"
  <2>1. CallsOnce(responses)
    BY SMTT(30), <1>2 DEF OnceAt, CopyAt
  <2>2. /\ \E i \in DOMAIN responses : responses[i].req.id = x[1] /\ x = <<x[1], "queue", i>>
        /\ \E i \in DOMAIN responses : responses[i].req.id = y[1] /\ y = <<y[1], "queue", i>>
    BY <1>2 DEF CopyAt
  <2> QED
    BY Zenon, <2>1, <2>2 DEF CallsOnce
<1>3. CASE k = "local"
  <2>1. CallsOnce(local)
    BY SMTT(30), <1>3 DEF OnceAt, CopyAt
  <2>2. /\ \E i \in DOMAIN local : local[i].req.id = x[1] /\ x = <<x[1], "local", i>>
        /\ \E i \in DOMAIN local : local[i].req.id = y[1] /\ y = <<y[1], "local", i>>
    BY <1>3 DEF CopyAt
  <2> QED
    BY Zenon, <2>1, <2>2 DEF CallsOnce
<1>4. ASSUME NEW s, Once(s), NEW name,
             \E i \in Starts(s) : s[i].id = x[1] /\ x = <<x[1], name, fd, i>>,
             \E i \in Starts(s) : s[i].id = y[1] /\ y = <<y[1], name, fd, i>>
      PROVE  x = y
  BY Zenon, <1>4 DEF Once
<1>5. CASE k = "wire"
  <2>1. fd \in DOMAIN sockets /\ Once(sockets[fd].wire)
    BY SMTT(30), <1>5 DEF OnceAt, CopyAt
  <2>2. LET s == sockets[fd].wire IN
        /\ \E i \in Starts(s) : s[i].id = x[1] /\ x = <<x[1], "wire", fd, i>>
        /\ \E i \in Starts(s) : s[i].id = y[1] /\ y = <<y[1], "wire", fd, i>>
    BY <1>5 DEF CopyAt
  <2> QED
    BY Zenon, <1>4, <2>1, <2>2
<1>6. CASE k = "out"
  <2>1. fd \in DOMAIN sockets /\ Once(sockets[fd].out)
    BY SMTT(30), <1>6 DEF OnceAt, CopyAt
  <2>2. LET s == sockets[fd].out IN
        /\ \E i \in Starts(s) : s[i].id = x[1] /\ x = <<x[1], "out", fd, i>>
        /\ \E i \in Starts(s) : s[i].id = y[1] /\ y = <<y[1], "out", fd, i>>
    BY <1>6 DEF CopyAt
  <2> QED
    BY Zenon, <1>4, <2>1, <2>2
<1>7. CASE k = "read"
  <2>1. fd \in DOMAIN connections /\ Once(connections[fd].read_buffer)
    BY SMTT(30), <1>7 DEF OnceAt, CopyAt
  <2>2. LET s == connections[fd].read_buffer IN
        /\ \E i \in Starts(s) : s[i].id = x[1] /\ x = <<x[1], "read", fd, i>>
        /\ \E i \in Starts(s) : s[i].id = y[1] /\ y = <<y[1], "read", fd, i>>
    BY <1>7 DEF CopyAt
  <2> QED
    BY Zenon, <1>4, <2>1, <2>2
<1>8. CASE k = "write"
  <2>1. fd \in DOMAIN connections /\ Once(connections[fd].write_buffer)
    BY SMTT(30), <1>8 DEF OnceAt, CopyAt
  <2>2. LET s == connections[fd].write_buffer IN
        /\ \E i \in Starts(s) : s[i].id = x[1] /\ x = <<x[1], "write", fd, i>>
        /\ \E i \in Starts(s) : s[i].id = y[1] /\ y = <<y[1], "write", fd, i>>
    BY <1>8 DEF CopyAt
  <2> QED
    BY ZenonT(40), <1>4, <2>1, <2>2
<1> QED
  BY Zenon, <1>1, <1>2, <1>3, <1>5, <1>6, <1>7, <1>8 DEF CopyAt

\* Every copy is at one of the places.
LEMMA CopyPlace ==
  ASSUME WInv, NEW x \in Copies
  PROVE  \E k, fd : CopyAt(x, k, fd) /\ At(x[1], k, fd)
<1> DEFINE A == {<<r.id, "answered">> : r \in answered}
           P == {<<t.req.id, "pool">> : t \in {u \in tasks : u.stage = "run"}}
           Q == {<<responses[i].req.id, "queue", i>> : i \in DOMAIN responses}
           L == {<<local[i].req.id, "local", i>> : i \in DOMAIN local}
           S == UNION {{<<sockets[fd].wire[i].id, "wire", fd, i>> : i \in Starts(sockets[fd].wire)}
                       \cup {<<sockets[fd].out[i].id, "out", fd, i>> : i \in DOMAIN sockets[fd].out}
                       : fd \in DOMAIN sockets}
           C == UNION {LET c == connections[fd] IN
                       {<<c.read_buffer[i].id, "read", fd, i>> : i \in Starts(c.read_buffer)}
                       \cup {<<c.write_buffer[i].id, "write", fd, i>> : i \in DOMAIN c.write_buffer}
                       : fd \in DOMAIN connections}
<1>1. CASE x \in A
  <2>1. PICK r \in answered : x = <<r.id, "answered">>
    BY Zenon, <1>1
  <2>2. x[1] = r.id
    BY <2>1
  <2>3. CopyAt(x, "answered", 0) /\ At(x[1], "answered", 0)
    BY Zenon, <2>1, <2>2 DEF CopyAt, At, Answered
  <2> QED
    BY Zenon, <2>3
<1>2. CASE x \in P
  <2>1. PICK t \in tasks : t.stage = "run" /\ x = <<t.req.id, "pool">>
    BY Zenon, <1>2
  <2>2. x[1] = t.req.id
    BY <2>1
  <2>3. CopyAt(x, "pool", 0) /\ At(x[1], "pool", 0)
    BY Zenon, <2>1, <2>2 DEF CopyAt, At, InPool
  <2> QED
    BY Zenon, <2>3
<1>3. CASE x \in Q
  <2>1. PICK i \in DOMAIN responses : x = <<responses[i].req.id, "queue", i>>
    BY Zenon, <1>3
  <2>2. x[1] = responses[i].req.id
    BY <2>1
  <2>3. CopyAt(x, "queue", 0) /\ At(x[1], "queue", 0)
    BY Zenon, <2>1, <2>2 DEF CopyAt, At, InQueue
  <2> QED
    BY Zenon, <2>3
<1>4. CASE x \in L
  <2>1. PICK i \in DOMAIN local : x = <<local[i].req.id, "local", i>>
    BY Zenon, <1>4
  <2>2. x[1] = local[i].req.id
    BY <2>1
  <2>3. CopyAt(x, "local", 0) /\ At(x[1], "local", 0)
    BY Zenon, <2>1, <2>2 DEF CopyAt, At, InLocal
  <2> QED
    BY Zenon, <2>3
<1>5. ASSUME NEW fd \in DOMAIN sockets, NEW i \in Starts(sockets[fd].wire),
             x = <<sockets[fd].wire[i].id, "wire", fd, i>>
      PROVE  \E k, gd : CopyAt(x, k, gd) /\ At(x[1], k, gd)
  <2>1. x[1] = sockets[fd].wire[i].id
    BY <1>5
  <2>2. CopyAt(x, "wire", fd) /\ At(x[1], "wire", fd)
    BY Zenon, <1>5, <2>1 DEF CopyAt, At, OnWire, Holds
  <2> QED
    BY Zenon, <2>2
<1>6. ASSUME NEW fd \in DOMAIN sockets, NEW i \in DOMAIN sockets[fd].out,
             x = <<sockets[fd].out[i].id, "out", fd, i>>
      PROVE  \E k, gd : CopyAt(x, k, gd) /\ At(x[1], k, gd)
  <2>1. x[1] = sockets[fd].out[i].id
    BY <1>6
  <2>2. i \in Starts(sockets[fd].out)
    BY Zenon DEF Starts, WInv, Data, SocketInv, GoodSocket, Requested
  <2>3. CopyAt(x, "out", fd) /\ At(x[1], "out", fd)
    BY Zenon, <1>6, <2>1, <2>2 DEF CopyAt, At, InOut, Holds
  <2> QED
    BY Zenon, <2>3
<1>7. ASSUME NEW fd \in DOMAIN connections, NEW i \in Starts(connections[fd].read_buffer),
             x = <<connections[fd].read_buffer[i].id, "read", fd, i>>
      PROVE  \E k, gd : CopyAt(x, k, gd) /\ At(x[1], k, gd)
  <2>1. x[1] = connections[fd].read_buffer[i].id
    BY <1>7
  <2>2. CopyAt(x, "read", fd) /\ At(x[1], "read", fd)
    BY Zenon, <1>7, <2>1 DEF CopyAt, At, InRead, Holds
  <2> QED
    BY Zenon, <2>2
<1>8. ASSUME NEW fd \in DOMAIN connections, NEW i \in DOMAIN connections[fd].write_buffer,
             x = <<connections[fd].write_buffer[i].id, "write", fd, i>>
      PROVE  \E k, gd : CopyAt(x, k, gd) /\ At(x[1], k, gd)
  <2>1. x[1] = connections[fd].write_buffer[i].id
    BY <1>8
  <2>2. i \in Starts(connections[fd].write_buffer)
    BY Zenon DEF Starts, WInv, Data, BufferInv, GoodBuffers, Requested
  <2>3. CopyAt(x, "write", fd) /\ At(x[1], "write", fd)
    BY Zenon, <1>8, <2>1, <2>2 DEF CopyAt, At, InWrite, Holds
  <2> QED
    BY Zenon, <2>3
<1>9. CASE x \in S
  BY Zenon, <1>5, <1>6, <1>9
<1>10. CASE x \in C
  BY Zenon, <1>7, <1>8, <1>10
<1>11. Copies = A \cup P \cup Q \cup L \cup S \cup C
  BY Zenon DEF Copies
<1> HIDE DEF A, P, Q, L, S, C
<1> QED
  BY Zenon, <1>1, <1>2, <1>3, <1>4, <1>9, <1>10, <1>11

\* So no two copies are of the same request.
LEMMA PlacesApart == WInv /\ PlaceInv => RequestInOnePlace
<1> SUFFICES ASSUME WInv, PlaceInv, NEW x \in Copies, NEW y \in Copies, x[1] = y[1]
             PROVE  x = y
  BY Zenon DEF RequestInOnePlace
<1>1. PICK k, fd : CopyAt(x, k, fd) /\ At(x[1], k, fd)
  BY Zenon, CopyPlace
<1>2. PICK l, gd : CopyAt(y, l, gd) /\ At(y[1], l, gd)
  BY Zenon, CopyPlace
<1>3. k = l /\ fd = gd
  BY Zenon, <1>1, <1>2 DEF PlaceInv, OneSpot
<1>4. CopyAt(y, k, fd) /\ OnceAt(k, fd)
  BY Zenon, <1>2, <1>3 DEF PlaceInv
<1> QED
  BY Zenon, <1>1, <1>4, OneCopy

-----------------------------------------------------------------------------
(* Sequences.                                                              *)

\* A sequence is empty exactly when its length is 0.
LEMMA EmptySeq ==
  ASSUME NEW S, NEW s \in Seq(S)
  PROVE  Len(s) \in Nat /\ (s = <<>> <=> Len(s) = 0)
  OBVIOUS

\* A sequence over a set is one over every larger set.
LEMMA SeqLarger ==
  ASSUME NEW S, NEW T, S \subseteq T, NEW s \in Seq(S)
  PROVE  s \in Seq(T)
  OBVIOUS

\* Append adds one element at the end.
LEMMA AppendSeq ==
  ASSUME NEW S, NEW s \in Seq(S), NEW x \in S
  PROVE  /\ Append(s, x) \in Seq(S) /\ Append(s, x) # <<>> /\ Len(Append(s, x)) = Len(s) + 1
         /\ DOMAIN Append(s, x) = 1 .. Len(s) + 1
         /\ \A i \in DOMAIN s : Append(s, x)[i] = s[i]
         /\ Append(s, x)[Len(s) + 1] = x
  OBVIOUS

\* Tail drops the first element and shifts the others.
LEMMA TailSeq ==
  ASSUME NEW S, NEW s \in Seq(S), s # <<>>
  PROVE  /\ Tail(s) \in Seq(S) /\ Len(Tail(s)) = Len(s) - 1
         /\ DOMAIN Tail(s) = 1 .. Len(s) - 1
         /\ \A i \in 1 .. Len(s) - 1 : Tail(s)[i] = s[i + 1]
  OBVIOUS

\* The elements of a concatenation.
LEMMA ConcatSeq ==
  ASSUME NEW S, NEW s \in Seq(S), NEW t \in Seq(S)
  PROVE  /\ s \o t \in Seq(S) /\ Len(s \o t) = Len(s) + Len(t)
         /\ DOMAIN (s \o t) = 1 .. Len(s) + Len(t)
         /\ \A i \in 1 .. Len(s) : (s \o t)[i] = s[i]
         /\ \A i \in 1 .. Len(t) : (s \o t)[Len(s) + i] = t[i]
  OBVIOUS

-----------------------------------------------------------------------------
(* Connections and the frames in their buffers.                            *)

\* Neither the identity nor the buffers change.
SameConn(c, d) ==
  /\ d.connection_token = c.connection_token /\ d.peer = c.peer
  /\ d.read_buffer = c.read_buffer /\ d.write_buffer = c.write_buffer
  /\ d.epollout = c.epollout

\* Frames among the first n requests are among the first m >= n.
LEMMA FromLater ==
  ASSUME NEW s, NEW k, NEW n \in Nat, NEW m \in Nat, n <= m, From(s, k, n)
  PROVE  From(s, k, m)
  BY DEF From

\* Good buffers stay good when more requests are sent,
LEMMA BuffersLater ==
  ASSUME NEW c, NEW n \in Nat, NEW m \in Nat, n <= m, GoodBuffers(c, n)
  PROVE  GoodBuffers(c, m)
  BY Zenon, FromLater DEF GoodBuffers

\* and so does a good socket when more clients come.
LEMMA SocketLater ==
  ASSUME NEW s, NEW k \in Nat, NEW l \in Nat, k <= l, NEW n \in Nat, NEW m \in Nat, n <= m,
         GoodSocket(s, k, n)
  PROVE  GoodSocket(s, l, m)
<1>1. s.client \in 1 .. l
  BY DEF GoodSocket
<1> QED
  BY Zenon, <1>1, FromLater DEF GoodSocket

-----------------------------------------------------------------------------
(* Steps that open no connection.                                          *)

\* A descriptor whose connection and socket a step leaves alone ...
Untouched(fd) == connections'[fd] = connections[fd] /\ sockets'[fd] = sockets[fd]

\* ... or takes to another good state of the same connection.
Advanced(fd) ==
  LET c == connections[fd]
      d == connections'[fd]
      s == sockets'[fd]
  IN /\ GoodConn(d) /\ GoodBuffers(d, sent')
     /\ d.connection_token = c.connection_token /\ d.peer = c.peer
     /\ s.client = sockets[fd].client /\ GoodSocket(s, clients, sent')
     /\ ~d.should_close => Follows(d.read_buffer, s.wire, s.rest)

\* A socket without a connection.
Received(fd) ==
  LET s == sockets'[fd] IN
  /\ s.client = sockets[fd].client /\ GoodSocket(s, clients, sent')
  /\ s.out = <<>> /\ Follows(<<>>, s.wire, s.rest)

\* Connections are closed, advanced or left alone.
KeepsData ==
  /\ DOMAIN connections' \subseteq DOMAIN connections
  /\ connections' \in [DOMAIN connections' -> Conns]
  /\ DOMAIN sockets' = DOMAIN sockets \ (DOMAIN connections \ DOMAIN connections')
  /\ sockets' \in [DOMAIN sockets' -> Sockets]
  /\ sent' \in 0 .. MaxRequests /\ sent <= sent'
  /\ clients' = clients /\ next_token' = next_token
  /\ pending_connections' = pending_connections
  /\ acceptor' \in [at: {"idle", "queue", "wake"}, fd: Fds \cup {0}]
  /\ Handed' = Handed /\ (acceptor'.at = "queue" <=> acceptor.at = "queue")
  /\ \A fd \in DOMAIN connections' : Untouched(fd) \/ Advanced(fd)
  /\ \A fd \in DOMAIN sockets' \ DOMAIN connections : sockets'[fd] = sockets[fd] \/ Received(fd)

\* A step that opens no connection and treats each descriptor in one of the
\* three ways keeps the invariant of the data.
LEMMA DataStep ==
  ASSUME Data, KeepsData
  PROVE  Data'
<1>1. /\ \A fd \in DOMAIN connections' : /\ fd \in DOMAIN connections /\ fd \in DOMAIN sockets
                                         /\ fd \in DOMAIN sockets'
      /\ DOMAIN sockets' \subseteq DOMAIN sockets
      /\ \A fd \in DOMAIN sockets' : fd \notin DOMAIN connections' => fd \notin DOMAIN connections
  BY Zenon DEF Data, KeepsData, Ownership
<1>2. sent \in Nat /\ sent' \in Nat /\ clients \in Nat /\ sent <= sent' /\ clients <= clients
  BY WorkerLoopAssumption DEF Data, KeepsData, SocketInv
<1>3. ConnInv'
  <2>1. \A fd \in DOMAIN connections' : GoodConn(connections'[fd])
    BY Zenon, <1>1 DEF Data, KeepsData, ConnInv, Untouched, Advanced
  <2> QED
    BY Zenon, <2>1 DEF ConnInv, KeepsData
<1>4. BufferInv'
  <2> SUFFICES ASSUME NEW fd \in DOMAIN connections'
               PROVE  GoodBuffers(connections'[fd], sent')
    BY Zenon DEF BufferInv
  <2>1. GoodBuffers(connections[fd], sent')
    BY Zenon, <1>1, <1>2, BuffersLater DEF Data, BufferInv
  <2> QED
    BY Zenon, <2>1 DEF KeepsData, Untouched, Advanced
<1>5. SocketInv'
  <2>1. \A fd \in DOMAIN sockets' : GoodSocket(sockets'[fd], clients, sent')
    <3> SUFFICES ASSUME NEW fd \in DOMAIN sockets'
                 PROVE  GoodSocket(sockets'[fd], clients, sent')
      OBVIOUS
    <3>1. GoodSocket(sockets[fd], clients, sent')
      BY Zenon, <1>1, <1>2, SocketLater DEF Data, SocketInv
    <3>2. CASE fd \in DOMAIN connections'
      BY Zenon, <3>1, <3>2 DEF KeepsData, Untouched, Advanced
    <3>3. CASE fd \notin DOMAIN connections'
      BY Zenon, <1>1, <3>1, <3>3 DEF KeepsData, Received
    <3> QED
      BY Zenon, <3>2, <3>3
  <2>2. clients' \in 0 .. MaxClients /\ sent' \in 0 .. MaxRequests /\ clients' = clients
    BY Zenon DEF Data, KeepsData, SocketInv
  <2> QED
    BY Zenon, <2>1, <2>2 DEF SocketInv, KeepsData
<1>6. Streams'
  <2> SUFFICES ASSUME NEW fd \in DOMAIN sockets'
               PROVE  LET s == sockets'[fd] IN
                      IF fd \in DOMAIN connections'
                      THEN LET c == connections'[fd] IN
                           /\ c.peer = s.client
                           /\ ~c.should_close => Follows(c.read_buffer, s.wire, s.rest)
                      ELSE s.out = <<>> /\ Follows(<<>>, s.wire, s.rest)
    BY Zenon DEF Streams
  <2>1. CASE fd \in DOMAIN connections'
    <3>1. /\ connections[fd].peer = sockets[fd].client
          /\ ~connections[fd].should_close
               => Follows(connections[fd].read_buffer, sockets[fd].wire, sockets[fd].rest)
      BY Zenon, <1>1, <2>1 DEF Data, Streams
    <3> QED
      BY Zenon, <2>1, <3>1 DEF KeepsData, Untouched, Advanced
  <2>2. CASE fd \notin DOMAIN connections'
    <3>1. fd \notin DOMAIN connections /\ fd \in DOMAIN sockets
      BY Zenon, <1>1, <2>2
    <3>2. sockets[fd].out = <<>> /\ Follows(<<>>, sockets[fd].wire, sockets[fd].rest)
      BY Zenon, <3>1 DEF Data, Streams
    <3> QED
      BY Zenon, <2>2, <3>1, <3>2 DEF KeepsData, Received
  <2> QED
    BY Zenon, <2>1, <2>2
<1>7. Ownership'
  <2>1. Queued' = Queued /\ Handed' = Handed
    BY Zenon DEF KeepsData, Queued
  <2>2. /\ DOMAIN sockets' = DOMAIN connections' \cup Queued \cup Handed
        /\ DOMAIN connections' \cap Queued = {}
        /\ Handed \cap (DOMAIN connections' \cup Queued) = {}
        /\ DOMAIN sockets' \subseteq Fds
    <3>1. /\ DOMAIN sockets = DOMAIN connections \cup Queued \cup Handed
          /\ DOMAIN connections \cap Queued = {} /\ DOMAIN sockets \subseteq Fds
          /\ Handed \cap (DOMAIN connections \cup Queued) = {}
      BY Zenon DEF Data, Ownership
    <3>2. /\ DOMAIN connections' \subseteq DOMAIN connections
          /\ DOMAIN sockets' = DOMAIN sockets \ (DOMAIN connections \ DOMAIN connections')
      BY Zenon DEF KeepsData
    <3> QED
      BY <3>1, <3>2
  <2> QED
    BY Zenon, <2>1, <2>2 DEF Data, KeepsData, Ownership
<1>8. Tokens'
  <2>1. \A fd \in DOMAIN connections' :
          connections'[fd].connection_token = connections[fd].connection_token
    BY Zenon DEF KeepsData, Untouched, Advanced
  <2> QED
    BY Zenon, <1>1, <2>1 DEF Data, KeepsData, Tokens
<1> QED
  BY Zenon, <1>3, <1>4, <1>5, <1>6, <1>7, <1>8 DEF Data

\* A token keeps its connection, a new connection has a new token.
KeepsTokens ==
  /\ next_token' \in Nat /\ next_token <= next_token'
  /\ sent' \in Nat /\ sent <= sent' /\ clients' \in Nat /\ clients <= clients'
  /\ \A fd \in DOMAIN connections' :
       \/ /\ fd \in DOMAIN connections
          /\ connections'[fd].connection_token = connections[fd].connection_token
          /\ connections'[fd].peer = connections[fd].peer
       \/ connections'[fd].connection_token \in Nat
          /\ connections'[fd].connection_token >= next_token

\* A dispatched request still knows its connection after such a step,
LEMMA CallStays ==
  ASSUME Data, KeepsTokens, NEW t, GoodCall(t)
  PROVE  GoodCall(t)'
<1>1. t.token \in 1 .. next_token' - 1 /\ t.token < next_token
  BY DEF GoodCall, KeepsTokens, Data, Tokens
<1>2. t.req.id \in 1 .. sent'
  <2>1. sent \in Nat
    BY WorkerLoopAssumption DEF Data, SocketInv
  <2> QED
    BY <2>1 DEF GoodCall, KeepsTokens
<1>3. t.req.client \in 1 .. clients'
  <2>1. clients \in Nat
    BY WorkerLoopAssumption DEF Data, SocketInv
  <2> QED
    BY <2>1 DEF GoodCall, KeepsTokens
<1>4. TokenMatches(t)' => connections'[t.fd].peer = t.req.client
  <2> SUFFICES ASSUME t.fd \in DOMAIN connections', connections'[t.fd].connection_token = t.token
               PROVE  connections'[t.fd].peer = t.req.client
    BY DEF TokenMatches
  <2>1. t.token \in Nat /\ next_token \in Nat
    BY DEF GoodCall, Data, Tokens
  <2>2. ~(t.token >= next_token)
    BY <1>1, <2>1
  <2>3. /\ t.fd \in DOMAIN connections
        /\ connections'[t.fd].connection_token = connections[t.fd].connection_token
        /\ connections'[t.fd].peer = connections[t.fd].peer
    BY Zenon, <2>2 DEF KeepsTokens
  <2> QED
    BY Zenon, <2>3 DEF GoodCall, TokenMatches
<1> QED
  BY Zenon, <1>1, <1>2, <1>3, <1>4 DEF GoodCall

\* and so do all of them.
LEMMA CallsStay ==
  ASSUME Data, KeepsTokens
  PROVE  GoodCalls \subseteq GoodCalls'
<1>1. \A t : GoodCall(t) => GoodCall(t)'
  BY Zenon, CallStays
<1> QED
  BY Zenon, <1>1 DEF GoodCalls

\* The pool and the queues of responses keep their requests good
LEMMA DispatchedLater ==
  ASSUME Data, KeepsTokens, Dispatched
  PROVE  /\ tasks \subseteq GoodCalls'
         /\ responses \in Seq(GoodCalls') /\ local \in Seq(GoodCalls')
  BY Zenon, CallsStay, SeqLarger DEF Dispatched

\* when the step leaves them alone.
LEMMA DispatchedStays ==
  ASSUME Data, KeepsTokens, Dispatched, UNCHANGED <<tasks, responses, local>>
  PROVE  Dispatched'
  BY Zenon, DispatchedLater DEF Dispatched

\* What clients have received stays what was sent to them.
LEMMA AnswersStay ==
  ASSUME Data, KeepsTokens, Answers, answered' = answered
  PROVE  Answers'
<1>1. sent \in Nat /\ clients \in Nat
  BY WorkerLoopAssumption DEF Data, SocketInv
<1>2. \A i : i \in 1 .. sent => i \in 1 .. sent'
  BY <1>1 DEF KeepsTokens
<1>3. \A i : i \in 1 .. clients => i \in 1 .. clients'
  BY <1>1 DEF KeepsTokens
<1> QED
  BY Zenon, <1>2, <1>3 DEF Answers

\* The loop's own state is untouched by a step of somebody else.
LEMMA LoopStays ==
  ASSUME Control, Round, Armed, UNCHANGED <<loopVars, accepting, connections>>
  PROVE  Control' /\ Round' /\ Armed'
  BY Zenon DEF Control, Round, EventsMatchConnections, Armed, loopVars

\* Tokens survive a step that opens no connection.
LEMMA StepKeepsTokens ==
  ASSUME Data, KeepsData
  PROVE  KeepsTokens
<1>1. \A fd \in DOMAIN connections' :
        /\ fd \in DOMAIN connections
        /\ connections'[fd].connection_token = connections[fd].connection_token
        /\ connections'[fd].peer = connections[fd].peer
  BY Zenon DEF KeepsData, Untouched, Advanced
<1>2. /\ next_token' \in Nat /\ next_token <= next_token'
      /\ sent' \in Nat /\ clients' \in Nat /\ clients <= clients'
  BY WorkerLoopAssumption DEF Data, KeepsData, SocketInv, Tokens
<1> QED
  BY Zenon, <1>1, <1>2 DEF KeepsTokens, KeepsData

\* The connections, the sockets and the queue of new sockets.
dataVars == <<sockets, clients, sent, connections, next_token, pending_connections>>

\* Nothing about the data changes when its variables do not.
LEMMA DataStays ==
  ASSUME Data, UNCHANGED dataVars, Handed' = Handed,
         acceptor' \in [at: {"idle", "queue", "wake"}, fd: Fds \cup {0}],
         acceptor'.at = "queue" <=> acceptor.at = "queue"
  PROVE  Data' /\ KeepsTokens
<1>1. KeepsData
  <2>1. sent \in 0 .. MaxRequests /\ sent <= sent
    BY WorkerLoopAssumption DEF Data, SocketInv
  <2>2. DOMAIN sockets' = DOMAIN sockets \ (DOMAIN connections \ DOMAIN connections')
    BY DEF dataVars
  <2> QED
    BY Zenon, <2>1, <2>2 DEF KeepsData, Untouched, Data, ConnInv, SocketInv, dataVars
<1> QED
  BY Zenon, <1>1, DataStep, StepKeepsTokens

\* Steps that touch neither them nor the loop.
LEMMA OutsideStep ==
  ASSUME WInv, UNCHANGED <<dataVars, answered, tasks, responses, loopVars, accepting>>,
         Handed' = Handed,
         acceptor' \in [at: {"idle", "queue", "wake"}, fd: Fds \cup {0}],
         acceptor'.at = "queue" <=> acceptor.at = "queue"
  PROVE  WInv'
<1>1. Data' /\ KeepsTokens
  BY Zenon, DataStays DEF WInv
<1>2. Dispatched' /\ Answers'
  BY Zenon, <1>1, DispatchedStays, AnswersStay DEF WInv, loopVars
<1>3. Control' /\ Round' /\ Armed'
  BY Zenon, LoopStays DEF WInv, dataVars
<1> QED
  BY Zenon, <1>1, <1>2, <1>3 DEF WInv

\* A step that leaves the acceptor alone leaves it its descriptor.
LEMMA AcceptorStays ==
  ASSUME WInv, acceptor' = acceptor
  PROVE  /\ Handed' = Handed
         /\ acceptor' \in [at: {"idle", "queue", "wake"}, fd: Fds \cup {0}]
         /\ acceptor'.at = "queue" <=> acceptor.at = "queue"
  BY Zenon DEF WInv, Data, Ownership, Handed

\* The pool is stopped; the server asks the loop to stop.
LEMMA StopInv ==
  ASSUME WInv, StopPool \/ RequestStop
  PROVE  WInv'
<1>1. acceptor' = acceptor
  BY Zenon DEF StopPool, RequestStop
<1>2. UNCHANGED <<dataVars, answered, tasks, responses, loopVars, accepting>>
  BY Zenon DEF StopPool, RequestStop, dataVars, clientVars, poolVars, queueVars, connVars
<1> QED
  BY Zenon, <1>1, <1>2, AcceptorStays, OutsideStep

\* The acceptor wakes the loop.
LEMMA WakeupInv ==
  ASSUME WInv, Wakeup
  PROVE  WInv'
<1>1. /\ Handed' = Handed
      /\ acceptor' \in [at: {"idle", "queue", "wake"}, fd: Fds \cup {0}]
      /\ acceptor'.at = "queue" <=> acceptor.at = "queue"
  BY DEF Wakeup, Handed
<1>2. UNCHANGED <<dataVars, answered, tasks, responses, loopVars, accepting>>
  BY Zenon DEF Wakeup, dataVars, clientVars, poolVars, connVars
<1> QED
  BY Zenon, <1>1, <1>2, OutsideStep

-----------------------------------------------------------------------------
(* The pool's threads.                                                     *)

\* A step that leaves connections, sockets and the acceptor alone.
LEMMA QuietStep ==
  ASSUME WInv, UNCHANGED <<dataVars, answered, acceptor>>
  PROVE  /\ Data' /\ Answers' /\ tasks \subseteq GoodCalls'
         /\ responses \in Seq(GoodCalls') /\ local \in Seq(GoodCalls')
<1>1. Data' /\ KeepsTokens
  BY Zenon, AcceptorStays, DataStays DEF WInv
<1> QED
  BY Zenon, <1>1, DispatchedLater, AnswersStay DEF WInv

\* A pool thread runs a handler and queues its response.
LEMMA RunHandlerInv ==
  ASSUME WInv, NEW t \in tasks, RunHandler(t)
  PROVE  WInv'
<1>1. UNCHANGED <<dataVars, answered, acceptor>> /\ UNCHANGED <<loopVars, accepting, connections>>
  BY Zenon DEF RunHandler, dataVars, clientVars, connVars
<1>2. /\ Data' /\ Answers' /\ tasks \subseteq GoodCalls'
      /\ responses \in Seq(GoodCalls') /\ local \in Seq(GoodCalls')
  BY Zenon, <1>1, QuietStep
<1>3. Control' /\ Round' /\ Armed'
  BY Zenon, <1>1, LoopStays DEF WInv
<1>4. responses' \in Seq(GoodCalls')
  <2>1. t \in GoodCalls'
    BY Zenon, <1>2
  <2>2. Append(responses, t) \in Seq(GoodCalls')
    BY Zenon, <1>2, <2>1, AppendSeq
  <2> QED
    BY Zenon, <1>2, <2>2 DEF RunHandler
<1>5. [t EXCEPT !.stage = "wake"] \in GoodCalls'
  <2>1. t \in Calls /\ GoodCall(t)'
    BY Zenon, <1>2 DEF GoodCalls
  <2>2. PICK u : u = [t EXCEPT !.stage = "wake"]
    BY Zenon
  <2>3. /\ u \in Calls /\ u.fd = t.fd /\ u.token = t.token /\ u.req = t.req
    BY Zenon, <2>1, <2>2 DEF Calls
  <2>4. GoodCall(u)'
    BY Zenon, <2>1, <2>3 DEF GoodCall, TokenMatches
  <2> QED
    BY Zenon, <2>2, <2>3, <2>4 DEF GoodCalls
<1>6. tasks' \subseteq GoodCalls'
  BY Zenon, <1>2, <1>5 DEF RunHandler
<1>7. Dispatched'
  BY Zenon, <1>1, <1>2, <1>4, <1>6 DEF Dispatched, loopVars
<1> QED
  BY Zenon, <1>2, <1>3, <1>7 DEF WInv

\* A pool thread wakes the loop.
LEMMA WakeLoopInv ==
  ASSUME WInv, NEW t \in tasks, WakeLoop(t)
  PROVE  WInv'
<1>1. UNCHANGED <<dataVars, answered, acceptor>> /\ UNCHANGED <<loopVars, accepting, connections>>
  BY Zenon DEF WakeLoop, dataVars, clientVars, connVars
<1>2. /\ Data' /\ Answers' /\ tasks \subseteq GoodCalls'
      /\ responses \in Seq(GoodCalls') /\ local \in Seq(GoodCalls')
  BY Zenon, <1>1, QuietStep
<1>3. Control' /\ Round' /\ Armed'
  BY Zenon, <1>1, LoopStays DEF WInv
<1>4. Dispatched'
  BY Zenon, <1>1, <1>2 DEF Dispatched, loopVars, WakeLoop
<1> QED
  BY Zenon, <1>2, <1>3, <1>4 DEF WInv

\* The pool is destroyed, with the tasks that were not run.
LEMMA JoinPoolInv ==
  ASSUME WInv, JoinPool
  PROVE  WInv'
<1>1. /\ UNCHANGED <<dataVars, answered, acceptor>> /\ UNCHANGED <<loopVars, accepting, connections>>
      /\ tasks' = {} /\ responses' = responses
  BY Zenon DEF JoinPool, dataVars, clientVars, queueVars, connVars
<1>2. /\ Data' /\ Answers' /\ tasks \subseteq GoodCalls'
      /\ responses \in Seq(GoodCalls') /\ local \in Seq(GoodCalls')
  BY Zenon, <1>1, QuietStep
<1>3. Control' /\ Round' /\ Armed'
  BY Zenon, <1>1, LoopStays DEF WInv
<1>4. Dispatched'
  BY Zenon, <1>1, <1>2 DEF Dispatched, loopVars
<1> QED
  BY Zenon, <1>2, <1>3, <1>4 DEF WInv

-----------------------------------------------------------------------------
(* The loop's steps that leave the connections alone.                      *)

\* The round's events still match the connections.
LEMMA RoundStays ==
  ASSUME Round, connections' = connections, events' \subseteq events,
         current' = current \/ current' \in events \/ current'.token = 0,
         pc' \in {"drain_wake", "drain_pending"}
           => pc \in {"drain_wake", "drain_pending"} \/ events' = {}
  PROVE  Round'
<1>1. EventsMatchConnections'
  <2> SUFFICES ASSUME NEW e \in events' \cup {current'},
                      e.fd \in DOMAIN connections, e.token # 0
               PROVE  connections[e.fd].connection_token = e.token
    BY Zenon DEF EventsMatchConnections
  <2>1. e \in events \cup {current}
    BY Zenon
  <2> QED
    BY Zenon, <2>1 DEF Round, EventsMatchConnections
<1> QED
  BY Zenon, <1>1 DEF Round

\* Interest in EPOLLOUT is as before when the connections are.
LEMMA ArmedStays ==
  ASSUME Armed, connections' = connections, pc \notin Busy
  PROVE  Armed'
  BY Zenon DEF Armed

\* The places between which the loop moves without touching a connection.
Between == {"poll", "drain_wake", "drain_pending", "swap_completed", "drain_completed", "tick",
            "events", "close_all"}

\* The loop moves between two such places.
LEMMA ControlMoves ==
  ASSUME Control, connections' = connections, accepting' = accepting, current' = current,
         pc \in Between, pc' \in Between, leaving' \in BOOLEAN, events' \subseteq Events,
         pc' = "poll" \/ leaving' => events' = {}, leaving' => pc' \notin {"poll", "tick", "events"},
         local' # <<>> => pc' = "drain_completed"
  PROVE  Control'
  BY Zenon DEF Control, Between, LoopPlaces, Busy

\* The descriptor 0 with token 0 stands for no connection.
LEMMA NobodyIsEvent == Nobody \in Events /\ Nobody.fd = 0 /\ Nobody.token = 0
  BY SMTT(30) DEF Nobody, Events

\* What epoll_wait reports carries the token of its connection.
LEMMA EventsOfConnections ==
  ASSUME WInv, NEW fd \in DOMAIN connections
  PROVE  /\ EventOf(fd) \in Events /\ EventOf(fd).fd = fd
         /\ EventOf(fd).token = connections[fd].connection_token
<1>1. fd \in Fds /\ connections[fd] \in Conns /\ fd \in DOMAIN sockets /\ sockets[fd] \in Sockets
  BY Zenon DEF WInv, Data, Ownership, ConnInv, SocketInv
<1>2. connections[fd].connection_token \in Nat /\ connections[fd].epollout \in BOOLEAN
  BY Zenon, <1>1 DEF Conns
<1>3. sockets[fd].fin \in BOOLEAN
  BY Zenon, <1>1 DEF Sockets
<1>4. /\ (sockets[fd].wire # <<>> \/ sockets[fd].fin) \in BOOLEAN
      /\ (connections[fd].epollout
            /\ (Len(sockets[fd].out) < SendBuffer \/ sockets[fd].fin)) \in BOOLEAN
  OBVIOUS
<1> QED
  BY ZenonT(40), <1>1, <1>2, <1>3, <1>4 DEF EventOf, Events

\* epoll_wait returns events, or fails.
LEMMA EpollWaitInv ==
  ASSUME WInv, EpollWait
  PROVE  WInv'
<1>1. /\ UNCHANGED <<dataVars, answered, acceptor>>
      /\ UNCHANGED <<tasks, responses, accepting, leaving, current, local, connections>>
      /\ pc = "poll" /\ pc' \in {"drain_wake", "tick"}
  BY Zenon DEF EpollWait, LoopAt, dataVars, clientVars, poolVars, queueVars, connVars
<1>2. Data' /\ Answers' /\ Dispatched'
  BY Zenon, <1>1, QuietStep DEF Dispatched
<1>3. \A e \in events' : \E fd \in DOMAIN connections : e = EventOf(fd)
  BY Zenon DEF EpollWait
<1>4. \A e \in events' : /\ e \in Events /\ e.fd \in DOMAIN connections
                         /\ connections[e.fd].connection_token = e.token
  <2> SUFFICES ASSUME NEW e \in events'
               PROVE  /\ e \in Events /\ e.fd \in DOMAIN connections
                      /\ connections[e.fd].connection_token = e.token
    OBVIOUS
  <2>1. PICK fd \in DOMAIN connections : e = EventOf(fd)
    BY Zenon, <1>3
  <2> QED
    BY Zenon, <2>1, EventsOfConnections
<1>5. current = Nobody /\ ~leaving /\ local = <<>>
  BY Zenon, <1>1 DEF WInv, Control, Busy
<1>6. Control'
  BY Zenon, <1>1, <1>4, <1>5, ControlMoves DEF Between, WInv, Control
<1>7. Round'
  BY Zenon, <1>1, <1>4, <1>5, NobodyIsEvent DEF Round, EventsMatchConnections
<1>8. Armed'
  BY Zenon, <1>1, ArmedStays DEF Busy, WInv
<1> QED
  BY Zenon, <1>2, <1>6, <1>7, <1>8 DEF WInv

\* Run leaves its loop.
LEMMA LeaveRunInv ==
  ASSUME WInv, LeaveRun \/ EpollWaitFails \/ DrainWakeFdFails
  PROVE  WInv'
<1>1. /\ UNCHANGED <<dataVars, answered, acceptor>>
      /\ UNCHANGED <<tasks, responses, accepting, current, local, connections>>
  BY Zenon DEF LeaveRun, EpollWaitFails, DrainWakeFdFails, dataVars, clientVars, poolVars,
               queueVars, connVars
<1>2. Data' /\ Answers' /\ Dispatched'
  BY Zenon, <1>1, QuietStep DEF Dispatched
<1>3. /\ pc \in {"poll", "drain_wake"} /\ leaving' = TRUE /\ events' = {}
      /\ pc' \in {"drain_wake", "close_all"}
  BY Zenon DEF LeaveRun, EpollWaitFails, DrainWakeFdFails, Fail, LoopAt, WInv, Control
<1>4. current = Nobody /\ local = <<>>
  BY Zenon, <1>3 DEF WInv, Control, Busy
<1>5. Control'
  BY Zenon, <1>1, <1>3, <1>4, ControlMoves DEF Between, WInv
<1>6. Round'
  BY Zenon, <1>1, <1>3, RoundStays DEF WInv
<1>7. Armed'
  BY Zenon, <1>1, <1>3, ArmedStays DEF Busy, WInv
<1> QED
  BY Zenon, <1>2, <1>5, <1>6, <1>7 DEF WInv

\* The eventfd is drained, or reading it fails.
LEMMA DrainStepInv ==
  ASSUME WInv, DrainWakeFd \/ DrainsDone \/ EventsDone
  PROVE  WInv'
<1>1. /\ UNCHANGED <<dataVars, answered, acceptor>>
      /\ UNCHANGED <<tasks, responses, accepting, leaving, events, current, local, connections>>
  BY Zenon DEF DrainWakeFd, DrainsDone, EventsDone, dataVars, clientVars, poolVars,
               queueVars, connVars
<1>2. Data' /\ Answers' /\ Dispatched'
  BY Zenon, <1>1, QuietStep DEF Dispatched
<1>3. \/ pc = "drain_wake" /\ pc' = "drain_pending"
      \/ pc = "drain_completed" /\ local = <<>> /\ pc' = IF leaving THEN "close_all" ELSE "tick"
      \/ pc = "events" /\ events = {} /\ pc' = "poll"
  BY Zenon DEF DrainWakeFd, DrainsDone, EventsDone, LoopAt
<1>4. current = Nobody /\ local = <<>>
  BY Zenon, <1>3 DEF WInv, Control, Busy
<1>5. Control'
  BY Zenon, <1>1, <1>3, <1>4, ControlMoves DEF Between, WInv, Control
<1>6. Round'
  BY Zenon, <1>1, <1>3, RoundStays DEF WInv
<1>7. Armed'
  BY Zenon, <1>1, <1>3, ArmedStays DEF Busy, WInv
<1> QED
  BY Zenon, <1>2, <1>5, <1>6, <1>7 DEF WInv

\* The completed responses are swapped out of the queue.
LEMMA SwapCompletedInv ==
  ASSUME WInv, SwapCompleted
  PROVE  WInv'
<1>1. /\ UNCHANGED <<dataVars, answered, acceptor>>
      /\ UNCHANGED <<tasks, accepting, leaving, events, current, connections>>
  BY Zenon DEF SwapCompleted, dataVars, clientVars, poolVars, queueVars, connVars
<1>2. /\ Data' /\ Answers' /\ tasks \subseteq GoodCalls' /\ responses \in Seq(GoodCalls')
  BY Zenon, <1>1, QuietStep
<1>3. Dispatched'
  <2>1. <<>> \in Seq(GoodCalls')
    OBVIOUS
  <2> QED
    BY Zenon, <1>1, <1>2, <2>1 DEF Dispatched, SwapCompleted
<1>4. pc = "swap_completed" /\ pc' = "drain_completed"
  BY Zenon DEF SwapCompleted, LoopAt
<1>5. Control'
  BY Zenon, <1>1, <1>4, ControlMoves DEF Between, WInv, Control
<1>6. Round'
  BY Zenon, <1>1, <1>4, RoundStays DEF WInv
<1>7. Armed'
  BY Zenon, <1>1, <1>4, ArmedStays DEF Busy, WInv
<1> QED
  BY Zenon, <1>2, <1>3, <1>5, <1>6, <1>7 DEF WInv

-----------------------------------------------------------------------------
(* Clients and the kernel.                                                 *)

\* A step of the peer of one socket.
LEMMA SocketStep ==
  ASSUME WInv, NEW fd \in DOMAIN sockets, NEW s \in Sockets,
         sockets' = [sockets EXCEPT ![fd] = s], s.client = sockets[fd].client,
         sent' \in 0 .. MaxRequests, sent <= sent', GoodSocket(s, clients, sent'),
         IF fd \in DOMAIN connections
           THEN ~connections[fd].should_close
                  => Follows(connections[fd].read_buffer, s.wire, s.rest)
           ELSE s.out = <<>> /\ Follows(<<>>, s.wire, s.rest),
         UNCHANGED <<clients, connections, next_token, pending_connections, acceptor, tasks,
                     responses, loopVars, accepting>>
  PROVE  Data' /\ KeepsTokens /\ Dispatched' /\ Control' /\ Round' /\ Armed'
<1>1. /\ sockets' \in [DOMAIN sockets' -> Sockets] /\ DOMAIN sockets' = DOMAIN sockets
      /\ sockets'[fd] = s /\ \A x \in DOMAIN sockets : x # fd => sockets'[x] = sockets[x]
  BY DEF WInv, Data, SocketInv
<1>2. KeepsData
  <2>1. \A x \in DOMAIN connections' : Untouched(x) \/ Advanced(x)
    <3> SUFFICES ASSUME NEW x \in DOMAIN connections PROVE Untouched(x) \/ Advanced(x)
      BY Zenon
    <3>1. CASE x = fd
      <4>1. sent \in Nat /\ sent' \in Nat
        BY WorkerLoopAssumption DEF WInv, Data, SocketInv
      <4>2. GoodConn(connections[x]) /\ GoodBuffers(connections[x], sent')
        BY Zenon, <4>1, BuffersLater DEF WInv, Data, ConnInv, BufferInv
      <4> QED
        BY Zenon, <1>1, <3>1, <4>2 DEF Advanced
    <3>2. CASE x # fd
      <4>1. x \in DOMAIN sockets
        BY Zenon DEF WInv, Data, Ownership
      <4> QED
        BY Zenon, <1>1, <3>2, <4>1 DEF Untouched
    <3> QED
      BY Zenon, <3>1, <3>2
  <2>2. \A x \in DOMAIN sockets' \ DOMAIN connections : sockets'[x] = sockets[x] \/ Received(x)
    BY Zenon, <1>1 DEF Received
  <2>3. DOMAIN sockets' = DOMAIN sockets \ (DOMAIN connections \ DOMAIN connections')
    BY Zenon, <1>1
  <2> QED
    BY Zenon, <1>1, <2>1, <2>2, <2>3, AcceptorStays DEF KeepsData, WInv, Data, ConnInv
<1>3. Data' /\ KeepsTokens
  BY Zenon, <1>2, DataStep, StepKeepsTokens DEF WInv
<1>4. Dispatched'
  BY Zenon, <1>3, DispatchedStays DEF WInv, loopVars
<1>5. Control' /\ Round' /\ Armed'
  BY Zenon, LoopStays DEF WInv
<1> QED
  BY Zenon, <1>3, <1>4, <1>5

\* What the invariant says of one socket and its connection.
LEMMA StreamOf ==
  ASSUME WInv, NEW fd \in DOMAIN sockets
  PROVE  LET s == sockets[fd] IN
         /\ s \in Sockets /\ GoodSocket(s, clients, sent)
         /\ IF fd \in DOMAIN connections
              THEN ~connections[fd].should_close
                     => Follows(connections[fd].read_buffer, s.wire, s.rest)
              ELSE s.out = <<>> /\ Follows(<<>>, s.wire, s.rest)
  BY Zenon DEF WInv, Data, SocketInv, Streams

\* A frame is sent, or its first part ...
LEMMA SendFollows ==
  ASSUME NEW b, NEW s \in Seq(Frames), Follows(b, s, <<>>), NEW x \in Frames, x.part # "rest",
         NEW r, r # <<>> <=> x.part = "first"
  PROVE  Follows(b, Append(s, x), r)
<1> DEFINE t == Append(s, x)
<1>1. /\ t # <<>> /\ Len(t) = Len(s) + 1 /\ DOMAIN t = 1 .. Len(s) + 1 /\ Len(s) \in Nat
      /\ \A i \in 1 .. Len(s) : t[i] = s[i]
      /\ t[Len(s) + 1] = x
  BY SMTT(30), AppendSeq, EmptySeq
<1> HIDE DEF t
<1>2. s # <<>> => s[Len(s)].part # "first"
  BY DEF Follows, Opens
<1>3. s = <<>> <=> Len(s) = 0
  BY EmptySeq
<1>4. Joined(t)
  <2> SUFFICES ASSUME NEW i \in 1 .. Len(s) + 1, i > 1
               PROVE  t[i].part = "rest" <=> t[i - 1].part = "first"
    BY <1>1 DEF Joined
  <2>1. CASE i <= Len(s)
    <3>1. i \in DOMAIN s /\ t[i] = s[i] /\ t[i - 1] = s[i - 1]
      BY <1>1, <2>1
    <3> QED
      BY <3>1 DEF Follows, Joined
  <2>2. CASE i = Len(s) + 1
    BY SMTT(30), <1>1, <1>2, <1>3, <2>2
  <2> QED
    BY <1>1, <2>1, <2>2
<1>5. t[1].part = "rest" <=> Opens(b)
  <2>1. CASE s = <<>>
    BY SMTT(30), <1>1, <1>3, <2>1 DEF Follows
  <2>2. CASE s # <<>>
    BY <1>1, <1>3, <2>2 DEF Follows
  <2> QED
    BY <2>1, <2>2
<1>6. Opens(t) <=> x.part = "first"
  BY <1>1 DEF Opens
<1> QED
  BY Zenon, <1>1, <1>4, <1>5, <1>6 DEF Follows, t

\* One more frame of the same client.
LEMMA FromAppend ==
  ASSUME NEW s \in Seq(Frames), NEW x \in Frames, NEW k, NEW n, From(s, k, n),
         x.client = k, x.id \in 1 .. n, x.kind \in Kinds
  PROVE  From(Append(s, x), k, n)
<1>1. \A i \in DOMAIN Append(s, x) :
        (i \in DOMAIN s /\ Append(s, x)[i] = s[i]) \/ Append(s, x)[i] = x
  BY AppendSeq
<1> QED
  BY Zenon, <1>1 DEF From

\* A client sends a request, or the first part of one.
LEMMA ClientSendsInv ==
  ASSUME WInv, NEW fd, NEW kind \in Kinds, ClientSends(fd, kind)
  PROVE  WInv'
<1> DEFINE s == sockets[fd]
<1>1. /\ fd \in DOMAIN sockets /\ s \in Sockets /\ GoodSocket(s, clients, sent) /\ s.rest = <<>>
      /\ s.client \in Nat /\ s.wire \in Seq(Frames)
  BY Zenon, StreamOf DEF ClientSends, Sockets
<1>2. /\ sent' \in 0 .. MaxRequests /\ sent <= sent' /\ sent' = sent + 1 /\ sent' \in Nat
      /\ sent \in Nat /\ clients \in Nat
  BY WorkerLoopAssumption DEF ClientSends, WInv, Data, SocketInv
<1>3. PICK part \in {"whole", "first"} :
        LET frame == [id |-> sent + 1, kind |-> kind, client |-> s.client, part |-> part]
        IN sockets' = [sockets EXCEPT
             ![fd].wire = Append(@, frame),
             ![fd].rest = IF part = "first" THEN <<[frame EXCEPT !.part = "rest"]>> ELSE <<>>]
  BY Zenon DEF ClientSends
<1>4. PICK x : x = [id |-> sent + 1, kind |-> kind, client |-> s.client, part |-> part]
  BY Zenon
<1>5. PICK y : y = [x EXCEPT !.part = "rest"]
  BY Zenon
<1>6. /\ x \in Frames /\ x.id = sent' /\ x.kind = kind /\ x.client = s.client /\ x.part = part
      /\ y \in Frames /\ y.id = sent' /\ y.kind = kind /\ y.client = s.client
      /\ y.part = "rest"
  BY SMTT(30), <1>1, <1>2, <1>4, <1>5, WorkerLoopAssumption DEF Frames, Parts
<1>7. PICK w \in Seq(Frames) : w = Append(s.wire, x)
  <2>1. Append(s.wire, x) \in Seq(Frames)
    BY <1>1, <1>6, AppendSeq
  <2> QED
    BY Zenon, <2>1
<1>8. PICK r \in Seq(Frames) : /\ r = IF part = "first" THEN <<y>> ELSE <<>>
                               /\ r # <<>> <=> part = "first"
                               /\ Len(r) <= 1 /\ \A i \in DOMAIN r : r[i] = y
  <2>1. /\ <<y>> \in Seq(Frames) /\ <<y>> # <<>> /\ Len(<<y>>) <= 1
        /\ \A i \in DOMAIN <<y>> : <<y>>[i] = y
    BY <1>6
  <2>2. <<>> \in Seq(Frames) /\ Len(<<>>) <= 1 /\ DOMAIN <<>> = {}
    OBVIOUS
  <2> QED
    BY Zenon, <2>1, <2>2
<1>9. PICK t : t = [s EXCEPT !.wire = w, !.rest = r]
  BY Zenon
<1>10. /\ t \in Sockets /\ t.client = s.client /\ t.wire = w /\ t.rest = r /\ t.out = s.out
  BY Zenon, <1>1, <1>9 DEF Sockets
<1>11. sockets' = [sockets EXCEPT ![fd] = t]
  BY ZenonT(40), <1>3, <1>4, <1>5, <1>7, <1>8, <1>9
<1>12. sent' \in 1 .. sent'
  BY <1>2
<1>13. GoodSocket(t, clients, sent')
  <2>1. GoodSocket(s, clients, sent')
    <3>1. clients <= clients
      BY <1>2
    <3> QED
      BY Zenon, <1>1, <1>2, <3>1, SocketLater
  <2>2. From(w, t.client, sent')
    BY Zenon, <1>1, <1>6, <1>7, <1>10, <1>12, <2>1, FromAppend DEF GoodSocket
  <2>3. From(r, t.client, sent')
    BY Zenon, <1>6, <1>8, <1>10, <1>12 DEF From
  <2> QED
    BY Zenon, <1>6, <1>8, <1>10, <2>1, <2>2, <2>3 DEF GoodSocket
<1>14. ASSUME NEW b, Follows(b, s.wire, s.rest) PROVE Follows(b, t.wire, t.rest)
  <2>1. x.part # "rest"
    BY <1>6
  <2> QED
    BY Zenon, <1>1, <1>6, <1>7, <1>8, <1>10, <1>14, <2>1, SendFollows
<1>15. IF fd \in DOMAIN connections
         THEN ~connections[fd].should_close
                => Follows(connections[fd].read_buffer, t.wire, t.rest)
         ELSE t.out = <<>> /\ Follows(<<>>, t.wire, t.rest)
  BY Zenon, <1>1, <1>10, <1>14, StreamOf
<1>16. /\ UNCHANGED <<clients, connections, next_token, pending_connections, acceptor, tasks,
                      responses, loopVars, accepting>>
       /\ answered' = answered
  BY Zenon DEF ClientSends, poolVars, queueVars, connVars
<1>17. Data' /\ KeepsTokens /\ Dispatched' /\ Control' /\ Round' /\ Armed'
  BY Zenon, <1>1, <1>2, <1>10, <1>11, <1>13, <1>15, <1>16, SocketStep
<1>18. Answers'
  BY Zenon, <1>16, <1>17, AnswersStay DEF WInv
<1> QED
  BY Zenon, <1>17, <1>18 DEF WInv

\* A sequence of length 1.
LEMMA OneElement ==
  ASSUME NEW S, NEW s \in Seq(S), s # <<>>, Len(s) <= 1
  PROVE  Len(s) = 1 /\ 1 \in DOMAIN s
<1>1. Len(s) \in Nat /\ Len(s) # 0 /\ DOMAIN s = 1 .. Len(s)
  BY EmptySeq
<1> QED
  BY <1>1

\* ... and its second part.
LEMMA RestFollows ==
  ASSUME NEW b, NEW s \in Seq(Frames), NEW r \in Seq(Frames), Follows(b, s, r), r # <<>>,
         Len(r) <= 1, \A i \in DOMAIN r : r[i].part = "rest"
  PROVE  Follows(b, s \o r, <<>>)
<1> DEFINE t == s \o r
<1>1. Len(r) = 1 /\ Len(s) \in Nat /\ r[1].part = "rest"
  BY Zenon, EmptySeq, OneElement
<1>2. /\ t # <<>> /\ Len(t) = Len(s) + 1 /\ DOMAIN t = 1 .. Len(s) + 1
      /\ \A i \in 1 .. Len(s) : t[i] = s[i]
      /\ t[Len(s) + 1] = r[1]
  <2>1. /\ t \in Seq(Frames) /\ Len(t) = Len(s) + Len(r) /\ DOMAIN t = 1 .. Len(s) + Len(r)
        /\ \A i \in 1 .. Len(s) : t[i] = s[i]
        /\ \A i \in 1 .. Len(r) : t[Len(s) + i] = r[i]
    BY ConcatSeq
  <2>2. Len(t) # 0
    BY <1>1, <2>1
  <2>3. t # <<>>
    BY <2>1, <2>2, EmptySeq
  <2> QED
    BY <1>1, <2>1, <2>3
<1> HIDE DEF t
<1>3. s = <<>> <=> Len(s) = 0
  BY EmptySeq
<1>4. s # <<>> => s[Len(s)].part = "first"
  BY DEF Follows, Opens
<1>5. Joined(t)
  <2> SUFFICES ASSUME NEW i \in 1 .. Len(s) + 1, i > 1
               PROVE  t[i].part = "rest" <=> t[i - 1].part = "first"
    BY <1>2 DEF Joined
  <2>1. CASE i <= Len(s)
    <3>1. i \in DOMAIN s /\ t[i] = s[i] /\ t[i - 1] = s[i - 1]
      BY SMTT(30), <1>1, <1>2, <2>1
    <3> QED
      BY <3>1 DEF Follows, Joined
  <2>2. CASE i = Len(s) + 1
    BY SMTT(30), <1>1, <1>2, <1>3, <1>4, <2>2
  <2> QED
    BY <1>1, <2>1, <2>2
<1>6. t[1].part = "rest" <=> Opens(b)
  <2>1. CASE s = <<>>
    BY SMTT(30), <1>1, <1>2, <1>3, <2>1 DEF Follows
  <2>2. CASE s # <<>>
    BY SMTT(30), <1>1, <1>2, <1>3, <2>2 DEF Follows
  <2> QED
    BY <2>1, <2>2
<1>7. ~Opens(t)
  BY <1>1, <1>2 DEF Opens
<1> QED
  BY Zenon, <1>2, <1>5, <1>6, <1>7 DEF Follows, t

\* Where an element of a concatenation comes from.
LEMMA ConcatPlaces ==
  ASSUME NEW s \in Seq(Frames), NEW t \in Seq(Frames)
  PROVE  \A i \in DOMAIN (s \o t) : \/ \E j \in DOMAIN s : (s \o t)[i] = s[j]
                                    \/ \E j \in DOMAIN t : (s \o t)[i] = t[j]
<1>1. \A i \in DOMAIN (s \o t) : \/ i \in DOMAIN s /\ (s \o t)[i] = s[i]
                                 \/ i - Len(s) \in DOMAIN t /\ (s \o t)[i] = t[i - Len(s)]
  BY SMTT(30)
<1> QED
  BY Zenon, <1>1

\* Frames of one client after frames of the same client.
LEMMA FromConcat ==
  ASSUME NEW s \in Seq(Frames), NEW t \in Seq(Frames), NEW k, NEW n,
         From(s, k, n), From(t, k, n)
  PROVE  From(s \o t, k, n)
<1> QED
  BY ConcatPlaces DEF From

\* A client sends the rest of a request.
LEMMA ClientSendsRestInv ==
  ASSUME WInv, NEW fd, ClientSendsRest(fd)
  PROVE  WInv'
<1> DEFINE s == sockets[fd]
<1>1. /\ fd \in DOMAIN sockets /\ s \in Sockets /\ GoodSocket(s, clients, sent) /\ s.rest # <<>>
      /\ s.wire \in Seq(Frames) /\ s.rest \in Seq(Frames)
  BY Zenon, StreamOf DEF ClientSendsRest, Sockets
<1>2. sent' \in 0 .. MaxRequests /\ sent <= sent' /\ sent' = sent
  BY WorkerLoopAssumption DEF ClientSendsRest, WInv, Data, SocketInv
<1>3. PICK w \in Seq(Frames) : w = s.wire \o s.rest
  <2>1. s.wire \o s.rest \in Seq(Frames)
    BY Zenon, <1>1, ConcatSeq
  <2> QED
    BY Zenon, <2>1
<1>4. PICK r \in Seq(Frames) : r = <<>> /\ Len(r) <= 1 /\ DOMAIN r = {}
  <2>1. <<>> \in Seq(Frames) /\ Len(<<>>) <= 1 /\ DOMAIN <<>> = {}
    OBVIOUS
  <2> QED
    BY Zenon, <2>1
<1>5. PICK t : t = [s EXCEPT !.wire = w, !.rest = r]
  BY Zenon
<1>6. /\ t \in Sockets /\ t.client = s.client /\ t.wire = w /\ t.rest = r /\ t.out = s.out
  BY Zenon, <1>1, <1>5 DEF Sockets
<1>7. sockets' = [sockets EXCEPT ![fd] = t]
  BY Zenon, <1>3, <1>4, <1>5 DEF ClientSendsRest
<1>8. GoodSocket(t, clients, sent')
  <2>1. From(w, t.client, sent')
    BY Zenon, <1>1, <1>2, <1>3, <1>6, FromConcat DEF GoodSocket
  <2>2. From(r, t.client, sent')
    BY Zenon, <1>4 DEF From
  <2> QED
    BY Zenon, <1>1, <1>2, <1>4, <1>6, <2>1, <2>2 DEF GoodSocket
<1>9. ASSUME NEW b, Follows(b, s.wire, s.rest) PROVE Follows(b, t.wire, t.rest)
  BY Zenon, <1>1, <1>3, <1>4, <1>6, <1>9, RestFollows DEF GoodSocket
<1>10. IF fd \in DOMAIN connections
         THEN ~connections[fd].should_close
                => Follows(connections[fd].read_buffer, t.wire, t.rest)
         ELSE t.out = <<>> /\ Follows(<<>>, t.wire, t.rest)
  BY Zenon, <1>1, <1>6, <1>9, StreamOf
<1>11. /\ UNCHANGED <<clients, connections, next_token, pending_connections, acceptor, tasks,
                      responses, loopVars, accepting>>
       /\ answered' = answered
  BY Zenon DEF ClientSendsRest, poolVars, queueVars, connVars
<1>12. Data' /\ KeepsTokens /\ Dispatched' /\ Control' /\ Round' /\ Armed'
  BY Zenon, <1>1, <1>2, <1>6, <1>7, <1>8, <1>10, <1>11, SocketStep
<1>13. Answers'
  BY Zenon, <1>11, <1>12, AnswersStay DEF WInv
<1> QED
  BY Zenon, <1>12, <1>13 DEF WInv

\* A client closes its end.
LEMMA ClientClosesInv ==
  ASSUME WInv, NEW fd, ClientCloses(fd)
  PROVE  WInv'
<1> DEFINE s == sockets[fd]
<1>1. /\ fd \in DOMAIN sockets /\ s \in Sockets /\ GoodSocket(s, clients, sent)
  BY Zenon, StreamOf DEF ClientCloses
<1>2. sent' \in 0 .. MaxRequests /\ sent <= sent' /\ sent' = sent
  BY WorkerLoopAssumption DEF ClientCloses, WInv, Data, SocketInv
<1>3. PICK t : t = [s EXCEPT !.fin = TRUE]
  BY Zenon
<1>4. /\ t \in Sockets /\ t.client = s.client /\ t.wire = s.wire /\ t.rest = s.rest
      /\ t.out = s.out
  BY Zenon, <1>1, <1>3 DEF Sockets
<1>5. sockets' = [sockets EXCEPT ![fd] = t]
  BY <1>3 DEF ClientCloses
<1>6. GoodSocket(t, clients, sent')
  BY Zenon, <1>1, <1>2, <1>4 DEF GoodSocket
<1>7. IF fd \in DOMAIN connections
        THEN ~connections[fd].should_close
               => Follows(connections[fd].read_buffer, t.wire, t.rest)
        ELSE t.out = <<>> /\ Follows(<<>>, t.wire, t.rest)
  BY Zenon, <1>1, <1>4, StreamOf
<1>8. /\ UNCHANGED <<clients, connections, next_token, pending_connections, acceptor, tasks,
                     responses, loopVars, accepting>>
      /\ answered' = answered
  BY Zenon DEF ClientCloses, poolVars, queueVars, connVars
<1>9. Data' /\ KeepsTokens /\ Dispatched' /\ Control' /\ Round' /\ Armed'
  BY Zenon, <1>1, <1>2, <1>4, <1>5, <1>6, <1>7, <1>8, SocketStep
<1>10. Answers'
  BY Zenon, <1>8, <1>9, AnswersStay DEF WInv
<1> QED
  BY Zenon, <1>9, <1>10 DEF WInv

\* Leaving frames out keeps a sequence free of second parts,
LEMMA RequestedPart ==
  ASSUME NEW s, NEW t, Requested(s), \A i \in DOMAIN t : \E j \in DOMAIN s : t[i] = s[j]
  PROVE  Requested(t)
  BY Zenon DEF Requested

\* and of frames of others.
LEMMA FromPart ==
  ASSUME NEW s, NEW t, NEW k, NEW n, From(s, k, n),
         \A i \in DOMAIN t : \E j \in DOMAIN s : t[i] = s[j]
  PROVE  From(t, k, n)
  BY Zenon DEF From

\* A client receives a response.
LEMMA ClientReceivesInv ==
  ASSUME WInv, NEW fd, ClientReceives(fd)
  PROVE  WInv'
<1> DEFINE s == sockets[fd]
<1>1. /\ fd \in DOMAIN sockets /\ s \in Sockets /\ GoodSocket(s, clients, sent) /\ s.out # <<>>
      /\ s.out \in Seq(Frames)
  BY Zenon, StreamOf DEF ClientReceives, Sockets
<1>2. sent' \in 0 .. MaxRequests /\ sent <= sent' /\ sent' = sent /\ clients' = clients
  BY WorkerLoopAssumption DEF ClientReceives, WInv, Data, SocketInv
<1>3. PICK o \in Seq(Frames) : /\ o = Tail(s.out) /\ Len(o) <= SendBuffer
                               /\ \A i \in DOMAIN o : \E j \in DOMAIN s.out : o[i] = s.out[j]
  <2>1. /\ Tail(s.out) \in Seq(Frames)
        /\ \A i \in DOMAIN Tail(s.out) : \E j \in DOMAIN s.out : Tail(s.out)[i] = s.out[j]
    BY <1>1, TailSeq
  <2>2. Len(Tail(s.out)) = Len(s.out) - 1 /\ Len(s.out) \in Nat /\ Len(s.out) <= SendBuffer
    BY Zenon, <1>1, TailSeq, EmptySeq DEF GoodSocket
  <2>3. Len(Tail(s.out)) <= SendBuffer
    BY <2>2, WorkerLoopAssumption
  <2> QED
    BY Zenon, <2>1, <2>3
<1>4. PICK t : t = [s EXCEPT !.out = o]
  BY Zenon
<1>5. /\ t \in Sockets /\ t.client = s.client /\ t.wire = s.wire /\ t.rest = s.rest
      /\ t.out = o
  BY Zenon, <1>1, <1>4 DEF Sockets
<1>6. sockets' = [sockets EXCEPT ![fd] = t]
  BY <1>3, <1>4 DEF ClientReceives
<1>7. GoodSocket(t, clients, sent')
  BY Zenon, <1>1, <1>2, <1>3, <1>5, FromPart, RequestedPart DEF GoodSocket
<1>8. IF fd \in DOMAIN connections
        THEN ~connections[fd].should_close
               => Follows(connections[fd].read_buffer, t.wire, t.rest)
        ELSE t.out = <<>> /\ Follows(<<>>, t.wire, t.rest)
  BY Zenon, <1>1, <1>5, StreamOf
<1>9. UNCHANGED <<clients, connections, next_token, pending_connections, acceptor, tasks,
                  responses, loopVars, accepting>>
  BY Zenon DEF ClientReceives, poolVars, queueVars, connVars
<1>10. Data' /\ KeepsTokens /\ Dispatched' /\ Control' /\ Round' /\ Armed'
  BY Zenon, <1>1, <1>2, <1>5, <1>6, <1>7, <1>8, <1>9, SocketStep
<1>11. Answers'
  <2>1. PICK r \in Frames : r = Head(s.out) /\ r = s.out[1] /\ 1 \in DOMAIN s.out
    BY <1>1
  <2>2. /\ r.id \in 1 .. sent /\ r.client \in 1 .. clients /\ r.kind \in Kinds
        /\ r.part # "rest"
    BY Zenon, <1>1, <2>1 DEF GoodSocket, From, Requested
  <2>3. answered' = answered \cup {r}
    BY Zenon, <2>1 DEF ClientReceives
  <2> QED
    BY Zenon, <1>2, <2>2, <2>3 DEF WInv, Answers
<1> QED
  BY Zenon, <1>10, <1>11 DEF WInv

\* The acceptor accepts a connection,
LEMMA AcceptConnectionInv ==
  ASSUME WInv, NEW fd \in Fds, AcceptConnection(fd)
  PROVE  WInv'
<1> DEFINE s == [client |-> clients + 1, wire |-> <<>>, rest |-> <<>>, fin |-> FALSE,
                 out |-> <<>>]
<1>1. /\ acceptor.at = "idle" /\ acceptor' = [at |-> "queue", fd |-> fd]
      /\ fd \notin DOMAIN sockets /\ sockets' = With(sockets, fd, s) /\ clients' = clients + 1
      /\ UNCHANGED <<sent, answered, connections, next_token, pending_connections, tasks,
                     responses, loopVars, accepting>>
  BY Zenon DEF AcceptConnection, poolVars, queueVars, connVars
<1>2. /\ clients \in Nat /\ clients' \in Nat /\ clients <= clients' /\ clients' \in 1 .. clients'
      /\ sent \in Nat /\ sent <= sent /\ clients' \in 0 .. MaxClients
  BY SMTT(30), <1>1, WorkerLoopAssumption DEF AcceptConnection, WInv, Data, SocketInv
<1>3. /\ s \in Sockets /\ s.client = clients' /\ s.out = <<>> /\ s.wire = <<>> /\ s.rest = <<>>
  BY <1>1, <1>2 DEF Sockets
<1> HIDE DEF s
<1>4. GoodSocket(s, clients', sent) /\ Follows(<<>>, s.wire, s.rest)
  <2>1. DOMAIN <<>> = {} /\ Len(<<>>) <= 1 /\ Len(<<>>) <= SendBuffer
    BY WorkerLoopAssumption
  <2> QED
    BY Zenon, <1>2, <1>3, <2>1 DEF GoodSocket, From, Requested, Follows, Joined, Opens
<1>5. /\ DOMAIN sockets' = DOMAIN sockets \cup {fd} /\ sockets'[fd] = s
      /\ \A x \in DOMAIN sockets : sockets'[x] = sockets[x]
  <2>1. /\ DOMAIN With(sockets, fd, s) = DOMAIN sockets \cup {fd}
        /\ With(sockets, fd, s)[fd] = s
        /\ \A x \in DOMAIN sockets : x # fd => With(sockets, fd, s)[x] = sockets[x]
    BY Zenon DEF With
  <2> QED
    BY Zenon, <1>1, <2>1
<1>6. fd \notin DOMAIN connections
  BY Zenon, <1>1 DEF WInv, Data, Ownership
<1>7. ConnInv' /\ BufferInv'
  BY Zenon, <1>1 DEF WInv, Data, ConnInv, BufferInv
<1>8. SocketInv'
  <2>1. \A x \in DOMAIN sockets' : sockets'[x] \in Sockets /\ GoodSocket(sockets'[x], clients', sent)
    BY Zenon, <1>2, <1>3, <1>4, <1>5, SocketLater DEF WInv, Data, SocketInv
  <2>2. sockets' \in [DOMAIN sockets' -> Sockets]
    <3>1. sockets' = [y \in DOMAIN sockets' |-> sockets'[y]]
      BY <1>1 DEF With
    <3> QED
      BY <2>1, <3>1
  <2> QED
    BY Zenon, <1>1, <1>2, <2>1, <2>2 DEF WInv, Data, SocketInv
<1>9. Streams'
  BY Zenon, <1>1, <1>3, <1>4, <1>5, <1>6 DEF WInv, Data, Streams
<1>10. Ownership'
  <2>1. Queued' = Queued /\ Handed = {} /\ Handed' = {fd}
    BY <1>1 DEF Queued, Handed
  <2>2. acceptor' \in [at: {"idle", "queue", "wake"}, fd: Fds \cup {0}]
    BY SMTT(30), <1>1
  <2>3. /\ DOMAIN sockets' = DOMAIN connections \cup Queued \cup {fd}
        /\ {fd} \cap (DOMAIN connections \cup Queued) = {}
        /\ DOMAIN sockets' \subseteq Fds
    BY <1>1, <1>5, <2>1 DEF WInv, Data, Ownership
  <2> QED
    BY Zenon, <1>1, <2>1, <2>2, <2>3 DEF WInv, Data, Ownership
<1>11. Tokens'
  <2>1. Len(pending_connections) \in Nat
    BY SMTT(30), EmptySeq DEF WInv, Data, Ownership
  <2>2. next_token + Len(pending_connections) + 1 <= clients' + 1
    BY <1>1, <1>2, <2>1 DEF WInv, Data, Tokens
  <2>3. acceptor'.at = "queue"
    BY <1>1
  <2> QED
    BY Zenon, <1>1, <2>2, <2>3 DEF WInv, Data, Tokens
<1>12. KeepsTokens
  <2>1. next_token \in Nat /\ next_token <= next_token
    BY DEF WInv, Data, Tokens
  <2> QED
    BY Zenon, <1>1, <1>2, <2>1 DEF KeepsTokens
<1>13. Dispatched' /\ Answers'
  BY Zenon, <1>1, <1>12, DispatchedStays, AnswersStay DEF WInv, loopVars
<1>14. Control' /\ Round' /\ Armed'
  BY Zenon, <1>1, LoopStays DEF WInv
<1> QED
  BY Zenon, <1>7, <1>8, <1>9, <1>10, <1>11, <1>13, <1>14 DEF WInv, Data

\* and queues it for the loop.
LEMMA EnqueueConnectionInv ==
  ASSUME WInv, EnqueueConnection
  PROVE  WInv'
<1> DEFINE p == pending_connections
<1>1. /\ acceptor.at = "queue" /\ acceptor' = [at |-> "wake", fd |-> 0]
      /\ p' = Append(p, acceptor.fd)
      /\ UNCHANGED <<sockets, clients, sent, answered, connections, next_token, tasks,
                     responses, loopVars, accepting>>
  BY Zenon DEF EnqueueConnection, clientVars, poolVars, connVars
<1>2. p \in Seq(Fds) /\ acceptor.fd \in Fds /\ Handed = {acceptor.fd}
  <2>1. Handed = {acceptor.fd}
    BY Zenon, <1>1 DEF Handed
  <2> QED
    BY Zenon, <2>1 DEF WInv, Data, Ownership
<1>3. /\ p' \in Seq(Fds) /\ DOMAIN p' = 1 .. Len(p) + 1 /\ Len(p') = Len(p) + 1
      /\ \A i \in DOMAIN p : p'[i] = p[i]
      /\ p'[Len(p) + 1] = acceptor.fd
  <2>1. LET q == Append(p, acceptor.fd) IN
        /\ q \in Seq(Fds) /\ DOMAIN q = 1 .. Len(p) + 1 /\ Len(q) = Len(p) + 1
        /\ \A i \in DOMAIN p : q[i] = p[i]
        /\ q[Len(p) + 1] = acceptor.fd
    BY <1>2, AppendSeq
  <2> QED
    BY Zenon, <1>1, <2>1
<1>4. /\ Len(p) \in Nat /\ DOMAIN p = 1 .. Len(p)
      /\ \A i : i \in 1 .. Len(p) + 1 <=> i \in DOMAIN p \/ i = Len(p) + 1
  BY <1>2, EmptySeq
<1>5. Queued' = Queued \cup {acceptor.fd} /\ Handed' = {} /\ acceptor.fd \notin Queued
  <2>1. Handed' = {}
    BY <1>1 DEF Handed
  <2>2. acceptor.fd \notin Queued
    BY Zenon, <1>2 DEF WInv, Data, Ownership
  <2>3. Queued' = Queued \cup {acceptor.fd}
    BY Zenon, <1>3, <1>4 DEF Queued
  <2> QED
    BY Zenon, <2>1, <2>2, <2>3
<1>6. ConnInv' /\ BufferInv' /\ SocketInv' /\ Streams'
  BY Zenon, <1>1 DEF WInv, Data, ConnInv, BufferInv, SocketInv, Streams
<1>7. Ownership'
  <2>1. \A i, j \in DOMAIN p' : p'[i] = p'[j] => i = j
    <3>1. \A i, j \in DOMAIN p : p[i] = p[j] => i = j
      BY Zenon DEF WInv, Data, Ownership
    <3>2. \A i \in DOMAIN p : p[i] # acceptor.fd
      BY Zenon, <1>5 DEF Queued
    <3> QED
      BY Zenon, <1>3, <1>4, <3>1, <3>2
  <2>2. acceptor' \in [at: {"idle", "queue", "wake"}, fd: Fds \cup {0}]
    BY <1>1
  <2>3. /\ DOMAIN sockets = DOMAIN connections \cup Queued \cup {acceptor.fd}
        /\ DOMAIN connections \cap Queued = {}
        /\ {acceptor.fd} \cap (DOMAIN connections \cup Queued) = {}
    BY Zenon, <1>2 DEF WInv, Data, Ownership
  <2>4. /\ DOMAIN sockets = DOMAIN connections \cup Queued' \cup Handed'
        /\ DOMAIN connections \cap Queued' = {}
        /\ Handed' \cap (DOMAIN connections \cup Queued') = {}
    BY <1>5, <2>3
  <2> QED
    BY Zenon, <1>1, <1>3, <2>1, <2>2, <2>4 DEF WInv, Data, Ownership
<1>8. Tokens'
  <2>1. acceptor'.at # "queue"
    BY <1>1
  <2>2. next_token + Len(p) + 1 <= clients + 1 /\ next_token \in Nat
    BY Zenon, <1>1 DEF WInv, Data, Tokens
  <2>3. next_token + Len(p') + 0 <= clients + 1
    BY <1>3, <1>4, <2>2
  <2> QED
    BY Zenon, <1>1, <2>1, <2>3 DEF WInv, Data, Tokens
<1>9. KeepsTokens
  <2>1. /\ next_token \in Nat /\ next_token <= next_token /\ sent \in Nat /\ sent <= sent
        /\ clients \in Nat /\ clients <= clients
    BY WorkerLoopAssumption DEF WInv, Data, Tokens, SocketInv
  <2> QED
    BY Zenon, <1>1, <2>1 DEF KeepsTokens
<1>10. Dispatched' /\ Answers'
  BY Zenon, <1>1, <1>9, DispatchedStays, AnswersStay DEF WInv, loopVars
<1>11. Control' /\ Round' /\ Armed'
  BY ZenonT(40), <1>1, LoopStays DEF WInv
<1> QED
  BY Zenon, <1>6, <1>7, <1>8, <1>10, <1>11 DEF WInv, Data

-----------------------------------------------------------------------------
(* New sockets are adopted.                                                *)

\* A new connection is good and its buffers are empty.
LEMMA NewConnectionGood ==
  ASSUME NEW t \in Nat, NEW p \in Nat
  PROVE  /\ GoodConn(NewConnection(t, p)) /\ ArmedConn(NewConnection(t, p))
         /\ NewConnection(t, p).connection_token = t /\ NewConnection(t, p).peer = p
         /\ NewConnection(t, p).read_buffer = <<>> /\ NewConnection(t, p).write_buffer = <<>>
         /\ ~NewConnection(t, p).should_close
  BY MaxWriteBufferAssumption
  DEF NewConnection, GoodConn, Conns, Places, ArmedConn, HasPendingWrite

\* The first n queued sockets become connections, the others are closed.
LEMMA AdoptData ==
  ASSUME WInv, NEW n \in 0 .. Len(pending_connections), Adopt(n),
         sockets' = Without(sockets, {pending_connections[i] :
                                        i \in n + 1 .. Len(pending_connections)}),
         UNCHANGED <<clients, sent, acceptor>>
  PROVE  /\ Data' /\ KeepsTokens /\ DOMAIN connections \subseteq DOMAIN connections'
         /\ \A fd \in DOMAIN connections : connections'[fd] = connections[fd]
         /\ \A fd \in DOMAIN connections' \ DOMAIN connections : ArmedConn(connections'[fd])
<1> DEFINE p == pending_connections
           new == {p[i] : i \in 1 .. n}
           gone == {p[i] : i \in n + 1 .. Len(p)}
           place(fd) == CHOOSE i \in 1 .. n : p[i] = fd
<1>1. /\ p \in Seq(Fds) /\ Len(p) \in Nat /\ DOMAIN p = 1 .. Len(p) /\ n \in Nat /\ n <= Len(p)
      /\ \A i \in 1 .. Len(p) : i \in 1 .. n <=> i \notin n + 1 .. Len(p)
      /\ 1 .. n \subseteq 1 .. Len(p) /\ n + 1 .. Len(p) \subseteq 1 .. Len(p)
  <2>1. p \in Seq(Fds)
    BY Zenon DEF WInv, Data, Ownership
  <2> QED
    BY <2>1, EmptySeq
<1>2. /\ connections' = [fd \in DOMAIN connections \cup new |->
           IF fd \in new THEN NewConnection(next_token + place(fd) - 1, sockets[fd].client)
                         ELSE connections[fd]]
      /\ next_token' = next_token + n /\ p' = <<>>
  BY Zenon DEF Adopt
<1>3. \A fd \in new : place(fd) \in 1 .. n /\ p[place(fd)] = fd
  <2> SUFFICES ASSUME NEW fd \in new PROVE place(fd) \in 1 .. n /\ p[place(fd)] = fd
    OBVIOUS
  <2>1. \E i \in 1 .. n : p[i] = fd
    BY Zenon
  <2> QED
    BY Zenon, <2>1
<1>4. /\ Queued = new \cup gone /\ new \cap gone = {}
  <2>1. \A i, j \in DOMAIN p : p[i] = p[j] => i = j
    BY Zenon DEF WInv, Data, Ownership
  <2>2. new \cap gone = {}
    <3> SUFFICES ASSUME NEW x \in new, x \in gone PROVE FALSE
      BY Zenon
    <3>1. PICK i \in 1 .. n : x = p[i]
      BY Zenon
    <3>2. PICK j \in n + 1 .. Len(p) : x = p[j]
      BY Zenon
    <3>3. i = j
      BY Zenon, <1>1, <2>1, <3>1, <3>2
    <3> QED
      BY <1>1, <3>3
  <2>3. Queued = new \cup gone
    <3>1. DOMAIN p = 1 .. n \cup n + 1 .. Len(p)
      BY SMTT(30), <1>1
    <3> QED
      BY SMTT(30), <3>1 DEF Queued
  <2> QED
    BY Zenon, <2>2, <2>3
<1> HIDE DEF new, gone, place
<1>5. /\ DOMAIN sockets = DOMAIN connections \cup new \cup gone \cup Handed
      /\ DOMAIN connections \cap (new \cup gone) = {} /\ DOMAIN sockets \subseteq Fds
      /\ Handed \cap (DOMAIN connections \cup new \cup gone) = {}
  BY <1>4 DEF WInv, Data, Ownership
<1>6. /\ DOMAIN sockets' = DOMAIN sockets \ gone
      /\ \A x \in DOMAIN sockets' : x \in DOMAIN sockets /\ sockets'[x] = sockets[x]
      /\ sockets' = [x \in DOMAIN sockets' |-> sockets'[x]]
  <2>1. sockets' = Without(sockets, gone)
    BY Zenon DEF gone
  <2>2. Without(sockets, gone) = [x \in DOMAIN sockets \ gone |-> sockets[x]]
    BY Zenon DEF Without
  <2> QED
    BY Zenon, <2>1, <2>2
<1>7. /\ DOMAIN connections' = DOMAIN connections \cup new
      /\ \A fd \in DOMAIN connections : connections'[fd] = connections[fd]
      /\ \A fd \in new : /\ fd \notin DOMAIN connections /\ fd \in DOMAIN sockets
                         /\ fd \in DOMAIN sockets'
                         /\ connections'[fd]
                              = NewConnection(next_token + place(fd) - 1, sockets[fd].client)
  <2>1. \A fd \in new : /\ fd \notin DOMAIN connections /\ fd \in DOMAIN sockets
                        /\ fd \in DOMAIN sockets'
    BY Zenon, <1>4, <1>5, <1>6
  <2> QED
    BY Zenon, <1>2, <2>1
<1>8. next_token \in Nat \ {0} /\ sent \in Nat /\ clients \in Nat
  BY WorkerLoopAssumption DEF WInv, Data, Tokens, SocketInv
<1>9. \A fd \in new : /\ GoodConn(connections'[fd]) /\ ArmedConn(connections'[fd])
                      /\ connections'[fd].connection_token \in next_token .. next_token + n - 1
                      /\ connections'[fd].peer = sockets[fd].client
                      /\ connections'[fd].read_buffer = <<>>
                      /\ connections'[fd].write_buffer = <<>>
                      /\ ~connections'[fd].should_close
  <2> SUFFICES ASSUME NEW fd \in new
               PROVE  /\ GoodConn(connections'[fd]) /\ ArmedConn(connections'[fd])
                      /\ connections'[fd].connection_token \in next_token .. next_token + n - 1
                      /\ connections'[fd].peer = sockets[fd].client
                      /\ connections'[fd].read_buffer = <<>>
                      /\ connections'[fd].write_buffer = <<>>
                      /\ ~connections'[fd].should_close
    OBVIOUS
  <2>1. place(fd) \in 1 .. n
    BY Zenon, <1>3
  <2>2. PICK k \in Nat : k = next_token + place(fd) - 1 /\ k \in next_token .. next_token + n - 1
    BY <1>1, <1>8, <2>1
  <2>3. sockets[fd].client \in Nat
    BY Zenon, <1>7 DEF WInv, Data, SocketInv, Sockets
  <2> QED
    <3> DEFINE c == NewConnection(k, sockets[fd].client)
    <3>1. /\ GoodConn(c) /\ ArmedConn(c) /\ c.connection_token = k
          /\ c.peer = sockets[fd].client /\ c.read_buffer = <<>> /\ c.write_buffer = <<>>
          /\ ~c.should_close
      BY ZenonT(40), <2>2, <2>3, NewConnectionGood
    <3>2. connections'[fd] = c
      BY Zenon, <1>7, <2>2
    <3> QED
      BY Zenon, <2>2, <3>1, <3>2
<1>10. ConnInv'
  <2>1. \A fd \in DOMAIN connections' : GoodConn(connections'[fd])
    BY ZenonT(40), <1>7, <1>9 DEF WInv, Data, ConnInv
  <2>2. connections' = [fd \in DOMAIN connections' |-> connections'[fd]]
    BY <1>2
  <2>3. \A fd \in DOMAIN connections' : connections'[fd] \in Conns
    BY Zenon, <2>1 DEF GoodConn
  <2>4. connections' \in [DOMAIN connections' -> Conns]
    BY <2>2, <2>3
  <2> QED
    BY Zenon, <2>1, <2>4 DEF ConnInv
<1>11. BufferInv'
  <2>1. DOMAIN <<>> = {}
    OBVIOUS
  <2>2. \A fd \in new : GoodBuffers(connections'[fd], sent)
    BY Zenon, <1>9, <2>1 DEF GoodBuffers, From, Requested, Joined
  <2> QED
    BY ZenonT(40), <1>7, <2>2 DEF WInv, Data, BufferInv
<1>12. SocketInv'
  <2>1. \A x \in DOMAIN sockets' : sockets'[x] \in Sockets /\ GoodSocket(sockets'[x], clients, sent)
    BY Zenon, <1>6 DEF WInv, Data, SocketInv
  <2>2. sockets' \in [DOMAIN sockets' -> Sockets]
    BY <1>6, <2>1
  <2> QED
    BY Zenon, <2>1, <2>2 DEF WInv, Data, SocketInv
<1>13. Streams'
  <2> SUFFICES ASSUME NEW x \in DOMAIN sockets'
               PROVE  LET s == sockets'[x] IN
                      IF x \in DOMAIN connections'
                      THEN LET c == connections'[x] IN
                           /\ c.peer = s.client
                           /\ ~c.should_close => Follows(c.read_buffer, s.wire, s.rest)
                      ELSE s.out = <<>> /\ Follows(<<>>, s.wire, s.rest)
    BY Zenon DEF Streams
  <2>1. x \in DOMAIN sockets /\ sockets'[x] = sockets[x]
    BY Zenon, <1>6
  <2>2. CASE x \in new
    <3>1. Follows(<<>>, sockets[x].wire, sockets[x].rest)
      BY Zenon, <1>7, <2>2 DEF WInv, Data, Streams
    <3> QED
      BY Zenon, <1>7, <1>9, <2>1, <2>2, <3>1
  <2>3. CASE x \notin new
    BY Zenon, <1>7, <2>1, <2>3 DEF WInv, Data, Streams
  <2> QED
    BY Zenon, <2>2, <2>3
<1>14. Ownership'
  <2>1. Queued' = {} /\ p' \in Seq(Fds) /\ DOMAIN p' = {} /\ Handed' = Handed
    <3>1. DOMAIN <<>> = {} /\ <<>> \in Seq(Fds)
      OBVIOUS
    <3> QED
      BY Zenon, <1>2, <3>1 DEF Queued, Handed
  <2>2. /\ DOMAIN sockets' = DOMAIN connections' \cup {} \cup Handed
        /\ DOMAIN connections' \cap {} = {} /\ DOMAIN sockets' \subseteq Fds
        /\ Handed \cap (DOMAIN connections' \cup {}) = {}
    BY Zenon, <1>4, <1>5, <1>6, <1>7
  <2> QED
    BY Zenon, <2>1, <2>2 DEF WInv, Data, Ownership
<1>15. Tokens'
  <2>1. next_token' \in Nat \ {0}
    BY <1>1, <1>2, <1>8
  <2>2. \A fd \in DOMAIN connections' : connections'[fd].connection_token \in 1 .. next_token' - 1
    <3>1. \A k : k \in 1 .. next_token - 1 => k \in 1 .. next_token' - 1
      BY SMTT(30), <1>1, <1>2, <1>8
    <3>2. \A k : k \in next_token .. next_token + n - 1 => k \in 1 .. next_token' - 1
      BY SMTT(30), <1>1, <1>2, <1>8
    <3> QED
      BY ZenonT(40), <1>7, <1>9, <3>1, <3>2 DEF WInv, Data, Tokens
  <2>3. PICK h \in Nat : h = IF acceptor.at = "queue" THEN 1 ELSE 0
    OBVIOUS
  <2>4. next_token + Len(p) + h <= clients + 1
    BY ZenonT(40), <2>3 DEF WInv, Data, Tokens
  <2>5. next_token' + Len(p') + h <= clients + 1
    <3>1. Len(p') = 0
      BY <1>2
    <3> QED
      BY SMTT(30), <1>1, <1>2, <1>8, <2>4, <3>1
  <2> QED
    BY ZenonT(40), <2>1, <2>2, <2>3, <2>5 DEF Tokens
<1>16. KeepsTokens
  <2>1. /\ next_token' \in Nat /\ next_token <= next_token' /\ sent <= sent
        /\ clients <= clients
    BY SMTT(30), <1>1, <1>2, <1>8
  <2>2. \A k : k \in next_token .. next_token + n - 1 => k \in Nat /\ k >= next_token
    BY <1>1, <1>8
  <2> QED
    BY ZenonT(40), <1>7, <1>8, <1>9, <2>1, <2>2 DEF KeepsTokens
<1> QED
  BY ZenonT(40), <1>7, <1>9, <1>10, <1>11, <1>12, <1>13, <1>14, <1>15, <1>16 DEF Data

\* The loop's state after that.
LEMMA AdoptLoop ==
  ASSUME WInv, pc = "drain_pending",
         DOMAIN connections \subseteq DOMAIN connections',
         \A fd \in DOMAIN connections : connections'[fd] = connections[fd],
         \A fd \in DOMAIN connections' \ DOMAIN connections : ArmedConn(connections'[fd]),
         UNCHANGED <<accepting, current, local>>, leaving' \in BOOLEAN,
         \/ pc' = "swap_completed" /\ UNCHANGED <<leaving, events>>
         \/ pc' = "drain_wake" /\ leaving' = TRUE /\ events' = {}
  PROVE  Control' /\ Round' /\ Armed'
<1>1. current = Nobody /\ local = <<>> /\ accepting = TRUE
  BY Zenon DEF WInv, Control, Busy
<1>2. Control'
  <2>1. pc' \in LoopPlaces /\ pc' \notin Busy /\ pc' # "ended" /\ pc' # "poll"
        /\ pc' \notin {"poll", "tick", "events", "event_out", "event_end"}
        /\ pc' # "update_interest"
    BY Zenon DEF LoopPlaces, Busy
  <2>2. events' \subseteq Events /\ (leaving' => events' = {})
    BY Zenon DEF WInv, Control
  <2> QED
    BY Zenon, <1>1, <2>1, <2>2, NobodyIsEvent DEF Control
<1>3. Round'
  <2>1. \A e \in events : e.fd \in DOMAIN connections
    BY Zenon DEF WInv, Round
  <2>2. EventsMatchConnections'
    BY Zenon, <1>1, <2>1, NobodyIsEvent DEF WInv, Round, EventsMatchConnections
  <2> QED
    BY Zenon, <2>2 DEF Round
<1>4. Armed'
  BY Zenon DEF WInv, Armed, Busy
<1> QED
  BY Zenon, <1>2, <1>3, <1>4

\* All the queued sockets are adopted,
LEMMA DrainPendingConnectionsInv ==
  ASSUME WInv, DrainPendingConnections
  PROVE  WInv'
<1> DEFINE p == pending_connections
<1>1. /\ pc = "drain_pending" /\ pc' = "swap_completed" /\ Adopt(Len(p))
      /\ UNCHANGED <<sockets, clients, sent, answered, acceptor, tasks, responses, accepting,
                     leaving, events, current, local>>
  BY Zenon DEF DrainPendingConnections, AdoptPending, LoopAt, clientVars, poolVars
<1>2. Len(p) \in 0 .. Len(p) /\ Len(p) + 1 .. Len(p) = {}
  <2>1. Len(p) \in Nat
    BY EmptySeq DEF WInv, Data, Ownership
  <2> QED
    BY <2>1
<1>3. sockets' = Without(sockets, {p[i] : i \in Len(p) + 1 .. Len(p)})
  <2>1. {p[i] : i \in Len(p) + 1 .. Len(p)} = {}
    BY Zenon, <1>2
  <2>2. Without(sockets, {}) = [x \in DOMAIN sockets |-> sockets[x]]
    BY DEF Without
  <2>3. sockets = [x \in DOMAIN sockets |-> sockets[x]]
    BY DEF WInv, Data, SocketInv
  <2> QED
    BY Zenon, <1>1, <2>1, <2>2, <2>3
<1>4. /\ Data' /\ KeepsTokens /\ DOMAIN connections \subseteq DOMAIN connections'
      /\ \A fd \in DOMAIN connections : connections'[fd] = connections[fd]
      /\ \A fd \in DOMAIN connections' \ DOMAIN connections : ArmedConn(connections'[fd])
  <2>1. PICK n \in 0 .. Len(p) : n = Len(p)
    BY Zenon, <1>2
  <2> QED
    BY Zenon, <1>1, <1>3, <2>1, AdoptData
<1>5. Dispatched' /\ Answers'
  BY Zenon, <1>1, <1>4, DispatchedStays, AnswersStay DEF WInv
<1>6. Control' /\ Round' /\ Armed'
  BY Zenon, <1>1, <1>4, AdoptLoop DEF WInv, Control
<1> QED
  BY Zenon, <1>4, <1>5, <1>6 DEF WInv

\* or epoll_ctl fails for one of them and the loop ends.
LEMMA DrainPendingFailsInv ==
  ASSUME WInv, DrainPendingFails
  PROVE  WInv'
<1> DEFINE p == pending_connections
<1>1. /\ pc = "drain_pending"
      /\ UNCHANGED <<clients, sent, answered, acceptor, tasks, responses, accepting,
                     current, local>>
      /\ \/ pc' = "swap_completed" /\ UNCHANGED <<leaving, events>>
         \/ pc' = "drain_wake" /\ leaving' = TRUE /\ events' = {}
  BY Zenon DEF DrainPendingFails, Fail, LoopAt, poolVars
<1>2. PICK n \in 0 .. Len(p) - 1 :
        Adopt(n) /\ sockets' = Without(sockets, {p[i] : i \in n + 1 .. Len(p)})
  BY Zenon DEF DrainPendingFails
<1>3. n \in 0 .. Len(p)
  <2>1. Len(p) \in Nat
    BY EmptySeq DEF WInv, Data, Ownership
  <2> QED
    BY <2>1
<1>4. /\ Data' /\ KeepsTokens /\ DOMAIN connections \subseteq DOMAIN connections'
      /\ \A fd \in DOMAIN connections : connections'[fd] = connections[fd]
      /\ \A fd \in DOMAIN connections' \ DOMAIN connections : ArmedConn(connections'[fd])
  BY Zenon, <1>1, <1>2, <1>3, AdoptData
<1>5. Dispatched' /\ Answers'
  BY Zenon, <1>1, <1>4, DispatchedStays, AnswersStay DEF WInv
<1>6. leaving' \in BOOLEAN
  BY Zenon, <1>1 DEF WInv, Control
<1>7. Control' /\ Round' /\ Armed'
  BY Zenon, <1>1, <1>4, <1>6, AdoptLoop
<1> QED
  BY Zenon, <1>4, <1>5, <1>7 DEF WInv

-----------------------------------------------------------------------------
(* Connections are closed, or take a step.                                 *)

\* Connections are closed and nothing else happens to the data.
LEMMA CloseStep ==
  ASSUME WInv, NEW S, S \subseteq DOMAIN connections,
         connections' = Without(connections, S), sockets' = Without(sockets, S),
         UNCHANGED <<clients, sent, next_token, pending_connections, acceptor>>
  PROVE  /\ Data' /\ KeepsTokens /\ DOMAIN connections' = DOMAIN connections \ S
         /\ \A x \in DOMAIN connections' : connections'[x] = connections[x]
<1>1. /\ connections' = [x \in DOMAIN connections \ S |-> connections[x]]
      /\ sockets' = [x \in DOMAIN sockets \ S |-> sockets[x]]
  BY Zenon DEF Without
<1>2. /\ DOMAIN connections' = DOMAIN connections \ S /\ DOMAIN sockets' = DOMAIN sockets \ S
      /\ \A x \in DOMAIN connections' : connections'[x] = connections[x]
      /\ \A x \in DOMAIN sockets' : sockets'[x] = sockets[x]
  BY Zenon, <1>1
<1>3. connections' \in [DOMAIN connections' -> Conns] /\ sockets' \in [DOMAIN sockets' -> Sockets]
  <2>1. \A x \in DOMAIN connections : connections[x] \in Conns
    BY DEF WInv, Data, ConnInv
  <2>2. \A x \in DOMAIN sockets : sockets[x] \in Sockets
    BY DEF WInv, Data, SocketInv
  <2> QED
    BY <1>1, <2>1, <2>2
<1>4. DOMAIN sockets' = DOMAIN sockets \ (DOMAIN connections \ DOMAIN connections')
  BY SMTT(30), <1>2
<1>5. DOMAIN connections' \subseteq DOMAIN sockets'
  BY <1>2 DEF WInv, Data, Ownership
<1>6. sent \in 0 .. MaxRequests /\ sent <= sent
  BY WorkerLoopAssumption DEF WInv, Data, SocketInv
<1>7. \A x \in DOMAIN connections' : Untouched(x)
  BY Zenon, <1>2, <1>5 DEF Untouched
<1>8. KeepsData
  BY Zenon, <1>2, <1>3, <1>4, <1>6, <1>7, AcceptorStays DEF KeepsData
<1> QED
  BY Zenon, <1>2, <1>8, DataStep, StepKeepsTokens DEF WInv

\* One connection and its socket advance.
LEMMA ConnStep ==
  ASSUME WInv, NEW fd \in DOMAIN connections, NEW c, NEW s \in Sockets,
         connections' = [connections EXCEPT ![fd] = c], sockets' = [sockets EXCEPT ![fd] = s],
         GoodConn(c), GoodBuffers(c, sent),
         c.connection_token = connections[fd].connection_token, c.peer = connections[fd].peer,
         s.client = sockets[fd].client, GoodSocket(s, clients, sent),
         ~c.should_close => Follows(c.read_buffer, s.wire, s.rest),
         UNCHANGED <<clients, sent, next_token, pending_connections, acceptor>>
  PROVE  /\ Data' /\ KeepsTokens /\ DOMAIN connections' = DOMAIN connections
         /\ connections'[fd] = c
         /\ \A x \in DOMAIN connections : x # fd => connections'[x] = connections[x]
<1>1. c \in Conns
  BY Zenon DEF GoodConn
<1>2. /\ DOMAIN connections' = DOMAIN connections /\ connections'[fd] = c
      /\ \A x \in DOMAIN connections : x # fd => connections'[x] = connections[x]
      /\ connections' \in [DOMAIN connections' -> Conns]
  BY <1>1 DEF WInv, Data, ConnInv
<1>3. fd \in DOMAIN sockets
  BY Zenon DEF WInv, Data, Ownership
<1>4. /\ DOMAIN sockets' = DOMAIN sockets /\ sockets'[fd] = s
      /\ \A x \in DOMAIN sockets : x # fd => sockets'[x] = sockets[x]
      /\ sockets' \in [DOMAIN sockets' -> Sockets]
  BY <1>3 DEF WInv, Data, SocketInv
<1>5. DOMAIN sockets' = DOMAIN sockets \ (DOMAIN connections \ DOMAIN connections')
  BY <1>2, <1>4
<1>6. sent \in 0 .. MaxRequests /\ sent <= sent
  BY WorkerLoopAssumption DEF WInv, Data, SocketInv
<1>7. Advanced(fd)
  BY Zenon, <1>2, <1>4 DEF Advanced
<1>8. \A x \in DOMAIN connections : x # fd => Untouched(x)
  BY Zenon, <1>2, <1>4 DEF Untouched, WInv, Data, Ownership
<1>9. KeepsData
  BY Zenon, <1>2, <1>4, <1>5, <1>6, <1>7, <1>8, AcceptorStays DEF KeepsData
<1> QED
  BY Zenon, <1>2, <1>9, DataStep, StepKeepsTokens DEF WInv

\* What the invariant says of one connection.
LEMMA PairOf ==
  ASSUME WInv, NEW fd \in DOMAIN connections
  PROVE  LET c == connections[fd]
             s == sockets[fd]
         IN /\ GoodConn(c) /\ GoodBuffers(c, sent) /\ c.peer = s.client
            /\ fd \in DOMAIN sockets /\ s \in Sockets /\ GoodSocket(s, clients, sent)
            /\ ~c.should_close => Follows(c.read_buffer, s.wire, s.rest)
            /\ c.read_buffer \in Seq(Frames) /\ c.write_buffer \in Seq(Frames)
            /\ s.wire \in Seq(Frames) /\ s.out \in Seq(Frames)
<1>1. /\ GoodConn(connections[fd]) /\ GoodBuffers(connections[fd], sent)
      /\ fd \in DOMAIN sockets /\ connections[fd].peer = sockets[fd].client
  BY Zenon DEF WInv, Data, ConnInv, BufferInv, Ownership, Streams
<1>2. connections[fd].read_buffer \in Seq(Frames) /\ connections[fd].write_buffer \in Seq(Frames)
  BY Zenon, <1>1 DEF GoodConn, Conns
<1>3. /\ sockets[fd] \in Sockets /\ GoodSocket(sockets[fd], clients, sent)
      /\ ~connections[fd].should_close
           => Follows(connections[fd].read_buffer, sockets[fd].wire, sockets[fd].rest)
  BY Zenon, <1>1, StreamOf
<1>4. sockets[fd].wire \in Seq(Frames) /\ sockets[fd].out \in Seq(Frames)
  BY Zenon, <1>3 DEF Sockets
<1> QED
  BY Zenon, <1>1, <1>2, <1>3, <1>4

\* The same when the socket is left alone.
LEMMA ConnOnlyStep ==
  ASSUME WInv, NEW fd \in DOMAIN connections, NEW c,
         connections' = [connections EXCEPT ![fd] = c],
         GoodConn(c), GoodBuffers(c, sent),
         c.connection_token = connections[fd].connection_token, c.peer = connections[fd].peer,
         ~c.should_close => Follows(c.read_buffer, sockets[fd].wire, sockets[fd].rest),
         UNCHANGED <<sockets, clients, sent, next_token, pending_connections, acceptor>>
  PROVE  /\ Data' /\ KeepsTokens /\ DOMAIN connections' = DOMAIN connections
         /\ connections'[fd] = c
         /\ \A x \in DOMAIN connections : x # fd => connections'[x] = connections[x]
<1>1. PICK s \in Sockets : s = sockets[fd] /\ GoodSocket(s, clients, sent)
  BY Zenon, PairOf
<1>2. sockets = [sockets EXCEPT ![fd] = s]
  BY <1>1 DEF WInv, Data, SocketInv
<1> QED
  BY Zenon, <1>1, <1>2, ConnStep

\* A connection whose identity and buffers stay.
LEMMA SameConnStep ==
  ASSUME WInv, NEW fd \in DOMAIN connections, NEW c,
         connections' = [connections EXCEPT ![fd] = c], GoodConn(c),
         c.connection_token = connections[fd].connection_token, c.peer = connections[fd].peer,
         c.read_buffer = connections[fd].read_buffer,
         c.write_buffer = connections[fd].write_buffer,
         ~c.should_close => ~connections[fd].should_close,
         UNCHANGED <<sockets, clients, sent, next_token, pending_connections, acceptor>>
  PROVE  /\ Data' /\ KeepsTokens /\ DOMAIN connections' = DOMAIN connections
         /\ connections'[fd] = c
         /\ \A x \in DOMAIN connections : x # fd => connections'[x] = connections[x]
<1>1. GoodBuffers(c, sent)
  BY Zenon, PairOf DEF GoodBuffers
<1>2. ~c.should_close => Follows(c.read_buffer, sockets[fd].wire, sockets[fd].rest)
  BY Zenon, PairOf
<1> QED
  BY Zenon, <1>1, <1>2, ConnOnlyStep

\* A step of the running coroutine: the loop is busy with its connection.
LEMMA CoroutineLoop ==
  ASSUME WInv, NEW fd \in DOMAIN connections, Running(connections[fd]),
         DOMAIN connections' = DOMAIN connections,
         connections'[fd].connection_token = connections[fd].connection_token,
         \A x \in DOMAIN connections : x # fd => connections'[x] = connections[x],
         UNCHANGED <<loopVars, accepting>>
  PROVE  Control' /\ Round' /\ Armed'
<1>1. pc \in Busy /\ fd = current.fd
  <2>1. GoodConn(connections[fd]) /\ ~ArmedConn(connections[fd])
    <3>1. GoodConn(connections[fd])
      BY Zenon, PairOf
    <3> QED
      BY <3>1 DEF GoodConn, ArmedConn, Running
  <2> QED
    BY ZenonT(40), <2>1 DEF WInv, Armed
<1>2. Control'
  <2>1. pc # "ended"
    BY <1>1 DEF Busy
  <2> QED
    BY ZenonT(40), <2>1 DEF WInv, Control, loopVars
<1>3. Round'
  <2>1. EventsMatchConnections'
    BY Zenon DEF WInv, Round, EventsMatchConnections, loopVars
  <2> QED
    BY Zenon, <2>1 DEF WInv, Round, loopVars
<1>4. Armed'
  BY Zenon, <1>1 DEF WInv, Armed, loopVars
<1> QED
  BY Zenon, <1>2, <1>3, <1>4

-----------------------------------------------------------------------------
(* The loop's steps on connections.                                        *)

\* A connection has been closed: the loop's own state.
LEMMA CloseLoop ==
  ASSUME WInv, NEW fd \in DOMAIN connections,
         DOMAIN connections' = DOMAIN connections \ {fd},
         \A x \in DOMAIN connections' : connections'[x] = connections[x],
         pc \in Busy => fd = current.fd,
         \/ pc \in {"drain_completed", "update_interest"} /\ pc' = "drain_completed"
         \/ pc = "event_end" /\ pc' = "events" /\ local' = local,
         current' = Nobody, UNCHANGED <<accepting, leaving, events>>
  PROVE  Control' /\ Round' /\ Armed'
<1>1. Control'
  <2>1. /\ pc' \in LoopPlaces /\ pc' \notin Busy /\ pc' # "ended" /\ pc # "ended" /\ pc' # "poll"
        /\ pc' # "update_interest" /\ (pc' = "events" => pc = "event_end")
        /\ pc' \notin {"poll", "tick", "event_out", "event_end"}
    BY Zenon DEF LoopPlaces, Busy
  <2> QED
    BY Zenon, <2>1, NobodyIsEvent DEF WInv, Control
<1>2. Round'
  <2>1. EventsMatchConnections'
    BY Zenon, NobodyIsEvent DEF WInv, Round, EventsMatchConnections
  <2> QED
    BY Zenon, <2>1 DEF Round
<1>3. Armed'
  BY Zenon DEF WInv, Armed
<1> QED
  BY Zenon, <1>1, <1>2, <1>3

\* Renewing the interest of a connection.
LEMMA EpolloutGood ==
  ASSUME NEW c, GoodConn(c), NEW b \in BOOLEAN
  PROVE  LET d == [c EXCEPT !.epollout = b] IN
         /\ GoodConn(d) /\ d.epollout = b /\ d.should_close = c.should_close /\ d.at = c.at
         /\ d.connection_token = c.connection_token /\ d.peer = c.peer
         /\ d.read_buffer = c.read_buffer /\ d.write_buffer = c.write_buffer
  BY ZenonT(40) DEF GoodConn, Conns, Places

\* The interest of the connection the loop was busy with has been renewed.
LEMMA RenewLoop ==
  ASSUME WInv, LoopAt(pc), current.fd \in DOMAIN connections,
         UpdateEpollInterest(current.fd),
         DOMAIN connections' = DOMAIN connections,
         \/ pc = "update_interest" /\ pc' = "drain_completed"
         \/ pc = "event_end" /\ pc' = "events",
         current' = Nobody,
         UNCHANGED <<sockets, clients, sent, next_token, pending_connections, acceptor,
                     answered, tasks, responses, accepting, leaving, events, local>>
  PROVE  WInv'
<1>1. PICK fd \in DOMAIN connections : fd = current.fd
  BY Zenon
<1> DEFINE c == connections[fd]
<1>2. PICK d : d = [c EXCEPT !.epollout = HasPendingWrite(c)]
  BY Zenon
<1>3. connections' = [connections EXCEPT ![fd] = d]
  BY <1>1, <1>2 DEF UpdateEpollInterest
<1>4. /\ GoodConn(c) /\ GoodConn(d) /\ d.epollout = HasPendingWrite(c) /\ d.at = c.at
      /\ d.should_close = c.should_close
      /\ d.connection_token = c.connection_token /\ d.peer = c.peer
      /\ d.read_buffer = c.read_buffer /\ d.write_buffer = c.write_buffer
  <2>1. HasPendingWrite(c) \in BOOLEAN
    BY Zenon DEF HasPendingWrite
  <2>2. GoodConn(c)
    BY Zenon, PairOf
  <2> QED
    BY ZenonT(40), <1>2, <2>1, <2>2, EpolloutGood
<1>5. /\ Data' /\ KeepsTokens /\ DOMAIN connections' = DOMAIN connections
      /\ connections'[fd] = d
      /\ \A x \in DOMAIN connections : x # fd => connections'[x] = connections[x]
  <2>1. ~d.should_close => ~c.should_close
    BY Zenon, <1>4
  <2> QED
    BY Zenon, <1>3, <1>4, <2>1, SameConnStep
<1>6. Dispatched' /\ Answers'
  BY Zenon, <1>5, DispatchedStays, AnswersStay DEF WInv
<1>7. Control'
  <2>1. /\ pc' \in LoopPlaces /\ pc' \notin Busy /\ pc' # "ended" /\ pc # "ended" /\ pc' # "poll"
        /\ pc' # "update_interest" /\ (pc' = "events" => pc = "event_end")
        /\ pc' \notin {"poll", "tick", "event_out", "event_end"}
    BY Zenon DEF LoopPlaces, Busy
  <2> QED
    BY Zenon, <2>1, NobodyIsEvent DEF WInv, Control
<1>8. Round'
  <2>1. EventsMatchConnections'
    BY ZenonT(40), <1>4, <1>5, NobodyIsEvent DEF WInv, Round, EventsMatchConnections
  <2> QED
    BY Zenon, <2>1 DEF Round
<1>9. Armed'
  <2>1. ~Running(c)
    BY Zenon DEF LoopAt
  <2>2. ArmedConn(d)
    <3>1. c.at \in Places
      BY ZenonT(40), <1>4 DEF GoodConn, Conns
    <3>2. c.should_close \/ c.at = "wait_read" \/ c.at = "wait_write"
      BY ZenonT(40), <1>4, <2>1, <3>1 DEF GoodConn, Places, Running
    <3> QED
      BY Zenon, <1>4, <3>2 DEF ArmedConn, HasPendingWrite, GoodConn
  <2> QED
    BY Zenon, <1>1, <1>5, <2>2 DEF WInv, Armed
<1> QED
  BY Zenon, <1>5, <1>6, <1>7, <1>8, <1>9 DEF WInv

\* The interest is renewed after a response,
LEMMA UpdateAfterResponseInv ==
  ASSUME WInv, UpdateAfterResponse
  PROVE  WInv'
<1>1. /\ LoopAt("update_interest") /\ pc = "update_interest" /\ pc' = "drain_completed"
      /\ current' = Nobody
      /\ UNCHANGED <<clients, sent, next_token, pending_connections, acceptor,
                     answered, tasks, responses, accepting, leaving, events, local>>
  BY Zenon DEF UpdateAfterResponse, LoopAt, poolVars, queueVars
<1>2. PICK fd \in DOMAIN connections : fd = current.fd
  BY Zenon, <1>1 DEF WInv, Control, Busy
<1>3. CASE UpdateEpollInterest(current.fd) /\ UNCHANGED sockets
  <2>1. DOMAIN connections' = DOMAIN connections
    BY <1>3 DEF UpdateEpollInterest
  <2> QED
    BY Zenon, <1>1, <1>2, <1>3, <2>1, RenewLoop
<1>4. CASE CloseConnection(current.fd)
  <2>1. /\ Data' /\ KeepsTokens /\ DOMAIN connections' = DOMAIN connections \ {fd}
        /\ \A x \in DOMAIN connections' : connections'[x] = connections[x]
    BY Zenon, <1>1, <1>2, <1>4, CloseStep DEF CloseConnection
  <2>2. Dispatched' /\ Answers'
    BY Zenon, <1>1, <2>1, DispatchedStays, AnswersStay DEF WInv
  <2>3. Control' /\ Round' /\ Armed'
    BY Zenon, <1>1, <1>2, <2>1, CloseLoop
  <2> QED
    BY Zenon, <2>1, <2>2, <2>3 DEF WInv
<1> QED
  BY Zenon, <1>3, <1>4 DEF UpdateAfterResponse

\* and after an event; a connection that should close is closed.
LEMMA EventEndInv ==
  ASSUME WInv, EventEnd
  PROVE  WInv'
<1>1. /\ LoopAt("event_end") /\ pc = "event_end" /\ pc' = "events"
      /\ current' = Nobody
      /\ UNCHANGED <<clients, sent, next_token, pending_connections, acceptor,
                     answered, tasks, responses, accepting, leaving, events, local>>
  BY Zenon DEF EventEnd, LoopAt, poolVars, queueVars
<1>2. PICK fd \in DOMAIN connections : fd = current.fd
  BY Zenon, <1>1 DEF WInv, Control, Busy
<1>3. CASE UpdateEpollInterest(current.fd) /\ UNCHANGED sockets
  <2>1. DOMAIN connections' = DOMAIN connections
    BY <1>3 DEF UpdateEpollInterest
  <2> QED
    BY Zenon, <1>1, <1>2, <1>3, <2>1, RenewLoop
<1>4. CASE CloseConnection(current.fd)
  <2>1. /\ Data' /\ KeepsTokens /\ DOMAIN connections' = DOMAIN connections \ {fd}
        /\ \A x \in DOMAIN connections' : connections'[x] = connections[x]
    BY Zenon, <1>1, <1>2, <1>4, CloseStep DEF CloseConnection
  <2>2. Dispatched' /\ Answers'
    BY Zenon, <1>1, <2>1, DispatchedStays, AnswersStay DEF WInv
  <2>3. Control' /\ Round' /\ Armed'
    BY Zenon, <1>1, <1>2, <2>1, CloseLoop
  <2> QED
    BY Zenon, <2>1, <2>2, <2>3 DEF WInv
<1> QED
  BY Zenon, <1>3, <1>4 DEF EventEnd

\* A whole frame, or a first part, is no second part.
LEMMA RequestedAppend ==
  ASSUME NEW s \in Seq(Frames), NEW x \in Frames, Requested(s), x.part # "rest"
  PROVE  Requested(Append(s, x))
<1>1. \A i \in DOMAIN Append(s, x) :
        (i \in DOMAIN s /\ Append(s, x)[i] = s[i]) \/ Append(s, x)[i] = x
  BY SMTT(30), AppendSeq
<1> QED
  BY ZenonT(40), <1>1 DEF Requested

\* Queueing a response keeps a connection good.
LEMMA DeliverGood ==
  ASSUME NEW c, GoodConn(c), Fits(c), NEW r \in Frames
  PROVE  LET d == NotifyReadable(EnqueueResponse(c, r)) IN
         /\ GoodConn(d) /\ d.should_close = c.should_close /\ d.epollout = c.epollout
         /\ d.connection_token = c.connection_token /\ d.peer = c.peer
         /\ d.read_buffer = c.read_buffer /\ d.write_buffer = Append(c.write_buffer, r)
<1>1. c.write_buffer \in Seq(Frames)
  BY Zenon DEF GoodConn, Conns
<1>2. PICK w \in Seq(Frames) : /\ w = Append(c.write_buffer, r) /\ w # <<>>
                               /\ Len(w) <= MaxWriteBuffer
  <2>1. Len(c.write_buffer) < MaxWriteBuffer
    BY DEF Fits
  <2>2. Len(Append(c.write_buffer, r)) <= MaxWriteBuffer
    BY <1>1, <2>1, AppendSeq, MaxWriteBufferAssumption
  <2>3. Append(c.write_buffer, r) \in Seq(Frames) /\ Append(c.write_buffer, r) # <<>>
    BY <1>1, AppendSeq
  <2> QED
    BY Zenon, <2>2, <2>3
<1>3. EnqueueResponse(c, r) = [c EXCEPT !.write_buffer = w, !.write_deadline = TRUE]
  BY <1>2 DEF EnqueueResponse
<1> QED
  BY ZenonT(40), <1>2, <1>3 DEF NotifyReadable, WaitReadableCo, GoodConn, Conns, Places

\* A response is queued by the loop, which then wakes the coroutine; a response
\* without its connection is dropped.
LEMMA DrainCompletedResponsesInv ==
  ASSUME WInv, DrainCompletedResponses
  PROVE  WInv'
<1>1. /\ pc = "drain_completed" /\ local # <<>> /\ local' = Tail(local)
      /\ UNCHANGED <<clients, sent, next_token, pending_connections, acceptor,
                     answered, tasks, responses, accepting, leaving, events>>
  BY Zenon DEF DrainCompletedResponses, LoopAt, poolVars, queueVars
<1>2. PICK t \in GoodCalls : t = Head(local)
  <2>1. Head(local) \in GoodCalls
    BY <1>1 DEF WInv, Dispatched
  <2> QED
    BY Zenon, <2>1
<1>3. current = Nobody
  BY Zenon, <1>1 DEF WInv, Control, Busy
<1>4. ASSUME KeepsTokens PROVE Dispatched' /\ Answers'
  <2>1. /\ tasks \subseteq GoodCalls' /\ responses \in Seq(GoodCalls')
        /\ local \in Seq(GoodCalls') /\ Answers'
    BY Zenon, <1>1, <1>4, DispatchedLater, AnswersStay DEF WInv
  <2>2. Tail(local) \in Seq(GoodCalls')
    BY Zenon, <1>1, <2>1, TailSeq
  <2> QED
    BY Zenon, <1>1, <2>1, <2>2 DEF Dispatched
<1>5. CASE ~TokenMatches(t)
  <2>1. UNCHANGED <<sockets, connections, pc, current>>
    BY Zenon, <1>2, <1>5 DEF DrainCompletedResponses
  <2>2. Data' /\ KeepsTokens
    BY Zenon, <1>1, <2>1, AcceptorStays, DataStays DEF WInv, dataVars
  <2>3. Control'
    BY Zenon, <1>1, <2>1 DEF WInv, Control
  <2>4. Round'
    BY Zenon, <1>1, <2>1 DEF WInv, Round, EventsMatchConnections
  <2>5. Armed'
    BY Zenon, <1>1, <2>1 DEF WInv, Armed
  <2> QED
    BY Zenon, <1>4, <2>2, <2>3, <2>4, <2>5 DEF WInv
<1>6. CASE TokenMatches(t) /\ ~Fits(connections[t.fd])
  <2>1. PICK fd \in DOMAIN connections : fd = t.fd
    BY Zenon, <1>6 DEF TokenMatches
  <2>2. CloseConnection(fd) /\ UNCHANGED <<pc, current>>
    BY Zenon, <1>2, <1>6, <2>1 DEF DrainCompletedResponses
  <2>3. /\ Data' /\ KeepsTokens /\ DOMAIN connections' = DOMAIN connections \ {fd}
        /\ \A x \in DOMAIN connections' : connections'[x] = connections[x]
    BY Zenon, <1>1, <2>2, CloseStep DEF CloseConnection
  <2>4. pc \notin Busy
    BY <1>1 DEF Busy
  <2>5. Control' /\ Round' /\ Armed'
    BY Zenon, <1>1, <1>3, <2>2, <2>3, <2>4, CloseLoop
  <2> QED
    BY Zenon, <1>4, <2>3, <2>5 DEF WInv
<1>7. CASE TokenMatches(t) /\ Fits(connections[t.fd])
  <2>1. PICK fd \in DOMAIN connections : fd = t.fd
    BY Zenon, <1>7 DEF TokenMatches
  <2> DEFINE c == connections[fd]
  <2>2. /\ t.req \in Frames /\ t.req.id \in 1 .. sent /\ t.req.kind \in Kinds
        /\ t.req.part # "rest" /\ t.req.client = c.peer
    BY Zenon, <1>7, <2>1 DEF GoodCalls, GoodCall, Calls
  <2>3. PICK d : d = NotifyReadable(EnqueueResponse(c, t.req))
    BY Zenon
  <2>4. /\ connections' = [connections EXCEPT ![fd] = d]
        /\ pc' = "update_interest" /\ current' = [Nobody EXCEPT !.fd = fd]
        /\ UNCHANGED sockets
    BY SMTT(30), <1>2, <1>7, <2>1, <2>3 DEF DrainCompletedResponses
  <2>5. GoodConn(c) /\ Fits(c) /\ c.write_buffer \in Seq(Frames)
    BY Zenon, <1>7, <2>1, PairOf
  <2>6. /\ GoodConn(d) /\ d.should_close = c.should_close
        /\ d.connection_token = c.connection_token /\ d.peer = c.peer
        /\ d.read_buffer = c.read_buffer /\ d.write_buffer = Append(c.write_buffer, t.req)
    BY Zenon, <2>2, <2>3, <2>5, DeliverGood
  <2>7. GoodBuffers(d, sent)
    <3>1. From(c.write_buffer, c.peer, sent) /\ Requested(c.write_buffer)
      BY Zenon, PairOf DEF GoodBuffers
    <3>2. From(d.write_buffer, d.peer, sent) /\ Requested(d.write_buffer)
      BY Zenon, <2>2, <2>5, <2>6, <3>1, FromAppend, RequestedAppend
    <3> QED
      BY Zenon, <2>6, <3>2, PairOf DEF GoodBuffers
  <2>8. ~d.should_close => Follows(d.read_buffer, sockets[fd].wire, sockets[fd].rest)
    BY Zenon, <2>6, PairOf
  <2>9. /\ Data' /\ KeepsTokens /\ DOMAIN connections' = DOMAIN connections
        /\ connections'[fd] = d
        /\ \A x \in DOMAIN connections : x # fd => connections'[x] = connections[x]
    BY ZenonT(40), <1>1, <2>4, <2>6, <2>7, <2>8, ConnOnlyStep
  <2>10. current' \in Events /\ current'.fd = fd /\ current'.token = 0
    <3>1. fd \in Fds
      BY Zenon DEF WInv, Data, Ownership
    <3> QED
      BY Zenon, <2>4, <3>1 DEF Nobody, Events
  <2>11. Control'
    <3>1. pc' \in LoopPlaces /\ pc' \in Busy
      BY Zenon, <2>4 DEF LoopPlaces, Busy
    <3> QED
      BY ZenonT(40), <1>1, <2>4, <2>9, <2>10, <3>1 DEF WInv, Control
  <2>12. Round'
    <3>1. EventsMatchConnections'
      BY ZenonT(40), <1>1, <2>6, <2>9, <2>10 DEF WInv, Round, EventsMatchConnections
    <3> QED
      BY Zenon, <2>4, <3>1 DEF Round
  <2>13. Armed'
    BY Zenon, <1>1, <2>4, <2>9, <2>10 DEF WInv, Armed, Busy
  <2> QED
    BY Zenon, <1>4, <2>9, <2>11, <2>12, <2>13 DEF WInv
<1> QED
  BY Zenon, <1>5, <1>6, <1>7

\* A connection that times out is in its error state.
LEMMA EnterErrorGood ==
  ASSUME NEW c, GoodConn(c)
  PROVE  /\ GoodConn(EnterError(c)) /\ SameConn(c, EnterError(c)) /\ EnterError(c).should_close
  BY ZenonT(40) DEF EnterError, MarkClosing, GoodConn, Conns, Places, SameConn

\* Tick closes the connections whose deadline has passed.
LEMMA TickInv ==
  ASSUME WInv, Tick
  PROVE  WInv'
<1>1. /\ pc = "tick" /\ pc' = "events"
      /\ UNCHANGED <<sockets, clients, sent, next_token, pending_connections, acceptor,
                     answered, tasks, responses, accepting, leaving, events, current, local>>
  BY Zenon DEF Tick, LoopAt, clientVars, poolVars, queueVars
<1>2. PICK late \in SUBSET DOMAIN connections :
        connections' = [fd \in DOMAIN connections |->
          IF fd \in late THEN EnterError(connections[fd]) ELSE connections[fd]]
  BY Zenon DEF Tick
<1>3. /\ DOMAIN connections' = DOMAIN connections
      /\ connections' = [fd \in DOMAIN connections |-> connections'[fd]]
      /\ \A fd \in DOMAIN connections :
           connections'[fd] = connections[fd] \/ connections'[fd] = EnterError(connections[fd])
  BY Zenon, <1>2
<1>4. \A fd \in DOMAIN connections :
        /\ GoodConn(connections'[fd]) /\ SameConn(connections[fd], connections'[fd])
        /\ connections'[fd] = connections[fd] \/ connections'[fd].should_close
  <2>1. \A fd \in DOMAIN connections : GoodConn(connections[fd])
    BY Zenon, PairOf
  <2> QED
    BY ZenonT(40), <1>3, <2>1, EnterErrorGood DEF SameConn
<1>5. KeepsData
  <2>1. \A fd \in DOMAIN connections' : connections'[fd] \in Conns
    BY Zenon, <1>3, <1>4 DEF GoodConn
  <2>2. connections' \in [DOMAIN connections' -> Conns]
    BY SMTT(30), <1>3, <2>1
  <2>3. DOMAIN sockets' = DOMAIN sockets \ (DOMAIN connections \ DOMAIN connections')
    BY SMTT(30), <1>1, <1>3
  <2>4. sent \in 0 .. MaxRequests /\ sent <= sent
    BY SMTT(30), WorkerLoopAssumption DEF WInv, Data, SocketInv
  <2>5. \A fd \in DOMAIN connections' : Untouched(fd) \/ Advanced(fd)
    <3> SUFFICES ASSUME NEW fd \in DOMAIN connections PROVE Untouched(fd) \/ Advanced(fd)
      BY Zenon, <1>3
    <3>1. GoodBuffers(connections'[fd], sent)
      BY Zenon, <1>4, PairOf DEF SameConn, GoodBuffers
    <3>2. GoodSocket(sockets[fd], clients, sent)
      BY Zenon, PairOf
    <3> QED
      BY Zenon, <1>1, <1>4, <3>1, <3>2 DEF SameConn, Untouched, Advanced
  <2>6. sockets' \in [DOMAIN sockets' -> Sockets]
    BY Zenon, <1>1 DEF WInv, Data, SocketInv
  <2> QED
    BY Zenon, <1>1, <1>3, <2>2, <2>3, <2>4, <2>5, <2>6, AcceptorStays DEF KeepsData
<1>6. Data' /\ KeepsTokens
  BY Zenon, <1>5, DataStep, StepKeepsTokens DEF WInv
<1>7. Dispatched' /\ Answers'
  BY ZenonT(40), <1>1, <1>6, DispatchedStays, AnswersStay DEF WInv
<1>8. Control'
  <2>1. pc' \in LoopPlaces /\ pc' \notin Busy /\ pc \notin Busy
    BY Zenon, <1>1 DEF LoopPlaces, Busy
  <2> QED
    BY ZenonT(40), <1>1, <1>3, <2>1 DEF WInv, Control
<1>9. Round'
  <2>1. EventsMatchConnections'
    BY ZenonT(40), <1>1, <1>3, <1>4 DEF WInv, Round, EventsMatchConnections, SameConn
  <2> QED
    BY Zenon, <1>1, <2>1 DEF Round
<1>10. Armed'
  <2>1. pc \notin Busy
    BY Zenon, <1>1 DEF Busy
  <2> QED
    BY ZenonT(40), <1>3, <1>4, <2>1 DEF WInv, Armed, ArmedConn
<1> QED
  BY Zenon, <1>6, <1>7, <1>8, <1>9, <1>10 DEF WInv

\* An event is applied to the connection: the loop is busy with it.
LEMMA ApplyEvent ==
  ASSUME WInv, NEW fd \in DOMAIN connections, NEW c,
         connections' = [connections EXCEPT ![fd] = c], GoodConn(c),
         SameConn(connections[fd], c), c.should_close = connections[fd].should_close,
         UNCHANGED <<sockets, clients, sent, next_token, pending_connections, acceptor,
                     answered, tasks, responses, accepting, leaving, local>>,
         \/ pc = "events" /\ pc' = "event_out" /\ current' \in events
         \/ pc = "event_out" /\ pc' = "event_end" /\ current' = current,
         current'.fd = fd, events' \subseteq events
  PROVE  WInv'
<1>1. /\ Data' /\ KeepsTokens /\ DOMAIN connections' = DOMAIN connections
      /\ connections'[fd] = c
      /\ \A x \in DOMAIN connections : x # fd => connections'[x] = connections[x]
  BY Zenon, SameConnStep DEF SameConn
<1>2. Dispatched' /\ Answers'
  BY Zenon, <1>1, DispatchedStays, AnswersStay DEF WInv
<1>3. /\ pc' \in LoopPlaces /\ pc' \in Busy /\ pc' # "ended" /\ pc # "ended" /\ pc' # "poll"
      /\ pc' # "update_interest"
      /\ pc \in {"poll", "tick", "events", "event_out", "event_end"}
      /\ pc \notin {"drain_completed", "update_interest"}
  BY Zenon DEF LoopPlaces, Busy
<1>4. Control'
  <2>1. current' \in Events /\ events' \subseteq Events
    BY Zenon DEF WInv, Control
  <2>2. ~leaving /\ local = <<>>
    BY Zenon, <1>3 DEF WInv, Control
  <2> QED
    BY ZenonT(40), <1>1, <1>3, <2>1, <2>2 DEF WInv, Control
<1>5. Round'
  <2>1. \A x \in DOMAIN connections :
          connections'[x].connection_token = connections[x].connection_token
    BY Zenon, <1>1 DEF SameConn
  <2>2. \A e \in events' \cup {current'} : e \in events \cup {current}
    BY Zenon
  <2>3. EventsMatchConnections'
    BY ZenonT(40), <1>1, <2>1, <2>2 DEF WInv, Round, EventsMatchConnections
  <2> QED
    BY Zenon, <2>3 DEF Round
<1>6. Armed'
  BY Zenon, <1>1, <1>3 DEF WInv, Armed, Busy
<1> QED
  BY ZenonT(40), <1>1, <1>2, <1>4, <1>5, <1>6 DEF WInv

\* The notifications keep a connection good.
LEMMA NotifyReadableGood ==
  ASSUME NEW c, GoodConn(c)
  PROVE  /\ GoodConn(NotifyReadable(c)) /\ SameConn(c, NotifyReadable(c))
         /\ NotifyReadable(c).should_close = c.should_close
  BY ZenonT(40) DEF NotifyReadable, WaitReadableCo, GoodConn, Conns, Places, SameConn

\* The next event of the round is taken.
LEMMA TakeEventInv ==
  ASSUME WInv, NEW e \in events, TakeEvent(e)
  PROVE  WInv'
<1>1. /\ pc = "events" /\ events' \subseteq events
      /\ UNCHANGED <<sockets, clients, sent, next_token, pending_connections, acceptor,
                     answered, tasks, responses, accepting, leaving, local>>
  BY Zenon DEF TakeEvent, LoopAt, clientVars, poolVars, queueVars
<1>2. CASE e.fd \in DOMAIN connections
  <2>1. PICK fd \in DOMAIN connections : fd = e.fd
    BY Zenon, <1>2
  <2>2. PICK c : c = IF e.in THEN NotifyReadable(connections[fd]) ELSE connections[fd]
    BY Zenon
  <2>3. connections' = [connections EXCEPT ![fd] = c] /\ pc' = "event_out" /\ current' = e
    BY SMTT(30), <1>2, <2>1, <2>2 DEF TakeEvent
  <2>4. /\ GoodConn(c) /\ SameConn(connections[fd], c)
        /\ c.should_close = connections[fd].should_close
    <3>1. GoodConn(connections[fd])
      BY Zenon, PairOf
    <3> QED
      BY Zenon, <2>2, <3>1, NotifyReadableGood DEF SameConn
  <2> QED
    BY Zenon, <1>1, <2>1, <2>3, <2>4, ApplyEvent
<1>3. CASE e.fd \notin DOMAIN connections
  <2>1. UNCHANGED <<connections, pc, current>>
    BY Zenon, <1>3 DEF TakeEvent
  <2>2. Data' /\ KeepsTokens
    BY ZenonT(40), <1>1, <2>1, AcceptorStays, DataStays DEF WInv, dataVars
  <2>3. Dispatched' /\ Answers'
    BY ZenonT(40), <1>1, <2>2, DispatchedStays, AnswersStay DEF WInv
  <2>4. Control'
    BY ZenonT(40), <1>1, <2>1 DEF WInv, Control
  <2>5. Round'
    BY Zenon, <1>1, <2>1, RoundStays DEF WInv
  <2>6. Armed'
    BY Zenon, <1>1, <2>1 DEF WInv, Armed
  <2> QED
    BY ZenonT(40), <2>2, <2>3, <2>4, <2>5, <2>6 DEF WInv
<1> QED
  BY Zenon, <1>2, <1>3

\* The same for EPOLLOUT.
LEMMA NotifyWritableGood ==
  ASSUME NEW c, GoodConn(c)
  PROVE  /\ GoodConn(NotifyWritable(c)) /\ SameConn(c, NotifyWritable(c))
         /\ NotifyWritable(c).should_close = c.should_close
  BY ZenonT(40) DEF NotifyWritable, WaitWritableCo, GoodConn, Conns, Places, SameConn

\* EPOLLOUT of the same event.
LEMMA EventOutInv ==
  ASSUME WInv, EventOut
  PROVE  WInv'
<1>1. /\ pc = "event_out" /\ pc' = "event_end" /\ current' = current /\ events' = events
      /\ UNCHANGED <<sockets, clients, sent, next_token, pending_connections, acceptor,
                     answered, tasks, responses, accepting, leaving, local>>
  BY Zenon DEF EventOut, LoopAt, clientVars, poolVars, queueVars
<1>2. PICK fd \in DOMAIN connections : fd = current.fd
  BY Zenon, <1>1 DEF WInv, Control, Busy
<1>3. PICK c : c = IF current.out THEN NotifyWritable(connections[fd]) ELSE connections[fd]
  BY Zenon
<1>4. connections' = [connections EXCEPT ![fd] = c]
  BY SMTT(30), <1>2, <1>3 DEF EventOut
<1>5. /\ GoodConn(c) /\ SameConn(connections[fd], c)
      /\ c.should_close = connections[fd].should_close
  <2>1. GoodConn(connections[fd])
    BY Zenon, PairOf
  <2> QED
    BY Zenon, <1>3, <2>1, NotifyWritableGood DEF SameConn
<1> QED
  BY Zenon, <1>1, <1>2, <1>4, <1>5, ApplyEvent

\* The loop, about to end, closes what is left.
LEMMA CloseAllConnectionsInv ==
  ASSUME WInv, CloseAllConnections
  PROVE  WInv'
<1>1. /\ pc = "close_all" /\ pc' = "ended" /\ accepting' = FALSE /\ connections' = <<>>
      /\ sockets' = Without(sockets, DOMAIN connections)
      /\ UNCHANGED <<clients, sent, next_token, pending_connections, acceptor,
                     answered, tasks, responses, leaving, events, current, local>>
  BY Zenon DEF CloseAllConnections, LoopAt, poolVars
<1>2. PICK S : S = DOMAIN connections
  BY Zenon
<1>3. connections' = Without(connections, S)
  <2>1. <<>> = [x \in {} |-> connections[x]]
    OBVIOUS
  <2>2. Without(connections, S) = [x \in DOMAIN connections \ S |-> connections[x]]
    BY Zenon DEF Without
  <2>3. DOMAIN connections \ S = {}
    BY Zenon, <1>2
  <2> QED
    BY Zenon, <1>1, <2>1, <2>2, <2>3
<1>4. Data' /\ KeepsTokens /\ DOMAIN connections' = {}
  BY Zenon, <1>1, <1>2, <1>3, CloseStep
<1>5. Dispatched' /\ Answers'
  BY ZenonT(40), <1>1, <1>4, DispatchedStays, AnswersStay DEF WInv
<1>6. Control'
  <2>1. pc' \in LoopPlaces /\ pc' \notin Busy /\ pc \notin Busy /\ pc' # "update_interest"
    BY Zenon, <1>1 DEF LoopPlaces, Busy
  <2> QED
    BY ZenonT(40), <1>1, <2>1 DEF WInv, Control
<1>7. Round' /\ Armed'
  BY Zenon, <1>1, <1>4 DEF Round, EventsMatchConnections, Armed
<1> QED
  BY Zenon, <1>4, <1>5, <1>6, <1>7 DEF WInv

-----------------------------------------------------------------------------
(* The coroutine.                                                          *)

\* A failed coroutine leaves its connection in its error state.
LEMMA CoroutineFailsGood ==
  ASSUME NEW c, GoodConn(c)
  PROVE  /\ GoodConn(CoroutineFails(c)) /\ SameConn(c, CoroutineFails(c))
         /\ CoroutineFails(c).should_close
  BY ZenonT(40) DEF CoroutineFails, EnterError, MarkClosing, GoodConn, Conns, Places, SameConn

\* The coroutine fails: the connection is closed later, by the loop.
LEMMA CoroutineFailsInv ==
  ASSUME WInv, NEW fd \in DOMAIN connections, Running(connections[fd]),
         connections' = [connections EXCEPT ![fd] = CoroutineFails(@)],
         UNCHANGED <<sockets, clients, sent, answered, acceptor, tasks, pending_connections,
                     responses, accepting, loopVars, next_token>>
  PROVE  WInv'
<1>1. PICK c : c = CoroutineFails(connections[fd])
  BY Zenon
<1>2. GoodConn(c) /\ SameConn(connections[fd], c) /\ c.should_close
  BY Zenon, <1>1, PairOf, CoroutineFailsGood
<1>3. connections' = [connections EXCEPT ![fd] = c]
  BY <1>1
<1>4. /\ Data' /\ KeepsTokens /\ DOMAIN connections' = DOMAIN connections
      /\ connections'[fd] = c
      /\ \A x \in DOMAIN connections : x # fd => connections'[x] = connections[x]
  BY Zenon, <1>2, <1>3, SameConnStep DEF SameConn
<1>5. Dispatched' /\ Answers'
  BY Zenon, <1>4, DispatchedStays, AnswersStay DEF WInv, loopVars
<1>6. Control' /\ Round' /\ Armed'
  BY Zenon, <1>2, <1>4, CoroutineLoop DEF SameConn
<1> QED
  BY Zenon, <1>4, <1>5, <1>6 DEF WInv

\* What is on the wire is read.
LEMMA ReadFollows ==
  ASSUME NEW b \in Seq(Frames), NEW s \in Seq(Frames), NEW r, Joined(b),
         b # <<>> => b[1].part # "rest", Follows(b, s, r)
  PROVE  /\ Joined(b \o s) /\ Follows(b \o s, <<>>, r)
         /\ b \o s # <<>> => (b \o s)[1].part # "rest"
<1> DEFINE t == b \o s
<1>1. /\ Len(b) \in Nat /\ Len(s) \in Nat /\ DOMAIN b = 1 .. Len(b) /\ DOMAIN s = 1 .. Len(s)
      /\ b = <<>> <=> Len(b) = 0
      /\ s = <<>> <=> Len(s) = 0
  BY SMTT(30), EmptySeq
<1>2. /\ t \in Seq(Frames) /\ Len(t) = Len(b) + Len(s) /\ DOMAIN t = 1 .. Len(b) + Len(s)
      /\ \A i \in 1 .. Len(b) : t[i] = b[i]
      /\ \A i \in 1 .. Len(s) : t[Len(b) + i] = s[i]
  BY SMTT(30), ConcatSeq
<1>3. t = <<>> <=> Len(t) = 0
  BY <1>2, EmptySeq
<1> HIDE DEF t
<1>4. ~Opens(<<>>)
  BY SMTT(30) DEF Opens
<1>5. Joined(t)
  <2> SUFFICES ASSUME NEW i \in 1 .. Len(b) + Len(s), i > 1
               PROVE  t[i].part = "rest" <=> t[i - 1].part = "first"
    BY <1>2 DEF Joined
  <2>1. CASE i <= Len(b)
    <3>1. i \in 1 .. Len(b) /\ i - 1 \in 1 .. Len(b)
      BY <1>1, <2>1
    <3>2. t[i] = b[i] /\ t[i - 1] = b[i - 1] /\ i \in DOMAIN b
      BY Zenon, <1>1, <1>2, <3>1
    <3> QED
      BY Zenon, <3>2 DEF Joined
  <2>2. CASE i = Len(b) + 1
    <3>1. t[i] = s[1] /\ t[i - 1] = b[Len(b)] /\ b # <<>> /\ s # <<>>
      BY <1>1, <1>2, <2>2
    <3> QED
      BY SMTT(30), <3>1 DEF Follows, Opens
  <2>3. CASE i > Len(b) + 1
    <3> DEFINE j == i - Len(b)
    <3>1. /\ j \in 1 .. Len(s) /\ j > 1 /\ j - 1 \in 1 .. Len(s)
          /\ i = Len(b) + j /\ i - 1 = Len(b) + (j - 1)
      BY <1>1, <2>3
    <3> HIDE DEF j
    <3>2. t[i] = s[j] /\ t[i - 1] = s[j - 1] /\ j \in DOMAIN s
      BY Zenon, <1>1, <1>2, <3>1
    <3> QED
      BY ZenonT(40), <3>1, <3>2 DEF Follows, Joined
  <2> QED
    BY SMTT(30), <1>1, <2>1, <2>2, <2>3
<1>6. t # <<>> => t[1].part # "rest"
  <2>1. CASE b # <<>>
    BY <1>1, <1>2, <2>1
  <2>2. CASE b = <<>> /\ s # <<>>
    <3>1. t[1] = s[1]
      BY SMTT(30), <1>1, <1>2, <2>2
    <3> QED
      BY SMTT(30), <1>4, <2>2, <3>1 DEF Follows
  <2> QED
    BY SMTT(30), <1>1, <1>2, <1>3, <2>1, <2>2
<1>7. Opens(t) <=> Opens(IF s # <<>> THEN s ELSE b)
  <2>1. CASE s # <<>>
    <3>1. t # <<>> /\ t[Len(t)] = s[Len(s)]
      BY SMTT(30), <1>1, <1>2, <1>3, <2>1
    <3> QED
      BY SMTT(30), <2>1, <3>1 DEF Opens
  <2>2. CASE s = <<>> /\ b # <<>>
    <3>1. t # <<>> /\ t[Len(t)] = b[Len(b)]
      BY SMTT(30), <1>1, <1>2, <1>3, <2>2
    <3> QED
      BY SMTT(30), <2>2, <3>1 DEF Opens
  <2>3. CASE s = <<>> /\ b = <<>>
    BY SMTT(30), <1>1, <1>2, <1>3, <2>3 DEF Opens
  <2> QED
    BY SMTT(30), <2>1, <2>2, <2>3
<1>8. Joined(<<>>)
  BY DEF Joined
<1> QED
  BY Zenon, <1>5, <1>6, <1>7, <1>8 DEF Follows, t

\* Reading keeps a connection good.
LEMMA OnReadableGood ==
  ASSUME NEW c, GoodConn(c), c.at = "read", NEW parts \in Seq(Frames), NEW closed \in BOOLEAN
  PROVE  LET d == OnReadable(c, parts, closed) IN
         /\ GoodConn(d) /\ d.should_close = closed /\ d.epollout = c.epollout
         /\ d.connection_token = c.connection_token /\ d.peer = c.peer
         /\ d.write_buffer = c.write_buffer
         /\ d.read_buffer = IF closed THEN c.read_buffer ELSE c.read_buffer \o parts
<1>1. c.read_buffer \in Seq(Frames)
  BY Zenon DEF GoodConn, Conns
<1>2. PICK b \in Seq(Frames) : b = c.read_buffer \o parts
  <2>1. c.read_buffer \o parts \in Seq(Frames)
    BY <1>1, ConcatSeq
  <2> QED
    BY Zenon, <2>1
<1>3. Buffered(c, parts) = [c EXCEPT !.read_buffer = b]
  BY <1>2 DEF Buffered
<1> QED
  BY ZenonT(40), <1>2, <1>3 DEF OnReadable, MarkClosing, GoodConn, Conns, Places

\* The coroutine reads.
LEMMA ReadRequestCoInv ==
  ASSUME WInv, NEW fd \in DOMAIN connections, ReadRequestCo(fd)
  PROVE  WInv'
<1> DEFINE c == connections[fd]
           s == sockets[fd]
<1>1. /\ c.at = "read" /\ Running(c)
      /\ UNCHANGED <<clients, sent, answered, acceptor, tasks, pending_connections, responses,
                     accepting, loopVars, next_token>>
  BY Zenon DEF ReadRequestCo, Running, poolVars, queueVars
<1>2. CASE /\ connections' = [connections EXCEPT ![fd] = CoroutineFails(@)]
           /\ UNCHANGED sockets
  BY Zenon, <1>1, <1>2, CoroutineFailsInv
<1>3. CASE /\ connections' = [connections EXCEPT ![fd] = OnReadable(@, s.wire, s.fin)]
           /\ sockets' = [sockets EXCEPT ![fd].wire = <<>>]
  <2>1. PICK d : d = OnReadable(c, s.wire, s.fin)
    BY Zenon
  <2>2. /\ GoodConn(c) /\ GoodBuffers(c, sent) /\ c.peer = s.client
        /\ fd \in DOMAIN sockets /\ s \in Sockets /\ GoodSocket(s, clients, sent)
        /\ ~c.should_close => Follows(c.read_buffer, s.wire, s.rest)
        /\ c.read_buffer \in Seq(Frames) /\ s.wire \in Seq(Frames)
    BY Zenon, PairOf
  <2>3. s.fin \in BOOLEAN
    BY Zenon, <2>2 DEF Sockets
  <2>4. /\ GoodConn(d) /\ d.should_close = s.fin
        /\ d.connection_token = c.connection_token /\ d.peer = c.peer
        /\ d.write_buffer = c.write_buffer
        /\ d.read_buffer = IF s.fin THEN c.read_buffer ELSE c.read_buffer \o s.wire
    BY ZenonT(40), <1>1, <2>1, <2>2, <2>3, OnReadableGood
  <2>5. PICK w \in Seq(Frames) : w = <<>> /\ DOMAIN w = {}
    <3>1. <<>> \in Seq(Frames) /\ DOMAIN <<>> = {}
      OBVIOUS
    <3> QED
      BY Zenon, <3>1
  <2>6. PICK t : t = [s EXCEPT !.wire = w]
    BY Zenon
  <2>7. t \in Sockets /\ t.client = s.client /\ t.wire = w /\ t.rest = s.rest /\ t.out = s.out
    BY Zenon, <2>2, <2>6 DEF Sockets
  <2>8. /\ connections' = [connections EXCEPT ![fd] = d]
        /\ sockets' = [sockets EXCEPT ![fd] = t]
    BY <1>3, <2>1, <2>5, <2>6
  <2>9. GoodSocket(t, clients, sent)
    BY ZenonT(40), <2>2, <2>5, <2>7 DEF GoodSocket, From
  <2>10. ~c.should_close
    BY ZenonT(40), <1>1, <2>2 DEF GoodConn
  <2>11. LET b == c.read_buffer \o s.wire IN
         /\ From(b, c.peer, sent) /\ Joined(b) /\ Follows(b, <<>>, s.rest)
         /\ b # <<>> => b[1].part # "rest"
    <3>1. From(c.read_buffer, c.peer, sent) /\ From(s.wire, c.peer, sent)
      BY Zenon, <2>2 DEF GoodBuffers, GoodSocket
    <3>2. From(c.read_buffer \o s.wire, c.peer, sent)
      BY ZenonT(40), <2>2, <3>1, FromConcat
    <3>3. /\ Joined(c.read_buffer) /\ (c.read_buffer # <<>> => c.read_buffer[1].part # "rest")
          /\ Follows(c.read_buffer, s.wire, s.rest)
      BY Zenon, <2>2, <2>10 DEF GoodBuffers
    <3>4. c.read_buffer \in Seq(Frames) /\ s.wire \in Seq(Frames)
      BY Zenon, <2>2
    <3> HIDE DEF c, s
    <3> QED
      BY Zenon, <3>2, <3>3, <3>4, ReadFollows
  <2>12. /\ GoodBuffers(d, sent)
         /\ ~d.should_close => Follows(d.read_buffer, t.wire, t.rest)
    <3>1. CASE s.fin
      <4>1. d.read_buffer = c.read_buffer
        BY ZenonT(40), <2>4, <3>1
      <4>2. d.should_close
        BY SMTT(30), <2>4, <3>1
      <4> QED
        BY ZenonT(40), <2>2, <2>4, <4>1, <4>2 DEF GoodBuffers
    <3>2. CASE ~s.fin
      BY ZenonT(40), <2>2, <2>4, <2>5, <2>7, <2>11, <3>2 DEF GoodBuffers
    <3> QED
      BY Zenon, <3>1, <3>2
  <2>13. /\ Data' /\ KeepsTokens /\ DOMAIN connections' = DOMAIN connections
         /\ connections'[fd] = d
         /\ \A x \in DOMAIN connections : x # fd => connections'[x] = connections[x]
    BY ZenonT(40), <1>1, <2>2, <2>4, <2>7, <2>8, <2>9, <2>12, ConnStep
  <2>14. Dispatched' /\ Answers'
    BY ZenonT(40), <1>1, <2>13, DispatchedStays, AnswersStay DEF WInv, loopVars
  <2>15. Control' /\ Round' /\ Armed'
    BY ZenonT(40), <1>1, <2>4, <2>13, CoroutineLoop
  <2> QED
    BY Zenon, <2>13, <2>14, <2>15 DEF WInv
<1> QED
  BY Zenon, <1>2, <1>3 DEF ReadRequestCo

\* Second parts come from neither of two sequences without them.
LEMMA RequestedConcat ==
  ASSUME NEW s \in Seq(Frames), NEW t \in Seq(Frames), Requested(s), Requested(t)
  PROVE  Requested(s \o t)
<1> QED
  BY ConcatPlaces DEF Requested

\* Back at the top of the coroutine.
LEMMA HandleConnectionCoGood ==
  ASSUME NEW c, GoodConn(c), c.at \in {"parse", "flush"}
  PROVE  /\ GoodConn(HandleConnectionCo(c)) /\ SameConn(c, HandleConnectionCo(c))
         /\ HandleConnectionCo(c).should_close = c.should_close
  BY ZenonT(40) DEF HandleConnectionCo, WaitReadableCo, WaitWritableCo, HasPendingWrite, GoodConn, Conns,
         Places, SameConn

\* Writing keeps a connection good.
LEMMA OnWritableGood ==
  ASSUME NEW c, GoodConn(c), c.at = "flush", NEW n \in 0 .. Len(c.write_buffer)
  PROVE  LET d == OnWritable(c, n) IN
         /\ GoodConn(d) /\ d.should_close = c.should_close /\ d.epollout = c.epollout
         /\ d.connection_token = c.connection_token /\ d.peer = c.peer
         /\ d.read_buffer = c.read_buffer
         /\ d.write_buffer = SubSeq(c.write_buffer, n + 1, Len(c.write_buffer))
<1>1. c.write_buffer \in Seq(Frames) /\ Len(c.write_buffer) <= MaxWriteBuffer
  BY Zenon DEF GoodConn, Conns
<1>2. PICK w \in Seq(Frames) : /\ w = SubSeq(c.write_buffer, n + 1, Len(c.write_buffer))
                               /\ Len(w) <= MaxWriteBuffer
                               /\ n < Len(c.write_buffer) <=> w # <<>>
  <2>1. SubSeq(c.write_buffer, n + 1, Len(c.write_buffer)) \in Seq(Frames)
    BY SMTT(30), <1>1
  <2>2. Len(SubSeq(c.write_buffer, n + 1, Len(c.write_buffer))) = Len(c.write_buffer) - n
    BY SMTT(30), <1>1
  <2>3. Len(SubSeq(c.write_buffer, n + 1, Len(c.write_buffer))) <= MaxWriteBuffer
    BY SMTT(30), <1>1, <2>2, MaxWriteBufferAssumption
  <2>4. n < Len(c.write_buffer)
          <=> SubSeq(c.write_buffer, n + 1, Len(c.write_buffer)) # <<>>
    <3>1. Len(c.write_buffer) \in Nat
      BY SMTT(30), <1>1, EmptySeq
    <3>2. n < Len(c.write_buffer) <=> Len(c.write_buffer) - n # 0
      BY <3>1
    <3>3. SubSeq(c.write_buffer, n + 1, Len(c.write_buffer)) = <<>>
            <=> Len(c.write_buffer) - n = 0
      BY Zenon, <2>1, <2>2, EmptySeq
    <3> QED
      BY Zenon, <3>2, <3>3
  <2> QED
    BY ZenonT(40), <2>1, <2>3, <2>4
<1>3. PICK e : e = [c EXCEPT !.write_buffer = w,
                          !.write_deadline = n < Len(c.write_buffer)]
  OBVIOUS
<1>4. OnWritable(c, n) = HandleConnectionCo(e)
  BY Zenon, <1>2, <1>3 DEF OnWritable
<1>5. /\ GoodConn(e) /\ e.should_close = c.should_close /\ e.epollout = c.epollout
      /\ e.connection_token = c.connection_token /\ e.peer = c.peer /\ e.at = "flush"
      /\ e.read_buffer = c.read_buffer /\ e.write_buffer = w
  <2>1. (n < Len(c.write_buffer)) \in BOOLEAN
    OBVIOUS
  <2> QED
    BY ZenonT(40), <1>2, <1>3, <2>1 DEF GoodConn, Conns, Places
<1>6. /\ GoodConn(HandleConnectionCo(e)) /\ SameConn(e, HandleConnectionCo(e))
      /\ HandleConnectionCo(e).should_close = e.should_close
  BY ZenonT(40), <1>5, HandleConnectionCoGood
<1> QED
  BY Zenon, <1>2, <1>4, <1>5, <1>6 DEF SameConn

\* The elements of a subsequence,
LEMMA SubSeqSeq ==
  ASSUME NEW S, NEW s \in Seq(S), NEW m \in 1 .. Len(s) + 1, NEW n \in 0 .. Len(s), m <= n + 1
  PROVE  /\ SubSeq(s, m, n) \in Seq(S) /\ Len(SubSeq(s, m, n)) = n - m + 1
         /\ DOMAIN SubSeq(s, m, n) = 1 .. n - m + 1
         /\ \A i \in 1 .. n - m + 1 : SubSeq(s, m, n)[i] = s[m + i - 1]
  OBVIOUS

\* of a suffix,
LEMMA SuffixSeq ==
  ASSUME NEW S, NEW s \in Seq(S), NEW n \in 0 .. Len(s)
  PROVE  LET t == SubSeq(s, n + 1, Len(s)) IN
         \A i \in DOMAIN t : \E j \in DOMAIN s : t[i] = s[j]
<1> DEFINE t == SubSeq(s, n + 1, Len(s))
<1>1. /\ Len(s) \in Nat /\ DOMAIN s = 1 .. Len(s) /\ n + 1 \in 1 .. Len(s) + 1
      /\ Len(s) \in 0 .. Len(s) /\ n + 1 <= Len(s) + 1
  BY SMTT(30), EmptySeq
<1>2. /\ DOMAIN t = 1 .. Len(s) - (n + 1) + 1
      /\ \A i \in 1 .. Len(s) - (n + 1) + 1 : t[i] = s[n + 1 + i - 1]
  BY SMTT(30), <1>1, SubSeqSeq
<1> HIDE DEF t
<1>3. \A i \in DOMAIN t : t[i] = s[n + 1 + i - 1] /\ n + 1 + i - 1 \in DOMAIN s
  BY SMTT(30), <1>1, <1>2
<1> QED
  BY Zenon, <1>3 DEF t

\* and of a prefix.
LEMMA PrefixSeq ==
  ASSUME NEW S, NEW s \in Seq(S), NEW n \in 0 .. Len(s)
  PROVE  LET h == SubSeq(s, 1, n) IN
         /\ h \in Seq(S) /\ Len(h) = n
         /\ \A i \in DOMAIN h : \E j \in DOMAIN s : h[i] = s[j]
<1> DEFINE h == SubSeq(s, 1, n)
<1>1. Len(s) \in Nat /\ DOMAIN s = 1 .. Len(s) /\ 1 \in 1 .. Len(s) + 1 /\ 1 <= n + 1
  BY SMTT(30), EmptySeq
<1>2. /\ h \in Seq(S) /\ Len(h) = n - 1 + 1 /\ DOMAIN h = 1 .. n - 1 + 1
      /\ \A i \in 1 .. n - 1 + 1 : h[i] = s[1 + i - 1]
  BY SMTT(30), <1>1, SubSeqSeq
<1> HIDE DEF h
<1>3. \A i \in DOMAIN h : h[i] = s[1 + i - 1] /\ 1 + i - 1 \in DOMAIN s
  BY SMTT(30), <1>1, <1>2
<1>4. Len(h) = n
  BY <1>2
<1> QED
  BY ZenonT(40), <1>2, <1>3, <1>4 DEF h

\* The coroutine writes as much as the socket takes.
LEMMA WriteResponseCoInv ==
  ASSUME WInv, NEW fd \in DOMAIN connections, WriteResponseCo(fd)
  PROVE  WInv'
<1> DEFINE c == connections[fd]
           s == sockets[fd]
           room == SendBuffer - Len(s.out)
           m == IF room < Len(c.write_buffer) THEN room ELSE Len(c.write_buffer)
<1>1. /\ c.at = "flush" /\ Running(c)
      /\ UNCHANGED <<clients, sent, answered, acceptor, tasks, pending_connections, responses,
                     accepting, loopVars, next_token>>
  BY Zenon DEF WriteResponseCo, Running, poolVars, queueVars
<1>2. CASE /\ connections' = [connections EXCEPT ![fd] = CoroutineFails(@)]
           /\ UNCHANGED sockets
  BY Zenon, <1>1, <1>2, CoroutineFailsInv
<1>3. CASE /\ connections' = [connections EXCEPT ![fd] = OnWritable(@, m)]
           /\ sockets' = [sockets EXCEPT ![fd].out = @ \o SubSeq(c.write_buffer, 1, m)]
  <2>1. /\ GoodConn(c) /\ GoodBuffers(c, sent) /\ c.peer = s.client
        /\ fd \in DOMAIN sockets /\ s \in Sockets /\ GoodSocket(s, clients, sent)
        /\ ~c.should_close => Follows(c.read_buffer, s.wire, s.rest)
        /\ c.write_buffer \in Seq(Frames) /\ s.out \in Seq(Frames)
    BY Zenon, PairOf
  <2>2. PICK n \in 0 .. Len(c.write_buffer) : n = m /\ Len(s.out) + n <= SendBuffer
    <3>1. Len(s.out) \in Nat /\ Len(c.write_buffer) \in Nat /\ Len(s.out) <= SendBuffer
      BY Zenon, <2>1, EmptySeq DEF GoodSocket
    <3>2. m \in 0 .. Len(c.write_buffer) /\ Len(s.out) + m <= SendBuffer
      <4>1. \A a, b \in Nat : a <= SendBuffer =>
              LET k == IF SendBuffer - a < b THEN SendBuffer - a ELSE b
              IN k \in 0 .. b /\ a + k <= SendBuffer
        BY WorkerLoopAssumption
      <4> QED
        BY ZenonT(40), <3>1, <4>1
    <3> QED
      BY Zenon, <3>2
  <2> HIDE DEF m
  <2>3. PICK d : d = OnWritable(c, n)
    BY Zenon
  <2>4. /\ GoodConn(d) /\ d.should_close = c.should_close
        /\ d.connection_token = c.connection_token /\ d.peer = c.peer
        /\ d.read_buffer = c.read_buffer
        /\ d.write_buffer = SubSeq(c.write_buffer, n + 1, Len(c.write_buffer))
    BY ZenonT(40), <1>1, <2>1, <2>3, OnWritableGood
  <2>5. PICK h \in Seq(Frames) :
          /\ h = SubSeq(c.write_buffer, 1, n) /\ Len(h) = n
          /\ \A i \in DOMAIN h : \E j \in DOMAIN c.write_buffer : h[i] = c.write_buffer[j]
    <3>1. /\ SubSeq(c.write_buffer, 1, n) \in Seq(Frames)
          /\ Len(SubSeq(c.write_buffer, 1, n)) = n
          /\ \A i \in DOMAIN SubSeq(c.write_buffer, 1, n) :
               \E j \in DOMAIN c.write_buffer :
                 SubSeq(c.write_buffer, 1, n)[i] = c.write_buffer[j]
      <4> HIDE DEF c, s
      <4> QED
        BY SMTT(30), <2>1, PrefixSeq
    <3> QED
      BY ZenonT(40), <3>1
  <2>6. PICK o \in Seq(Frames) : o = s.out \o h /\ Len(o) <= SendBuffer
    <3>1. s.out \o h \in Seq(Frames) /\ Len(s.out \o h) = Len(s.out) + Len(h)
      BY SMTT(30), <2>1, ConcatSeq
    <3>2. Len(s.out \o h) <= SendBuffer
      BY Zenon, <2>2, <2>5, <3>1
    <3> QED
      BY ZenonT(40), <3>1, <3>2
  <2>7. PICK t : t = [s EXCEPT !.out = o]
    BY Zenon
  <2>8. t \in Sockets /\ t.client = s.client /\ t.wire = s.wire /\ t.rest = s.rest /\ t.out = o
    BY ZenonT(40), <2>1, <2>7 DEF Sockets
  <2>9. /\ connections' = [connections EXCEPT ![fd] = d]
        /\ sockets' = [sockets EXCEPT ![fd] = t]
    BY SMTT(30), <1>3, <2>2, <2>3, <2>5, <2>6, <2>7
  <2>10. From(h, c.peer, sent) /\ Requested(h)
    <3>1. From(c.write_buffer, c.peer, sent) /\ Requested(c.write_buffer)
      BY Zenon, <2>1 DEF GoodBuffers
    <3> HIDE DEF c, s
    <3>2. \A i \in DOMAIN h : \E j \in DOMAIN c.write_buffer : h[i] = c.write_buffer[j]
      BY Zenon, <2>5
    <3> QED
      BY ZenonT(40), <3>1, <3>2, FromPart, RequestedPart
  <2>11. GoodSocket(t, clients, sent)
    <3>1. From(o, c.peer, sent) /\ Requested(o)
      BY ZenonT(40), <2>1, <2>5, <2>6, <2>10, FromConcat, RequestedConcat DEF GoodSocket
    <3> QED
      BY ZenonT(40), <2>1, <2>6, <2>8, <3>1 DEF GoodSocket
  <2>12. GoodBuffers(d, sent)
    <3>1. \A i \in DOMAIN d.write_buffer :
            \E j \in DOMAIN c.write_buffer : d.write_buffer[i] = c.write_buffer[j]
      <4>1. LET w == SubSeq(c.write_buffer, n + 1, Len(c.write_buffer)) IN
            \A i \in DOMAIN w : \E j \in DOMAIN c.write_buffer : w[i] = c.write_buffer[j]
        BY Zenon, <2>1, SuffixSeq
      <4> QED
        BY Zenon, <2>4, <4>1
    <3> QED
      BY ZenonT(40), <2>1, <2>4, <3>1, FromPart, RequestedPart DEF GoodBuffers
  <2>13. ~d.should_close => Follows(d.read_buffer, t.wire, t.rest)
    BY Zenon, <2>1, <2>4, <2>8
  <2>14. /\ Data' /\ KeepsTokens /\ DOMAIN connections' = DOMAIN connections
         /\ connections'[fd] = d
         /\ \A x \in DOMAIN connections : x # fd => connections'[x] = connections[x]
    BY ZenonT(40), <1>1, <2>4, <2>8, <2>9, <2>11, <2>12, <2>13, ConnStep
  <2>15. Dispatched' /\ Answers'
    BY ZenonT(40), <1>1, <2>14, DispatchedStays, AnswersStay DEF WInv, loopVars
  <2>16. Control' /\ Round' /\ Armed'
    BY ZenonT(40), <1>1, <2>4, <2>14, CoroutineLoop
  <2> QED
    BY ZenonT(40), <2>14, <2>15, <2>16 DEF WInv
<1> QED
  BY Zenon, <1>2, <1>3 DEF WriteResponseCo

\* The lengths of a stream and of what is left of it.
LEMMA Sizes ==
  ASSUME NEW n \in Nat, NEW k \in Nat, k <= n, NEW m, m = n - k
  PROVE  /\ m \in Nat /\ m + k = n /\ 1 + k - 1 = k
         /\ m = 0 => n = k
         /\ m # 0 => 1 \in 1 .. n - k /\ m \in 1 .. n - k
  OBVIOUS

\* Where second parts are, at one place.
LEMMA JoinedAt ==
  ASSUME NEW s, Joined(s), NEW i \in DOMAIN s, i > 1, NEW j, j = i - 1
  PROVE  s[i].part = "rest" <=> s[j].part = "first"
  BY ZenonT(40) DEF Joined

\* What is left of a buffer without its first frame.
LEMMA LeftSeq ==
  ASSUME NEW s \in Seq(Frames), s # <<>>, Len(s) > 1 \/ Head(s).part = "whole"
  PROVE  /\ Left(s) \in Seq(Frames)
         /\ \E k \in {1, 2} : /\ k <= Len(s) /\ (k = 1 <=> Head(s).part = "whole")
                              /\ Len(Left(s)) = Len(s) - k
                              /\ \A i \in 1 .. Len(s) - k : Left(s)[i] = s[i + k]
<1>1. CASE Head(s).part = "whole"
  <2>1. Left(s) = Tail(s) /\ 1 <= Len(s)
    BY SMTT(30), <1>1 DEF Left
  <2> QED
    BY SMTT(30), <1>1, <2>1, TailSeq
<1>2. CASE Head(s).part # "whole"
  <2>0. Len(s) \in Nat /\ 2 <= Len(s)
    BY SMTT(30), <1>2, EmptySeq
  <2>1. Left(s) = Tail(Tail(s))
    BY SMTT(30), <1>2 DEF Left
  <2>2. /\ Tail(s) \in Seq(Frames) /\ Len(Tail(s)) = Len(s) - 1
        /\ \A i \in 1 .. Len(s) - 1 : Tail(s)[i] = s[i + 1]
    BY TailSeq
  <2>3. Tail(s) # <<>>
    <3>1. Len(s) - 1 # 0
      BY SMTT(30), <2>0
    <3> QED
      BY Zenon, <2>2, <3>1, EmptySeq
  <2>4. /\ Tail(Tail(s)) \in Seq(Frames) /\ Len(Tail(Tail(s))) = Len(Tail(s)) - 1
        /\ \A i \in 1 .. Len(Tail(s)) - 1 : Tail(Tail(s))[i] = Tail(s)[i + 1]
    BY <2>2, <2>3, TailSeq
  <2>5. \A i \in 1 .. Len(s) - 2 : Tail(Tail(s))[i] = s[i + 2]
    BY SMTT(30), <2>0, <2>2, <2>4
  <2>6. Len(Left(s)) = Len(s) - 2
    BY SMTT(30), <2>1, <2>2, <2>4
  <2> QED
    BY SMTT(30), <1>2, <2>0, <2>1, <2>4, <2>5, <2>6
<1> QED
  BY SMTT(30), <1>1, <1>2

\* A frame that has arrived is taken out of the read buffer.
LEMMA LeftFollows ==
  ASSUME NEW b \in Seq(Frames), b # <<>>, Len(b) > 1 \/ Head(b).part = "whole",
         Joined(b), b[1].part # "rest", NEW s, NEW r, Follows(b, s, r)
  PROVE  /\ Joined(Left(b)) /\ Follows(Left(b), s, r)
         /\ Left(b) # <<>> => Left(b)[1].part # "rest"
<1> DEFINE t == Left(b)
<1>1. Len(b) \in Nat /\ DOMAIN b = 1 .. Len(b) /\ Len(b) # 0
  BY EmptySeq
<1>2. PICK k \in {1, 2} : /\ k <= Len(b) /\ (k = 1 <=> Head(b).part = "whole")
                          /\ Len(t) = Len(b) - k
                          /\ \A i \in 1 .. Len(b) - k : t[i] = b[i + k]
  BY Zenon, LeftSeq
<1>2a. k \in Nat /\ k <= Len(b)
  BY SMTT(30), <1>2
<1>3. t \in Seq(Frames) /\ DOMAIN t = 1 .. Len(b) - k /\ (t = <<>> <=> Len(t) = 0)
  BY SMTT(30), <1>2, LeftSeq, EmptySeq
<1> HIDE DEF t
<1>4. b[k].part # "first"
  <2>1. Head(b) = b[1] /\ b[1] \in Frames
    BY <1>1
  <2>2. CASE k = 1
    BY SMTT(30), <1>2, <2>1, <2>2
  <2>3. CASE k = 2
    <3>1. b[1].part = "first"
      BY SMTT(30), <1>2, <2>1, <2>3 DEF Frames, Parts
    <3>2. 2 \in DOMAIN b /\ 2 > 1 /\ 1 = 2 - 1
      BY <1>1, <1>2, <2>3
    <3>3. b[2].part = "rest" <=> b[1].part = "first"
      BY ZenonT(40), <3>2, JoinedAt
    <3> QED
      BY SMTT(30), <2>3, <3>1, <3>3
  <2> QED
    BY <2>2, <2>3
<1>5. ASSUME NEW i \in 1 .. Len(b) - k
      PROVE  t[i].part = "rest" <=> b[i + k - 1].part = "first"
  <2> DEFINE p == i + k
             q == i + k - 1
  <2>1. p \in 1 .. Len(b) /\ p > 1 /\ q = p - 1
    BY SMTT(30), <1>1
  <2>2. t[i] = b[p]
    BY <1>2
  <2>3. p \in DOMAIN b
    BY <1>1, <2>1
  <2> HIDE DEF p, q
  <2>4. b[p].part = "rest" <=> b[q].part = "first"
    BY Zenon, <2>1, <2>3, JoinedAt
  <2> QED
    BY Zenon, <2>2, <2>4 DEF q
<1>6. Joined(t)
  <2> SUFFICES ASSUME NEW i \in 1 .. Len(b) - k, i > 1
               PROVE  t[i].part = "rest" <=> t[i - 1].part = "first"
    BY SMTT(30), <1>3 DEF Joined
  <2>1. t[i - 1] = b[i + k - 1]
    BY SMTT(30), <1>1, <1>2
  <2> QED
    BY SMTT(30), <1>5, <2>1
<1>7. t # <<>> => t[1].part # "rest"
  <2> SUFFICES ASSUME t # <<>> PROVE t[1].part # "rest"
    OBVIOUS
  <2>0. Len(t) = Len(b) - k /\ Len(t) # 0
    BY Zenon, <1>2, <1>3
  <2>1. 1 \in 1 .. Len(b) - k /\ 1 + k - 1 = k
    BY ZenonT(40), <1>1, <1>2a, <2>0, Sizes
  <2> QED
    BY SMTT(30), <1>4, <1>5, <2>1
<1>8. Opens(t) <=> Opens(b)
  <2>1. CASE t = <<>>
    <3>0. Len(t) = 0 /\ Len(t) = Len(b) - k
      BY Zenon, <1>2, <1>3, <2>1
    <3>1. Len(b) = k
      BY ZenonT(40), <1>1, <1>2a, <3>0, Sizes
    <3> QED
      BY <1>4, <2>1, <3>1 DEF Opens
  <2>2. CASE t # <<>>
    <3>0. Len(t) # 0 /\ Len(t) = Len(b) - k
      BY Zenon, <1>2, <1>3, <2>2
    <3>1. Len(t) \in 1 .. Len(b) - k /\ Len(t) + k = Len(b)
      BY ZenonT(40), <1>1, <1>2a, <3>0, Sizes
    <3>2. t[Len(t)] = b[Len(b)]
      BY <1>2, <3>1
    <3> QED
      BY SMTT(30), <2>2, <3>2 DEF Opens
  <2> QED
    BY SMTT(30), <2>1, <2>2
<1> QED
  BY Zenon, <1>6, <1>7, <1>8 DEF Follows, t

\* Each element left was in the buffer.
LEMMA LeftPart ==
  ASSUME NEW s \in Seq(Frames), s # <<>>, Len(s) > 1 \/ Head(s).part = "whole"
  PROVE  \A i \in DOMAIN Left(s) : \E j \in DOMAIN s : Left(s)[i] = s[j]
<1>1. Len(s) \in Nat /\ DOMAIN s = 1 .. Len(s)
  BY EmptySeq
<1>2. PICK k \in {1, 2} : /\ k <= Len(s) /\ Len(Left(s)) = Len(s) - k
                          /\ \A i \in 1 .. Len(s) - k : Left(s)[i] = s[i + k]
  BY Zenon, LeftSeq
<1>3. DOMAIN Left(s) = 1 .. Len(s) - k
  BY SMTT(30), <1>2, LeftSeq
<1>4. \A i \in 1 .. Len(s) - k : i + k \in 1 .. Len(s)
  BY <1>1, <1>2
<1> QED
  BY Zenon, <1>1, <1>2, <1>3, <1>4

\* The frame at the head of the buffer is taken out.
LEMMA ConsumedBuffers ==
  ASSUME WInv, NEW fd \in DOMAIN connections, ~connections[fd].should_close,
         Complete(connections[fd]), NEW d, d.peer = connections[fd].peer,
         d.read_buffer = Left(connections[fd].read_buffer),
         From(d.write_buffer, d.peer, sent), Requested(d.write_buffer)
  PROVE  /\ GoodBuffers(d, sent) /\ Follows(d.read_buffer, sockets[fd].wire, sockets[fd].rest)
<1> DEFINE c == connections[fd]
           b == c.read_buffer
<1>1. /\ b \in Seq(Frames) /\ b # <<>> /\ (Len(b) > 1 \/ Head(b).part = "whole")
      /\ Joined(b) /\ b[1].part # "rest" /\ From(b, c.peer, sent)
      /\ Follows(b, sockets[fd].wire, sockets[fd].rest)
  BY Zenon, PairOf DEF Complete, GoodBuffers
<1> HIDE DEF b
<1>2. /\ Joined(Left(b)) /\ Follows(Left(b), sockets[fd].wire, sockets[fd].rest)
      /\ Left(b) # <<>> => Left(b)[1].part # "rest"
  BY Zenon, <1>1, LeftFollows
<1>3. \A i \in DOMAIN Left(b) : \E j \in DOMAIN b : Left(b)[i] = b[j]
  BY Zenon, <1>1, LeftPart
<1>4. From(Left(b), c.peer, sent)
  BY Zenon, <1>1, <1>3, FromPart
<1> QED
  BY Zenon, <1>2, <1>4 DEF GoodBuffers, b

\* The loop and the pool after a coroutine step that dispatches nothing.
LEMMA ParseStep ==
  ASSUME WInv, NEW fd \in DOMAIN connections, Running(connections[fd]), NEW d,
         connections' = [connections EXCEPT ![fd] = d], GoodConn(d), GoodBuffers(d, sent),
         d.connection_token = connections[fd].connection_token, d.peer = connections[fd].peer,
         ~d.should_close => Follows(d.read_buffer, sockets[fd].wire, sockets[fd].rest),
         UNCHANGED <<sockets, clients, sent, answered, acceptor, pending_connections,
                     responses, accepting, loopVars, next_token>>,
         tasks' \subseteq GoodCalls \cup tasks
  PROVE  WInv'
<1>1. /\ Data' /\ KeepsTokens /\ DOMAIN connections' = DOMAIN connections
      /\ connections'[fd] = d
      /\ \A x \in DOMAIN connections : x # fd => connections'[x] = connections[x]
  BY Zenon, ConnOnlyStep
<1>2. Answers'
  BY Zenon, <1>1, AnswersStay DEF WInv
<1>3. Dispatched'
  <2>1. /\ GoodCalls \subseteq GoodCalls' /\ tasks \subseteq GoodCalls'
        /\ responses \in Seq(GoodCalls') /\ local \in Seq(GoodCalls')
    BY Zenon, <1>1, CallsStay, DispatchedLater DEF WInv
  <2>2. tasks' \subseteq GoodCalls'
    BY Zenon, <2>1
  <2> QED
    BY Zenon, <2>1, <2>2 DEF Dispatched, loopVars
<1>4. Control' /\ Round' /\ Armed'
  BY Zenon, <1>1, CoroutineLoop
<1> QED
  BY ZenonT(40), <1>1, <1>2, <1>3, <1>4 DEF WInv

\* The frame at the head is a request of the peer.
LEMMA NextFrameGood ==
  ASSUME WInv, NEW fd \in DOMAIN connections, connections[fd].read_buffer # <<>>
  PROVE  /\ NextFrame(fd) \in Frames /\ NextFrame(fd).part # "rest"
         /\ NextFrame(fd).client = connections[fd].peer /\ NextFrame(fd).id \in 1 .. sent
         /\ NextFrame(fd).kind \in Kinds /\ connections[fd].peer \in 1 .. clients
<1> DEFINE b == connections[fd].read_buffer
<1>1. /\ b \in Seq(Frames) /\ From(b, connections[fd].peer, sent) /\ b[1].part # "rest"
      /\ connections[fd].peer \in 1 .. clients
  BY ZenonT(40), PairOf DEF GoodBuffers, GoodSocket
<1>2. 1 \in DOMAIN b /\ Head(b) = b[1] /\ Head(b) \in Frames
  BY SMTT(30), <1>1
<1> QED
  BY Zenon, <1>1, <1>2 DEF NextFrame, From

\* Taking a frame out keeps a connection good.
LEMMA ConsumedGood ==
  ASSUME NEW c, GoodConn(c), c.at = "parse", Complete(c)
  PROVE  LET d == Consumed(c) IN
         /\ GoodConn(d) /\ d.should_close = c.should_close /\ d.epollout = c.epollout
         /\ d.connection_token = c.connection_token /\ d.peer = c.peer /\ d.at = c.at
         /\ d.write_buffer = c.write_buffer /\ d.read_buffer = Left(c.read_buffer)
<1>1. c.read_buffer \in Seq(Frames)
  BY ZenonT(40) DEF GoodConn, Conns
<1>2. PICK b \in Seq(Frames) : b = Left(c.read_buffer)
  BY SMTT(30), <1>1, LeftSeq DEF Complete
<1>3. Consumed(c) = [c EXCEPT !.read_buffer = b]
  BY <1>2 DEF Consumed, Left
<1> QED
  BY ZenonT(40), <1>2, <1>3 DEF GoodConn, Conns, Places

\* A request is dispatched to the business pool.
LEMMA DispatchRequestInv ==
  ASSUME WInv, NEW fd \in DOMAIN connections, connections[fd].at = "parse",
         Complete(connections[fd]), DispatchRequest(fd),
         UNCHANGED <<sockets, clients, sent, answered, acceptor, pending_connections,
                     responses, accepting, loopVars, next_token>>
  PROVE  WInv'
<1> DEFINE c == connections[fd]
<1>1. GoodConn(c) /\ ~c.should_close /\ Running(c) /\ c.read_buffer # <<>>
  <2>1. GoodConn(c)
    BY Zenon, PairOf
  <2> QED
    BY SMTT(30), <2>1 DEF GoodConn, Running, Complete
<1>2. CASE tasks' = tasks /\ connections' = [connections EXCEPT ![fd] = CoroutineFails(@)]
  BY Zenon, <1>1, <1>2, CoroutineFailsInv
<1>3. CASE /\ connections' = [connections EXCEPT ![fd] = Consumed(@)]
           /\ \/ tasks' = tasks \cup {[fd |-> fd, token |-> connections[fd].connection_token,
                                       req |-> NextFrame(fd), stage |-> "run"]}
              \/ tasks' = tasks
  <2>1. PICK d : d = Consumed(c)
    BY Zenon
  <2>2. /\ GoodConn(d) /\ d.connection_token = c.connection_token /\ d.peer = c.peer
        /\ d.write_buffer = c.write_buffer /\ d.read_buffer = Left(c.read_buffer)
    BY Zenon, <1>1, <2>1, ConsumedGood
  <2>3. GoodBuffers(d, sent) /\ Follows(d.read_buffer, sockets[fd].wire, sockets[fd].rest)
    <3>1. From(d.write_buffer, d.peer, sent) /\ Requested(d.write_buffer)
      BY ZenonT(40), <2>2, PairOf DEF GoodBuffers
    <3> QED
      BY ZenonT(40), <1>1, <2>2, <3>1, ConsumedBuffers
  <2>4. connections' = [connections EXCEPT ![fd] = d]
    BY SMTT(30), <1>3, <2>1
  <2>5. PICK t : t = [fd |-> fd, token |-> c.connection_token, req |-> NextFrame(fd),
                      stage |-> "run"]
    BY Zenon
  <2>6. t \in GoodCalls
    <3>1. fd \in Fds /\ c.connection_token \in 1 .. next_token - 1 /\ c.connection_token \in Nat
      BY ZenonT(40), <1>1 DEF WInv, Data, Ownership, Tokens, GoodConn, Conns
    <3>2. t \in Calls /\ t.fd = fd /\ t.token = c.connection_token /\ t.req = NextFrame(fd)
      BY ZenonT(40), <1>1, <2>5, <3>1, NextFrameGood DEF Calls
    <3>3. GoodCall(t)
      BY ZenonT(40), <1>1, <3>1, <3>2, NextFrameGood DEF GoodCall, TokenMatches
    <3> QED
      BY ZenonT(40), <3>2, <3>3 DEF GoodCalls
  <2>7. tasks' \subseteq GoodCalls \cup tasks
    BY Zenon, <1>3, <2>5, <2>6
  <2> QED
    BY ZenonT(40), <1>1, <2>2, <2>3, <2>4, <2>7, ParseStep
<1> QED
  BY ZenonT(40), <1>2, <1>3 DEF DispatchRequest

\* So does answering it at once.
LEMMA AnswerGood ==
  ASSUME NEW c, GoodConn(c), c.at = "parse", Complete(c), Fits(c), NEW r \in Frames
  PROVE  LET d == Consumed(EnqueueResponse(c, r)) IN
         /\ GoodConn(d) /\ d.should_close = c.should_close /\ d.epollout = c.epollout
         /\ d.connection_token = c.connection_token /\ d.peer = c.peer /\ d.at = c.at
         /\ d.write_buffer = Append(c.write_buffer, r)
         /\ d.read_buffer = Left(c.read_buffer)
<1>1. c.write_buffer \in Seq(Frames)
  BY Zenon DEF GoodConn, Conns
<1>2. PICK w \in Seq(Frames) : /\ w = Append(c.write_buffer, r) /\ w # <<>>
                               /\ Len(w) <= MaxWriteBuffer
  <2>1. Len(c.write_buffer) < MaxWriteBuffer
    BY SMTT(30) DEF Fits
  <2>2. Len(Append(c.write_buffer, r)) <= MaxWriteBuffer
    BY SMTT(30), <1>1, <2>1, AppendSeq, MaxWriteBufferAssumption
  <2>3. Append(c.write_buffer, r) \in Seq(Frames) /\ Append(c.write_buffer, r) # <<>>
    BY SMTT(30), <1>1, AppendSeq
  <2> QED
    BY Zenon, <2>2, <2>3
<1>3. PICK e : e = EnqueueResponse(c, r)
  OBVIOUS
<1>4. e = [c EXCEPT !.write_buffer = w, !.write_deadline = TRUE]
  BY SMTT(30), <1>2, <1>3 DEF EnqueueResponse
<1>5. /\ GoodConn(e) /\ e.should_close = c.should_close /\ e.epollout = c.epollout
      /\ e.connection_token = c.connection_token /\ e.peer = c.peer /\ e.at = "parse"
      /\ e.read_buffer = c.read_buffer /\ e.write_buffer = w
  BY ZenonT(40), <1>2, <1>4 DEF GoodConn, Conns, Places
<1>6. Complete(e)
  BY <1>5 DEF Complete
<1> QED
  BY ZenonT(40), <1>2, <1>3, <1>5, <1>6, ConsumedGood

\* A request is answered at once, without a handler.
LEMMA AnswerAtOnceInv ==
  ASSUME WInv, NEW fd \in DOMAIN connections, connections[fd].at = "parse",
         Complete(connections[fd]), AnswerAtOnce(fd),
         UNCHANGED <<sockets, clients, sent, answered, acceptor, pending_connections,
                     responses, accepting, loopVars, next_token>>
  PROVE  WInv'
<1> DEFINE c == connections[fd]
<1>1. GoodConn(c) /\ ~c.should_close /\ Running(c) /\ c.read_buffer # <<>>
  <2>1. GoodConn(c)
    BY Zenon, PairOf
  <2> QED
    BY <2>1 DEF GoodConn, Running, Complete
<1>2. CASE ~Fits(c)
  <2>1. connections' = [connections EXCEPT ![fd] = CoroutineFails(@)] /\ tasks' = tasks
    BY <1>2 DEF AnswerAtOnce
  <2> QED
    BY ZenonT(40), <1>1, <2>1, CoroutineFailsInv
<1>3. CASE Fits(c)
  <2>1. PICK r : r = NextFrame(fd)
    BY Zenon
  <2>2. /\ r \in Frames /\ r.part # "rest" /\ r.client = c.peer /\ r.id \in 1 .. sent
        /\ r.kind \in Kinds
    BY Zenon, <1>1, <2>1, NextFrameGood
  <2>3. PICK d : d = Consumed(EnqueueResponse(c, r))
    BY Zenon
  <2>4. /\ GoodConn(d) /\ d.connection_token = c.connection_token /\ d.peer = c.peer
        /\ d.write_buffer = Append(c.write_buffer, r) /\ d.read_buffer = Left(c.read_buffer)
    BY ZenonT(40), <1>1, <1>3, <2>2, <2>3, AnswerGood
  <2>5. From(d.write_buffer, d.peer, sent) /\ Requested(d.write_buffer)
    <3>1. /\ From(c.write_buffer, c.peer, sent) /\ Requested(c.write_buffer)
          /\ c.write_buffer \in Seq(Frames)
      BY Zenon, PairOf DEF GoodBuffers
    <3> QED
      BY ZenonT(40), <2>2, <2>4, <3>1, FromAppend, RequestedAppend
  <2>6. GoodBuffers(d, sent) /\ Follows(d.read_buffer, sockets[fd].wire, sockets[fd].rest)
    BY ZenonT(40), <1>1, <2>4, <2>5, ConsumedBuffers
  <2>7. connections' = [connections EXCEPT ![fd] = d] /\ tasks' = tasks
    BY SMTT(30), <1>3, <2>1, <2>3 DEF AnswerAtOnce
  <2>8. tasks' \subseteq GoodCalls \cup tasks
    BY Zenon, <2>7
  <2> QED
    BY ZenonT(40), <1>1, <2>4, <2>6, <2>7, <2>8, ParseStep
<1> QED
  BY ZenonT(40), <1>2, <1>3

\* TryParseRequests, whatever it finds in the buffer.
LEMMA TryParseRequestsInv ==
  ASSUME WInv, NEW fd \in DOMAIN connections, TryParseRequests(fd)
  PROVE  WInv'
<1> DEFINE c == connections[fd]
<1>1. /\ c.at = "parse"
      /\ UNCHANGED <<sockets, clients, sent, answered, acceptor, pending_connections,
                     responses, accepting, loopVars, next_token>>
  BY ZenonT(40) DEF TryParseRequests, clientVars, queueVars
<1>2. GoodConn(c) /\ ~c.should_close /\ Running(c)
  <2>1. GoodConn(c)
    BY Zenon, PairOf
  <2> QED
    BY SMTT(30), <1>1, <2>1 DEF GoodConn, Running
<1>3. CASE connections' = [connections EXCEPT ![fd] = HandleConnectionCo(@)] /\ tasks' = tasks
  <2>1. PICK d : d = HandleConnectionCo(c)
    BY Zenon
  <2>2. GoodConn(d) /\ SameConn(c, d) /\ d.should_close = c.should_close
    <3>1. c.at \in {"parse", "flush"}
      BY Zenon, <1>1
    <3> QED
      BY ZenonT(40), <1>2, <2>1, <3>1, HandleConnectionCoGood
  <2>3. connections' = [connections EXCEPT ![fd] = d]
    BY SMTT(30), <1>3, <2>1
  <2>4. GoodBuffers(d, sent) /\ Follows(d.read_buffer, sockets[fd].wire, sockets[fd].rest)
    BY Zenon, <1>2, <2>2, PairOf DEF SameConn, GoodBuffers
  <2>5. tasks' \subseteq GoodCalls \cup tasks
    BY Zenon, <1>3
  <2> QED
    BY ZenonT(40), <1>1, <1>2, <2>2, <2>3, <2>4, <2>5, ParseStep DEF SameConn
<1>4. CASE Complete(c) /\ DispatchRequest(fd)
  BY Zenon, <1>1, <1>4, DispatchRequestInv
<1>5. CASE Complete(c) /\ AnswerAtOnce(fd)
  BY Zenon, <1>1, <1>5, AnswerAtOnceInv
<1>6. CASE connections' = [connections EXCEPT ![fd] = CoroutineFails(@)] /\ tasks' = tasks
  BY ZenonT(40), <1>1, <1>2, <1>6, CoroutineFailsInv
<1> QED
  BY ZenonT(40), <1>3, <1>4, <1>5, <1>6
  DEF TryParseRequests, AnswerPing, HandleOneRequest, RejectHeader

-----------------------------------------------------------------------------
(* The theorems.                                                           *)

\* The initial states satisfy the invariant,
LEMMA InitWInv == Init => WInv
<1> SUFFICES ASSUME Init PROVE WInv
  OBVIOUS
<1>1. /\ DOMAIN sockets = {} /\ DOMAIN connections = {} /\ DOMAIN pending_connections = {}
      /\ Len(pending_connections) = 0
  BY SMTT(30) DEF Init
<1>2. sockets \in [{} -> Sockets] /\ connections \in [{} -> Conns]
  BY DEF Init
<1>3. ConnInv /\ BufferInv /\ Streams
  BY Zenon, <1>1, <1>2 DEF ConnInv, BufferInv, Streams
<1>4. SocketInv
  <2>1. clients \in 0 .. MaxClients /\ sent \in 0 .. MaxRequests
    BY SMTT(30), WorkerLoopAssumption DEF Init
  <2> QED
    BY ZenonT(40), <1>1, <1>2, <2>1 DEF SocketInv
<1>5. Ownership
  <2>1. Queued = {} /\ Handed = {}
    BY SMTT(30), <1>1 DEF Queued, Handed, Init
  <2>2. /\ pending_connections \in Seq(Fds)
        /\ acceptor \in [at: {"idle", "queue", "wake"}, fd: Fds \cup {0}]
    BY SMTT(30) DEF Init
  <2> QED
    BY SMTT(30), <1>1, <2>1, <2>2 DEF Ownership
<1>6. Tokens
  BY SMTT(30), <1>1 DEF Tokens, Init
<1>7. Dispatched /\ Answers
  BY DEF Dispatched, Answers, Init
<1>8. Control
  BY Zenon, NobodyIsEvent DEF Control, Init, LoopPlaces, Busy
<1>9. Round /\ Armed
  BY Zenon, <1>1 DEF Round, EventsMatchConnections, Armed, Init
<1> QED
  BY ZenonT(40), <1>3, <1>4, <1>5, <1>6, <1>7, <1>8, <1>9 DEF WInv, Data

\* stuttering keeps it,
LEMMA StutterWInv ==
  ASSUME WInv, UNCHANGED vars
  PROVE  WInv'
<1>1. /\ UNCHANGED <<dataVars, answered, tasks, responses, loopVars, accepting>>
      /\ acceptor' = acceptor
  BY Zenon DEF vars, dataVars, clientVars, poolVars, queueVars, connVars
<1> QED
  BY Zenon, <1>1, AcceptorStays, OutsideStep

\* and so do the steps of the loop,
LEMMA LoopStepWInv ==
  ASSUME WInv, LoopStep
  PROVE  WInv'
<1>1. CASE EpollWait \/ EpollWaitFails \/ LeaveRun \/ DrainWakeFd \/ DrainWakeFdFails
  BY ZenonT(40), <1>1, EpollWaitInv, LeaveRunInv, DrainStepInv
<1>2. CASE DrainPendingConnections \/ DrainPendingFails \/ SwapCompleted
  BY Zenon, <1>2, DrainPendingConnectionsInv, DrainPendingFailsInv, SwapCompletedInv
<1>3. CASE DrainCompletedResponses \/ UpdateAfterResponse \/ DrainsDone \/ Tick
  BY ZenonT(40), <1>3, DrainCompletedResponsesInv, UpdateAfterResponseInv, DrainStepInv, TickInv
<1>4. CASE (\E e \in events : TakeEvent(e)) \/ EventOut \/ EventEnd \/ EventsDone
  BY ZenonT(40), <1>4, TakeEventInv, EventOutInv, EventEndInv, DrainStepInv
<1>5. CASE CloseAllConnections
  BY Zenon, <1>5, CloseAllConnectionsInv
<1>6. CASE \E fd \in DOMAIN connections :
             ReadRequestCo(fd) \/ TryParseRequests(fd) \/ WriteResponseCo(fd)
  BY ZenonT(40), <1>6, ReadRequestCoInv, TryParseRequestsInv, WriteResponseCoInv
<1> QED
  BY ZenonT(40), <1>1, <1>2, <1>3, <1>4, <1>5, <1>6 DEF LoopStep

\* and all the steps.
LEMMA NextWInv == WInv /\ [Next]_vars => WInv'
<1> SUFFICES ASSUME WInv, [Next]_vars PROVE WInv'
  OBVIOUS
<1>1. CASE LoopStep
  BY Zenon, <1>1, LoopStepWInv
<1>2. CASE \E t \in tasks : RunHandler(t) \/ WakeLoop(t)
  BY Zenon, <1>2, RunHandlerInv, WakeLoopInv
<1>3. CASE Wakeup \/ StopPool \/ JoinPool \/ RequestStop
  BY ZenonT(40), <1>3, WakeupInv, StopInv, JoinPoolInv
<1>4. CASE EnqueueConnection
  BY Zenon, <1>4, EnqueueConnectionInv
<1>5. CASE \E fd \in Fds : AcceptConnection(fd)
  BY Zenon, <1>5, AcceptConnectionInv
<1>6. CASE \E fd \in Fds : ClientStep(fd)
  BY ZenonT(40), <1>6, ClientSendsInv, ClientSendsRestInv, ClientReceivesInv, ClientClosesInv
  DEF ClientStep
<1>7. CASE UNCHANGED vars
  BY Zenon, <1>7, StutterWInv
<1> QED
  BY ZenonT(40), <1>1, <1>2, <1>3, <1>4, <1>5, <1>6, <1>7 DEF Next

\* The inductive invariant holds in every reachable state.
THEOREM WInvHolds == Spec => []WInv
  BY InitWInv, NextWInv, PTL DEF Spec

\* EventsMatchConnections: an event that epoll_wait reported is applied to the
\* connection it was reported for (PollOnce handles the sockets handed over and
\* the results before the events of the same round).
THEOREM EventsMatchConnectionsHolds == Spec => []EventsMatchConnections
<1>1. WInv => EventsMatchConnections
  BY ZenonT(40) DEF WInv, Round
<1> QED
  BY <1>1, WInvHolds, PTL

\* WritersAreArmed: when the loop goes to sleep in epoll_wait, every connection
\* with something to write waits for EPOLLOUT and has asked for it, and no other
\* asks for it.
THEOREM WritersAreArmedHolds == Spec => []WritersAreArmed
<1>1. WInv => WritersAreArmed
  BY ZenonT(40) DEF WInv, Armed, ArmedConn, WritersAreArmed, Busy
<1> QED
  BY <1>1, WInvHolds, PTL

\* DeadlinesBoundWaits: a deadline is armed only while the connection waits for
\* what it bounds, so Tick never closes a connection for a wait that is over.
THEOREM DeadlinesBoundWaitsHolds == Spec => []DeadlinesBoundWaits
<1>1. WInv => DeadlinesBoundWaits
  BY Zenon DEF WInv, Data, ConnInv, GoodConn, DeadlinesBoundWaits, HasPendingWrite
<1> QED
  BY <1>1, WInvHolds, PTL

\* ResponseToOwner: a response is queued and sent only on the connection its
\* request came from, also when the descriptor has been reused meanwhile.
THEOREM ResponseToOwnerHolds == Spec => []ResponseToOwner
<1>1. ASSUME WInv PROVE ResponseToOwner
  <2> SUFFICES ASSUME NEW fd \in DOMAIN connections
               PROVE  /\ \A i \in DOMAIN connections[fd].write_buffer :
                           connections[fd].write_buffer[i].client = connections[fd].peer
                      /\ \A i \in DOMAIN sockets[fd].out :
                           sockets[fd].out[i].client = connections[fd].peer
    BY Zenon DEF ResponseToOwner
  <2> QED
    BY Zenon, <1>1, PairOf DEF GoodBuffers, GoodSocket, From
<1> QED
  BY <1>1, WInvHolds, PTL
=============================================================================

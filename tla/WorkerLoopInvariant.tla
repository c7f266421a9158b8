------------------------ MODULE WorkerLoopInvariant ------------------------
(***************************************************************************)
(* The inductive invariant of the worker loop, in two parts.               *)
(*                                                                         *)
(* WInv says what a connection looks like (GoodConn), who owns each        *)
(* descriptor (Ownership), how the bytes of a connection are cut into      *)
(* frames (Streams), what the dispatched requests still know of their      *)
(* connection (Dispatched) and where the loop is (Control, Armed).         *)
(*                                                                         *)
(* PlaceInv says that a request, or its response, is at one place between  *)
(* the client's socket, the connection's buffers, the business pool and    *)
(* the completed queue, and there once.                                    *)
(***************************************************************************)
EXTENDS WorkerLoop

Parts == {"whole", "first", "rest"}
Frames == [id: Nat, kind: {"call", "ping", "bad"}, client: Nat, part: Parts]
Places == {"wait_read", "wait_write", "read", "parse", "flush", "done"}

Sockets == [client: Nat, wire: Seq(Frames), rest: Seq(Frames), fin: BOOLEAN, out: Seq(Frames)]

Conns ==
  [connection_token: Nat, peer: Nat, at: Places, coroutine_ok: BOOLEAN, should_close: BOOLEAN,
   read_ready: BOOLEAN, write_ready: BOOLEAN, read_deadline: BOOLEAN, write_deadline: BOOLEAN,
   read_buffer: Seq(Frames), write_buffer: Seq(Frames), epollout: BOOLEAN]

-----------------------------------------------------------------------------
(* Sequences of frames.                                                    *)

\* Frames of client k, among the first n that were sent.
From(s, k, n) ==
  \A i \in DOMAIN s : s[i].client = k /\ s[i].id \in 1 .. n /\ s[i].kind \in Kinds

\* No second parts.
Requested(s) == \A i \in DOMAIN s : s[i].part # "rest"

\* A second part comes right after a first part, and only there.
Joined(s) == \A i \in DOMAIN s : i > 1 => (s[i].part = "rest" <=> s[i - 1].part = "first")

Opens(s) == s # <<>> /\ s[Len(s)].part = "first"

\* The buffer without its first frame.
Left(s) == IF Head(s).part = "whole" THEN Tail(s) ELSE Tail(Tail(s))

-----------------------------------------------------------------------------
(* The inductive invariant.                                                *)

GoodConn(c) ==
  /\ c \in Conns
  /\ Len(c.write_buffer) <= MaxWriteBuffer
  /\ c.write_deadline => c.write_buffer # <<>>
  /\ c.read_deadline => c.at = "wait_read"
  /\ c.should_close <=> c.at = "done"
  /\ ~c.coroutine_ok => c.should_close
  /\ c.at = "wait_read" => c.write_buffer = <<>>
  /\ c.at = "wait_write" => c.write_buffer # <<>>

\* What is in the buffers of a connection.
GoodBuffers(c, n) ==
  /\ From(c.read_buffer, c.peer, n) /\ From(c.write_buffer, c.peer, n)
  /\ Requested(c.write_buffer)
  /\ Joined(c.read_buffer)
  /\ c.read_buffer # <<>> => c.read_buffer[1].part # "rest"

ConnInv ==
  /\ connections \in [DOMAIN connections -> Conns]
  /\ \A fd \in DOMAIN connections : GoodConn(connections[fd])

BufferInv == \A fd \in DOMAIN connections : GoodBuffers(connections[fd], sent)

\* The frames of a socket.
GoodSocket(s, k, n) ==
  /\ s.client \in 1 .. k
  /\ From(s.wire, s.client, n) /\ From(s.rest, s.client, n) /\ From(s.out, s.client, n)
  /\ Requested(s.out) /\ Len(s.out) <= SendBuffer
  /\ Len(s.rest) <= 1 /\ \A i \in DOMAIN s.rest : s.rest[i].part = "rest"

SocketInv ==
  /\ sockets \in [DOMAIN sockets -> Sockets]
  /\ clients \in 0 .. MaxClients /\ sent \in 0 .. MaxRequests
  /\ \A fd \in DOMAIN sockets : GoodSocket(sockets[fd], clients, sent)

\* The bytes that have been read, those on the wire and those still to come
\* are one stream of frames.
Follows(before, s, rest) ==
  /\ Joined(s)
  /\ s # <<>> => (s[1].part = "rest" <=> Opens(before))
  /\ rest # <<>> <=> Opens(IF s # <<>> THEN s ELSE before)

Streams ==
  \A fd \in DOMAIN sockets :
    LET s == sockets[fd] IN
    IF fd \in DOMAIN connections
    THEN LET c == connections[fd] IN
         /\ c.peer = s.client
         /\ ~c.should_close => Follows(c.read_buffer, s.wire, s.rest)
    ELSE s.out = <<>> /\ Follows(<<>>, s.wire, s.rest)

Queued == {pending_connections[i] : i \in DOMAIN pending_connections}
Handed == IF acceptor.at = "queue" THEN {acceptor.fd} ELSE {}

Ownership ==
  /\ pending_connections \in Seq(Fds)
  /\ acceptor \in [at: {"idle", "queue", "wake"}, fd: Fds \cup {0}]
  /\ DOMAIN sockets \subseteq Fds
  /\ DOMAIN sockets = DOMAIN connections \cup Queued \cup Handed
  /\ DOMAIN connections \cap Queued = {}
  /\ Handed \cap (DOMAIN connections \cup Queued) = {}
  /\ \A i, j \in DOMAIN pending_connections :
       pending_connections[i] = pending_connections[j] => i = j

\* Tokens are handed out one by one, never more than clients have connected.
Tokens ==
  /\ next_token \in Nat \ {0}
  /\ next_token + Len(pending_connections) + (IF acceptor.at = "queue" THEN 1 ELSE 0)
       <= clients + 1
  /\ \A fd \in DOMAIN connections : connections[fd].connection_token \in 1 .. next_token - 1

Calls == [fd: Fds, token: Nat, req: Frames, stage: {"run", "wake"}]

\* A dispatched request: where its token is still in use, its client is.
GoodCall(t) ==
  /\ t.token \in 1 .. next_token - 1
  /\ t.req.id \in 1 .. sent /\ t.req.client \in 1 .. clients /\ t.req.kind \in Kinds
  /\ t.req.part # "rest"
  /\ TokenMatches(t) => connections[t.fd].peer = t.req.client

GoodCalls == {t \in Calls : GoodCall(t)}

Dispatched ==
  tasks \subseteq GoodCalls /\ responses \in Seq(GoodCalls) /\ local \in Seq(GoodCalls)

Answers ==
  /\ answered \subseteq Frames
  /\ \A r \in answered : /\ r.id \in 1 .. sent /\ r.client \in 1 .. clients
                         /\ r.kind \in Kinds /\ r.part # "rest"

LoopPlaces ==
  {"poll", "drain_wake", "drain_pending", "swap_completed", "drain_completed",
   "update_interest", "tick", "events", "event_out", "event_end", "close_all", "ended"}
Busy == {"update_interest", "event_out", "event_end"}
Events == [fd: Fds \cup {0}, token: Nat, in: BOOLEAN, out: BOOLEAN, hup: BOOLEAN]

Control ==
  /\ pc \in LoopPlaces /\ leaving \in BOOLEAN
  /\ accepting = (pc # "ended")
  /\ pc = "poll" \/ leaving => events = {}
  /\ leaving => pc \notin {"poll", "tick", "events", "event_out", "event_end"}
  /\ local # <<>> => pc \in {"drain_completed", "update_interest"}
  /\ pc = "ended" => connections = <<>>
  /\ events \subseteq Events /\ current \in Events
  /\ pc \notin Busy => current = Nobody
  /\ pc \in Busy => current.fd \in DOMAIN connections
  /\ pc = "update_interest" => current.token = 0

\* The events of a round: until the pending sockets have been adopted their
\* connections are all there, later some may be closed, none is replaced.
Round ==
  /\ pc \in {"drain_wake", "drain_pending"} => \A e \in events : e.fd \in DOMAIN connections
  /\ EventsMatchConnections

ArmedConn(c) ==
  ~c.should_close => /\ c.epollout <=> HasPendingWrite(c)
                     /\ c.at = (IF HasPendingWrite(c) THEN "wait_write" ELSE "wait_read")

\* Only the connection the loop is busy with may be running or not yet armed.
Armed ==
  \A fd \in DOMAIN connections :
    (pc \in Busy /\ fd = current.fd) \/ ArmedConn(connections[fd])

Data == ConnInv /\ BufferInv /\ SocketInv /\ Streams /\ Ownership /\ Tokens

WInv == Data /\ Dispatched /\ Answers /\ Control /\ Round /\ Armed

-----------------------------------------------------------------------------
(* Where a request is: the invariant behind RequestInOnePlace.             *)

\* A frame of request n begins in the sequence.
Holds(s, n) == \E i \in Starts(s) : s[i].id = n

Answered(n) == \E r \in answered : r.id = n
InPool(n) == \E t \in tasks : t.stage = "run" /\ t.req.id = n
InQueue(n) == \E i \in DOMAIN responses : responses[i].req.id = n
InLocal(n) == \E i \in DOMAIN local : local[i].req.id = n
OnWire(n, fd) == fd \in DOMAIN sockets /\ Holds(sockets[fd].wire, n)
InOut(n, fd) == fd \in DOMAIN sockets /\ Holds(sockets[fd].out, n)
InRead(n, fd) == fd \in DOMAIN connections /\ Holds(connections[fd].read_buffer, n)
InWrite(n, fd) == fd \in DOMAIN connections /\ Holds(connections[fd].write_buffer, n)

\* Request n is, or its response, at a kind of place, of descriptor fd if it has one.
At(n, kind, fd) ==
  \/ kind = "answered" /\ fd = 0 /\ Answered(n)
  \/ kind = "pool" /\ fd = 0 /\ InPool(n)
  \/ kind = "queue" /\ fd = 0 /\ InQueue(n)
  \/ kind = "local" /\ fd = 0 /\ InLocal(n)
  \/ kind = "wire" /\ OnWire(n, fd)
  \/ kind = "out" /\ InOut(n, fd)
  \/ kind = "read" /\ InRead(n, fd)
  \/ kind = "write" /\ InWrite(n, fd)

OneSpot == \A n, k, l, fd, gd : At(n, k, fd) /\ At(n, l, gd) => k = l /\ fd = gd

\* No request is twice at the same place.
Once(s) == \A i, j \in Starts(s) : s[i].id = s[j].id => i = j
CallsOnce(q) == \A i, j \in DOMAIN q : q[i].req.id = q[j].req.id => i = j

OnceAt(kind, fd) ==
  /\ kind = "pool" /\ fd = 0 =>
       \A t, u \in tasks : t.stage = "run" /\ u.stage = "run" /\ t.req.id = u.req.id => t = u
  /\ kind = "queue" /\ fd = 0 => CallsOnce(responses)
  /\ kind = "local" /\ fd = 0 => CallsOnce(local)
  /\ kind = "wire" /\ fd \in DOMAIN sockets => Once(sockets[fd].wire)
  /\ kind = "out" /\ fd \in DOMAIN sockets => Once(sockets[fd].out)
  /\ kind = "read" /\ fd \in DOMAIN connections => Once(connections[fd].read_buffer)
  /\ kind = "write" /\ fd \in DOMAIN connections => Once(connections[fd].write_buffer)

PlaceInv == OneSpot /\ \A k, fd : OnceAt(k, fd)
=============================================================================

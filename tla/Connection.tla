----------------------------- MODULE Connection -----------------------------
(***************************************************************************)
(* A server connection (src/src/server/connection.cpp) together with the   *)
(* coroutine that drives it (HandleConnectionCo in worker_loop.cpp), as    *)
(* operators on a record.  Everything here runs on the thread of the       *)
(* worker loop that owns the connection; WorkerLoop applies the operators. *)
(*                                                                         *)
(* The coroutine's place is "wait_read" and "wait_write" (suspended, the   *)
(* handle is in read_waiter_ or write_waiter_), "read", "parse" and        *)
(* "flush" (running OnReadable or OnWritable) or "done" (returned).  A     *)
(* deadline is armed or not; WorkerLoop decides when time is up.  state_   *)
(* is left out: every test of it is implied by should_close_.              *)
(***************************************************************************)
EXTENDS Naturals, Sequences

CONSTANT MaxWriteBuffer   \* frames that fit max_write_buffer_bytes

ASSUME MaxWriteBufferAssumption == MaxWriteBuffer \in Nat \ {0}

\* The coroutine starts at once and suspends in its first WaitReadableCo.
NewConnection(token, peer) ==
  [connection_token |-> token, peer |-> peer, at |-> "wait_read", coroutine_ok |-> TRUE,
   should_close |-> FALSE, read_ready |-> FALSE, write_ready |-> FALSE,
   read_deadline |-> TRUE, write_deadline |-> FALSE,
   read_buffer |-> <<>>, write_buffer |-> <<>>, epollout |-> FALSE]

Running(c) == c.at \in {"read", "parse", "flush"}

HasPendingWrite(c) == c.write_buffer # <<>>

\* ReadRequestCo up to OnReadable: take a remembered notification or suspend.
WaitReadableCo(c) ==
  IF c.read_ready
    THEN [c EXCEPT !.at = "read", !.read_ready = FALSE, !.read_deadline = FALSE]
    ELSE [c EXCEPT !.at = "wait_read", !.read_deadline = TRUE]

\* WriteResponseCo up to OnWritable.
WaitWritableCo(c) ==
  IF c.write_ready
    THEN [c EXCEPT !.at = "flush", !.write_ready = FALSE, !.write_deadline = FALSE]
    ELSE [c EXCEPT !.at = "wait_write", !.write_deadline = TRUE]

\* The loop of HandleConnectionCo: write while there is something to write,
\* then read.
HandleConnectionCo(c) ==
  IF HasPendingWrite(c) THEN WaitWritableCo(c) ELSE WaitReadableCo(c)

\* A waiting coroutine is resumed, otherwise the notification is remembered.
NotifyReadable(c) ==
  IF c.at = "wait_read" THEN WaitReadableCo([c EXCEPT !.read_ready = TRUE])
                        ELSE [c EXCEPT !.read_ready = TRUE]

NotifyWritable(c) ==
  IF c.at = "wait_write" THEN WaitWritableCo([c EXCEPT !.write_ready = TRUE])
                         ELSE [c EXCEPT !.write_ready = TRUE]

\* MarkClosing resumes the waiter; the coroutine sees ShouldClose and returns.
MarkClosing(c) ==
  [c EXCEPT !.should_close = TRUE, !.at = "done",
            !.read_deadline = FALSE, !.write_deadline = FALSE]

\* EnterError outside the coroutine (Tick) resumes the waiter the same way ...
EnterError(c) == MarkClosing(c)

\* ... and inside it the failed read, parse or write ends the coroutine.
CoroutineFails(c) == [EnterError(c) EXCEPT !.coroutine_ok = FALSE]

\* Faulty variant: the limit is tested before the frame is counted.
Fits_OffByOne(c) == Len(c.write_buffer) <= MaxWriteBuffer

\* QueueResponse refuses a frame that does not fit.
Fits(c) == Len(c.write_buffer) < MaxWriteBuffer

EnqueueResponse(c, req) ==
  [c EXCEPT !.write_buffer = Append(@, req), !.write_deadline = TRUE]

\* Buffer::append moves the unread bytes to the front or grows when there is no
\* room behind them; either way they stay, with the new ones after them.
Buffered(c, parts) == [c EXCEPT !.read_buffer = @ \o parts]

\* OnReadable after ReadFromSocket has returned the parts taken from the
\* socket and whether the peer has closed.  The end of the stream wins: what
\* came before it is not parsed.  The code leaves an armed write deadline as it
\* is then; nothing looks at it before the connection is closed.
OnReadable(c, parts, closed) ==
  IF closed THEN MarkClosing(c) ELSE [Buffered(c, parts) EXCEPT !.at = "parse"]

\* Faulty variant: the deadline of a write that is complete stays armed.
OnWritable_KeepsDeadline(c, n) ==
  HandleConnectionCo(
    [c EXCEPT !.write_buffer = SubSeq(@, n + 1, Len(@)), !.write_deadline = TRUE])

\* OnWritable after FlushWrites has sent n frames.
OnWritable(c, n) ==
  HandleConnectionCo(
    [c EXCEPT !.write_buffer = SubSeq(@, n + 1, Len(@)),
              !.write_deadline = n < Len(c.write_buffer)])
=============================================================================

-------------------------- MODULE ReservationQueue --------------------------
(***************************************************************************)
(* What MpscRingQueue (src/src/common/mpsc_ring_queue.h) promises its      *)
(* users, the thread pool and the logger: a bounded queue in which a       *)
(* producer first reserves the next place and fills it later.  A place     *)
(* that is reserved and not yet filled hides every place behind it from    *)
(* the consumer, even the ones already filled.  A push may be rejected     *)
(* only at a moment when all Capacity places are taken.                    *)
(***************************************************************************)
EXTENDS QueueCells

VARIABLES
  cells,    \* the queue
  pushing,  \* producer -> the value it is inside TryPush with, or None
  popped    \* the values the consumer has taken, in order

avars == <<cells, pushing, popped>>

AInit ==
  /\ cells = <<>>
  /\ pushing = [p \in Producers |-> None]
  /\ popped = <<>>

HasPlace(p) == \E i \in DOMAIN cells : cells[i].writer = p

Call(p, v) ==
  /\ pushing[p] = None
  /\ pushing' = [pushing EXCEPT ![p] = v]
  /\ UNCHANGED <<cells, popped>>

Reserve(p) ==
  /\ pushing[p] # None /\ ~HasPlace(p)
  /\ ~Full(cells)
  /\ cells' = Reserved(cells, p, pushing[p])
  /\ UNCHANGED <<pushing, popped>>

\* TryPush returns true: the place is visible to the consumer.
Accept(p) ==
  /\ HasPlace(p)
  /\ cells' = Published(cells, p)
  /\ pushing' = [pushing EXCEPT ![p] = None]
  /\ UNCHANGED popped

\* TryPush returns false.
Reject(p) ==
  /\ pushing[p] # None /\ ~HasPlace(p)
  /\ Full(cells)
  /\ pushing' = [pushing EXCEPT ![p] = None]
  /\ UNCHANGED <<cells, popped>>

Pop ==
  /\ Ready(cells)
  /\ cells' = Tail(cells)
  /\ popped' = Append(popped, cells[1].value)
  /\ UNCHANGED pushing

\* The destructor throws away what was never popped, with no producer inside.
Discard ==
  /\ \A p \in Producers : pushing[p] = None
  /\ Ready(cells)
  /\ cells' = Tail(cells)
  /\ UNCHANGED <<pushing, popped>>

ANext ==
  \/ \E p \in Producers : \/ \E v \in Values : Call(p, v)
                          \/ Reserve(p) \/ Accept(p) \/ Reject(p)
  \/ Pop \/ Discard

ASpec == AInit /\ [][ANext]_avars
=============================================================================

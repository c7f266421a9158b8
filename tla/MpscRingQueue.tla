--------------------------- MODULE MpscRingQueue ---------------------------
(***************************************************************************)
(* The lock-free multi-producer single-consumer ring of                    *)
(* src/src/common/mpsc_ring_queue.h, one step per access to shared memory. *)
(* Every cell has a sequence number: pos when it is free for the producer  *)
(* at position pos, pos + 1 when that producer has filled it, and          *)
(* pos + Capacity once the consumer has emptied it.                        *)
(*                                                                         *)
(* All cross-thread data flows through the acquire/release accesses to     *)
(* sequence, so interleaving the accesses is enough.  Positions are        *)
(* naturals: the code's are 64-bit and compared by signed difference.      *)
(***************************************************************************)
EXTENDS Integers, Sequences

CONSTANTS Producers, Values, Capacity, None

ASSUME RingAssumption ==
  /\ Capacity \in Nat /\ Capacity >= 2
  /\ None \notin Producers /\ None \notin Values

VARIABLES
  enqueue_pos_, dequeue_pos_,
  sequence,       \* slots_[i].sequence
  storage,        \* the object in slots_[i].storage, or None
  ppc,            \* producer -> where it is in TryPush
  pos, value,     \* producer -> its locals of TryPush
  cpc,            \* where the consumer is in TryPopOne or in the destructor
  out,            \* what the consumer has moved out of the storage
  popped,         \* the values popped so far
  todo            \* values not accepted yet

vars == <<enqueue_pos_, dequeue_pos_, sequence, storage, ppc, pos, value, cpc,
          out, popped, todo>>
producerVars == <<ppc, pos, value, todo>>
consumerVars == <<dequeue_pos_, cpc, out, popped>>

Index == 0 .. Capacity - 1

\* "pos & kMask": Capacity is a power of two.
Slot(p) == p % Capacity

ProducerStates == {"idle", "load", "cas", "construct", "publish"}
ConsumerStates == {"idle", "move", "release", "drain", "destroyed"}

Init ==
  /\ enqueue_pos_ = 0 /\ dequeue_pos_ = 0
  /\ sequence = [i \in Index |-> i]
  /\ storage = [i \in Index |-> None]
  /\ ppc = [p \in Producers |-> "idle"]
  /\ pos = [p \in Producers |-> 0]
  /\ value = [p \in Producers |-> None]
  /\ cpc = "idle" /\ out = None
  /\ popped = <<>>
  /\ todo = Values

-----------------------------------------------------------------------------
(* TryPush.                                                                *)

Goto(p, state) == ppc' = [ppc EXCEPT ![p] = state]

Return(p) ==
  /\ Goto(p, "idle")
  /\ value' = [value EXCEPT ![p] = None]

\* The call, and the first load of enqueue_pos_.
TryPush(p, v) ==
  /\ ppc[p] = "idle" /\ cpc \notin {"drain", "destroyed"}
  /\ v \in todo
  /\ todo' = todo \ {v}
  /\ value' = [value EXCEPT ![p] = v]
  /\ pos' = [pos EXCEPT ![p] = enqueue_pos_]
  /\ Goto(p, "load")
  /\ UNCHANGED <<enqueue_pos_, sequence, storage, consumerVars>>

\* diff = seq - pos.
Diff(p) == sequence[Slot(pos[p])] - pos[p]

\* Load the sequence number.  Zero: try to claim the position.  Negative:
\* full, return false.  Positive: another producer was faster, load
\* enqueue_pos_ again.
LoadSequence(p) ==
  /\ ppc[p] = "load"
  /\ \/ /\ Diff(p) = 0
        /\ Goto(p, "cas")
        /\ UNCHANGED <<pos, value, todo>>
     \/ /\ Diff(p) < 0
        /\ Return(p)
        /\ todo' = todo \cup {value[p]}
        /\ UNCHANGED pos
     \/ /\ Diff(p) > 0
        /\ pos' = [pos EXCEPT ![p] = enqueue_pos_]
        /\ UNCHANGED <<ppc, value, todo>>
  /\ UNCHANGED <<enqueue_pos_, sequence, storage, consumerVars>>

\* Faulty variant: load and store instead of a compare-and-exchange.
CompareExchange_Blind(p) ==
  /\ ppc[p] = "cas"
  /\ enqueue_pos_' = pos[p] + 1
  /\ Goto(p, "construct")
  /\ UNCHANGED <<pos, value, todo, sequence, storage, consumerVars>>

\* compare_exchange_weak: a failure, which may be spurious, loads pos anew.
CompareExchange(p) ==
  /\ ppc[p] = "cas"
  /\ \/ /\ enqueue_pos_ = pos[p]
        /\ enqueue_pos_' = pos[p] + 1
        /\ Goto(p, "construct")
        /\ UNCHANGED pos
     \/ /\ pos' = [pos EXCEPT ![p] = enqueue_pos_]
        /\ Goto(p, "load")
        /\ UNCHANGED enqueue_pos_
  /\ UNCHANGED <<value, todo, sequence, storage, consumerVars>>

Construct(p) ==
  /\ ppc[p] = "construct"
  /\ storage' = [storage EXCEPT ![Slot(pos[p])] = value[p]]
  /\ Goto(p, "publish")
  /\ UNCHANGED <<enqueue_pos_, sequence, pos, value, todo, consumerVars>>

Publish(p) ==
  /\ ppc[p] = "publish"
  /\ sequence' = [sequence EXCEPT ![Slot(pos[p])] = pos[p] + 1]
  /\ Return(p)
  /\ UNCHANGED <<enqueue_pos_, storage, pos, todo, consumerVars>>

-----------------------------------------------------------------------------
(* TryPopOne and the destructor.                                           *)

\* Faulty variant: empty is decided from the positions alone.
Empty_ByPositions == dequeue_pos_ = enqueue_pos_

\* "seq < dequeue_pos_ + 1": the producer has not filled the cell.
Empty == sequence[Slot(dequeue_pos_)] - (dequeue_pos_ + 1) < 0

\* The sequence number of the next cell says that it is filled.
TryPopOne ==
  /\ cpc = "idle" /\ ~Empty
  /\ cpc' = "move"
  /\ UNCHANGED <<enqueue_pos_, dequeue_pos_, sequence, storage, out, popped,
                 producerVars>>

\* out = std::move(*elem); destroy_at(elem).
MoveOut ==
  /\ cpc = "move"
  /\ out' = storage[Slot(dequeue_pos_)]
  /\ storage' = [storage EXCEPT ![Slot(dequeue_pos_)] = None]
  /\ cpc' = "release"
  /\ UNCHANGED <<enqueue_pos_, dequeue_pos_, sequence, popped, producerVars>>

\* Give the cell to the producer of the next lap.  dequeue_pos_ is private to
\* the consumer, so its increment belongs to the same step.
FreeSlot ==
  /\ sequence' = [sequence EXCEPT ![Slot(dequeue_pos_)] = dequeue_pos_ + Capacity]
  /\ dequeue_pos_' = dequeue_pos_ + 1

Release ==
  /\ cpc = "release"
  /\ FreeSlot
  /\ popped' = Append(popped, out)
  /\ out' = None
  /\ cpc' = "idle"
  /\ UNCHANGED <<enqueue_pos_, storage, producerVars>>

\* ~MpscRingQueue runs when no thread is inside the queue, then DrainAll
\* destroys the objects that were never popped.
Destroy ==
  /\ cpc = "idle" /\ \A p \in Producers : ppc[p] = "idle"
  /\ cpc' = "drain"
  /\ UNCHANGED <<enqueue_pos_, dequeue_pos_, sequence, storage, out, popped,
                 producerVars>>

\* Faulty variant: one object is destroyed, not all of them.
DrainAll_Once ==
  /\ cpc = "drain"
  /\ cpc' = "destroyed"
  /\ IF Empty
     THEN UNCHANGED <<storage, sequence, dequeue_pos_>>
     ELSE storage' = [storage EXCEPT ![Slot(dequeue_pos_)] = None] /\ FreeSlot
  /\ UNCHANGED <<enqueue_pos_, out, popped, producerVars>>

DrainAll ==
  /\ cpc = "drain"
  /\ IF Empty
     THEN cpc' = "destroyed" /\ UNCHANGED <<storage, sequence, dequeue_pos_>>
     ELSE /\ storage' = [storage EXCEPT ![Slot(dequeue_pos_)] = None]
          /\ FreeSlot
          /\ UNCHANGED cpc
  /\ UNCHANGED <<enqueue_pos_, out, popped, producerVars>>

ProducerNext(p) ==
  \/ \E v \in Values : TryPush(p, v)
  \/ LoadSequence(p) \/ CompareExchange(p) \/ Construct(p) \/ Publish(p)

ConsumerNext == TryPopOne \/ MoveOut \/ Release \/ Destroy \/ DrainAll

Next == (\E p \in Producers : ProducerNext(p)) \/ ConsumerNext

Spec == Init /\ [][Next]_vars

-----------------------------------------------------------------------------
(* Properties.                                                             *)

TypeOK ==
  /\ enqueue_pos_ \in Nat /\ dequeue_pos_ \in Nat
  /\ sequence \in [Index -> Nat]
  /\ storage \in [Index -> Values \cup {None}]
  /\ ppc \in [Producers -> ProducerStates]
  /\ pos \in [Producers -> Nat]
  /\ value \in [Producers -> Values \cup {None}]
  /\ cpc \in ConsumerStates /\ out \in Values \cup {None}
  /\ popped \in Seq(Values)
  /\ todo \subseteq Values

\* The raw storage is used as C++ requires: a producer constructs only where
\* no object lives and owns the cell alone, and the consumer moves out of or
\* destroys only a living object (construct_at, destroy_at).
ObjectLifetimes ==
  /\ \A p \in Producers :
       /\ ppc[p] = "construct" => storage[Slot(pos[p])] = None
       /\ ppc[p] \in {"construct", "publish"} =>
            \A q \in Producers \ {p} :
              ppc[q] \in {"construct", "publish"} => Slot(pos[q]) # Slot(pos[p])
  /\ cpc = "move" => storage[Slot(dequeue_pos_)] # None
  /\ cpc = "drain" /\ ~Empty => storage[Slot(dequeue_pos_)] # None

\* The destructor leaks nothing: when DrainAll stops, no object is left.
NothingLeaks ==
  cpc = "destroyed" => \A i \in Index : storage[i] = None

-----------------------------------------------------------------------------
(* The ring implements the queue with reservations: a push takes effect    *)
(* when its compare-and-exchange succeeds, a pop when the cell is released.*)

Claims(p, n) == ppc[p] \in {"construct", "publish"} /\ pos[p] = n

CellAt(n) ==
  IF \E p \in Producers : Claims(p, n)
  THEN LET p == CHOOSE p \in Producers : Claims(p, n)
       IN  [value |-> value[p], writer |-> p]
  ELSE [value |-> IF cpc = "release" /\ n = dequeue_pos_ THEN out
                  ELSE storage[Slot(n)],
        writer |-> None]

Queue == INSTANCE ReservationQueue WITH
  cells   <- [i \in 1 .. enqueue_pos_ - dequeue_pos_ |-> CellAt(dequeue_pos_ + i - 1)],
  pushing <- value

\* Whatever the interleaving of producers and consumer, the ring is a FIFO
\* queue of at most Capacity values: values come out once and in the order
\* of the successful compare-and-exchanges, and TryPush returns false only
\* at a moment when every cell is taken ("diff < 0 => the queue is full").
ImplementsQueue == Queue!ASpec
=============================================================================

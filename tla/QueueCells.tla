---------------------------- MODULE QueueCells ----------------------------
(***************************************************************************)
(* The contents of an MpscRingQueue (src/src/common/mpsc_ring_queue.h) as  *)
(* its users see them: a sequence of cells in the order in which producers *)
(* reserved them, each with the producer that still has to fill it.        *)
(***************************************************************************)
EXTENDS Naturals, Sequences

CONSTANTS
  Producers,  \* threads that call TryPush
  Values,     \* the objects pushed
  Capacity,
  None        \* neither a producer nor a value

\* writer is None once the cell is filled.
Cell == [value: Values, writer: Producers \cup {None}]

Full(q) == Len(q) = Capacity

Reserved(q, p, v) == Append(q, [value |-> v, writer |-> p])

\* p fills the cell it has reserved.
Published(q, p) ==
  [i \in DOMAIN q |-> IF q[i].writer = p THEN [q[i] EXCEPT !.writer = None]
                                         ELSE q[i]]

\* What the consumer sees: a cell that is reserved and not filled hides every
\* cell behind it.
Ready(q) == q # <<>> /\ q[1].writer = None
=============================================================================

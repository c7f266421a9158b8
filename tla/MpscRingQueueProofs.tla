------------------------ MODULE MpscRingQueueProofs ------------------------
(***************************************************************************)
(* Proofs about the ring for any capacity, any producers and any values:   *)
(* objects live and die where they should, a push is rejected only when    *)
(* every cell is taken, the destructor leaks nothing, and the ring         *)
(* implements the bounded queue of reserved and published cells.           *)
(*                                                                         *)
(* The positions dequeue_pos_ .. dequeue_pos_ + Capacity - 1 are in one-to-*)
(* one correspondence with the cells.  The inductive invariant says, for   *)
(* each of them, what its cell holds: taken positions are below            *)
(* enqueue_pos_, free ones from there on.                                  *)
(***************************************************************************)
EXTENDS MpscRingQueue, TLAPS

(* Remainders.                                                             *)

\* Quotient and remainder,
LEMMA DivMod ==
  ASSUME NEW n \in Nat, NEW c \in Nat, c > 0
  PROVE  /\ n = c * (n \div c) + (n % c)
         /\ n \div c \in Nat /\ n % c \in 0 .. c - 1
  OBVIOUS

\* which nothing else is.
LEMMA ModUnique ==
  ASSUME NEW n \in Nat, NEW c \in Nat, c > 0,
         NEW q \in Nat, NEW r \in Nat, r < c, n = c * q + r
  PROVE  n % c = r
  OBVIOUS

\* A whole turn of the ring leads back to the same remainder.
LEMMA ModShift ==
  ASSUME NEW n \in Nat, NEW c \in Nat, c > 0
  PROVE  (n + c) % c = n % c
<1>1. PICK q \in Nat, r \in 0 .. c - 1 : n = c * q + r /\ r = n % c
  BY Zenon, DivMod
<1>2. n + c = c * (q + 1) + r
  BY <1>1
<1> QED
  BY <1>1, <1>2, ModUnique

\* Within one turn no remainder occurs twice.
LEMMA ModDistinct ==
  ASSUME NEW a \in Nat, NEW b \in Nat, NEW c \in Nat, c > 0, a < b, b < a + c
  PROVE  a % c # b % c
<1> SUFFICES ASSUME a % c = b % c PROVE FALSE
  OBVIOUS
<1>1. PICK q \in Nat, r \in 0 .. c - 1 : a = c * q + r /\ r = a % c
  BY Zenon, DivMod
<1>2. PICK p \in Nat : b = c * p + (b % c)
  BY Zenon, DivMod
<1>3. b - a = c * (p - q)
  BY <1>1, <1>2
<1>4. CASE p <= q
  <2>1. c * (p - q) <= 0
    BY <1>4
  <2> QED
    BY <1>3, <2>1
<1>5. CASE p > q
  <2>1. c * (p - q) >= c
    BY <1>5
  <2> QED
    BY <1>3, <2>1
<1> QED
  BY <1>4, <1>5

\* Any Capacity consecutive positions use all the cells ...
LEMMA ModOnto ==
  ASSUME NEW d \in Nat, NEW c \in Nat, c > 0, NEW i \in 0 .. c - 1
  PROVE  \E n \in d .. d + c - 1 : n % c = i
<1>1. PICK q \in Nat, r \in 0 .. c - 1 : d = c * q + r
  BY ZenonT(40), DivMod
<1>2. CASE i >= r
  <2>1. d + (i - r) = c * q + i
    BY <1>1
  <2>2. (d + (i - r)) % c = i
    BY <1>1, <1>2, <2>1, ModUnique
  <2> QED
    BY <1>1, <1>2, <2>2
<1>3. CASE i < r
  <2>1. d + (i - r) + c = c * (q + 1) + i
    BY <1>1
  <2>2. (d + (i - r) + c) % c = i
    BY <1>1, <1>3, <2>1, ModUnique
  <2> QED
    BY <1>1, <1>3, <2>2
<1> QED
  BY <1>2, <1>3

(* The same facts about Slot.                                              *)

\* A position has a cell.
LEMMA SlotIndex == \A n \in Nat : Slot(n) \in Index
  BY RingAssumption DEF Slot, Index

\* One turn later it has the same one.
LEMMA SlotShift == \A n \in Nat : Slot(n + Capacity) = Slot(n)
<1>1. Capacity \in Nat /\ Capacity > 0
  BY RingAssumption
<1>2. \A n \in Nat : (n + Capacity) % Capacity = n % Capacity
  BY Zenon, <1>1, ModShift
<1> QED
  BY <1>2 DEF Slot

\* Positions within one turn have different cells,
LEMMA SlotDistinct ==
  \A a, b \in Nat : a # b /\ a < b + Capacity /\ b < a + Capacity => Slot(a) # Slot(b)
<1>1. Capacity \in Nat /\ Capacity > 0
  BY RingAssumption
<1>2. \A a, b \in Nat : a < b /\ b < a + Capacity => a % Capacity # b % Capacity
  BY <1>1, ModDistinct
<1> TAKE a, b \in Nat
<1> HAVE a # b /\ a < b + Capacity /\ b < a + Capacity
<1>3. CASE a < b
  BY <1>2, <1>3 DEF Slot
<1>4. CASE b < a
  BY <1>2, <1>4 DEF Slot
<1> QED
  BY <1>3, <1>4

\* and every cell has one of them.
LEMMA SlotOnto ==
  \A d \in Nat, i \in Index : \E n \in d .. d + Capacity - 1 : Slot(n) = i
<1>1. Capacity \in Nat /\ Capacity > 0
  BY RingAssumption
<1>2. \A d \in Nat, i \in 0 .. Capacity - 1 :
        \E n \in d .. d + Capacity - 1 : n % Capacity = i
  BY Zenon, <1>1, ModOnto
<1> QED
  BY <1>2 DEF Slot, Index

-----------------------------------------------------------------------------
(* The inductive invariant.                                                *)

Owns(p) == ppc[p] \in {"construct", "publish"}

Window == dequeue_pos_ .. dequeue_pos_ + Capacity - 1

\* The cell of position n: taken by a producer that is still filling it,
\* filled, or free.
CellInv(n) ==
  IF n < enqueue_pos_
  THEN \/ \E p \in Producers : Owns(p) /\ pos[p] = n
       \/ /\ sequence[Slot(n)] = n + 1
          /\ storage[Slot(n)] \in Values \/ (n = dequeue_pos_ /\ cpc = "release")
  ELSE sequence[Slot(n)] = n /\ storage[Slot(n)] = None

ProducerInv(p) ==
  /\ IF ppc[p] = "idle" THEN value[p] = None ELSE value[p] \in Values
  /\ ppc[p] \in {"load", "cas"} => pos[p] <= enqueue_pos_
  /\ ppc[p] = "cas" /\ pos[p] = enqueue_pos_ =>
       enqueue_pos_ < dequeue_pos_ + Capacity
  /\ Owns(p) =>
       /\ dequeue_pos_ <= pos[p] /\ pos[p] < enqueue_pos_
       /\ sequence[Slot(pos[p])] = pos[p]
       /\ storage[Slot(pos[p])] = IF ppc[p] = "construct" THEN None ELSE value[p]

OwnsAlone(p, q) == Owns(p) /\ Owns(q) /\ pos[p] = pos[q] => p = q

ConsumerInv ==
  /\ cpc \in {"move", "release"} =>
       /\ dequeue_pos_ < enqueue_pos_
       /\ sequence[Slot(dequeue_pos_)] = dequeue_pos_ + 1
  /\ cpc = "release" => storage[Slot(dequeue_pos_)] = None /\ out \in Values
  /\ cpc \in {"drain", "destroyed"} => \A p \in Producers : ppc[p] = "idle"
  /\ cpc = "destroyed" => enqueue_pos_ = dequeue_pos_

Bounds ==
  dequeue_pos_ <= enqueue_pos_ /\ enqueue_pos_ <= dequeue_pos_ + Capacity

RInv ==
  /\ TypeOK /\ Bounds /\ ConsumerInv
  /\ \A n \in Window : CellInv(n)
  /\ \A p \in Producers : ProducerInv(p)
  /\ \A p \in Producers, q \in Producers : OwnsAlone(p, q)

-----------------------------------------------------------------------------

\* RInv holds at first.
LEMMA InitRInv == Init => RInv
<1> SUFFICES ASSUME Init PROVE RInv
  OBVIOUS
<1> USE RingAssumption DEF Init
<1>1. TypeOK
  BY DEF TypeOK, Index, ProducerStates, ConsumerStates
<1>2. ASSUME NEW n \in Window PROVE CellInv(n)
  <2>1. n \in Index /\ Slot(n) = n
    BY SMTT(30) DEF Window, Index, Slot
  <2> QED
    BY <2>1 DEF CellInv, Window
<1> QED
  BY <1>1, <1>2 DEF RInv, Bounds, ConsumerInv, ProducerInv, OwnsAlone, Owns

\* The positions of the window have cells of their own.
LEMMA WindowSlots ==
  ASSUME dequeue_pos_ \in Nat
  PROVE  /\ Window \subseteq Nat
         /\ \A n \in Window : Slot(n) \in Index
         /\ \A n, m \in Window : n # m => Slot(n) # Slot(m)
<1>1. Window \subseteq Nat
  BY RingAssumption DEF Window
<1>2. \A n, m \in Window : n # m => n < m + Capacity /\ m < n + Capacity
  BY RingAssumption DEF Window
<1> QED
  BY <1>1, <1>2, SlotIndex, SlotDistinct

\* What the sequence number of a taken position can be.
LEMMA TakenSequence ==
  ASSUME RInv, NEW n \in Window, n < enqueue_pos_
  PROVE  sequence[Slot(n)] \in {n, n + 1}
  BY DEF RInv, CellInv, ProducerInv

\* A position that a producer has loaded and whose sequence number is behind
\* is the end of a full queue.
LEMMA BehindMeansFull ==
  ASSUME RInv, NEW p \in Producers, ppc[p] = "load", Diff(p) < 0
  PROVE  enqueue_pos_ = dequeue_pos_ + Capacity
<1>1. /\ pos[p] \in Nat /\ pos[p] <= enqueue_pos_ /\ TypeOK /\ Bounds
      /\ dequeue_pos_ \in Nat /\ enqueue_pos_ \in Nat /\ Capacity \in Nat
  BY RingAssumption DEF RInv, ProducerInv, TypeOK
<1>2. PICK n \in Window : Slot(n) = Slot(pos[p])
  BY Zenon, <1>1, SlotOnto, SlotIndex DEF Window
<1>3. n \in Nat
  BY <1>1, WindowSlots
<1>4. sequence[Slot(n)] \in {n, n + 1}
  <2>1. CASE n < enqueue_pos_
    BY <2>1, TakenSequence
  <2>2. CASE ~(n < enqueue_pos_)
    BY <2>2 DEF RInv, CellInv
  <2> QED
    BY <2>1, <2>2
<1>5. n < pos[p]
  BY <1>1, <1>2, <1>3, <1>4 DEF Diff
<1>6. ~(pos[p] < n + Capacity)
  BY <1>1, <1>2, <1>3, <1>5, SlotDistinct
<1> QED
  BY <1>1, <1>3, <1>5, <1>6 DEF Window, Bounds

\* A position whose sequence number is its own and that nobody has claimed
\* yet has a free cell.
LEMMA EqualMeansRoom ==
  ASSUME RInv, NEW p \in Producers, ppc[p] = "load", Diff(p) = 0,
         pos[p] = enqueue_pos_
  PROVE  enqueue_pos_ < dequeue_pos_ + Capacity
<1> SUFFICES ASSUME enqueue_pos_ = dequeue_pos_ + Capacity PROVE FALSE
  BY RingAssumption DEF RInv, TypeOK, Bounds
<1>1. /\ dequeue_pos_ \in Nat /\ enqueue_pos_ \in Nat /\ sequence \in [Index -> Nat]
      /\ dequeue_pos_ \in Window /\ dequeue_pos_ < enqueue_pos_
  BY RingAssumption DEF RInv, TypeOK, Window
<1>2. sequence[Slot(dequeue_pos_)] \in {dequeue_pos_, dequeue_pos_ + 1}
  BY <1>1, TakenSequence
<1>3. Slot(enqueue_pos_) = Slot(dequeue_pos_)
  BY <1>1, SlotShift
<1> QED
  BY <1>1, <1>2, <1>3, RingAssumption DEF Diff

-----------------------------------------------------------------------------

\* TryPush preserves RInv.
LEMMA TryPushRInv ==
  ASSUME RInv, NEW p \in Producers, NEW v \in Values, TryPush(p, v)
  PROVE  RInv'
<1> USE DEF TryPush, Goto, consumerVars
<1>1. TypeOK'
  BY DEF RInv, TypeOK, ProducerStates
<1>2. Bounds' /\ ConsumerInv' /\ Window' = Window
  BY DEF RInv, TypeOK, Bounds, ConsumerInv, Window
<1>3. ASSUME NEW q \in Producers PROVE (Owns(q)' <=> Owns(q)) /\ (Owns(q) => pos'[q] = pos[q])
  BY DEF RInv, TypeOK, Owns
<1>4. ASSUME NEW n \in Window PROVE CellInv(n)'
  BY <1>3 DEF RInv, CellInv
<1>5. ASSUME NEW q \in Producers PROVE ProducerInv(q)'
  BY <1>3 DEF RInv, TypeOK, ProducerInv, Owns
<1>6. ASSUME NEW q \in Producers, NEW r \in Producers PROVE OwnsAlone(q, r)'
  BY <1>3 DEF RInv, OwnsAlone
<1> QED
  BY <1>1, <1>2, <1>4, <1>5, <1>6 DEF RInv

\* LoadSequence preserves RInv.
LEMMA LoadSequenceRInv ==
  ASSUME RInv, NEW p \in Producers, LoadSequence(p)
  PROVE  RInv'
<1> USE DEF LoadSequence, Goto, Return, consumerVars
<1>0. Diff(p) \in Int
  BY SlotIndex DEF RInv, TypeOK, Diff
<1>1. TypeOK'
  BY ZenonT(40), <1>0 DEF RInv, TypeOK, ProducerStates, ProducerInv
<1>2. Bounds' /\ ConsumerInv' /\ Window' = Window
  BY <1>0 DEF RInv, TypeOK, Bounds, ConsumerInv, Window
<1>3. ASSUME NEW q \in Producers PROVE (Owns(q)' <=> Owns(q)) /\ (Owns(q) => pos'[q] = pos[q])
  BY <1>0 DEF RInv, TypeOK, Owns
<1>4. ASSUME NEW n \in Window PROVE CellInv(n)'
  BY SMTT(30), <1>3 DEF RInv, CellInv
<1>5. ASSUME NEW q \in Producers PROVE ProducerInv(q)'
  BY SMTT(30), <1>0, <1>3, EqualMeansRoom DEF RInv, TypeOK, ProducerInv, Owns
<1>6. ASSUME NEW q \in Producers, NEW r \in Producers PROVE OwnsAlone(q, r)'
  BY <1>3 DEF RInv, OwnsAlone
<1> QED
  BY <1>1, <1>2, <1>4, <1>5, <1>6 DEF RInv

\* CompareExchange preserves RInv.
LEMMA CompareExchangeRInv ==
  ASSUME RInv, NEW p \in Producers, CompareExchange(p)
  PROVE  RInv'
<1> USE DEF CompareExchange, Goto, consumerVars
<1>1. TypeOK'
  <2>1. enqueue_pos_' \in Nat /\ pos' \in [Producers -> Nat]
    BY DEF RInv, TypeOK
  <2>2. ppc' \in [Producers -> ProducerStates]
    BY Zenon DEF RInv, TypeOK, ProducerStates
  <2> QED
    BY <2>1, <2>2 DEF RInv, TypeOK
<1>2. ConsumerInv' /\ Window' = Window
  BY DEF RInv, TypeOK, Bounds, ConsumerInv, Window
<1>3. CASE ppc'[p] = "construct"
  <2>1. /\ enqueue_pos_ = pos[p] /\ enqueue_pos_' = enqueue_pos_ + 1 /\ pos' = pos
        /\ enqueue_pos_ \in Nat /\ enqueue_pos_ \in Window
        /\ ppc' = [ppc EXCEPT ![p] = "construct"]
    BY <1>3, RingAssumption DEF RInv, TypeOK, Bounds, ProducerInv, Window
  <2>2. sequence[Slot(pos[p])] = pos[p] /\ storage[Slot(pos[p])] = None
    BY <2>1 DEF RInv, CellInv
  <2>3. Bounds'
    BY <2>1, RingAssumption DEF RInv, TypeOK, Bounds, Window
  <2>4. ASSUME NEW q \in Producers
        PROVE  (Owns(q)' <=> Owns(q) \/ q = p) /\ ~Owns(p)
    BY <2>1 DEF RInv, TypeOK, Owns
  <2>5. ASSUME NEW n \in Window PROVE CellInv(n)'
    <3>1. n \in Nat
      BY WindowSlots DEF RInv, TypeOK
    <3>2. CASE n = pos[p]
      BY <2>1, <2>4, <3>2 DEF CellInv
    <3>3. CASE n # pos[p]
      BY <2>1, <2>4, <3>1, <3>3 DEF RInv, CellInv
    <3> QED
      BY <3>2, <3>3
  <2>6. ASSUME NEW q \in Producers PROVE ProducerInv(q)'
    BY <2>1, <2>2, <2>4 DEF RInv, TypeOK, Bounds, ProducerInv, Owns
  <2>7. ASSUME NEW q \in Producers, Owns(q) PROVE pos[q] # pos[p]
    BY <2>1, <2>7 DEF RInv, TypeOK, ProducerInv
  <2>8. ASSUME NEW q \in Producers, NEW r \in Producers PROVE OwnsAlone(q, r)'
    BY <2>1, <2>4, <2>7 DEF RInv, OwnsAlone
  <2> QED
    BY <1>1, <1>2, <2>3, <2>5, <2>6, <2>8 DEF RInv
<1>4. CASE ppc'[p] # "construct"
  <2>1. /\ UNCHANGED enqueue_pos_ /\ ppc' = [ppc EXCEPT ![p] = "load"]
        /\ pos' = [pos EXCEPT ![p] = enqueue_pos_]
    BY <1>4 DEF RInv, TypeOK
  <2>2. ASSUME NEW q \in Producers PROVE (Owns(q)' <=> Owns(q)) /\ (Owns(q) => pos'[q] = pos[q])
    BY <2>1 DEF RInv, TypeOK, Owns
  <2>3. ASSUME NEW n \in Window PROVE CellInv(n)'
    BY <2>1, <2>2 DEF RInv, CellInv
  <2>4. ASSUME NEW q \in Producers PROVE ProducerInv(q)'
    BY <2>1, <2>2 DEF RInv, TypeOK, ProducerInv, Owns
  <2>5. ASSUME NEW q \in Producers, NEW r \in Producers PROVE OwnsAlone(q, r)'
    BY SMTT(30), <2>2 DEF RInv, OwnsAlone
  <2> QED
    BY <1>1, <1>2, <2>1, <2>3, <2>4, <2>5 DEF RInv, Bounds
<1> QED
  BY <1>3, <1>4

\* Construct preserves RInv.
LEMMA ConstructRInv ==
  ASSUME RInv, NEW p \in Producers, Construct(p)
  PROVE  RInv'
<1> USE DEF Construct, Goto, consumerVars
<1>1. /\ pos[p] \in Window /\ pos[p] \in Nat /\ Owns(p) /\ pos[p] < enqueue_pos_
      /\ sequence[Slot(pos[p])] = pos[p] /\ value[p] \in Values /\ Slot(pos[p]) \in Index
  BY SMTT(30), RingAssumption, SlotIndex DEF RInv, TypeOK, Bounds, ProducerInv, Owns, Window
<1>2. TypeOK'
  BY Zenon DEF RInv, TypeOK, ProducerStates
<1>3. Bounds' /\ Window' = Window
  BY DEF RInv, Bounds, Window
<1>4. ASSUME NEW n \in Window, n # pos[p] PROVE storage'[Slot(n)] = storage[Slot(n)]
  BY <1>1, <1>4, WindowSlots DEF RInv, TypeOK
<1>5. storage'[Slot(pos[p])] = value[p]
  BY <1>1 DEF RInv, TypeOK
<1>6. ConsumerInv'
  <2>1. ppc[p] # "idle" /\ cpc \notin {"drain", "destroyed"}
    BY SMTT(30) DEF RInv, ConsumerInv
  <2>2. CASE cpc \in {"move", "release"}
    <3>1. dequeue_pos_ \in Window /\ dequeue_pos_ # pos[p]
      BY <1>1, <2>2, RingAssumption DEF RInv, TypeOK, ConsumerInv, Window
    <3> QED
      BY <1>4, <2>2, <3>1 DEF RInv, ConsumerInv
  <2> QED
    BY <2>1, <2>2 DEF ConsumerInv
<1>7. ASSUME NEW q \in Producers PROVE Owns(q)' <=> Owns(q)
  BY SMTT(30) DEF RInv, TypeOK, Owns
<1>8. ASSUME NEW n \in Window PROVE CellInv(n)'
  BY SMTT(30), <1>1, <1>4, <1>7 DEF RInv, CellInv
<1>9. ASSUME NEW q \in Producers PROVE ProducerInv(q)'
  <2>1. CASE q = p
    BY <1>1, <1>5, <2>1 DEF RInv, TypeOK, ProducerInv, Owns
  <2>2. CASE q # p /\ Owns(q)
    <3>1. pos[q] \in Window /\ pos[q] # pos[p]
      BY <1>1, <2>2, RingAssumption
      DEF RInv, TypeOK, Bounds, ProducerInv, OwnsAlone, Window
    <3> QED
      BY <1>4, <2>2, <3>1 DEF RInv, TypeOK, ProducerInv, Owns
  <2>3. CASE q # p /\ ~Owns(q)
    BY SMTT(30), <2>3 DEF RInv, TypeOK, ProducerInv, Owns
  <2> QED
    BY SMTT(30), <2>1, <2>2, <2>3
<1>10. ASSUME NEW q \in Producers, NEW r \in Producers PROVE OwnsAlone(q, r)'
  BY <1>7 DEF RInv, OwnsAlone
<1> QED
  BY <1>2, <1>3, <1>6, <1>8, <1>9, <1>10 DEF RInv

\* Publish preserves RInv.
LEMMA PublishRInv ==
  ASSUME RInv, NEW p \in Producers, Publish(p)
  PROVE  RInv'
<1> USE DEF Publish, Goto, Return, consumerVars
<1>1. /\ pos[p] \in Window /\ pos[p] \in Nat /\ Owns(p) /\ pos[p] < enqueue_pos_
      /\ sequence[Slot(pos[p])] = pos[p] /\ Slot(pos[p]) \in Index
      /\ storage[Slot(pos[p])] \in Values
  <2>1. Owns(p) /\ ProducerInv(p) /\ ppc[p] = "publish"
    BY DEF RInv, Owns
  <2>2. storage[Slot(pos[p])] = value[p] /\ value[p] \in Values
    BY <2>1 DEF ProducerInv
  <2> QED
    BY SMTT(30), <2>1, <2>2, RingAssumption, SlotIndex DEF RInv, TypeOK, Bounds, ProducerInv, Window
<1>2. TypeOK'
  BY <1>1 DEF RInv, TypeOK, ProducerStates
<1>3. Bounds' /\ Window' = Window
  BY DEF RInv, Bounds, Window
<1>4. ASSUME NEW n \in Window, n # pos[p] PROVE sequence'[Slot(n)] = sequence[Slot(n)]
  BY <1>1, <1>4, WindowSlots DEF RInv, TypeOK
<1>5. sequence'[Slot(pos[p])] = pos[p] + 1
  BY <1>1 DEF RInv, TypeOK
<1>6. ConsumerInv'
  <2>1. ppc[p] # "idle" /\ cpc \notin {"drain", "destroyed"}
    BY SMTT(30) DEF RInv, ConsumerInv
  <2>2. CASE cpc \in {"move", "release"}
    <3>1. dequeue_pos_ \in Window /\ dequeue_pos_ # pos[p]
      BY <1>1, <2>2, RingAssumption DEF RInv, TypeOK, ConsumerInv, Window
    <3> QED
      BY <1>4, <2>2, <3>1 DEF RInv, ConsumerInv
  <2> QED
    BY SMTT(30), <2>1, <2>2 DEF ConsumerInv
<1>7. ASSUME NEW q \in Producers PROVE Owns(q)' <=> Owns(q) /\ q # p
  BY <1>1 DEF RInv, TypeOK, Owns
<1>8. ASSUME NEW n \in Window PROVE CellInv(n)'
  <2>1. CASE n = pos[p]
    BY SMTT(30), <1>1, <1>5, <2>1 DEF CellInv
  <2>2. CASE n # pos[p]
    BY SMTT(30), <1>4, <1>7, <2>2 DEF RInv, CellInv
  <2> QED
    BY <2>1, <2>2
<1>9. ASSUME NEW q \in Producers PROVE ProducerInv(q)'
  <2>1. CASE q = p
    BY SMTT(30), <1>1, <1>7, <2>1 DEF RInv, TypeOK, ProducerInv, Owns
  <2>2. CASE q # p /\ Owns(q)
    <3>1. pos[q] \in Window /\ pos[q] # pos[p]
      BY SMTT(30), <1>1, <2>2, RingAssumption
      DEF RInv, TypeOK, Bounds, ProducerInv, OwnsAlone, Window
    <3> QED
      BY SMTT(30), <1>4, <2>2, <3>1 DEF RInv, TypeOK, ProducerInv, Owns
  <2>3. CASE q # p /\ ~Owns(q)
    BY <2>3 DEF RInv, TypeOK, ProducerInv, Owns
  <2> QED
    BY SMTT(30), <2>1, <2>2, <2>3
<1>10. ASSUME NEW q \in Producers, NEW r \in Producers PROVE OwnsAlone(q, r)'
  BY <1>7 DEF RInv, OwnsAlone
<1> QED
  BY SMTT(30), <1>2, <1>3, <1>6, <1>8, <1>9, <1>10 DEF RInv

\* The consumer finds the next cell filled: the position is taken, nobody is
\* filling it any more and, unless it has just been emptied, it has an object.
LEMMA FilledHead ==
  ASSUME RInv, ~Empty
  PROVE  /\ dequeue_pos_ < enqueue_pos_ /\ dequeue_pos_ \in Window
         /\ sequence[Slot(dequeue_pos_)] = dequeue_pos_ + 1
         /\ cpc # "release" => storage[Slot(dequeue_pos_)] \in Values
<1>1. /\ dequeue_pos_ \in Nat /\ enqueue_pos_ \in Nat /\ dequeue_pos_ \in Window
      /\ sequence[Slot(dequeue_pos_)] \in Nat /\ Bounds /\ CellInv(dequeue_pos_)
  BY SlotIndex, RingAssumption DEF RInv, TypeOK, Window
<1>2. sequence[Slot(dequeue_pos_)] >= dequeue_pos_ + 1
  BY <1>1 DEF Empty
<1>3. dequeue_pos_ < enqueue_pos_
  BY <1>1, <1>2 DEF CellInv
<1>4. ASSUME NEW p \in Producers, Owns(p) PROVE pos[p] # dequeue_pos_
  BY SMTT(30), <1>1, <1>2, <1>4 DEF RInv, ProducerInv
<1> QED
  BY <1>1, <1>3, <1>4 DEF CellInv

\* TryPopOne preserves RInv.
LEMMA TryPopOneRInv == ASSUME RInv, TryPopOne PROVE RInv'
<1> USE DEF TryPopOne, producerVars
<1>1. TypeOK'
  BY DEF RInv, TypeOK, ConsumerStates
<1>2. ConsumerInv'
  BY SMTT(30), FilledHead DEF RInv, ConsumerInv
<1>3. ASSUME NEW n \in Window PROVE CellInv(n)'
  BY DEF RInv, CellInv, Owns
<1>4. ASSUME NEW q \in Producers PROVE ProducerInv(q)'
  BY SMTT(30) DEF RInv, ProducerInv, Owns
<1> QED
  BY SMTT(30), <1>1, <1>2, <1>3, <1>4 DEF RInv, Bounds, Window, OwnsAlone, Owns

\* MoveOut preserves RInv.
LEMMA MoveOutRInv == ASSUME RInv, MoveOut PROVE RInv'
<1> USE DEF MoveOut, producerVars
<1>1. /\ dequeue_pos_ \in Window /\ dequeue_pos_ < enqueue_pos_ /\ dequeue_pos_ \in Nat
      /\ Slot(dequeue_pos_) \in Index
      /\ sequence[Slot(dequeue_pos_)] = dequeue_pos_ + 1
  BY SMTT(30), SlotIndex, RingAssumption DEF RInv, TypeOK, ConsumerInv, Window
<1>2. ~Empty
  BY <1>1 DEF Empty
<1>3. storage[Slot(dequeue_pos_)] \in Values
  BY <1>2, FilledHead
<1>4. TypeOK'
  BY Zenon, <1>3 DEF RInv, TypeOK, ConsumerStates
<1>5. ConsumerInv'
  BY SMTT(30), <1>1, <1>3 DEF RInv, TypeOK, ConsumerInv
<1>6. ASSUME NEW n \in Window, n # dequeue_pos_
      PROVE  storage'[Slot(n)] = storage[Slot(n)]
  BY <1>1, <1>6, WindowSlots DEF RInv, TypeOK
<1>7. ASSUME NEW n \in Window PROVE CellInv(n)'
  <2>1. CASE n = dequeue_pos_
    BY SMTT(30), <1>1, <2>1 DEF CellInv
  <2>2. CASE n # dequeue_pos_
    BY <1>6, <2>2 DEF RInv, CellInv, Owns
  <2> QED
    BY <2>1, <2>2
<1>8. ASSUME NEW q \in Producers PROVE ProducerInv(q)'
  <2>1. CASE Owns(q)
    <3>1. pos[q] \in Window /\ pos[q] # dequeue_pos_
      BY SMTT(30), <1>1, <2>1, RingAssumption DEF RInv, TypeOK, Bounds, ProducerInv, Window
    <3> QED
      BY SMTT(30), <1>6, <2>1, <3>1 DEF RInv, ProducerInv, Owns
  <2>2. CASE ~Owns(q)
    BY SMTT(30), <2>2 DEF RInv, ProducerInv, Owns
  <2> QED
    BY SMTT(30), <2>1, <2>2
<1> QED
  BY <1>4, <1>5, <1>7, <1>8 DEF RInv, Bounds, Window, OwnsAlone, Owns

\* Giving back the cell of the first position, once it holds no object and no
\* producer owns it, moves the window on by one position.
LEMMA FreeSlotKeeps ==
  ASSUME RInv, FreeSlot, dequeue_pos_ < enqueue_pos_,
         UNCHANGED <<enqueue_pos_, producerVars>>,
         storage' = [storage EXCEPT ![Slot(dequeue_pos_)] = None],
         sequence[Slot(dequeue_pos_)] = dequeue_pos_ + 1,
         cpc' # "release"
  PROVE  /\ dequeue_pos_' \in Nat /\ sequence' \in [Index -> Nat]
         /\ storage' \in [Index -> Values \cup {None}]
         /\ Bounds'
         /\ \A n \in Window' : CellInv(n)'
         /\ \A p \in Producers : ProducerInv(p)'
         /\ \A p \in Producers, q \in Producers : OwnsAlone(p, q)'
<1> USE DEF FreeSlot, producerVars
<1>1. /\ dequeue_pos_ \in Window /\ dequeue_pos_ \in Nat /\ enqueue_pos_ \in Nat
      /\ Slot(dequeue_pos_) \in Index /\ dequeue_pos_' = dequeue_pos_ + 1
      /\ Capacity \in Nat
  BY SlotIndex, RingAssumption DEF RInv, TypeOK, Window
<1>2. dequeue_pos_' \in Nat /\ sequence' \in [Index -> Nat] /\ Bounds'
  BY <1>1 DEF RInv, TypeOK, Bounds
<1>3. storage' \in [Index -> Values \cup {None}]
  BY SMTT(30), <1>1 DEF RInv, TypeOK
<1>4. ASSUME NEW n \in Window, n # dequeue_pos_
      PROVE  sequence'[Slot(n)] = sequence[Slot(n)] /\ storage'[Slot(n)] = storage[Slot(n)]
  BY <1>1, <1>4, WindowSlots DEF RInv, TypeOK
<1>5. ASSUME NEW n \in Window' PROVE CellInv(n)'
  <2>1. CASE n \in Window
    <3>1. n # dequeue_pos_ /\ n # dequeue_pos_' => n > dequeue_pos_ + 1
      BY <1>1, <2>1 DEF Window
    <3>2. n # dequeue_pos_ /\ n \in Nat
      BY <1>1, <1>5 DEF Window
    <3> QED
      BY <1>1, <1>4, <2>1, <3>2 DEF RInv, CellInv, Owns
  <2>2. CASE n \notin Window
    <3>1. n = dequeue_pos_ + Capacity
      BY <1>1, <1>5, <2>2 DEF Window
    <3>2. Slot(n) = Slot(dequeue_pos_)
      BY <1>1, <3>1, SlotShift
    <3>3. sequence'[Slot(n)] = n /\ storage'[Slot(n)] = None
      BY <1>1, <3>1, <3>2 DEF RInv, TypeOK
    <3>4. ~(n < enqueue_pos_')
      BY <1>1, <3>1 DEF RInv, Bounds
    <3> QED
      BY <3>3, <3>4 DEF CellInv
  <2> QED
    BY SMTT(30), <2>1, <2>2
<1>6. ASSUME NEW q \in Producers PROVE ProducerInv(q)'
  <2>1. CASE Owns(q)
    <3>1. pos[q] \in Window /\ pos[q] # dequeue_pos_ /\ pos[q] \in Nat
      BY SMTT(30), <1>1, <2>1 DEF RInv, TypeOK, Bounds, ProducerInv, Window
    <3> QED
      BY SMTT(30), <1>1, <1>4, <2>1, <3>1 DEF RInv, ProducerInv, Owns
  <2>2. CASE ~Owns(q)
    BY <1>1, <2>2 DEF RInv, ProducerInv, Owns
  <2> QED
    BY SMTT(30), <2>1, <2>2
<1> QED
  BY <1>2, <1>3, <1>5, <1>6 DEF RInv, OwnsAlone, Owns

\* Release preserves RInv.
LEMMA ReleaseRInv == ASSUME RInv, Release PROVE RInv'
<1> USE DEF Release
<1>1. /\ dequeue_pos_ < enqueue_pos_ /\ out \in Values
      /\ sequence[Slot(dequeue_pos_)] = dequeue_pos_ + 1
      /\ storage[Slot(dequeue_pos_)] = None /\ storage \in [Index -> Values \cup {None}]
  BY DEF RInv, TypeOK, ConsumerInv
<1>2. storage' = [storage EXCEPT ![Slot(dequeue_pos_)] = None]
  BY <1>1
<1>3. ConsumerInv'
  BY DEF ConsumerInv
<1>4. popped' \in Seq(Values)
  BY <1>1 DEF RInv, TypeOK
<1>5. cpc' # "release"
  OBVIOUS
<1>6. /\ dequeue_pos_' \in Nat /\ sequence' \in [Index -> Nat]
      /\ storage' \in [Index -> Values \cup {None}] /\ Bounds'
      /\ \A n \in Window' : CellInv(n)'
      /\ \A p \in Producers : ProducerInv(p)'
      /\ \A p \in Producers, q \in Producers : OwnsAlone(p, q)'
  BY ZenonT(40), <1>1, <1>2, <1>5, FreeSlotKeeps
<1>7. TypeOK'
  BY SMTT(30), <1>4, <1>6 DEF RInv, TypeOK, ConsumerStates, producerVars
<1> QED
  BY <1>3, <1>6, <1>7 DEF RInv

\* Destroy preserves RInv.
LEMMA DestroyRInv == ASSUME RInv, Destroy PROVE RInv'
<1> USE DEF Destroy, producerVars
<1>1. TypeOK' /\ ConsumerInv'
  BY SMTT(30) DEF RInv, TypeOK, ConsumerStates, ConsumerInv
<1>2. ASSUME NEW n \in Window PROVE CellInv(n)'
  BY SMTT(30) DEF RInv, CellInv, Owns
<1>3. ASSUME NEW q \in Producers PROVE ProducerInv(q)'
  BY DEF RInv, ProducerInv, Owns
<1> QED
  BY SMTT(30), <1>1, <1>2, <1>3 DEF RInv, Bounds, Window, OwnsAlone, Owns

\* DrainAll preserves RInv.
LEMMA DrainAllRInv == ASSUME RInv, DrainAll PROVE RInv'
<1> USE DEF DrainAll
<1>1. CASE Empty
  <2>1. \A p \in Producers : ~Owns(p)
    BY DEF RInv, ConsumerInv, Owns
  <2>2. dequeue_pos_ \in Window /\ dequeue_pos_ \in Nat /\ enqueue_pos_ \in Nat
    BY RingAssumption DEF RInv, TypeOK, Window
  <2>3. enqueue_pos_ = dequeue_pos_
    BY SMTT(30), <1>1, <2>1, <2>2 DEF RInv, CellInv, Bounds, Empty
  <2>4. TypeOK' /\ ConsumerInv'
    BY SMTT(30), <1>1, <2>3 DEF RInv, TypeOK, ConsumerStates, ConsumerInv, producerVars
  <2>5. ASSUME NEW n \in Window PROVE CellInv(n)'
    BY SMTT(30), <1>1 DEF RInv, CellInv, Owns, producerVars
  <2>6. ASSUME NEW q \in Producers PROVE ProducerInv(q)'
    BY SMTT(30), <1>1 DEF RInv, ProducerInv, Owns, producerVars
  <2> QED
    BY <1>1, <2>4, <2>5, <2>6 DEF RInv, Bounds, Window, OwnsAlone, Owns, producerVars
<1>2. CASE ~Empty
  <2>1. ConsumerInv'
    BY <1>2 DEF RInv, ConsumerInv, producerVars
  <2> QED
    BY <1>2, <2>1, FilledHead, FreeSlotKeeps DEF RInv, TypeOK, producerVars
<1> QED
  BY SMTT(30), <1>1, <1>2

\* Every step preserves RInv.
LEMMA NextRInv == RInv /\ [Next]_vars => RInv'
<1> SUFFICES ASSUME RInv, [Next]_vars PROVE RInv'
  OBVIOUS
<1>1. ASSUME NEW p \in Producers, ProducerNext(p) PROVE RInv'
  BY <1>1, TryPushRInv, LoadSequenceRInv, CompareExchangeRInv, ConstructRInv,
     PublishRInv DEF ProducerNext
<1>2. CASE ConsumerNext
  BY SMTT(30), <1>2, TryPopOneRInv, MoveOutRInv, ReleaseRInv, DestroyRInv, DrainAllRInv
  DEF ConsumerNext
<1>3. CASE UNCHANGED vars
  <2>1. TypeOK' /\ ConsumerInv' /\ Bounds' /\ Window' = Window
    BY SMTT(30), <1>3 DEF RInv, TypeOK, ConsumerInv, Bounds, Window, vars
  <2>2. ASSUME NEW n \in Window PROVE CellInv(n)'
    BY SMTT(30), <1>3 DEF RInv, CellInv, Owns, vars
  <2>3. ASSUME NEW q \in Producers PROVE ProducerInv(q)'
    BY <1>3 DEF RInv, ProducerInv, Owns, vars
  <2> QED
    BY SMTT(30), <1>3, <2>1, <2>2, <2>3 DEF RInv, OwnsAlone, Owns, vars
<1> QED
  BY <1>1, <1>2, <1>3 DEF Next

\* The inductive invariant holds in every reachable state of the ring.
THEOREM RingInvariant == Spec => []RInv
<1> QED
  BY InitRInv, NextRInv, PTL DEF Spec

\* The positions, the sequence numbers and the storage of the ring have their
\* types; in particular the consumer only ever pops values that were pushed.
THEOREM RingTypeOK == Spec => []TypeOK
<1>1. RInv => TypeOK
  BY DEF RInv
<1> QED
  BY <1>1, RingInvariant, PTL

\* construct_at and destroy_at are used as C++ requires, for any capacity and
\* any number of producers: no object is built over a living one, no cell is
\* filled by two producers, and only living objects are moved out of.
THEOREM RingObjectLifetimes == Spec => []ObjectLifetimes
<1>1. ASSUME RInv PROVE ObjectLifetimes
  <2>1. None \notin Values
    BY RingAssumption
  <2>2. ASSUME NEW p \in Producers, NEW q \in Producers, q # p, Owns(p), Owns(q)
        PROVE  Slot(pos[q]) # Slot(pos[p])
    <3>1. pos[p] \in Window /\ pos[q] \in Window /\ pos[p] # pos[q]
      BY SMTT(30), <1>1, <2>2, RingAssumption
      DEF RInv, TypeOK, Bounds, ProducerInv, OwnsAlone, Window
    <3> QED
      BY SMTT(30), <1>1, <3>1, WindowSlots DEF RInv, TypeOK
  <2>3. ASSUME NEW p \in Producers, ppc[p] = "construct"
        PROVE  storage[Slot(pos[p])] = None
    BY <1>1, <2>3 DEF RInv, ProducerInv, Owns
  <2>4. cpc = "move" => ~Empty
    <3> SUFFICES ASSUME cpc = "move" PROVE ~Empty
      OBVIOUS
    <3>1. /\ sequence[Slot(dequeue_pos_)] = dequeue_pos_ + 1 /\ dequeue_pos_ \in Nat
      BY <1>1 DEF RInv, TypeOK, ConsumerInv
    <3> QED
      BY <3>1 DEF Empty
  <2>5. cpc # "release" /\ ~Empty => storage[Slot(dequeue_pos_)] # None
    BY SMTT(30), <1>1, <2>1, FilledHead
  <2> QED
    BY <2>2, <2>3, <2>4, <2>5 DEF ObjectLifetimes, Owns
<1> QED
  BY <1>1, RingInvariant, PTL

\* ~MpscRingQueue destroys every object that was pushed and never popped.
THEOREM RingNothingLeaks == Spec => []NothingLeaks
<1>1. ASSUME RInv PROVE NothingLeaks
  <2> SUFFICES ASSUME cpc = "destroyed", NEW i \in Index PROVE storage[i] = None
    BY DEF NothingLeaks
  <2>1. dequeue_pos_ \in Nat /\ enqueue_pos_ = dequeue_pos_
    BY <1>1 DEF RInv, TypeOK, ConsumerInv
  <2>2. PICK n \in Window : Slot(n) = i
    BY <2>1, SlotOnto DEF Window
  <2>3. ~(n < enqueue_pos_)
    BY <2>1, RingAssumption DEF Window
  <2> QED
    BY <1>1, <2>2, <2>3 DEF RInv, CellInv
<1> QED
  BY <1>1, RingInvariant, PTL

-----------------------------------------------------------------------------
(* The ring implements ReservationQueue.  Cells is what the refinement     *)
(* mapping substitutes for the abstract queue.                             *)

Cells == [i \in 1 .. enqueue_pos_ - dequeue_pos_ |-> CellAt(dequeue_pos_ + i - 1)]

\* The object of a cell that nobody is filling.
Content(n) == IF cpc = "release" /\ n = dequeue_pos_ THEN out ELSE storage[Slot(n)]

\* The abstract cell of a position that a producer owns ...
LEMMA CellOwned ==
  ASSUME NEW n, NEW p \in Producers, Claims(p, n),
         \A q \in Producers : Claims(q, n) => q = p
  PROVE  CellAt(n) = [value |-> value[p], writer |-> p]
<1>1. (CHOOSE q \in Producers : Claims(q, n)) = p
  BY Zenon
<1> QED
  BY Zenon, <1>1 DEF CellAt

\* The abstract cell of a position that a producer has claimed,
LEMMA CellOwnedNext ==
  ASSUME NEW n, NEW p \in Producers, Claims(p, n)',
         \A q \in Producers : Claims(q, n)' => q = p
  PROVE  CellAt(n)' = [value |-> value'[p], writer |-> p]
<1>1. (CHOOSE q \in Producers : Claims(q, n)') = p
  BY Zenon
<1> QED
  BY Zenon, <1>1 DEF CellAt

\* ... and of a position that nobody owns.
LEMMA CellFilled ==
  ASSUME NEW n, \A q \in Producers : ~Claims(q, n)
  PROVE  CellAt(n) = [value |-> Content(n), writer |-> None]
  BY Zenon DEF CellAt, Content

\* and of one that nobody claims.
LEMMA CellFilledNext ==
  ASSUME NEW n, \A q \in Producers : ~Claims(q, n)'
  PROVE  CellAt(n)' = [value |-> Content(n)', writer |-> None]
  BY Zenon DEF CellAt, Content

\* A position keeps its abstract cell when it keeps its owner or its object.
LEMMA CellStays ==
  ASSUME RInv, NEW n,
         \A q \in Producers : Claims(q, n)' <=> Claims(q, n),
         \A q \in Producers : Claims(q, n) => value'[q] = value[q],
         (\A q \in Producers : ~Claims(q, n)) => Content(n)' = Content(n)
  PROVE  CellAt(n)' = CellAt(n)
<1>1. CASE \E p \in Producers : Claims(p, n)
  <2>1. PICK p \in Producers : Claims(p, n)
    BY <1>1
  <2>2. \A q \in Producers : Claims(q, n) => q = p
    BY <2>1 DEF RInv, OwnsAlone, Owns, Claims
  <2>3. CellAt(n) = [value |-> value[p], writer |-> p]
    BY Zenon, <2>1, <2>2, CellOwned
  <2>4. CellAt(n)' = [value |-> value'[p], writer |-> p]
    BY Zenon, <2>1, <2>2, CellOwnedNext
  <2> QED
    BY Zenon, <2>1, <2>3, <2>4
<1>2. CASE \A p \in Producers : ~Claims(p, n)
  BY Zenon, <1>2, CellFilled, CellFilledNext
<1> QED
  BY Zenon, <1>1, <1>2

\* The abstract queue is a sequence of cells, as long as the distance between
\* the two positions.
LEMMA CellsSeq ==
  ASSUME RInv
  PROVE  /\ Cells \in Seq(Queue!Cell)
         /\ enqueue_pos_ - dequeue_pos_ \in Nat
         /\ Len(Cells) = enqueue_pos_ - dequeue_pos_
         /\ \A i \in 1 .. enqueue_pos_ - dequeue_pos_ :
              Cells[i] = CellAt(dequeue_pos_ + i - 1)
<1>1. enqueue_pos_ - dequeue_pos_ \in Nat /\ dequeue_pos_ \in Nat /\ enqueue_pos_ \in Nat
  BY DEF RInv, TypeOK, Bounds
<1>2. ASSUME NEW n \in Window, n < enqueue_pos_ PROVE CellAt(n) \in Queue!Cell
  <2>1. CASE \E p \in Producers : Claims(p, n)
    <3>1. PICK p \in Producers : Claims(p, n)
      BY <2>1
    <3>2. \A q \in Producers : Claims(q, n) => q = p
      BY <3>1 DEF RInv, OwnsAlone, Owns, Claims
    <3>3. value[p] \in Values
      BY <3>1 DEF RInv, ProducerInv, Claims
    <3> QED
      BY <3>1, <3>2, <3>3, CellOwned DEF Queue!Cell
  <2>2. CASE \A p \in Producers : ~Claims(p, n)
    <3>1. storage[Slot(n)] \in Values \/ (n = dequeue_pos_ /\ cpc = "release")
      BY <1>2, <2>2 DEF RInv, CellInv, Owns, Claims
    <3>2. Content(n) \in Values
      BY <3>1 DEF RInv, ConsumerInv, Content
    <3> QED
      BY <2>2, <3>2, CellFilled DEF Queue!Cell
  <2> QED
    BY <2>1, <2>2
<1>3. ASSUME NEW i \in 1 .. enqueue_pos_ - dequeue_pos_
      PROVE  CellAt(dequeue_pos_ + i - 1) \in Queue!Cell
  <2>1. dequeue_pos_ + i - 1 \in Window /\ dequeue_pos_ + i - 1 < enqueue_pos_
    BY <1>1, RingAssumption DEF RInv, Bounds, Window
  <2> QED
    BY <1>2, <2>1
<1>4. Cells \in [1 .. enqueue_pos_ - dequeue_pos_ -> Queue!Cell]
  BY <1>3 DEF Cells
<1>5. Cells \in Seq(Queue!Cell)
  BY <1>1, <1>4
<1> QED
  BY <1>1, <1>4, <1>5 DEF Cells

\* The writer of an abstract cell owns its position ...
LEMMA WriterClaims ==
  ASSUME RInv, NEW n, NEW p \in Producers, CellAt(n).writer = p
  PROVE  Claims(p, n)
<1>1. CASE \E q \in Producers : Claims(q, n)
  <2>1. PICK q \in Producers : Claims(q, n)
    BY <1>1
  <2>2. \A r \in Producers : Claims(r, n) => r = q
    BY <2>1 DEF RInv, OwnsAlone, Owns, Claims
  <2>3. CellAt(n) = [value |-> value[q], writer |-> q]
    BY <2>1, <2>2, CellOwned
  <2> QED
    BY <2>1, <2>3
<1>2. CASE \A q \in Producers : ~Claims(q, n)
  <2>1. CellAt(n).writer = None
    BY <1>2, CellFilled
  <2> QED
    BY <2>1, RingAssumption
<1> QED
  BY <1>1, <1>2

\* ... and the owner of a position is the writer of its abstract cell.
LEMMA OwnerWrites ==
  ASSUME RInv, NEW p \in Producers, Owns(p)
  PROVE  /\ pos[p] \in Window /\ pos[p] < enqueue_pos_
         /\ \A q \in Producers : Claims(q, pos[p]) => q = p
         /\ CellAt(pos[p]) = [value |-> value[p], writer |-> p]
<1>1. pos[p] \in Window /\ pos[p] < enqueue_pos_
  BY RingAssumption DEF RInv, TypeOK, Bounds, ProducerInv, Window
<1>2. Claims(p, pos[p]) /\ \A q \in Producers : Claims(q, pos[p]) => q = p
  BY DEF RInv, OwnsAlone, Owns, Claims
<1> QED
  BY <1>1, <1>2, CellOwned

\* No position changes and no cell does: the abstract queue stays.
LEMMA CellsStay ==
  ASSUME RInv, UNCHANGED <<enqueue_pos_, dequeue_pos_>>,
         \A n \in Window : CellAt(n)' = CellAt(n)
  PROVE  Cells' = Cells
<1>1. \A i \in 1 .. enqueue_pos_ - dequeue_pos_ : dequeue_pos_ + i - 1 \in Window
  BY RingAssumption DEF RInv, TypeOK, Bounds, Window
<1>2. \A i \in 1 .. enqueue_pos_ - dequeue_pos_ :
        CellAt(dequeue_pos_ + i - 1)' = CellAt(dequeue_pos_ + i - 1)
  BY <1>1
<1> QED
  BY <1>2 DEF Cells

\* Append and Tail, place by place.
LEMMA SeqIsFcn ==
  ASSUME NEW S, NEW s \in Seq(S)
  PROVE  s = [i \in 1 .. Len(s) |-> s[i]]
<1>1. s \in [1 .. Len(s) -> S]
  OBVIOUS
<1> QED
  BY <1>1

\* Append as a function,
LEMMA AppendIs ==
  ASSUME NEW S, NEW s \in Seq(S), NEW x \in S, NEW n \in Nat, Len(s) = n
  PROVE  Append(s, x) = [i \in 1 .. n + 1 |-> IF i = n + 1 THEN x ELSE s[i]]
<1>0. Append(s, x) \in Seq(S) /\ Len(Append(s, x)) = n + 1
  OBVIOUS
<1>1. PICK t \in Seq(S) : t = Append(s, x) /\ Len(t) = n + 1
  BY Zenon, <1>0
<1>2. \A i \in 1 .. n + 1 : t[i] = IF i = n + 1 THEN x ELSE s[i]
  BY <1>1
<1>3. t = [i \in 1 .. n + 1 |-> t[i]]
  BY Zenon, <1>1, SeqIsFcn
<1> QED
  BY Zenon, <1>1, <1>2, <1>3

\* and Tail.
LEMMA TailIs ==
  ASSUME NEW S, NEW s \in Seq(S), NEW n \in Nat, Len(s) = n + 1
  PROVE  Tail(s) = [i \in 1 .. n |-> s[i + 1]]
<1>0. Tail(s) \in Seq(S) /\ Len(Tail(s)) = n
  OBVIOUS
<1>1. PICK t \in Seq(S) : t = Tail(s) /\ Len(t) = n
  BY Zenon, <1>0
<1>2. \A i \in 1 .. n : t[i] = s[i + 1]
  BY <1>1
<1>3. t = [i \in 1 .. n |-> t[i]]
  BY Zenon, <1>1, SeqIsFcn
<1> QED
  BY Zenon, <1>1, <1>2, <1>3
\* One more position is taken, the other cells stay.
LEMMA CellsGrow ==
  ASSUME RInv, NEW cell \in Queue!Cell, enqueue_pos_' = enqueue_pos_ + 1, UNCHANGED dequeue_pos_,
         \A n \in Nat : n # enqueue_pos_ => CellAt(n)' = CellAt(n),
         \A n \in Nat : n = enqueue_pos_ => CellAt(n)' = cell
  PROVE  Cells' = Append(Cells, cell)
<1>1. PICK len \in Nat : /\ len = enqueue_pos_ - dequeue_pos_
                         /\ dequeue_pos_ \in Nat /\ enqueue_pos_ = dequeue_pos_ + len
                         /\ enqueue_pos_' - dequeue_pos_' = len + 1
  BY CellsSeq DEF RInv, TypeOK
<1>2. Append(Cells, cell) = [i \in 1 .. len + 1 |-> IF i = len + 1 THEN cell ELSE Cells[i]]
  <2>1. Cells \in Seq(Queue!Cell) /\ Len(Cells) = len
    BY <1>1, CellsSeq
  <2> QED
    BY <2>1, AppendIs
<1>3. Cells' = [i \in 1 .. len + 1 |-> CellAt(dequeue_pos_ + i - 1)']
  BY Zenon, <1>1 DEF Cells
<1>4. ASSUME NEW i \in 1 .. len + 1
      PROVE  CellAt(dequeue_pos_ + i - 1)' = IF i = len + 1 THEN cell ELSE Cells[i]
  <2>1. PICK n \in Nat : n = dequeue_pos_ + i - 1 /\ (i = len + 1 <=> n = enqueue_pos_)
    BY <1>1
  <2>2. CellAt(dequeue_pos_ + i - 1)' = CellAt(n)'
    BY <2>1
  <2>3. i # len + 1 => Cells[i] = CellAt(n)
    BY <1>1, <2>1, CellsSeq
  <2> QED
    BY <2>1, <2>2, <2>3
<1> QED
  BY Zenon, <1>2, <1>3, <1>4

\* The first position is given back, the other cells stay.
LEMMA CellsShrink ==
  ASSUME RInv, dequeue_pos_' = dequeue_pos_ + 1, UNCHANGED enqueue_pos_,
         dequeue_pos_ < enqueue_pos_,
         \A n \in Window : n # dequeue_pos_ => CellAt(n)' = CellAt(n)
  PROVE  Cells # << >> /\ Cells[1] = CellAt(dequeue_pos_) /\ Cells' = Tail(Cells)
<1>1. PICK len \in Nat : /\ len + 1 = enqueue_pos_ - dequeue_pos_ /\ len + 1 <= Capacity
                         /\ dequeue_pos_ \in Nat /\ enqueue_pos_ = dequeue_pos_ + len + 1
                         /\ enqueue_pos_' - dequeue_pos_' = len
  <2>1. dequeue_pos_ \in Nat /\ enqueue_pos_ \in Nat /\ enqueue_pos_ <= dequeue_pos_ + Capacity
    BY DEF RInv, TypeOK, Bounds
  <2>2. enqueue_pos_ - dequeue_pos_ - 1 \in Nat
    BY <2>1
  <2> QED
    BY <2>1, <2>2, RingAssumption
<1>2. Cells \in Seq(Queue!Cell) /\ Len(Cells) = len + 1
  BY <1>1, CellsSeq
<1>0. Cells # << >>
  BY <1>1, <1>2
<1>3. Tail(Cells) = [i \in 1 .. len |-> Cells[i + 1]]
  BY Zenon, <1>2, TailIs
<1>4. Cells' = [i \in 1 .. len |-> CellAt(dequeue_pos_ + i - 1)']
  BY Zenon, <1>1 DEF Cells
<1>5. ASSUME NEW i \in 1 .. len
      PROVE  CellAt(dequeue_pos_ + i - 1)' = Cells[i + 1]
  <2>1. PICK n \in Window : n = dequeue_pos_ + i /\ n # dequeue_pos_
    BY <1>1, RingAssumption DEF Window
  <2>2. CellAt(dequeue_pos_ + i - 1)' = CellAt(n)'
    BY <1>1, <2>1
  <2>3. Cells[i + 1] = CellAt(n)
    BY <1>1, <2>1, CellsSeq
  <2> QED
    BY <2>1, <2>2, <2>3
<1>6. Cells[1] = CellAt(dequeue_pos_)
  BY <1>1, CellsSeq
<1> QED
  BY Zenon, <1>0, <1>3, <1>4, <1>5, <1>6

\* A producer has a place in the abstract queue exactly while it owns a
\* position.
LEMMA PlaceIsOwned ==
  ASSUME RInv, NEW p \in Producers
  PROVE  (\E i \in DOMAIN Cells : Cells[i].writer = p) <=> Owns(p)
<1>1. /\ dequeue_pos_ \in Nat /\ enqueue_pos_ \in Nat
      /\ DOMAIN Cells = 1 .. enqueue_pos_ - dequeue_pos_
      /\ \A i \in DOMAIN Cells : Cells[i] = CellAt(dequeue_pos_ + i - 1)
  BY DEF RInv, TypeOK, Cells
<1>2. ASSUME NEW i \in DOMAIN Cells, Cells[i].writer = p PROVE Owns(p)
  <2>1. Claims(p, dequeue_pos_ + i - 1)
    BY <1>1, <1>2, WriterClaims
  <2> QED
    BY <2>1 DEF Owns, Claims
<1>3. ASSUME Owns(p) PROVE \E i \in DOMAIN Cells : Cells[i].writer = p
  <2>1. pos[p] \in Window /\ pos[p] < enqueue_pos_ /\ CellAt(pos[p]).writer = p
    <3>1. CellAt(pos[p]) = [value |-> value[p], writer |-> p]
      BY <1>3, OwnerWrites
    <3> QED
      BY <1>3, <3>1, OwnerWrites
  <2>2. pos[p] - dequeue_pos_ + 1 \in DOMAIN Cells
    BY <1>1, <2>1 DEF Window
  <2>3. dequeue_pos_ + (pos[p] - dequeue_pos_ + 1) - 1 = pos[p]
    BY <1>1, <2>1 DEF Window
  <2> QED
    BY <1>1, <2>1, <2>2, <2>3
<1> QED
  BY <1>2, <1>3

\* TryPush begins: Call.
LEMMA TryPushImplements ==
  ASSUME RInv, NEW p \in Producers, NEW v \in Values, TryPush(p, v)
  PROVE  Queue!Call(p, v)
<1> USE DEF TryPush, Goto, consumerVars
<1>1. ASSUME NEW n \in Window PROVE CellAt(n)' = CellAt(n)
  <2>1. \A q \in Producers : (Claims(q, n)' <=> Claims(q, n)) /\ (Claims(q, n) => value'[q] = value[q])
    BY DEF RInv, TypeOK, Claims
  <2>2. Content(n)' = Content(n)
    BY DEF Content
  <2> QED
    BY <2>1, <2>2, CellStays
<1>2. Cells' = Cells
  BY <1>1, CellsStay
<1>3. value[p] = None
  BY DEF RInv, ProducerInv
<1> QED
  BY <1>2, <1>3 DEF Queue!Call, Cells

\* A look at the sequence number: Reject when it is behind, otherwise nothing.
LEMMA LoadSequenceImplements ==
  ASSUME RInv, NEW p \in Producers, LoadSequence(p)
  PROVE  Queue!Reject(p) \/ UNCHANGED Queue!avars
<1> USE DEF LoadSequence, Goto, Return, consumerVars
<1>1. ASSUME NEW n \in Window PROVE CellAt(n)' = CellAt(n)
  <2>1. \A q \in Producers : (Claims(q, n)' <=> Claims(q, n)) /\ (Claims(q, n) => value'[q] = value[q])
    BY DEF RInv, TypeOK, Claims
  <2>2. Content(n)' = Content(n)
    BY DEF Content
  <2> QED
    BY <2>1, <2>2, CellStays
<1>2. Cells' = Cells
  BY <1>1, CellsStay
<1>3. CASE value' = value
  BY <1>2, <1>3 DEF Queue!avars, Cells
<1>4. CASE value' # value
  <2>1. Diff(p) < 0 /\ value' = [value EXCEPT ![p] = None]
    BY <1>4
  <2>2. enqueue_pos_ - dequeue_pos_ = Capacity
    BY <2>1, BehindMeansFull, RingAssumption DEF RInv, TypeOK
  <2>3. Len(Cells) = Capacity
    BY <2>2, CellsSeq
  <2>4. ~ \E i \in DOMAIN Cells : Cells[i].writer = p
    BY PlaceIsOwned DEF Owns
  <2>5. value[p] # None
    BY RingAssumption DEF RInv, ProducerInv
  <2> QED
    BY Zenon, <1>2, <2>1, <2>3, <2>4, <2>5
    DEF Queue!Reject, Queue!HasPlace, Queue!Full, Cells
<1> QED
  BY <1>3, <1>4

\* A successful compare-and-exchange: Reserve.  A failed one: nothing.
LEMMA CompareExchangeImplements ==
  ASSUME RInv, NEW p \in Producers, CompareExchange(p)
  PROVE  Queue!Reserve(p) \/ UNCHANGED Queue!avars
<1> USE DEF CompareExchange, Goto, consumerVars
<1>1. \A n : Content(n)' = Content(n)
  BY DEF Content
<1>2. CASE UNCHANGED enqueue_pos_
  <2>1. ppc'[p] = "load" /\ \A q \in Producers : q # p => ppc'[q] = ppc[q] /\ pos'[q] = pos[q]
    BY <1>2 DEF RInv, TypeOK
  <2>2. ASSUME NEW n \in Window PROVE CellAt(n)' = CellAt(n)
    <3>1. \A q \in Producers : Claims(q, n)' <=> Claims(q, n)
      BY <2>1 DEF Claims
    <3> QED
      BY <1>1, <3>1, CellStays
  <2>3. Cells' = Cells
    BY <1>2, <2>2, CellsStay
  <2> QED
    BY Zenon, <2>3 DEF Queue!avars, Cells
<1>3. CASE enqueue_pos_' # enqueue_pos_
  <2>1. /\ enqueue_pos_ = pos[p] /\ enqueue_pos_' = enqueue_pos_ + 1 /\ UNCHANGED pos
        /\ ppc' = [ppc EXCEPT ![p] = "construct"]
        /\ enqueue_pos_ \in Nat /\ dequeue_pos_ \in Nat
        /\ enqueue_pos_ < dequeue_pos_ + Capacity
    BY <1>3 DEF RInv, TypeOK, ProducerInv
  <2>2. \A q \in Producers : Owns(q) => pos[q] # enqueue_pos_
    BY <2>1 DEF RInv, TypeOK, ProducerInv
  <2>3. ASSUME NEW n \in Nat, n # enqueue_pos_ PROVE CellAt(n)' = CellAt(n)
    <3>1. \A q \in Producers : Claims(q, n)' <=> Claims(q, n)
      BY <2>1, <2>3 DEF RInv, TypeOK, Claims
    <3> QED
      BY <1>1, <3>1, CellStays
  <2>4. ASSUME NEW n \in Nat, n = enqueue_pos_
        PROVE  CellAt(n)' = [value |-> value[p], writer |-> p]
    <3>1. Claims(p, n)' /\ \A q \in Producers : Claims(q, n)' => q = p
      BY <2>1, <2>2, <2>4 DEF RInv, TypeOK, Owns, Claims
    <3> QED
      BY <3>1, CellOwnedNext
  <2>5. Cells' = Append(Cells, [value |-> value[p], writer |-> p])
    <3>1. [value |-> value[p], writer |-> p] \in Queue!Cell
      BY DEF RInv, ProducerInv, Queue!Cell
    <3> QED
      BY Zenon, <2>1, <2>3, <2>4, <3>1, CellsGrow
  <2>6. Len(Cells) # Capacity
    BY <2>1, CellsSeq, RingAssumption
  <2>7. ~ \E i \in DOMAIN Cells : Cells[i].writer = p
    BY PlaceIsOwned DEF Owns
  <2>8. value[p] # None
    BY RingAssumption DEF RInv, ProducerInv
  <2> QED
    BY Zenon, <2>5, <2>6, <2>7, <2>8
    DEF Queue!Reserve, Queue!HasPlace, Queue!Full, Queue!Reserved, Cells
<1> QED
  BY <1>2, <1>3

\* The object is built: nothing the users of the queue see.
LEMMA ConstructImplements ==
  ASSUME RInv, NEW p \in Producers, Construct(p)
  PROVE  UNCHANGED Queue!avars
<1> USE DEF Construct, Goto, consumerVars
<1>1. pos[p] \in Window /\ Slot(pos[p]) \in Index /\ Owns(p)
  BY OwnerWrites, WindowSlots DEF RInv, TypeOK, Owns
<1>2. ASSUME NEW n \in Window PROVE CellAt(n)' = CellAt(n)
  <2>1. \A q \in Producers : Claims(q, n)' <=> Claims(q, n)
    BY DEF RInv, TypeOK, Claims
  <2>2. n # pos[p] => Content(n)' = Content(n)
    BY <1>1, WindowSlots DEF RInv, TypeOK, Content
  <2>3. n = pos[p] => Claims(p, n)
    BY <1>1 DEF Owns, Claims
  <2> QED
    BY <2>1, <2>2, <2>3, CellStays
<1>3. Cells' = Cells
  BY <1>2, CellsStay
<1> QED
  BY Zenon, <1>3 DEF Queue!avars, Cells

\* The sequence number is stored: Accept.
LEMMA PublishImplements ==
  ASSUME RInv, NEW p \in Producers, Publish(p)
  PROVE  Queue!Accept(p)
<1> USE DEF Publish, Goto, Return, consumerVars
<1>1. /\ Owns(p) /\ pos[p] \in Window /\ storage[Slot(pos[p])] = value[p]
      /\ CellAt(pos[p]) = [value |-> value[p], writer |-> p]
  BY OwnerWrites DEF RInv, ProducerInv, Owns
<1>2. \A q \in Producers, n \in Window : Claims(q, n)' <=> Claims(q, n) /\ q # p
  BY DEF RInv, TypeOK, Claims
<1>3. \A n : Content(n)' = Content(n)
  BY DEF Content
<1>4. ASSUME NEW n \in Window, n # pos[p]
      PROVE  CellAt(n)' = CellAt(n) /\ CellAt(n).writer # p
  <2>1. \A q \in Producers : Claims(q, n)' <=> Claims(q, n)
    BY <1>2, <1>4 DEF Claims
  <2>2. \A q \in Producers : Claims(q, n) => value'[q] = value[q]
    BY <1>4 DEF RInv, TypeOK, Claims
  <2>3. CellAt(n)' = CellAt(n)
    BY <1>3, <2>1, <2>2, CellStays
  <2>4. CellAt(n).writer # p
    BY <1>4, WriterClaims DEF Claims
  <2> QED
    BY <2>3, <2>4
<1>5. ASSUME NEW n \in Window, n = pos[p]
      PROVE  CellAt(n)' = [CellAt(n) EXCEPT !.writer = None] /\ CellAt(n).writer = p
  <2>1. \A q \in Producers : ~Claims(q, n)'
    BY <1>2, <1>5, <1>1, OwnerWrites
  <2>2. ~(cpc = "release" /\ n = dequeue_pos_)
    BY <1>1, <1>5 DEF RInv, TypeOK, ConsumerInv, ProducerInv
  <2>3. Content(n) = value[p]
    BY <1>1, <1>5, <2>2 DEF Content
  <2>4. CellAt(n)' = [value |-> value[p], writer |-> None]
    BY <1>3, <2>1, <2>3, CellFilledNext
  <2> QED
    BY <1>1, <1>5, <2>4
<1>6. Cells' = Queue!Published(Cells, p)
  <2>1. PICK len \in Nat : /\ len = enqueue_pos_ - dequeue_pos_
                           /\ DOMAIN Cells = 1 .. len /\ UNCHANGED dequeue_pos_
                           /\ \A i \in 1 .. len : /\ dequeue_pos_ + i - 1 \in Window
                                                  /\ Cells[i] = CellAt(dequeue_pos_ + i - 1)
    <3>1. \A i \in 1 .. enqueue_pos_ - dequeue_pos_ : dequeue_pos_ + i - 1 \in Window
      BY RingAssumption DEF RInv, TypeOK, Bounds, Window
    <3>2. DOMAIN Cells = 1 .. enqueue_pos_ - dequeue_pos_
      BY DEF Cells
    <3> QED
      BY Zenon, <3>1, <3>2, CellsSeq
  <2>2. Cells' = [i \in 1 .. len |-> CellAt(dequeue_pos_ + i - 1)']
    BY Zenon, <2>1 DEF Cells
  <2>3. ASSUME NEW i \in 1 .. len
        PROVE  CellAt(dequeue_pos_ + i - 1)' =
                 IF Cells[i].writer = p THEN [Cells[i] EXCEPT !.writer = None] ELSE Cells[i]
    <3>1. PICK n \in Window : n = dequeue_pos_ + i - 1
      BY <2>1
    <3>2. CellAt(dequeue_pos_ + i - 1)' = CellAt(n)' /\ Cells[i] = CellAt(n)
      BY <2>1, <3>1
    <3>3. CASE n = pos[p]
      BY Zenon, <1>5, <3>2, <3>3
    <3>4. CASE n # pos[p]
      BY Zenon, <1>4, <3>2, <3>4
    <3> QED
      BY Zenon, <3>3, <3>4
  <2> QED
    BY Zenon, <2>1, <2>2, <2>3 DEF Queue!Published
<1>7. \E i \in DOMAIN Cells : Cells[i].writer = p
  BY <1>1, PlaceIsOwned
<1> QED
  BY Zenon, <1>6, <1>7 DEF Queue!Accept, Queue!HasPlace, Cells

\* The consumer's steps before the cell is given back change nothing that the
\* users of the queue see: the object moves from the storage to out.
LEMMA TryPopOneImplements == ASSUME RInv, TryPopOne \/ Destroy PROVE UNCHANGED Queue!avars
<1> USE DEF TryPopOne, Destroy, producerVars
<1>1. ASSUME NEW n \in Window PROVE CellAt(n)' = CellAt(n)
  <2>1. \A q \in Producers : Claims(q, n)' <=> Claims(q, n)
    BY DEF Claims
  <2>2. Content(n)' = Content(n)
    BY DEF Content
  <2> QED
    BY <2>1, <2>2, CellStays
<1>2. Cells' = Cells
  BY <1>1, CellsStay
<1> QED
  BY Zenon, <1>2 DEF Queue!avars, Cells

\* MoveOut takes the object out; the abstract cell still shows it.
LEMMA MoveOutImplements == ASSUME RInv, MoveOut PROVE UNCHANGED Queue!avars
<1> USE DEF MoveOut, producerVars
<1>1. dequeue_pos_ \in Window /\ Slot(dequeue_pos_) \in Index
  BY SlotIndex, RingAssumption DEF RInv, TypeOK, Window
<1>2. ASSUME NEW n \in Window PROVE CellAt(n)' = CellAt(n)
  <2>1. \A q \in Producers : Claims(q, n)' <=> Claims(q, n)
    BY DEF Claims
  <2>2. CASE n = dequeue_pos_
    BY <2>1, <2>2, CellStays DEF Content
  <2>3. CASE n # dequeue_pos_
    <3>1. Content(n)' = Content(n)
      BY <1>1, <2>3, WindowSlots DEF RInv, TypeOK, Content
    <3> QED
      BY <2>1, <3>1, CellStays
  <2> QED
    BY <2>2, <2>3
<1>3. Cells' = Cells
  BY <1>2, CellsStay
<1> QED
  BY Zenon, <1>3 DEF Queue!avars, Cells

\* Giving back the first cell takes it out of the abstract queue.
LEMMA FreeSlotImplements ==
  ASSUME RInv, FreeSlot, dequeue_pos_ < enqueue_pos_, cpc' # "release",
         UNCHANGED <<enqueue_pos_, producerVars>>,
         storage' = [storage EXCEPT ![Slot(dequeue_pos_)] = None],
         sequence[Slot(dequeue_pos_)] = dequeue_pos_ + 1
  PROVE  /\ Queue!Ready(Cells) /\ Cells' = Tail(Cells)
         /\ Cells[1].value = Content(dequeue_pos_)
<1> USE DEF FreeSlot, producerVars
<1>1. dequeue_pos_ \in Window /\ dequeue_pos_ \in Nat /\ Slot(dequeue_pos_) \in Index
  BY SlotIndex, RingAssumption DEF RInv, TypeOK, Window
<1>2. ASSUME NEW n \in Window, n # dequeue_pos_ PROVE CellAt(n)' = CellAt(n)
  <2>1. \A q \in Producers : Claims(q, n)' <=> Claims(q, n)
    BY DEF Claims
  <2>2. Slot(n) # Slot(dequeue_pos_)
    BY <1>1, <1>2, WindowSlots
  <2>3. Content(n)' = Content(n)
    BY <1>1, <1>2, <2>2 DEF RInv, TypeOK, Content
  <2> QED
    BY <2>1, <2>3, CellStays
<1>3. \A q \in Producers : ~Claims(q, dequeue_pos_)
  BY <1>1 DEF RInv, ProducerInv, Owns, Claims
<1>4. CellAt(dequeue_pos_) = [value |-> Content(dequeue_pos_), writer |-> None]
  BY <1>3, CellFilled
<1>5. Cells # << >> /\ Cells[1] = CellAt(dequeue_pos_) /\ Cells' = Tail(Cells)
  BY <1>2, CellsShrink
<1> QED
  BY <1>4, <1>5 DEF Queue!Ready

\* The cell is given back: Pop.
LEMMA ReleaseImplements == ASSUME RInv, Release PROVE Queue!Pop
<1> USE DEF Release
<1>1. /\ dequeue_pos_ < enqueue_pos_ /\ cpc' # "release"
      /\ sequence[Slot(dequeue_pos_)] = dequeue_pos_ + 1
      /\ storage' = [storage EXCEPT ![Slot(dequeue_pos_)] = None]
  BY DEF RInv, TypeOK, ConsumerInv
<1>2. /\ Queue!Ready(Cells) /\ Cells' = Tail(Cells)
      /\ Cells[1].value = Content(dequeue_pos_)
  BY Zenon, <1>1, FreeSlotImplements
<1>3. Content(dequeue_pos_) = out
  BY DEF Content
<1>4. popped' = Append(popped, Cells[1].value) /\ UNCHANGED value
  BY <1>2, <1>3 DEF producerVars
<1> QED
  BY Zenon, <1>2, <1>4 DEF Queue!Pop, Cells

\* The destructor's loop: Discard, until the queue is empty.
LEMMA DrainAllImplements ==
  ASSUME RInv, DrainAll
  PROVE  Queue!Discard \/ UNCHANGED Queue!avars
<1> USE DEF DrainAll
<1>1. CASE Empty
  <2>1. ASSUME NEW n \in Window PROVE CellAt(n)' = CellAt(n)
    <3>1. \A q \in Producers : Claims(q, n)' <=> Claims(q, n)
      BY DEF Claims, producerVars
    <3>2. Content(n)' = Content(n)
      BY <1>1 DEF Content
    <3> QED
      BY <3>1, <3>2, CellStays DEF producerVars
  <2>2. Cells' = Cells
    BY <1>1, <2>1, CellsStay
  <2> QED
    BY Zenon, <2>2 DEF Queue!avars, Cells, producerVars
<1>2. CASE ~Empty
  <2>1. /\ dequeue_pos_ < enqueue_pos_ /\ cpc' # "release" /\ FreeSlot
        /\ sequence[Slot(dequeue_pos_)] = dequeue_pos_ + 1
        /\ storage' = [storage EXCEPT ![Slot(dequeue_pos_)] = None]
    BY <1>2, FilledHead
  <2>2. Queue!Ready(Cells) /\ Cells' = Tail(Cells)
    BY Zenon, <2>1, FreeSlotImplements
  <2>3. \A p \in Producers : value[p] = None
    BY DEF RInv, ConsumerInv, ProducerInv
  <2> QED
    BY Zenon, <2>2, <2>3 DEF Queue!Discard, Cells, producerVars
<1> QED
  BY <1>1, <1>2

\* Every step of the ring is a step of the abstract queue or leaves it alone.
LEMMA NextImplements == RInv /\ [Next]_vars => [Queue!ANext]_(Queue!avars)
<1> SUFFICES ASSUME RInv, [Next]_vars PROVE Queue!ANext \/ UNCHANGED Queue!avars
  BY Zenon
<1>1. ASSUME NEW p \in Producers, ProducerNext(p)
      PROVE  Queue!ANext \/ UNCHANGED Queue!avars
  BY Zenon, <1>1, TryPushImplements, LoadSequenceImplements, CompareExchangeImplements,
     ConstructImplements, PublishImplements DEF ProducerNext, Queue!ANext
<1>2. CASE ConsumerNext
  BY Zenon, <1>2, TryPopOneImplements, MoveOutImplements, ReleaseImplements,
     DrainAllImplements DEF ConsumerNext, Queue!ANext
<1>3. CASE UNCHANGED vars
  <2>1. \A n \in Window : CellAt(n)' = CellAt(n)
    <3> TAKE n \in Window
    <3>1. \A q \in Producers : Claims(q, n)' <=> Claims(q, n)
      BY <1>3 DEF vars, Claims
    <3>2. Content(n)' = Content(n)
      BY <1>3 DEF vars, Content
    <3> QED
      BY <1>3, <3>1, <3>2, CellStays DEF vars
  <2>2. Cells' = Cells
    BY <1>3, <2>1, CellsStay DEF vars
  <2> QED
    BY Zenon, <1>3, <2>2 DEF Queue!avars, Cells, vars
<1> QED
  BY <1>1, <1>2, <1>3 DEF Next

\* The initial states of the ring are those of the queue.
LEMMA InitImplements == Init => Queue!AInit
<1> SUFFICES ASSUME Init PROVE Queue!AInit
  OBVIOUS
<1>1. Cells = << >>
  BY DEF Init, Cells
<1> QED
  BY <1>1 DEF Init, Queue!AInit, Cells

\* For any capacity, any producers and any interleaving the ring is a FIFO
\* queue of at most Capacity places: values come out once, in the order of
\* the successful compare-and-exchanges, a place that is claimed and not yet
\* filled hides what is behind it, and TryPush returns false only when every
\* place is taken.
THEOREM RingImplementsQueue == Spec => ImplementsQueue
<1> QED
  BY InitImplements, NextImplements, RingInvariant, PTL
  DEF Spec, ImplementsQueue, Queue!ASpec

=============================================================================

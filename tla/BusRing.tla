------------------------------ MODULE BusRing ------------------------------
(***************************************************************************)
(* The circular buffer sea_bus.c keeps twice (inbound[] and outbound[]):   *)
(* an array of QueueSize slots with a head index, a tail index and a       *)
(* count.  A slot is never cleared when its message leaves, so a ring is   *)
(* more than the sequence of its messages; Contents is that sequence.      *)
(***************************************************************************)
EXTENDS Integers, Sequences

CONSTANTS QueueSize,  \* SEA_BUS_QUEUE_SIZE, 256 in the code
          NULL        \* the null pointer, and a slot never written

ASSUME QueueSizeAssumption == QueueSize \in Nat \ {0}

Slots == 0 .. QueueSize - 1

(* sea_bus_init clears the structure. *)
EmptyRing ==
  [slots |-> [i \in Slots |-> NULL], head |-> 0, tail |-> 0, count |-> 0]

(* The slot of the message i places behind the head. *)
SlotOf(r, i) == (r.head + i) % QueueSize

Contents(r) == [i \in 1 .. r.count |-> r.slots[SlotOf(r, i - 1)]]

(* Mutant: one message too many. *)
IsFullLate(r) == r.count > QueueSize

IsFull(r) == r.count >= QueueSize

(* A publisher fills the tail slot and advances the tail. *)
Enqueue(r, m) ==
  [slots |-> [r.slots EXCEPT ![r.tail] = m],
   head  |-> r.head,
   tail  |-> (r.tail + 1) % QueueSize,
   count |-> r.count + 1]

First(r) == r.slots[r.head]

Dequeue(r) ==
  [slots |-> r.slots,
   head  |-> (r.head + 1) % QueueSize,
   tail  |-> r.tail,
   count |-> r.count - 1]

(***************************************************************************)
(* sea_bus_consume_outbound_for takes the message i places behind the head *)
(* out of the middle: the later ones move one slot towards the head, and a *)
(* ring that becomes empty starts again at slot 0.                         *)
(***************************************************************************)
Place(r, k) == (k - r.head + QueueSize) % QueueSize

(* Mutant: the last message moves into the gap. *)
RemoveAtMovesLast(r, i) ==
  [slots |-> [r.slots EXCEPT ![SlotOf(r, i)] = r.slots[SlotOf(r, r.count - 1)]],
   head  |-> IF r.count = 1 THEN 0 ELSE r.head,
   tail  |-> IF r.count = 1 THEN 0 ELSE (r.head + r.count - 1) % QueueSize,
   count |-> r.count - 1]

(* Mutant: an emptied ring keeps its tail. *)
RemoveAtKeepsTail(r, i) ==
  [slots |-> [k \in Slots |-> IF Place(r, k) \in i .. r.count - 2
                              THEN r.slots[(k + 1) % QueueSize]
                              ELSE r.slots[k]],
   head  |-> IF r.count = 1 THEN 0 ELSE r.head,
   tail  |-> IF r.count = 1 THEN r.tail ELSE (r.head + r.count - 1) % QueueSize,
   count |-> r.count - 1]

RemoveAt(r, i) ==
  [slots |-> [k \in Slots |-> IF Place(r, k) \in i .. r.count - 2
                              THEN r.slots[(k + 1) % QueueSize]
                              ELSE r.slots[k]],
   head  |-> IF r.count = 1 THEN 0 ELSE r.head,
   tail  |-> IF r.count = 1 THEN 0 ELSE (r.head + r.count - 1) % QueueSize,
   count |-> r.count - 1]

(* The three counters agree with one another. *)
WellFormed(r) ==
  /\ r.head \in Slots
  /\ r.count \in 0 .. QueueSize
  /\ r.tail = SlotOf(r, r.count)
=============================================================================

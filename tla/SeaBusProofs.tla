---------------------------- MODULE SeaBusProofs ----------------------------
(***************************************************************************)
(* Proofs about the message bus, for any number of threads, any queue      *)
(* size, any arena and any strings.                                        *)
(***************************************************************************)
EXTENDS SeaBus, SequenceTheorems, FiniteSetTheorems, TLAPS

-----------------------------------------------------------------------------
(* What the ring operations do to the sequence of queued messages, for     *)
(* every queue size.                                                       *)

(* Rings whose slots hold elements of E. *)
Ring(E) == [slots : [Slots -> E], head : Slots, tail : Slots, count : 0 .. QueueSize]

(* An index below twice the queue size wraps at most once. *)
LEMMA Wrap ==
  \A a \in 0 .. 2 * QueueSize - 1 :
    a % QueueSize = IF a < QueueSize THEN a ELSE a - QueueSize
<1> SUFFICES ASSUME NEW a \in 0 .. 2 * QueueSize - 1
             PROVE  a % QueueSize = IF a < QueueSize THEN a ELSE a - QueueSize
  OBVIOUS
<1>1. CASE a < QueueSize
  BY <1>1, QueueSizeAssumption, Z3
<1>2. CASE a >= QueueSize
  BY <1>2, QueueSizeAssumption, Z3
<1>3. QED
  BY <1>1, <1>2, QueueSizeAssumption

(* The slot i places after slot h, without the remainder. *)
LEMMA Advance ==
  ASSUME NEW h \in Slots, NEW i \in 0 .. QueueSize
  PROVE  /\ (h + i) % QueueSize = IF h + i < QueueSize THEN h + i ELSE h + i - QueueSize
         /\ (h + i) % QueueSize \in Slots
<1>1. h + i \in 0 .. 2 * QueueSize - 1
  BY QueueSizeAssumption DEF Slots
<1>2. (h + i) % QueueSize = IF h + i < QueueSize THEN h + i ELSE h + i - QueueSize
  BY <1>1, Wrap, QueueSizeAssumption DEF Slots
<1>3. QED
  BY <1>1, <1>2, QueueSizeAssumption DEF Slots

(* Advancing by i and then by one is advancing by i + 1. *)
LEMMA AdvanceTwice ==
  ASSUME NEW h \in Slots, NEW i \in 0 .. QueueSize - 1
  PROVE  /\ (((h + i) % QueueSize) + 1) % QueueSize = (h + (i + 1)) % QueueSize
         /\ (((h + 1) % QueueSize) + i) % QueueSize = (h + (i + 1)) % QueueSize
<1> DEFINE s == (h + i) % QueueSize
           n == (h + 1) % QueueSize
<1>1. /\ s = IF h + i < QueueSize THEN h + i ELSE h + i - QueueSize
      /\ s \in Slots
  BY Advance, QueueSizeAssumption
<1>2. /\ n = IF h + 1 < QueueSize THEN h + 1 ELSE h + 1 - QueueSize
      /\ n \in Slots
  BY Advance, QueueSizeAssumption
<1>3. (h + (i + 1)) % QueueSize
        = IF h + (i + 1) < QueueSize THEN h + (i + 1) ELSE h + (i + 1) - QueueSize
  BY Advance, QueueSizeAssumption
<1> HIDE DEF s, n
<1>4. (s + 1) % QueueSize = IF s + 1 < QueueSize THEN s + 1 ELSE s + 1 - QueueSize
  BY <1>1, Advance, QueueSizeAssumption
<1>5. (n + i) % QueueSize = IF n + i < QueueSize THEN n + i ELSE n + i - QueueSize
  <2>1. n \in Slots /\ i \in 0 .. QueueSize
    BY <1>2, QueueSizeAssumption
  <2>2. QED
    BY <2>1, Advance
<1>6. (s + 1) % QueueSize = (h + (i + 1)) % QueueSize
  BY <1>1, <1>3, <1>4, QueueSizeAssumption DEF Slots
<1>7. (n + i) % QueueSize = (h + (i + 1)) % QueueSize
  BY <1>2, <1>3, <1>5, QueueSizeAssumption DEF Slots
<1>8. QED
  BY <1>6, <1>7 DEF s, n

(* Different places less than a queue size apart are different slots. *)
LEMMA AdvanceInjective ==
  ASSUME NEW h \in Slots, NEW i \in 0 .. QueueSize - 1, NEW j \in 0 .. QueueSize - 1,
         (h + i) % QueueSize = (h + j) % QueueSize
  PROVE  i = j
<1>1. (h + i) % QueueSize = IF h + i < QueueSize THEN h + i ELSE h + i - QueueSize
  BY Advance, QueueSizeAssumption
<1>2. (h + j) % QueueSize = IF h + j < QueueSize THEN h + j ELSE h + j - QueueSize
  BY Advance, QueueSizeAssumption
<1>3. QED
  BY <1>1, <1>2, QueueSizeAssumption DEF Slots

(* The queued messages are a sequence as long as the count says. *)
LEMMA ContentsSeq ==
  ASSUME NEW E, NEW r \in Ring(E)
  PROVE  /\ Contents(r) \in Seq(E)
         /\ Len(Contents(r)) = r.count
         /\ \A i \in 1 .. r.count : Contents(r)[i] = r.slots[SlotOf(r, i - 1)]
<1>1. r.head \in Slots /\ r.count \in Nat /\ r.count \in 0 .. QueueSize
      /\ r.slots \in [Slots -> E]
  BY QueueSizeAssumption DEF Ring
<1>2. \A i \in 1 .. r.count : i - 1 \in 0 .. QueueSize
  BY <1>1, QueueSizeAssumption
<1>3. \A i \in 1 .. r.count : SlotOf(r, i - 1) \in Slots
  BY <1>1, <1>2, Advance DEF SlotOf
<1>4. \A i \in 1 .. r.count : r.slots[SlotOf(r, i - 1)] \in E
  BY <1>1, <1>3
<1>5. Contents(r) \in [1 .. r.count -> E]
  BY <1>4 DEF Contents
<1>6. Contents(r) \in Seq(E)
  BY <1>1, <1>5
<1>7. QED
  BY <1>1, <1>5, <1>6, LenProperties DEF Contents

(* sea_bus_init: the empty ring is well formed. *)
LEMMA EmptyRingOK ==
  ASSUME NEW E, NULL \in E
  PROVE  EmptyRing \in Ring(E) /\ WellFormed(EmptyRing) /\ Contents(EmptyRing) = <<>>
<1>1. 0 \in Slots /\ 0 \in 0 .. QueueSize
  BY QueueSizeAssumption DEF Slots
<1>2. (0 + 0) % QueueSize = 0
  BY <1>1, Advance, QueueSizeAssumption
<1>3. EmptyRing \in Ring(E) /\ WellFormed(EmptyRing)
  BY <1>1, <1>2 DEF EmptyRing, Ring, WellFormed, SlotOf
<1>4. Contents(EmptyRing) \in Seq(E) /\ Len(Contents(EmptyRing)) = 0
  BY <1>3, ContentsSeq DEF EmptyRing
<1>5. Contents(EmptyRing) = <<>>
  BY <1>4, EmptySeq
<1>6. QED
  BY <1>3, <1>5

(* Publishing into a ring with room keeps it well formed. *)
LEMMA EnqueueWellFormed ==
  ASSUME NEW E, NEW r \in Ring(E), WellFormed(r), ~IsFull(r), NEW m \in E
  PROVE  Enqueue(r, m) \in Ring(E) /\ WellFormed(Enqueue(r, m))
<1>1. /\ r.head \in Slots /\ r.tail \in Slots /\ r.count \in 0 .. QueueSize - 1
      /\ r.slots \in [Slots -> E] /\ r.tail = (r.head + r.count) % QueueSize
  BY QueueSizeAssumption DEF Ring, IsFull, WellFormed, SlotOf
<1>2. (r.tail + 1) % QueueSize = (r.head + (r.count + 1)) % QueueSize
  BY <1>1, AdvanceTwice
<1>3. 1 \in 0 .. QueueSize /\ r.count + 1 \in 0 .. QueueSize
  BY <1>1, QueueSizeAssumption
<1>4. (r.tail + 1) % QueueSize \in Slots
  BY <1>1, <1>3, Advance
<1>5. QED
  BY <1>1, <1>2, <1>3, <1>4 DEF Enqueue, Ring, WellFormed, SlotOf

(* It adds the message at the end of the queue and changes nothing before. *)
LEMMA EnqueueContents ==
  ASSUME NEW E, NEW r \in Ring(E), WellFormed(r), ~IsFull(r), NEW m \in E
  PROVE  Contents(Enqueue(r, m)) = Append(Contents(r), m)
<1> DEFINE q == Enqueue(r, m)
<1>1. /\ r.head \in Slots /\ r.tail \in Slots /\ r.count \in 0 .. QueueSize - 1
      /\ r.slots \in [Slots -> E] /\ r.tail = SlotOf(r, r.count)
  BY QueueSizeAssumption DEF Ring, IsFull, WellFormed
<1>2. /\ q.slots = [r.slots EXCEPT ![r.tail] = m] /\ q.head = r.head
      /\ q.count = r.count + 1 /\ q \in Ring(E)
  BY EnqueueWellFormed DEF Enqueue
<1> HIDE DEF q
<1>3. \A i \in 0 .. r.count : SlotOf(q, i) = SlotOf(r, i)
  BY <1>2 DEF SlotOf
<1>4. \A i \in 0 .. r.count - 1 : SlotOf(r, i) # r.tail /\ SlotOf(r, i) \in Slots
  <2> TAKE i \in 0 .. r.count - 1
  <2>1. /\ i \in 0 .. QueueSize - 1 /\ i \in 0 .. QueueSize
        /\ r.count \in 0 .. QueueSize - 1 /\ i # r.count
    BY <1>1, QueueSizeAssumption
  <2>2. QED
    BY <1>1, <2>1, Advance, AdvanceInjective DEF SlotOf
<1>5. \A i \in 1 .. r.count : q.slots[SlotOf(q, i - 1)] = r.slots[SlotOf(r, i - 1)]
  <2> TAKE i \in 1 .. r.count
  <2>1. i - 1 \in 0 .. r.count - 1 /\ i - 1 \in 0 .. r.count
    BY <1>1, QueueSizeAssumption
  <2>2. QED
    BY <1>1, <1>2, <1>3, <1>4, <2>1
<1>6. q.slots[SlotOf(q, r.count)] = m
  <2>1. r.count \in 0 .. r.count
    BY <1>1
  <2>2. QED
    BY <1>1, <1>2, <1>3, <2>1
<1> DEFINE c == Contents(r)
           d == Contents(q)
<1>7. /\ c \in Seq(E) /\ Len(c) = r.count
      /\ \A i \in 1 .. r.count : c[i] = r.slots[SlotOf(r, i - 1)]
  BY ContentsSeq
<1>8. /\ d \in Seq(E) /\ Len(d) = r.count + 1
      /\ \A i \in 1 .. r.count + 1 : d[i] = q.slots[SlotOf(q, i - 1)]
  BY <1>2, ContentsSeq
<1> HIDE DEF c, d
<1>9. /\ Append(c, m) \in Seq(E) /\ Len(Append(c, m)) = r.count + 1
      /\ \A i \in 1 .. r.count : Append(c, m)[i] = c[i]
      /\ Append(c, m)[r.count + 1] = m
  BY <1>7, AppendProperties
<1>10. \A i \in 1 .. r.count + 1 : d[i] = Append(c, m)[i]
  <2> TAKE i \in 1 .. r.count + 1
  <2>1. CASE i \in 1 .. r.count
    BY <1>5, <1>7, <1>8, <1>9, <2>1
  <2>2. CASE i = r.count + 1
    BY <1>1, <1>6, <1>8, <1>9, <2>2
  <2>3. i \in 1 .. r.count \/ i = r.count + 1
    BY <1>1
  <2>4. QED
    BY <2>1, <2>2, <2>3
<1>11. d = Append(c, m)
  BY <1>8, <1>9, <1>10, SeqEqual
<1>12. QED
  BY <1>11 DEF c, d, q

(* Taking the head keeps the ring well formed. *)
LEMMA DequeueWellFormed ==
  ASSUME NEW E, NEW r \in Ring(E), WellFormed(r), r.count > 0
  PROVE  Dequeue(r) \in Ring(E) /\ WellFormed(Dequeue(r))
<1>1. /\ r.head \in Slots /\ r.tail \in Slots /\ r.count \in 1 .. QueueSize
      /\ r.slots \in [Slots -> E] /\ r.tail = (r.head + r.count) % QueueSize
  BY QueueSizeAssumption DEF Ring, WellFormed, SlotOf
<1>2. /\ r.count - 1 \in 0 .. QueueSize - 1 /\ r.count - 1 \in 0 .. QueueSize
      /\ 1 \in 0 .. QueueSize /\ r.count = (r.count - 1) + 1
  BY <1>1, QueueSizeAssumption
<1>3. (((r.head + 1) % QueueSize) + (r.count - 1)) % QueueSize
        = (r.head + ((r.count - 1) + 1)) % QueueSize
  BY <1>1, <1>2, AdvanceTwice
<1>4. (r.head + 1) % QueueSize \in Slots
  BY <1>1, <1>2, Advance
<1>5. QED
  BY <1>1, <1>2, <1>3, <1>4 DEF Dequeue, Ring, WellFormed, SlotOf

(* It removes the first message of the queue. *)
LEMMA DequeueContents ==
  ASSUME NEW E, NEW r \in Ring(E), WellFormed(r), r.count > 0
  PROVE  Contents(Dequeue(r)) = Tail(Contents(r)) /\ Contents(r) # <<>>
         /\ Head(Contents(r)) = First(r)
<1> DEFINE q == Dequeue(r)
           c == Contents(r)
           d == Contents(q)
<1>1. /\ r.head \in Slots /\ r.count \in 1 .. QueueSize
  BY QueueSizeAssumption DEF Ring
<1>2. /\ q.slots = r.slots /\ q.head = (r.head + 1) % QueueSize
      /\ q.count = r.count - 1 /\ q \in Ring(E)
  BY DequeueWellFormed DEF Dequeue
<1>3. /\ c \in Seq(E) /\ Len(c) = r.count
      /\ \A i \in 1 .. r.count : c[i] = r.slots[SlotOf(r, i - 1)]
  BY ContentsSeq
<1>4. /\ d \in Seq(E) /\ Len(d) = r.count - 1
      /\ \A i \in 1 .. r.count - 1 : d[i] = r.slots[SlotOf(q, i - 1)]
  BY <1>2, ContentsSeq
<1> HIDE DEF q, c, d
<1>5. c # <<>>
  BY <1>1, <1>3, EmptySeq, QueueSizeAssumption
<1>6. /\ Tail(c) \in Seq(E) /\ Len(Tail(c)) = r.count - 1
      /\ \A i \in 1 .. r.count - 1 : Tail(c)[i] = c[i + 1]
  BY <1>3, <1>5, HeadTailProperties
<1>7. \A i \in 1 .. r.count - 1 : d[i] = Tail(c)[i]
  <2> TAKE i \in 1 .. r.count - 1
  <2>1. /\ i - 1 \in 0 .. QueueSize - 1 /\ i + 1 \in 1 .. r.count
        /\ (i + 1) - 1 = (i - 1) + 1
    BY <1>1, QueueSizeAssumption
  <2>2. SlotOf(q, i - 1) = SlotOf(r, (i + 1) - 1)
    BY <1>1, <1>2, <2>1, AdvanceTwice DEF SlotOf
  <2>3. QED
    BY <1>3, <1>4, <1>6, <2>1, <2>2
<1>8. d = Tail(c)
  BY <1>4, <1>6, <1>7, SeqEqual
<1>9. Head(c) = c[1]
  BY <1>3, <1>5
<1>10. SlotOf(r, 1 - 1) = r.head
  <2>1. 0 \in 0 .. QueueSize
    BY QueueSizeAssumption
  <2>2. QED
    BY <1>1, <2>1, Advance, QueueSizeAssumption DEF SlotOf, Slots
<1>11. c[1] = r.slots[r.head]
  BY <1>1, <1>3, <1>10
<1>12. QED
  BY <1>5, <1>8, <1>9, <1>11 DEF c, d, q, First

(* Taking a message out of the middle keeps the ring well formed. *)
LEMMA RemoveAtWellFormed ==
  ASSUME NEW E, NEW r \in Ring(E), WellFormed(r), NEW i \in 0 .. r.count - 1
  PROVE  RemoveAt(r, i) \in Ring(E) /\ WellFormed(RemoveAt(r, i))
<1> DEFINE q == RemoveAt(r, i)
<1>1. /\ r.head \in Slots /\ r.count \in 1 .. QueueSize /\ r.slots \in [Slots -> E]
  BY QueueSizeAssumption DEF Ring
<1>2. \A k \in Slots : (k + 1) % QueueSize \in Slots
  <2>1. 1 \in 0 .. QueueSize
    BY QueueSizeAssumption
  <2>2. QED
    BY <2>1, Advance
<1>3. q.slots \in [Slots -> E]
  BY <1>1, <1>2 DEF RemoveAt
<1>4. 0 \in Slots /\ 0 \in 0 .. QueueSize /\ (0 + 0) % QueueSize = 0
  BY Advance, QueueSizeAssumption DEF Slots
<1>5. /\ r.count - 1 \in 0 .. QueueSize
      /\ (r.head + r.count - 1) % QueueSize = (r.head + (r.count - 1)) % QueueSize
  BY <1>1, QueueSizeAssumption DEF Slots
<1>6. (r.head + (r.count - 1)) % QueueSize \in Slots
  BY <1>1, <1>5, Advance
<1>7. CASE r.count = 1
  BY <1>1, <1>3, <1>4, <1>7 DEF RemoveAt, Ring, WellFormed, SlotOf
<1>8. CASE r.count # 1
  BY <1>1, <1>3, <1>5, <1>6, <1>8 DEF RemoveAt, Ring, WellFormed, SlotOf
<1>9. QED
  BY <1>7, <1>8

(* Place undoes SlotOf. *)
LEMMA PlaceOfSlot ==
  ASSUME NEW r, r.head \in Slots, NEW j \in 0 .. QueueSize - 1
  PROVE  Place(r, SlotOf(r, j)) = j
<1> DEFINE s == SlotOf(r, j)
<1>1. j \in 0 .. QueueSize /\ r.head \in Slots
  BY QueueSizeAssumption
<1>2. s = IF r.head + j < QueueSize THEN r.head + j ELSE r.head + j - QueueSize
  BY <1>1, Advance DEF SlotOf
<1> HIDE DEF s
<1>3. s - r.head + QueueSize = j \/ s - r.head + QueueSize = j + QueueSize
  BY <1>1, <1>2, QueueSizeAssumption DEF Slots
<1>4. j % QueueSize = j /\ (j + QueueSize) % QueueSize = j
  <2>1. /\ j \in 0 .. 2 * QueueSize - 1 /\ j + QueueSize \in 0 .. 2 * QueueSize - 1
        /\ j < QueueSize /\ ~(j + QueueSize < QueueSize) /\ j + QueueSize - QueueSize = j
    BY QueueSizeAssumption
  <2>2. QED
    BY <2>1, Wrap, QueueSizeAssumption
<1>5. (s - r.head + QueueSize) % QueueSize = j
  BY <1>3, <1>4
<1>6. QED
  BY <1>5 DEF Place, s

(* Taking out the message i places behind the head closes the gap and      *)
(* changes nothing else.                                                   *)
LEMMA RemoveAtContents ==
  ASSUME NEW E, NEW r \in Ring(E), WellFormed(r), NEW i \in 0 .. r.count - 1
  PROVE  /\ Contents(RemoveAt(r, i)) \in Seq(E)
         /\ Len(Contents(RemoveAt(r, i))) = r.count - 1
         /\ \A j \in 1 .. r.count - 1 :
              Contents(RemoveAt(r, i))[j]
                = IF j <= i THEN Contents(r)[j] ELSE Contents(r)[j + 1]
<1> DEFINE q == RemoveAt(r, i)
           c == Contents(r)
           d == Contents(q)
<1>1. /\ r.head \in Slots /\ r.count \in 1 .. QueueSize /\ i \in Nat /\ r.count \in Nat
  BY QueueSizeAssumption DEF Ring
<1>2. /\ q \in Ring(E) /\ q.count = r.count - 1
      /\ r.count # 1 => q.head = r.head
      /\ q.slots = [k \in Slots |-> IF Place(r, k) \in i .. r.count - 2
                                    THEN r.slots[(k + 1) % QueueSize] ELSE r.slots[k]]
  BY RemoveAtWellFormed DEF RemoveAt
<1>3. /\ c \in Seq(E) /\ Len(c) = r.count
      /\ \A j \in 1 .. r.count : c[j] = r.slots[SlotOf(r, j - 1)]
  BY ContentsSeq
<1>4. /\ d \in Seq(E) /\ Len(d) = r.count - 1
      /\ \A j \in 1 .. r.count - 1 : d[j] = q.slots[SlotOf(q, j - 1)]
  BY <1>2, ContentsSeq
<1> HIDE DEF q, c, d
<1>5. \A j \in 1 .. r.count - 1 : d[j] = IF j <= i THEN c[j] ELSE c[j + 1]
  <2> TAKE j \in 1 .. r.count - 1
  <2> DEFINE k == SlotOf(r, j - 1)
  <2>1. /\ j - 1 \in 0 .. QueueSize - 1 /\ j - 1 \in 0 .. QueueSize /\ r.count # 1
        /\ j \in 1 .. r.count /\ j + 1 \in 1 .. r.count
        /\ j \in Nat /\ (j + 1) - 1 = (j - 1) + 1
    BY <1>1, QueueSizeAssumption
  <2>2. SlotOf(q, j - 1) = k /\ k \in Slots
    BY <1>1, <1>2, <2>1, Advance DEF SlotOf
  <2>3. Place(r, k) = j - 1
    BY <1>1, <2>1, PlaceOfSlot
  <2>4. (k + 1) % QueueSize = SlotOf(r, (j + 1) - 1)
    BY <1>1, <2>1, AdvanceTwice DEF SlotOf
  <2> HIDE DEF k
  <2>5. d[j] = IF j - 1 \in i .. r.count - 2 THEN r.slots[(k + 1) % QueueSize] ELSE r.slots[k]
    BY <1>2, <1>4, <2>2, <2>3
  <2>6. CASE j <= i
    <3>1. ~(j - 1 \in i .. r.count - 2)
      BY <1>1, <2>1, <2>6
    <3>2. QED
      BY <1>3, <2>1, <2>5, <2>6, <3>1 DEF k
  <2>7. CASE ~(j <= i)
    <3>1. j - 1 \in i .. r.count - 2
      BY <1>1, <2>1, <2>7
    <3>2. QED
      BY <1>3, <2>1, <2>4, <2>5, <2>7, <3>1
  <2>8. QED
    BY <2>6, <2>7
<1>6. QED
  BY <1>4, <1>5 DEF c, d, q

-----------------------------------------------------------------------------
(* The invariant of the bus.                                                *)

(* The rings of the two directions hold messages or the null of an unused  *)
(* slot; a ring of these is what the lemmas above speak about.             *)
Slot == Message \union {NULL}

LEMMA RingType ==
  ASSUME TypeOK
  PROVE  \A d \in Dirs : ring[d] \in Ring(Slot)
BY DEF TypeOK, Ring, Slot

LEMMA DirOfType == \A t \in Publishers : DirOf(t) \in Dirs
BY DEF DirOf, Dirs

(* The inductive invariant: the types, the rings, and the mutual exclusion *)
(* without which neither would survive an interleaving.                    *)
IInv == TypeOK /\ RingsWellFormed /\ LockDiscipline

LEMMA InitIInv == Init => IInv
<1> SUFFICES ASSUME Init PROVE IInv
  OBVIOUS
<1> USE BusAssumption, QueueSizeAssumption
<1>1. EmptyRing \in Ring(Slot) /\ WellFormed(EmptyRing) /\ Contents(EmptyRing) \in Seq(Message)
  BY EmptyRingOK, EmptySeq DEF Slot
<1>2. RingsWellFormed
  BY <1>1 DEF Init, RingsWellFormed
<1>3. TypeOK
  <2>1. ring \in [Dirs -> Ring(Slot)]
    BY <1>1 DEF Init
  <2>2. <<>> \in Seq(Message)
    BY EmptySeq
  <2>3. taken \in [Dirs -> Seq(Message)]
    BY <2>2 DEF Init
  <2>4. /\ lock \in [Dirs -> Publishers \union Consumers \union {NULL}]
        /\ offset \in 0 .. ArenaSize
        /\ reg \in [Publishers -> 0 .. ArenaSize]
        /\ sent \in [Publishers -> 0 .. MaxSent]
        /\ epoch \in 0 .. MaxResets
    BY DEF Init
  <2>5. /\ memory \in [Bytes -> [id : MessageId, string : Nat, byte : Nat] \union {NULL}]
        /\ draft \in [Publishers -> Message \union {NULL}]
        /\ running \in BOOLEAN /\ raced \in BOOLEAN
        /\ stopper \in {"running", "stopped", "done"}
    BY DEF Init
  <2>6. /\ pc \in [Publishers \union Consumers -> PublisherLabels \union ConsumerLabels]
        /\ \A t \in Publishers : pc[t] \in PublisherLabels
        /\ \A c \in Consumers : pc[c] \in ConsumerLabels
    BY DEF Init, PublisherLabels, ConsumerLabels
  <2>7. QED
    BY <2>1, <2>3, <2>4, <2>5, <2>6 DEF TypeOK, Ring, Slot
<1>4. LockDiscipline
  BY DEF Init, LockDiscipline, PublisherHolds, ConsumerHolds, HoldersKnown,
     Inside, DirOf, Dirs, Publishers
<1>5. QED
  BY <1>2, <1>3, <1>4 DEF IInv

-----------------------------------------------------------------------------
(* What a step does not touch.  A publisher is not disturbed by a step that *)
(* leaves its own state alone, does not take its mutex away or give it one, *)
(* and leaves room in the ring it is about to write to.                     *)
LEMMA PublisherFrame ==
  ASSUME NEW p \in Publishers, PublisherHolds(p),
         UNCHANGED <<pc[p], draft[p], reg[p]>>,
         lock'[DirOf(p)] = p <=> lock[DirOf(p)] = p,
         Inside(p) => ~IsFull(ring'[DirOf(p)])
  PROVE  PublisherHolds(p)'
BY DEF PublisherHolds, Inside, NextString, NextSize

(* A consumer is not disturbed by a step that leaves it where it is and    *)
(* does not add to the queue while it holds the mutex.                     *)
LEMMA ConsumerFrame ==
  ASSUME NEW c \in Consumers, ConsumerHolds(c), pc'[c] = pc[c],
         lock'["in"] = c <=> lock["in"] = c,
         pc[c] = "towait" => ring'["in"].count = ring["in"].count
  PROVE  ConsumerHolds(c)'
BY DEF ConsumerHolds

(* A step that leaves locks, rings, drafts, labels and registers alone.    *)
LEMMA QuietStep ==
  ASSUME RingsWellFormed /\ LockDiscipline,
         UNCHANGED <<ring, lock, pc, draft, reg>>, running' <=> stopper' = "running"
  PROVE  (RingsWellFormed /\ LockDiscipline)'
BY DEF RingsWellFormed, LockDiscipline, PublisherHolds, ConsumerHolds, HoldersKnown,
       Inside, NextString, NextSize

-----------------------------------------------------------------------------
(* The steps of a publisher. *)

LEMMA PublishBeginIInv ==
  ASSUME IInv, NEW t \in Publishers, NEW ch \in Channels, PublishBegin(t, ch)
  PROVE  IInv'
<1> USE BusAssumption, QueueSizeAssumption
<1> DEFINE d == DirOf(t)
           m == [id |-> [thread |-> t, n |-> sent[t] + 1, chan |-> ch],
                 ptr |-> <<>>, epoch |-> epoch]
<1>1. d \in Dirs
  BY DirOfType
<1>2. m \in Message /\ m # NULL
  <2>1. sent[t] + 1 \in 1 .. MaxSent /\ epoch \in Nat
    BY DEF IInv, TypeOK, PublishBegin
  <2>2. m.ptr \in Seq(Bytes \union {NULL})
    BY EmptySeq
  <2>3. m \in Message
    BY <2>1, <2>2 DEF Message, MessageId
  <2>4. QED
    BY <2>3, NullAssumption
<1> HIDE DEF m
<1>3. /\ pc[t] = "idle" /\ lock[d] = NULL /\ ~IsFull(ring[d])
      /\ sent[t] < MaxSent /\ sent' = [sent EXCEPT ![t] = @ + 1]
      /\ lock' = [lock EXCEPT ![d] = t] /\ draft' = [draft EXCEPT ![t] = m]
      /\ pc' = [pc EXCEPT ![t] = "alloc"]
      /\ UNCHANGED <<offset, memory, epoch, raced, ring, reg, running, stopper, taken>>
  BY DEF PublishBegin, Goto, arenaVars, m
<1>4. TypeOK'
  <2>1. /\ lock' \in [Dirs -> Publishers \union Consumers \union {NULL}]
        /\ draft' \in [Publishers -> Message \union {NULL}]
        /\ sent' \in [Publishers -> 0 .. MaxSent]
    BY <1>1, <1>2, <1>3 DEF IInv, TypeOK
  <2>2. /\ pc' \in [Publishers \union Consumers -> PublisherLabels \union ConsumerLabels]
        /\ \A p \in Publishers : pc'[p] \in PublisherLabels
        /\ \A c \in Consumers : pc'[c] \in ConsumerLabels
    BY <1>3 DEF IInv, TypeOK, PublisherLabels
  <2>3. QED
    BY <1>3, <2>1, <2>2 DEF IInv, TypeOK
<1>5. RingsWellFormed'
  BY <1>3 DEF IInv, RingsWellFormed
<1>6. \A p \in Publishers : PublisherHolds(p)'
  <2> TAKE p \in Publishers
  <2>1. CASE p = t
    BY <1>1, <1>2, <1>3, <2>1 DEF IInv, TypeOK, Inside, PublisherHolds
  <2>2. CASE p # t
    <3>1. lock'[DirOf(p)] = p <=> lock[DirOf(p)] = p
      BY <1>1, <1>3, <2>2, DirOfType DEF IInv, TypeOK
    <3>2. QED
      BY <1>3, <2>2, <3>1, PublisherFrame DEF IInv, TypeOK, LockDiscipline, PublisherHolds
  <2>3. QED
    BY <2>1, <2>2
<1>7. (\A c \in Consumers : ConsumerHolds(c)') /\ HoldersKnown'
  BY <1>1, <1>3 DEF IInv, TypeOK, LockDiscipline, ConsumerHolds, HoldersKnown, DirOf, Dirs,
     Publishers
<1>8. QED
  BY <1>4, <1>5, <1>6, <1>7 DEF IInv, LockDiscipline

LEMMA AllocLoadIInv ==
  ASSUME IInv, NEW t \in Publishers, AllocLoad(t)
  PROVE  IInv'
<1> USE BusAssumption, QueueSizeAssumption
<1>1. DirOf(t) \in Dirs
  BY DirOfType
<1>2. draft[t] \in Message /\ pc[t] = "alloc" /\ Inside(t)
  BY DEF IInv, TypeOK, LockDiscipline, PublisherHolds, AllocLoad, Inside
<1>3. CASE offset + NextSize(t) > ArenaSize
  <2>1. /\ draft' = [draft EXCEPT ![t].ptr = Append(@, NULL)]
        /\ UNCHANGED <<pc, reg, busVars, arenaVars, sent>>
    BY <1>3 DEF AllocLoad, Copied
  <2>2. Append(draft[t].ptr, NULL) \in Seq(Bytes \union {NULL})
    BY <1>2, AppendProperties DEF Message
  <2>3. draft'[t] \in Message /\ draft' \in [Publishers -> Message \union {NULL}]
    BY <1>2, <2>1, <2>2 DEF Message, IInv, TypeOK
  <2>4. TypeOK'
    BY <2>1, <2>3 DEF IInv, TypeOK, busVars, arenaVars
  <2>5. \A p \in Publishers : PublisherHolds(p)'
    <3> TAKE p \in Publishers
    <3>1. CASE p = t
      BY <1>2, <2>1, <2>3, <3>1, NullAssumption DEF IInv, LockDiscipline, PublisherHolds,
         Inside, busVars
    <3>2. CASE p # t
      BY <2>1, <3>2, PublisherFrame DEF IInv, TypeOK, LockDiscipline, PublisherHolds, busVars
    <3>3. QED
      BY <3>1, <3>2
  <2>6. RingsWellFormed' /\ HoldersKnown' /\ \A c \in Consumers : ConsumerHolds(c)'
    BY <2>1 DEF IInv, RingsWellFormed, LockDiscipline, HoldersKnown, ConsumerHolds, busVars
  <2>7. QED
    BY <2>4, <2>5, <2>6 DEF IInv, LockDiscipline
<1>4. CASE ~(offset + NextSize(t) > ArenaSize)
  <2>1. /\ reg' = [reg EXCEPT ![t] = offset] /\ pc' = [pc EXCEPT ![t] = "store"]
        /\ NextString(t) \in Strings(DirOf(t))
        /\ UNCHANGED <<draft, busVars, arenaVars, sent>>
    BY <1>4 DEF AllocLoad, Goto
  <2>2. NextSize(t) \in Nat \ {0}
    BY <1>1, <2>1 DEF NextSize, Strings
  <2>3. TypeOK'
    BY <2>1 DEF IInv, TypeOK, busVars, arenaVars, PublisherLabels, ConsumerLabels
  <2>4. \A p \in Publishers : PublisherHolds(p)'
    <3> TAKE p \in Publishers
    <3>1. CASE p = t
      <4>1. /\ reg'[t] = offset /\ pc'[t] = "store" /\ pc[t] = "alloc"
            /\ UNCHANGED <<draft, ring, lock>>
        BY <1>2, <2>1 DEF IInv, TypeOK, busVars
      <4>2. reg'[t] + NextSize(t) <= ArenaSize
        BY <1>4, <2>2, <4>1 DEF IInv, TypeOK
      <4>3. QED
        BY <2>1, <3>1, <4>1, <4>2 DEF IInv, LockDiscipline, PublisherHolds, Inside,
           NextString, NextSize
    <3>2. CASE p # t
      BY <2>1, <3>2, PublisherFrame DEF IInv, TypeOK, LockDiscipline, PublisherHolds, busVars
    <3>3. QED
      BY <3>1, <3>2
  <2>5. RingsWellFormed' /\ HoldersKnown' /\ \A c \in Consumers : ConsumerHolds(c)'
    BY <2>1 DEF IInv, TypeOK, RingsWellFormed, LockDiscipline, HoldersKnown, ConsumerHolds,
       busVars
  <2>6. QED
    BY <2>3, <2>4, <2>5 DEF IInv, LockDiscipline
<1>5. QED
  BY <1>3, <1>4

LEMMA AllocStoreIInv ==
  ASSUME IInv, NEW t \in Publishers, AllocStore(t)
  PROVE  IInv'
<1> USE BusAssumption, QueueSizeAssumption
<1> DEFINE size == NextSize(t)
           string == [a \in reg[t] .. reg[t] + size - 1 |->
                        [id |-> draft[t].id, string |-> NextString(t), byte |-> a - reg[t]]]
<1>1. DirOf(t) \in Dirs
  BY DirOfType
<1>2. /\ draft[t] \in Message /\ pc[t] = "store" /\ Inside(t)
      /\ NextString(t) \in Strings(DirOf(t)) /\ reg[t] + size <= ArenaSize
  BY DEF IInv, TypeOK, LockDiscipline, PublisherHolds, AllocStore, Inside
<1>3. /\ size \in Nat \ {0} /\ NextString(t) \in Nat /\ reg[t] \in Nat
      /\ reg[t] + size \in 0 .. ArenaSize /\ reg[t] \in Bytes
  <2>1. size \in Nat \ {0} /\ NextString(t) \in Nat
    BY <1>1, <1>2 DEF NextSize, Strings
  <2>2. reg[t] \in 0 .. ArenaSize
    BY DEF IInv, TypeOK
  <2>3. QED
    BY <1>2, <2>1, <2>2 DEF Bytes
<1> HIDE DEF size
<1>4. /\ offset' = reg[t] + size /\ raced' = (raced \/ offset # reg[t])
      /\ memory' = [a \in Bytes |-> IF a \in DOMAIN string THEN string[a] ELSE memory[a]]
      /\ draft' = [draft EXCEPT ![t].ptr = Append(@, reg[t])]
      /\ pc' = [pc EXCEPT ![t] = "alloc"]
      /\ UNCHANGED <<ring, lock, running, stopper, taken, reg, sent, epoch>>
  BY DEF AllocStore, Copied, Goto, busVars, size
<1>5. memory' \in [Bytes -> [id : MessageId, string : Nat, byte : Nat] \union {NULL}]
  <2>1. \A a \in DOMAIN string : string[a] \in [id : MessageId, string : Nat, byte : Nat]
    <3>1. draft[t].id \in MessageId
      BY <1>2 DEF Message
    <3>2. \A a \in reg[t] .. reg[t] + size - 1 : a - reg[t] \in Nat
      BY <1>3
    <3>3. QED
      BY <1>3, <3>1, <3>2
  <2>2. QED
    BY <1>4, <2>1 DEF IInv, TypeOK
<1>6. draft'[t] \in Message /\ draft' \in [Publishers -> Message \union {NULL}]
  <2>1. Append(draft[t].ptr, reg[t]) \in Seq(Bytes \union {NULL})
    BY <1>2, <1>3, AppendProperties DEF Message
  <2>2. QED
    BY <1>2, <1>4, <2>1 DEF Message, IInv, TypeOK
<1>7. TypeOK'
  <2>1. /\ pc' \in [Publishers \union Consumers -> PublisherLabels \union ConsumerLabels]
        /\ \A p \in Publishers : pc'[p] \in PublisherLabels
        /\ \A c \in Consumers : pc'[c] \in ConsumerLabels
    BY <1>4 DEF IInv, TypeOK, PublisherLabels
  <2>2. raced' \in BOOLEAN
    BY <1>4 DEF IInv, TypeOK
  <2>3. QED
    BY <1>3, <1>4, <1>5, <1>6, <2>1, <2>2 DEF IInv, TypeOK
<1>8. \A p \in Publishers : PublisherHolds(p)'
  <2> TAKE p \in Publishers
  <2>1. CASE p = t
    <3>1. pc'[t] = "alloc" /\ draft'[t] # NULL
      BY <1>4, <1>6, NullAssumption DEF IInv, TypeOK
    <3>2. QED
      BY <1>2, <1>4, <2>1, <3>1 DEF IInv, LockDiscipline, PublisherHolds, Inside
  <2>2. CASE p # t
    BY <1>4, <2>2, PublisherFrame DEF IInv, TypeOK, LockDiscipline, PublisherHolds
  <2>3. QED
    BY <2>1, <2>2
<1>9. RingsWellFormed' /\ HoldersKnown' /\ \A c \in Consumers : ConsumerHolds(c)'
  BY <1>4 DEF IInv, TypeOK, RingsWellFormed, LockDiscipline, HoldersKnown, ConsumerHolds
<1>10. QED
  BY <1>7, <1>8, <1>9 DEF IInv, LockDiscipline

(* The queue is full and the publish call returns at once. *)
LEMMA PublishFullIInv ==
  ASSUME IInv, NEW t \in Publishers, PublishFull(t)
  PROVE  IInv'
<1>1. sent' = [sent EXCEPT ![t] = @ + 1] /\ sent[t] < MaxSent
      /\ UNCHANGED <<busVars, arenaVars, pc, reg, draft>>
  BY DEF PublishFull
<1>2. sent' \in [Publishers -> 0 .. MaxSent]
  BY <1>1, BusAssumption DEF IInv, TypeOK
<1>3. TypeOK'
  BY <1>1, <1>2 DEF IInv, TypeOK, busVars, arenaVars
<1>4. running' <=> stopper' = "running"
  BY <1>1 DEF IInv, LockDiscipline, HoldersKnown, busVars
<1>5. QED
  BY <1>1, <1>3, <1>4, QuietStep DEF IInv, busVars

(* A step that replaces one ring by a well-formed ring. *)
LEMMA RingStep ==
  ASSUME TypeOK, RingsWellFormed, NEW d \in Dirs, NEW q \in Ring(Slot), WellFormed(q),
         Contents(q) \in Seq(Message), ring' = [ring EXCEPT ![d] = q]
  PROVE  /\ RingsWellFormed'
         /\ ring' \in [Dirs -> [slots : [Slots -> Message \union {NULL}], head : Slots,
                                tail : Slots, count : 0 .. QueueSize]]
         /\ ring'[d] = q
<1>1. ring \in [Dirs -> Ring(Slot)]
  BY DEF TypeOK, Ring, Slot
<1>2. ring' \in [Dirs -> Ring(Slot)] /\ \A e \in Dirs : ring'[e] = IF e = d THEN q ELSE ring[e]
  BY <1>1
<1>3. QED
  BY <1>2 DEF RingsWellFormed, Ring, Slot

LEMMA PublishEndIInv ==
  ASSUME IInv, NEW t \in Publishers, PublishEnd(t)
  PROVE  IInv'
<1> USE BusAssumption, QueueSizeAssumption
<1> DEFINE d == DirOf(t)
           q == Enqueue(ring[d], draft[t])
<1>1. d \in Dirs
  BY DirOfType
<1>2. draft[t] \in Message /\ ~IsFull(ring[d]) /\ lock[d] = t /\ pc[t] = "alloc"
  BY DEF IInv, TypeOK, LockDiscipline, PublisherHolds, PublishEnd, Inside
<1>3. q \in Ring(Slot) /\ WellFormed(q) /\ Contents(q) \in Seq(Message)
  <2>1. /\ ring[d] \in Ring(Slot) /\ WellFormed(ring[d]) /\ draft[t] \in Slot
        /\ Contents(ring[d]) \in Seq(Message)
    BY <1>1, <1>2, RingType DEF IInv, RingsWellFormed, Slot
  <2>2. q \in Ring(Slot) /\ WellFormed(q) /\ Contents(q) = Append(Contents(ring[d]), draft[t])
    BY <1>2, <2>1, EnqueueWellFormed, EnqueueContents
  <2>3. QED
    BY <1>2, <2>1, <2>2, AppendProperties
<1> HIDE DEF q
<1>4. /\ ring' = [ring EXCEPT ![d] = q] /\ lock' = [lock EXCEPT ![d] = NULL]
      /\ draft' = [draft EXCEPT ![t] = NULL]
      /\ UNCHANGED <<offset, memory, epoch, raced, reg, running, stopper, sent, taken>>
  BY DEF PublishEnd, arenaVars, q
<1>5. /\ pc' \in [Publishers \union Consumers -> PublisherLabels \union ConsumerLabels]
      /\ \A p \in Publishers : pc'[p] = IF p = t THEN "idle" ELSE pc[p]
      /\ \A c \in Consumers : pc'[c] = pc[c] \/ (pc[c] = "waiting" /\ pc'[c] = "woken")
  <2>1. CASE pc' = [pc EXCEPT ![t] = "idle"]
    BY <2>1 DEF IInv, TypeOK, PublisherLabels
  <2>2. CASE \E c \in Waiting : pc' = [pc EXCEPT ![t] = "idle", ![c] = "woken"]
    <3>1. PICK w \in Waiting : pc' = [pc EXCEPT ![t] = "idle", ![w] = "woken"]
      BY <2>2
    <3>2. w \in Consumers /\ w # t /\ w \notin Publishers /\ pc[w] = "waiting" /\ t \notin Consumers
      BY <3>1 DEF Waiting
    <3>3. "idle" \in PublisherLabels /\ "woken" \in ConsumerLabels
      BY DEF PublisherLabels, ConsumerLabels
    <3>4. QED
      BY <3>1, <3>2, <3>3 DEF IInv, TypeOK
  <2>3. QED
    BY <2>1, <2>2 DEF PublishEnd, Signal, Goto
<1>6. RingsWellFormed'
      /\ ring' \in [Dirs -> [slots : [Slots -> Message \union {NULL}], head : Slots,
                             tail : Slots, count : 0 .. QueueSize]]
  BY <1>1, <1>3, <1>4, RingStep DEF IInv
<1>7. TypeOK'
  <2>1. /\ \A p \in Publishers : pc'[p] \in PublisherLabels
        /\ \A c \in Consumers : pc'[c] \in ConsumerLabels
    BY <1>5 DEF IInv, TypeOK, PublisherLabels, ConsumerLabels
  <2>2. /\ lock' \in [Dirs -> Publishers \union Consumers \union {NULL}]
        /\ draft' \in [Publishers -> Message \union {NULL}]
    BY <1>1, <1>4 DEF IInv, TypeOK
  <2>3. QED
    BY <1>4, <1>5, <1>6, <2>1, <2>2 DEF IInv, TypeOK
<1>8. \A p \in Publishers : PublisherHolds(p)'
  <2> TAKE p \in Publishers
  <2>1. CASE p = t
    <3>1. pc'[p] = "idle" /\ lock'[DirOf(p)] = NULL /\ NULL # p
      BY <1>1, <1>4, <1>5, <2>1 DEF IInv, TypeOK
    <3>2. QED
      BY <3>1 DEF PublisherHolds, Inside
  <2>2. CASE p # t
    <3>1. UNCHANGED <<pc[p], draft[p], reg[p]>>
      BY <1>4, <1>5, <2>2 DEF IInv, TypeOK
    <3>2. lock'[DirOf(p)] = p <=> lock[DirOf(p)] = p
      BY <1>1, <1>2, <1>4, <2>2, DirOfType DEF IInv, TypeOK
    <3>3. Inside(p) => ~IsFull(ring'[DirOf(p)])
      <4>1. Inside(p) => DirOf(p) # d
        BY <1>2, <2>2 DEF IInv, LockDiscipline, PublisherHolds
      <4>2. DirOf(p) # d => ring'[DirOf(p)] = ring[DirOf(p)]
        BY <1>4, DirOfType DEF IInv, TypeOK
      <4>3. QED
        BY <4>1, <4>2 DEF IInv, LockDiscipline, PublisherHolds
    <3>4. QED
      BY <3>1, <3>2, <3>3, PublisherFrame DEF IInv, LockDiscipline
  <2>3. QED
    BY <2>1, <2>2
<1>9. \A c \in Consumers : ConsumerHolds(c)'
  <2> TAKE c \in Consumers
  <2>1. pc'[c] = "towait" <=> pc[c] = "towait"
    BY <1>5
  <2>2. c # t /\ c # NULL
    OBVIOUS
  <2>3. lock'["in"] = c <=> lock["in"] = c
    BY <1>1, <1>2, <1>4, <2>2 DEF IInv, TypeOK, Dirs
  <2>4. pc[c] = "towait" => ring'["in"] = ring["in"]
    <3>1. pc[c] = "towait" => d # "in"
      BY <1>2, <2>2 DEF IInv, LockDiscipline, ConsumerHolds
    <3>2. d # "in" => ring'["in"] = ring["in"]
      BY <1>1, <1>4 DEF IInv, TypeOK, Dirs
    <3>3. QED
      BY <3>1, <3>2
  <2>5. ConsumerHolds(c)
    BY DEF IInv, LockDiscipline
  <2>6. QED
    BY <2>1, <2>3, <2>4, <2>5 DEF ConsumerHolds
<1>10. HoldersKnown'
  BY <1>1, <1>4 DEF IInv, TypeOK, LockDiscipline, HoldersKnown, Dirs
<1>11. QED
  BY <1>6, <1>7, <1>8, <1>9, <1>10 DEF IInv, LockDiscipline

-----------------------------------------------------------------------------
(* The steps of a consumer, of a dispatcher, and the shutdown. *)

(* A step that takes a message out of a ring nobody is writing to. *)
LEMMA TakeIInv ==
  ASSUME IInv, NEW d \in Dirs, NEW q \in Ring(Slot), WellFormed(q),
         Contents(q) \in Seq(Message), NEW m \in Message,
         lock[d] = NULL,
         ring' = [ring EXCEPT ![d] = q],
         taken' = [taken EXCEPT ![d] = Append(@, m)],
         pc' \in [Publishers \union Consumers -> PublisherLabels \union ConsumerLabels],
         \A p \in Publishers : pc'[p] = pc[p],
         \A c \in Consumers : pc'[c] \in ConsumerLabels /\ (pc'[c] = "towait" <=> pc[c] = "towait"),
         UNCHANGED <<arenaVars, lock, reg, draft, running, stopper, sent>>
  PROVE  IInv'
<1> USE BusAssumption, QueueSizeAssumption
<1>1. RingsWellFormed'
      /\ ring' \in [Dirs -> [slots : [Slots -> Message \union {NULL}], head : Slots,
                             tail : Slots, count : 0 .. QueueSize]]
  BY RingStep DEF IInv
<1>2. \A e \in Dirs : lock[e] # NULL => ring'[e] = ring[e]
  BY DEF IInv, TypeOK
<1>3. TypeOK'
  <2>1. taken' \in [Dirs -> Seq(Message)]
    <3>1. taken[d] \in Seq(Message)
      BY DEF IInv, TypeOK
    <3>2. Append(taken[d], m) \in Seq(Message)
      BY <3>1, AppendProperties
    <3>3. QED
      BY <3>2 DEF IInv, TypeOK
  <2>2. \A p \in Publishers : pc'[p] \in PublisherLabels
    BY DEF IInv, TypeOK
  <2>3. QED
    BY <1>1, <2>1, <2>2 DEF IInv, TypeOK, arenaVars
<1>4. \A p \in Publishers : PublisherHolds(p)'
  <2> TAKE p \in Publishers
  <2>1. PublisherHolds(p)
    BY DEF IInv, LockDiscipline
  <2>2. Inside(p) => ~IsFull(ring'[DirOf(p)])
    BY <1>2, <2>1, DirOfType DEF PublisherHolds
  <2>3. QED
    BY <2>1, <2>2, PublisherFrame
<1>5. \A c \in Consumers : ConsumerHolds(c)'
  <2> TAKE c \in Consumers
  <2>1. ConsumerHolds(c)
    BY DEF IInv, LockDiscipline
  <2>2. "in" \in Dirs /\ c # NULL
    BY DEF Dirs
  <2>3. QED
    BY <1>2, <2>1, <2>2 DEF ConsumerHolds
<1>6. HoldersKnown'
  BY DEF IInv, LockDiscipline, HoldersKnown
<1>7. QED
  BY <1>1, <1>3, <1>4, <1>5, <1>6 DEF IInv, LockDiscipline

(* Popping the head of a ring that is not empty yields a message and       *)
(* leaves a well-formed ring.                                              *)
LEMMA DequeueMessage ==
  ASSUME IInv, NEW d \in Dirs, ring[d].count > 0
  PROVE  /\ First(ring[d]) \in Message
         /\ Dequeue(ring[d]) \in Ring(Slot) /\ WellFormed(Dequeue(ring[d]))
         /\ Contents(Dequeue(ring[d])) \in Seq(Message)
<1> DEFINE r == ring[d]
           c == Contents(r)
<1>1. r \in Ring(Slot) /\ WellFormed(r) /\ c \in Seq(Message) /\ r.count > 0
  BY RingType DEF IInv, RingsWellFormed
<1>2. /\ Contents(Dequeue(r)) = Tail(c) /\ c # <<>> /\ Head(c) = First(r)
      /\ Dequeue(r) \in Ring(Slot) /\ WellFormed(Dequeue(r))
  BY <1>1, DequeueContents, DequeueWellFormed
<1>3. Head(c) \in Message /\ Tail(c) \in Seq(Message)
  BY <1>1, <1>2, HeadTailProperties
<1>4. QED
  BY <1>2, <1>3

(* So does taking one out of the middle. *)
LEMMA RemoveMessage ==
  ASSUME IInv, NEW d \in Dirs, NEW i \in 0 .. ring[d].count - 1
  PROVE  /\ Contents(ring[d])[i + 1] \in Message
         /\ RemoveAt(ring[d], i) \in Ring(Slot) /\ WellFormed(RemoveAt(ring[d], i))
         /\ Contents(RemoveAt(ring[d], i)) \in Seq(Message)
<1> DEFINE r == ring[d]
           c == Contents(r)
           q == RemoveAt(r, i)
           e == Contents(q)
<1>1. /\ r \in Ring(Slot) /\ WellFormed(r) /\ c \in Seq(Message)
      /\ r.count \in 0 .. QueueSize
  BY RingType DEF IInv, RingsWellFormed, Ring
<1>2. Len(c) = r.count
  BY <1>1, ContentsSeq
<1>3. /\ q \in Ring(Slot) /\ WellFormed(q) /\ e \in Seq(Slot) /\ Len(e) = r.count - 1
      /\ \A j \in 1 .. r.count - 1 : e[j] = IF j <= i THEN c[j] ELSE c[j + 1]
  BY <1>1, RemoveAtWellFormed, RemoveAtContents
<1> HIDE DEF q, e, c
<1>4. \A j \in 1 .. r.count : c[j] \in Message
  BY <1>1, <1>2, ElementOfSeq
<1>5. \A j \in 1 .. r.count - 1 : e[j] \in Message
  <2> TAKE j \in 1 .. r.count - 1
  <2>1. j \in 1 .. r.count /\ j + 1 \in 1 .. r.count
    BY <1>1, QueueSizeAssumption
  <2>2. QED
    BY <1>3, <1>4, <2>1
<1>6. e \in Seq(Message)
  <2>1. e \in [1 .. r.count - 1 -> Message] /\ r.count - 1 \in Nat
    <3>1. e \in [1 .. r.count - 1 -> Slot]
      BY <1>3, LenProperties
    <3>2. r.count - 1 \in Nat
      BY <1>3, LenProperties
    <3>3. QED
      BY <1>5, <3>1, <3>2
  <2>2. QED
    BY <2>1, SeqDef
<1>7. i + 1 \in 1 .. r.count
  BY <1>1, QueueSizeAssumption
<1>8. QED
  BY <1>3, <1>4, <1>6, <1>7 DEF q, e, c

LEMMA ConsumeMessageIInv ==
  ASSUME IInv, NEW c \in Consumers, ConsumeMessage(c)
  PROVE  IInv'
<1>1. "in" \in Dirs /\ ring["in"].count > 0 /\ lock["in"] = NULL /\ pc[c] \in {"idle", "woken"}
  BY DEF Dirs, ConsumeMessage, AtLoopTest
<1>2. /\ ring' = [ring EXCEPT !["in"] = Dequeue(ring["in"])]
      /\ taken' = [taken EXCEPT !["in"] = Append(@, First(ring["in"]))]
      /\ pc' = [pc EXCEPT ![c] = "idle"]
      /\ UNCHANGED <<arenaVars, lock, reg, draft, running, stopper, sent>>
  BY DEF ConsumeMessage, Goto
<1>3. c \notin Publishers
  BY BusAssumption
<1>4. /\ pc' \in [Publishers \union Consumers -> PublisherLabels \union ConsumerLabels]
      /\ \A p \in Publishers : pc'[p] = pc[p]
      /\ \A e \in Consumers : pc'[e] \in ConsumerLabels /\ (pc'[e] = "towait" <=> pc[e] = "towait")
  BY <1>1, <1>2, <1>3 DEF IInv, TypeOK, PublisherLabels, ConsumerLabels
<1>5. QED
  BY <1>1, <1>2, <1>4, DequeueMessage, TakeIInv

LEMMA ConsumeOutboundIInv ==
  ASSUME IInv, ConsumeOutbound
  PROVE  IInv'
<1>1. "out" \in Dirs /\ ring["out"].count > 0 /\ lock["out"] = NULL
  BY DEF Dirs, ConsumeOutbound
<1>2. /\ ring' = [ring EXCEPT !["out"] = Dequeue(ring["out"])]
      /\ taken' = [taken EXCEPT !["out"] = Append(@, First(ring["out"]))]
      /\ pc' = pc
      /\ UNCHANGED <<arenaVars, lock, reg, draft, running, stopper, sent>>
  BY DEF ConsumeOutbound
<1>3. /\ pc' \in [Publishers \union Consumers -> PublisherLabels \union ConsumerLabels]
      /\ \A p \in Publishers : pc'[p] = pc[p]
      /\ \A e \in Consumers : pc'[e] \in ConsumerLabels /\ (pc'[e] = "towait" <=> pc[e] = "towait")
  BY <1>2 DEF IInv, TypeOK
<1>4. QED
  BY <1>1, <1>2, <1>3, DequeueMessage, TakeIInv

LEMMA ConsumeOutboundForIInv ==
  ASSUME IInv, NEW ch \in ForChannels, ConsumeOutboundFor(ch)
  PROVE  IInv'
<1>1. "out" \in Dirs /\ lock["out"] = NULL
  BY DEF Dirs, ConsumeOutboundFor
<1>2. PICK i \in 0 .. ring["out"].count - 1 :
        /\ taken' = [taken EXCEPT !["out"] = Append(@, Contents(ring["out"])[i + 1])]
        /\ ring' = [ring EXCEPT !["out"] = RemoveAt(ring["out"], i)]
  BY DEF ConsumeOutboundFor
<1>3. pc' = pc /\ UNCHANGED <<arenaVars, lock, reg, draft, running, stopper, sent>>
  BY DEF ConsumeOutboundFor
<1>4. /\ pc' \in [Publishers \union Consumers -> PublisherLabels \union ConsumerLabels]
      /\ \A p \in Publishers : pc'[p] = pc[p]
      /\ \A e \in Consumers : pc'[e] \in ConsumerLabels /\ (pc'[e] = "towait" <=> pc[e] = "towait")
  BY <1>3 DEF IInv, TypeOK
<1>5. QED
  BY <1>1, <1>2, <1>3, <1>4, RemoveMessage, TakeIInv

(* The steps of a consumer that move nothing but itself and the mutex. *)
LEMMA WaitingIInv ==
  ASSUME IInv, NEW c \in Consumers,
         \/ ConsumeDecidesToWait(c) \/ ConsumeWait(c) \/ SpuriousWakeup(c)
         \/ WaitTimesOut(c) \/ ConsumeTimeout(c) \/ ConsumeEof(c)
  PROVE  IInv'
<1> USE BusAssumption, QueueSizeAssumption
<1>1. "in" \in Dirs /\ c \notin Publishers /\ c # NULL
  BY DEF Dirs
<1>2. PICK label \in ConsumerLabels : pc' = [pc EXCEPT ![c] = label]
  BY DEF ConsumeDecidesToWait, ConsumeWait, SpuriousWakeup, WaitTimesOut, ConsumeTimeout,
     ConsumeEof, Goto, ConsumerLabels
<1>3. /\ UNCHANGED <<offset, memory, epoch, raced, ring, reg, draft, running, stopper, sent, taken>>
      /\ \/ lock' = lock /\ pc[c] # "towait" /\ pc'[c] # "towait"
         \/ /\ lock["in"] = NULL /\ lock' = [lock EXCEPT !["in"] = c]
            /\ ring["in"].count = 0 /\ pc'[c] = "towait"
         \/ /\ pc[c] = "towait" /\ lock' = [lock EXCEPT !["in"] = NULL] /\ pc'[c] = "waiting"
  BY DEF IInv, TypeOK, ConsumeDecidesToWait, ConsumeWait, SpuriousWakeup, WaitTimesOut,
     ConsumeTimeout, ConsumeEof, AtLoopTest, Goto, busVars, arenaVars
<1>4. /\ pc' \in [Publishers \union Consumers -> PublisherLabels \union ConsumerLabels]
      /\ \A p \in Publishers : pc'[p] = pc[p]
      /\ \A e \in Consumers : pc'[e] \in ConsumerLabels /\ (e # c => pc'[e] = pc[e])
  BY <1>1, <1>2 DEF IInv, TypeOK
<1>5. ConsumerHolds(c) /\ (pc[c] = "towait" => lock["in"] = c)
  BY DEF IInv, LockDiscipline, ConsumerHolds
<1>6. /\ lock' \in [Dirs -> Publishers \union Consumers \union {NULL}]
      /\ lock'["out"] = lock["out"]
      /\ lock'["in"] = lock["in"] \/ (lock["in"] = NULL /\ lock'["in"] = c)
         \/ (lock["in"] = c /\ lock'["in"] = NULL)
  BY <1>1, <1>3, <1>5 DEF IInv, TypeOK, Dirs
<1>7. TypeOK'
  BY <1>3, <1>4, <1>6 DEF IInv, TypeOK
<1>8. RingsWellFormed'
  BY <1>3 DEF IInv, RingsWellFormed
<1>9. \A p \in Publishers : PublisherHolds(p)'
  <2> TAKE p \in Publishers
  <2>1. PublisherHolds(p) /\ p # c /\ p # NULL /\ DirOf(p) \in {"in", "out"}
    BY <1>1, DirOfType DEF IInv, LockDiscipline, Dirs
  <2>2. lock'[DirOf(p)] = p <=> lock[DirOf(p)] = p
    BY <1>6, <2>1
  <2>3. UNCHANGED <<pc[p], draft[p], reg[p]>> /\ ring' = ring
    BY <1>3, <1>4
  <2>4. QED
    BY <2>1, <2>2, <2>3, PublisherFrame DEF PublisherHolds
<1>10. \A e \in Consumers : ConsumerHolds(e)'
  <2> TAKE e \in Consumers
  <2>1. CASE e = c
    BY <1>1, <1>3, <1>5, <2>1 DEF IInv, TypeOK, Dirs, ConsumerHolds
  <2>2. CASE e # c
    <3>1. ConsumerHolds(e) /\ e # NULL
      BY DEF IInv, LockDiscipline
    <3>2. lock'["in"] = e <=> lock["in"] = e
      BY <1>6, <2>2, <3>1
    <3>3. QED
      BY <1>3, <1>4, <2>2, <3>1, <3>2 DEF ConsumerHolds
  <2>3. QED
    BY <2>1, <2>2
<1>11. HoldersKnown'
  BY <1>3, <1>6 DEF IInv, LockDiscipline, HoldersKnown
<1>12. QED
  BY <1>7, <1>8, <1>9, <1>10, <1>11 DEF IInv, LockDiscipline

(* Reset and shutdown hold no mutex at the end of their step and move no   *)
(* message.                                                                *)
LEMMA OwnerIInv ==
  ASSUME IInv, ResetArena \/ StopRunning
  PROVE  IInv'
<1>1. UNCHANGED <<ring, lock, pc, reg, draft, memory, raced, sent, taken>>
  BY DEF ResetArena, StopRunning, busVars, arenaVars
<1>2. /\ offset' \in 0 .. ArenaSize /\ epoch' \in 0 .. MaxResets /\ running' \in BOOLEAN
      /\ stopper' \in {"running", "stopped", "done"}
      /\ running' <=> stopper' = "running"
  <2>1. CASE ResetArena
    <3>1. offset' = 0 /\ epoch' = epoch + 1 /\ epoch < MaxResets /\ UNCHANGED <<running, stopper>>
      BY <2>1 DEF ResetArena, busVars
    <3>2. ArenaSize \in Nat /\ MaxResets \in Nat /\ epoch \in 0 .. MaxResets
      BY BusAssumption DEF IInv, TypeOK
    <3>3. offset' \in 0 .. ArenaSize /\ epoch' \in 0 .. MaxResets
      BY <3>1, <3>2
    <3>4. running' \in BOOLEAN /\ stopper' \in {"running", "stopped", "done"}
      BY <3>1 DEF IInv, TypeOK
    <3>5. running' <=> stopper' = "running"
      BY <3>1, Zenon DEF IInv, LockDiscipline, HoldersKnown
    <3>6. QED
      BY <3>3, <3>4, <3>5
  <2>2. CASE StopRunning
    <3>1. stopper' = "stopped" /\ running' = FALSE /\ UNCHANGED <<offset, epoch>>
      BY <2>2 DEF StopRunning, arenaVars
    <3>2. QED
      BY <3>1 DEF IInv, TypeOK
  <2>3. QED
    BY <2>1, <2>2
<1>3. TypeOK'
  BY <1>1, <1>2 DEF IInv, TypeOK
<1>4. QED
  BY <1>1, <1>2, <1>3, QuietStep DEF IInv

LEMMA StopBroadcastIInv ==
  ASSUME IInv, StopBroadcast
  PROVE  IInv'
<1>1. /\ stopper = "stopped" /\ stopper' = "done"
      /\ pc' = [t \in DOMAIN pc |-> IF t \in Waiting THEN "woken" ELSE pc[t]]
      /\ UNCHANGED <<offset, memory, epoch, raced, ring, lock, reg, draft, running, sent, taken>>
  BY DEF StopBroadcast, arenaVars
<1>2. /\ pc' \in [Publishers \union Consumers -> PublisherLabels \union ConsumerLabels]
      /\ \A p \in Publishers : pc'[p] = pc[p]
      /\ \A c \in Consumers : pc'[c] \in ConsumerLabels /\ (pc'[c] = "towait" <=> pc[c] = "towait")
  <2>1. DOMAIN pc = Publishers \union Consumers /\ \A p \in Publishers : p \notin Waiting
    BY BusAssumption DEF IInv, TypeOK, Waiting
  <2>2. QED
    BY <1>1, <2>1 DEF IInv, TypeOK, Waiting, ConsumerLabels
<1>3. TypeOK'
  BY <1>1, <1>2 DEF IInv, TypeOK
<1>4. \A p \in Publishers : PublisherHolds(p)'
  BY <1>1, <1>2, PublisherFrame DEF IInv, LockDiscipline, PublisherHolds
<1>5. (\A c \in Consumers : ConsumerHolds(c)') /\ HoldersKnown'
  BY <1>1, <1>2 DEF IInv, LockDiscipline, ConsumerHolds, HoldersKnown
<1>6. RingsWellFormed'
  BY <1>1 DEF IInv, RingsWellFormed
<1>7. QED
  BY <1>3, <1>4, <1>5, <1>6 DEF IInv, LockDiscipline

-----------------------------------------------------------------------------
LEMMA NextIInv == IInv /\ [Next]_vars => IInv'
<1> SUFFICES ASSUME IInv, [Next]_vars PROVE IInv'
  OBVIOUS
<1>1. ASSUME NEW t \in Publishers, PublisherStep(t) PROVE IInv'
  BY <1>1, PublishBeginIInv, PublishFullIInv, AllocLoadIInv, AllocStoreIInv, PublishEndIInv
     DEF PublisherStep
<1>2. ASSUME NEW c \in Consumers, ConsumerStep(c) PROVE IInv'
  BY <1>2, ConsumeMessageIInv, WaitingIInv DEF ConsumerStep
<1>3. CASE UNCHANGED vars
  BY <1>3 DEF vars, IInv, TypeOK, RingsWellFormed, LockDiscipline, PublisherHolds,
     ConsumerHolds, HoldersKnown, Inside, NextString, NextSize
<1>4. QED
  BY <1>1, <1>2, <1>3, ConsumeOutboundIInv, ConsumeOutboundForIInv, OwnerIInv, StopBroadcastIInv
     DEF Next

(* The inductive invariant holds in every reachable state. *)
THEOREM BusInvariant == Spec => []IInv
BY InitIInv, NextIInv, PTL DEF Spec

(* Every variable of the bus keeps its type, whatever its threads do. *)
THEOREM BusTypeOK == Spec => []TypeOK
<1>1. IInv => TypeOK
  BY DEF IInv
<1>2. QED
  BY <1>1, BusInvariant, PTL

(* Head, tail and count of both rings of sea_bus.c agree after any number  *)
(* of publishes, pops and removals from the middle, by any threads.        *)
THEOREM BusRingsWellFormed == Spec => []RingsWellFormed
<1>1. IInv => RingsWellFormed
  BY DEF IInv
<1>2. QED
  BY <1>1, BusInvariant, PTL

(* The two mutexes protect the critical sections of the bus: room, queue   *)
(* length and allocation limits seen inside stay true until its end.       *)
THEOREM BusLockDiscipline == Spec => []LockDiscipline
<1>1. IInv => LockDiscipline
  BY DEF IInv
<1>2. QED
  BY <1>1, BusInvariant, PTL

-----------------------------------------------------------------------------
(***************************************************************************)
(* What the bus promises to those who use it: each direction is a bounded  *)
(* FIFO queue, no wakeup is lost, and only a race of two allocations can   *)
(* spoil the strings of a message.                                         *)
(***************************************************************************)

LEMMA ContentsOf ==
  ASSUME IInv, NEW d \in Dirs
  PROVE  /\ Contents(ring[d]) \in Seq(Message)
         /\ Len(Contents(ring[d])) = ring[d].count
         /\ ring[d].count \in 0 .. QueueSize
         /\ taken[d] \in Seq(Message)
<1>1. ring[d] \in Ring(Slot)
  BY RingType DEF IInv
<1>2. QED
  BY <1>1, ContentsSeq DEF IInv, TypeOK, RingsWellFormed, Ring

LEMMA HeldType ==
  ASSUME IInv, NEW d \in Dirs
  PROVE  Held(d) \subseteq Message
BY ContentsOf, ElementOfSeq DEF Held, Queued, Taken

-----------------------------------------------------------------------------
(* What the steps do to the sequence of queued messages.                   *)

LEMMA EnqueueStep ==
  ASSUME IInv, NEW t \in Publishers, PublishEnd(t)
  PROVE  LET d == DirOf(t) IN
         /\ d \in Dirs /\ draft[t] \in Message /\ ring[d].count < QueueSize
         /\ Contents(ring'[d]) = Append(Contents(ring[d]), draft[t])
         /\ ring'[d].count = ring[d].count + 1
         /\ \A e \in Dirs : e # d => ring'[e] = ring[e]
         /\ taken' = taken
<1> DEFINE d == DirOf(t)
<1>1. d \in Dirs
  BY DirOfType
<1>2. draft[t] \in Message /\ ~IsFull(ring[d])
  BY DEF IInv, TypeOK, LockDiscipline, PublisherHolds, PublishEnd, Inside
<1>3. ring' = [ring EXCEPT ![d] = Enqueue(ring[d], draft[t])] /\ taken' = taken
  BY DEF PublishEnd
<1>4. ring'[d] = Enqueue(ring[d], draft[t]) /\ \A e \in Dirs : e # d => ring'[e] = ring[e]
  BY <1>1, <1>3 DEF IInv, TypeOK
<1>5. ring[d] \in Ring(Slot) /\ WellFormed(ring[d]) /\ draft[t] \in Slot
  BY <1>1, <1>2, RingType DEF IInv, RingsWellFormed, Slot
<1>6. Contents(Enqueue(ring[d], draft[t])) = Append(Contents(ring[d]), draft[t])
  BY <1>2, <1>5, EnqueueContents
<1>7. ring[d].count < QueueSize
  BY <1>1, <1>2, ContentsOf, QueueSizeAssumption DEF IsFull
<1>8. ring'[d].count = ring[d].count + 1
  BY <1>4 DEF Enqueue
<1>9. QED
  BY <1>1, <1>2, <1>3, <1>4, <1>6, <1>7, <1>8

LEMMA DequeueStep ==
  ASSUME IInv, NEW d \in Dirs, ring[d].count > 0,
         ring' = [ring EXCEPT ![d] = Dequeue(ring[d])],
         taken' = [taken EXCEPT ![d] = Append(@, First(ring[d]))]
  PROVE  /\ Contents(ring[d]) # <<>>
         /\ Contents(ring'[d]) = Tail(Contents(ring[d]))
         /\ taken'[d] = Append(taken[d], Head(Contents(ring[d])))
         /\ ring'[d].count = ring[d].count - 1
         /\ \A e \in Dirs : e # d => ring'[e] = ring[e] /\ taken'[e] = taken[e]
<1>1. ring[d] \in Ring(Slot) /\ WellFormed(ring[d])
  BY RingType DEF IInv, RingsWellFormed
<1>2. /\ Contents(Dequeue(ring[d])) = Tail(Contents(ring[d])) /\ Contents(ring[d]) # <<>>
      /\ Head(Contents(ring[d])) = First(ring[d])
  BY <1>1, DequeueContents
<1>3. /\ ring'[d] = Dequeue(ring[d]) /\ taken'[d] = Append(taken[d], First(ring[d]))
      /\ \A e \in Dirs : e # d => ring'[e] = ring[e] /\ taken'[e] = taken[e]
  BY DEF IInv, TypeOK
<1>4. ring'[d].count = ring[d].count - 1
  BY <1>3 DEF Dequeue
<1>5. QED
  BY <1>2, <1>3, <1>4

(* Every other step of a thread leaves rings and takings as they are.      *)
LEMMA OtherSteps ==
  ASSUME [Next]_vars,
         \A t \in Publishers : ~PublishEnd(t),
         \A c \in Consumers : ~ConsumeMessage(c),
         ~ConsumeOutbound, \A ch \in ForChannels : ~ConsumeOutboundFor(ch)
  PROVE  UNCHANGED <<ring, taken>>
<1>1. CASE UNCHANGED vars
  BY <1>1 DEF vars
<1>2. ASSUME NEW t \in Publishers, PublisherStep(t) PROVE UNCHANGED <<ring, taken>>
  BY <1>2 DEF PublisherStep, PublishBegin, PublishFull, AllocLoad, AllocStore, busVars
<1>3. ASSUME NEW c \in Consumers, ConsumerStep(c) PROVE UNCHANGED <<ring, taken>>
  BY <1>3 DEF ConsumerStep, ConsumeDecidesToWait, ConsumeWait, SpuriousWakeup, WaitTimesOut,
     ConsumeTimeout, ConsumeEof, busVars
<1>4. CASE ResetArena \/ StopRunning \/ StopBroadcast
  BY <1>4 DEF ResetArena, StopRunning, StopBroadcast, busVars
<1>5. QED
  BY <1>1, <1>2, <1>3, <1>4 DEF Next

(* So what is held grows only by the message a publisher enters.           *)
LEMMA HeldEnqueued ==
  ASSUME IInv, NEW t \in Publishers, PublishEnd(t), NEW d \in Dirs
  PROVE  Held(d)' \subseteq Held(d) \union (IF d = DirOf(t) THEN {draft[t]} ELSE {})
<1>1. CASE d = DirOf(t)
  <2>1. /\ draft[t] \in Message /\ ring[d].count \in Nat
        /\ Contents(ring'[d]) = Append(Contents(ring[d]), draft[t])
        /\ ring'[d].count = ring[d].count + 1 /\ taken' = taken
    BY <1>1, EnqueueStep, ContentsOf, QueueSizeAssumption
  <2>2. ASSUME NEW i \in 1 .. ring'[d].count
        PROVE  Contents(ring'[d])[i] \in Queued(d) \union {draft[t]}
    <3>1. /\ Contents(ring[d]) \in Seq(Message) /\ Len(Contents(ring[d])) = ring[d].count
          /\ i \in 1 .. ring[d].count + 1
      BY <2>1, ContentsOf
    <3>2. \/ i \in 1 .. ring[d].count /\ Contents(ring'[d])[i] = Contents(ring[d])[i]
          \/ Contents(ring'[d])[i] = draft[t]
      BY <2>1, <3>1, AppendProperties
    <3>3. QED
      BY <3>2 DEF Queued
  <2>3. Queued(d)' \subseteq Queued(d) \union {draft[t]} /\ Taken(d)' = Taken(d)
    BY <2>1, <2>2 DEF Queued, Taken
  <2>4. QED
    BY <1>1, <2>3 DEF Held
<1>2. CASE d # DirOf(t)
  BY <1>2, EnqueueStep DEF Held, Queued, Taken
<1>3. QED
  BY <1>1, <1>2

(* A message that was handed out was queued before. *)
LEMMA AppendTaken ==
  ASSUME IInv, NEW d \in Dirs, NEW m \in Held(d), taken'[d] = Append(taken[d], m),
         Queued(d)' \subseteq Queued(d)
  PROVE  Held(d)' \subseteq Held(d)
<1>1. taken[d] \in Seq(Message) /\ m \in Message
  BY ContentsOf, HeldType
<1>2. Taken(d)' \subseteq Taken(d) \union {m}
  <2>1. ASSUME NEW i \in 1 .. Len(taken'[d]) PROVE taken'[d][i] \in Taken(d) \union {m}
    <3>1. \/ i \in 1 .. Len(taken[d]) /\ taken'[d][i] = taken[d][i]
          \/ taken'[d][i] = m
      BY <1>1, AppendProperties
    <3>2. QED
      BY <3>1 DEF Taken
  <2>2. QED
    BY <2>1 DEF Taken
<1>3. QED
  BY <1>2 DEF Held

LEMMA HeldDequeued ==
  ASSUME IInv, NEW d \in Dirs, ring[d].count > 0,
         ring' = [ring EXCEPT ![d] = Dequeue(ring[d])],
         taken' = [taken EXCEPT ![d] = Append(@, First(ring[d]))],
         NEW e \in Dirs
  PROVE  Held(e)' \subseteq Held(e)
<1>1. CASE e = d
  <2> DEFINE c == Contents(ring[d])
  <2>1. /\ c \in Seq(Message) /\ Len(c) = ring[d].count /\ c # <<>> /\ ring[d].count \in Nat
        /\ Contents(ring'[d]) = Tail(c) /\ ring'[d].count = ring[d].count - 1
        /\ taken'[d] = Append(taken[d], Head(c))
    <3>1. c \in Seq(Message) /\ Len(c) = ring[d].count /\ ring[d].count \in Nat
      BY ContentsOf, QueueSizeAssumption
    <3>2. /\ c # <<>> /\ Contents(ring'[d]) = Tail(c) /\ ring'[d].count = ring[d].count - 1
          /\ taken'[d] = Append(taken[d], Head(c))
      BY DequeueStep
    <3>3. QED
      BY <3>1, <3>2
  <2>2. Head(c) = c[1] /\ 1 \in 1 .. ring[d].count
    BY <2>1
  <2>3. Head(c) \in Held(d)
    BY <2>2 DEF Held, Queued
  <2>4. ASSUME NEW i \in 1 .. ring'[d].count PROVE Contents(ring'[d])[i] \in Queued(d)
    <3>1. i + 1 \in 1 .. ring[d].count /\ i \in 1 .. Len(Tail(c))
      BY <2>1, HeadTailProperties
    <3>2. Contents(ring'[d])[i] = c[i + 1]
      BY <2>1, <3>1, HeadTailProperties
    <3>3. QED
      BY <3>1, <3>2 DEF Queued
  <2>5. Queued(d)' \subseteq Queued(d)
    BY <2>4 DEF Queued
  <2>6. QED
    BY <1>1, <2>1, <2>3, <2>5, AppendTaken
<1>2. CASE e # d
  BY <1>2, DequeueStep DEF Held, Queued, Taken
<1>3. QED
  BY <1>1, <1>2

LEMMA HeldRemoved ==
  ASSUME IInv, NEW ch \in ForChannels, ConsumeOutboundFor(ch), NEW e \in Dirs
  PROVE  Held(e)' \subseteq Held(e)
<1>1. "out" \in Dirs
  BY DEF Dirs
<1> DEFINE r == ring["out"]
<1>2. PICK i \in 0 .. r.count - 1 :
        /\ taken' = [taken EXCEPT !["out"] = Append(@, Contents(r)[i + 1])]
        /\ ring' = [ring EXCEPT !["out"] = RemoveAt(r, i)]
  BY DEF ConsumeOutboundFor
<1>3. /\ ring'["out"] = RemoveAt(r, i) /\ taken'["out"] = Append(taken["out"], Contents(r)[i + 1])
      /\ \A d \in Dirs : d # "out" => ring'[d] = ring[d] /\ taken'[d] = taken[d]
  BY <1>1, <1>2 DEF IInv, TypeOK
<1>4. CASE e = "out"
  <2>1. /\ r \in Ring(Slot) /\ WellFormed(r) /\ r.count \in Nat
    BY <1>1, RingType, ContentsOf, QueueSizeAssumption DEF IInv, RingsWellFormed
  <2>2. i + 1 \in 1 .. r.count /\ Contents(r)[i + 1] \in Held("out")
    BY <2>1 DEF Held, Queued
  <2>3. ASSUME NEW j \in 1 .. RemoveAt(r, i).count PROVE Contents(RemoveAt(r, i))[j] \in Queued("out")
    <3>1. j \in 1 .. r.count - 1
      BY DEF RemoveAt
    <3>2. \E k \in 1 .. r.count : Contents(RemoveAt(r, i))[j] = Contents(r)[k]
      <4>1. Contents(RemoveAt(r, i))[j] = IF j <= i THEN Contents(r)[j] ELSE Contents(r)[j + 1]
        BY <2>1, <3>1, RemoveAtContents
      <4>2. j \in 1 .. r.count /\ j + 1 \in 1 .. r.count
        BY <2>1, <3>1
      <4>3. QED
        BY <4>1, <4>2
    <3>3. QED
      BY <3>2 DEF Queued
  <2>4. Queued("out")' \subseteq Queued("out")
    BY <1>3, <2>3 DEF Queued
  <2>5. QED
    BY <1>1, <1>3, <1>4, <2>2, <2>4, AppendTaken
<1>5. CASE e # "out"
  BY <1>3, <1>5 DEF Held, Queued, Taken
<1>6. QED
  BY <1>4, <1>5

LEMMA HeldStep ==
  ASSUME IInv, [Next]_vars, NEW d \in Dirs
  PROVE  \/ Held(d)' \subseteq Held(d)
         \/ \E t \in Publishers : /\ PublishEnd(t) /\ DirOf(t) = d
                                  /\ Held(d)' \subseteq Held(d) \union {draft[t]}
<1>1. ASSUME NEW t \in Publishers, PublishEnd(t)
      PROVE  \/ Held(d)' \subseteq Held(d)
             \/ /\ PublishEnd(t) /\ DirOf(t) = d
                /\ Held(d)' \subseteq Held(d) \union {draft[t]}
  BY <1>1, HeldEnqueued
<1>2. ASSUME NEW c \in Consumers, ConsumeMessage(c) PROVE Held(d)' \subseteq Held(d)
  BY <1>2, HeldDequeued DEF ConsumeMessage, Dirs
<1>3. CASE ConsumeOutbound
  BY <1>3, HeldDequeued DEF ConsumeOutbound, Dirs
<1>4. CASE UNCHANGED <<ring, taken>>
  BY <1>4 DEF Held, Queued, Taken
<1>5. QED
  BY <1>1, <1>2, <1>3, <1>4, HeldRemoved, OtherSteps

-----------------------------------------------------------------------------
(***************************************************************************)
(* Messages are numbered by their publisher: a message that is held has a  *)
(* number that was used, and the one a publisher is building has a number  *)
(* no message has yet.                                                     *)
(***************************************************************************)
Numbered ==
  /\ \A d \in Dirs : \A m \in Held(d) : m.id.n <= sent[m.id.thread]
  /\ \A t \in Publishers : Inside(t) =>
       /\ draft[t].id.thread = t /\ draft[t].id.n = sent[t]
       /\ \A m \in Held(DirOf(t)) : m.id # draft[t].id

LEMMA InitNumbered == Init => Numbered
<1> SUFFICES ASSUME Init PROVE Numbered
  OBVIOUS
<1>1. ASSUME NEW d \in Dirs PROVE Held(d) = {}
  <2>1. ring[d].count = 0 /\ taken[d] = <<>>
    BY DEF Init, EmptyRing
  <2>2. QED
    BY <2>1 DEF Held, Queued, Taken
<1>2. ASSUME NEW t \in Publishers PROVE ~Inside(t)
  BY DEF Init, Inside
<1>3. QED
  BY <1>1, <1>2 DEF Numbered

(* What a step does to the number and the draft of a publisher.            *)
Continues(t) ==
  Inside(t) /\ ~PublishEnd(t) /\ draft'[t].id = draft[t].id /\ sent'[t] = sent[t]
Begins(t) ==
  /\ UNCHANGED <<ring, taken>>
  /\ draft'[t].id.thread = t /\ draft'[t].id.n = sent[t] + 1 /\ sent'[t] = sent[t] + 1
Numbers(t) ==
  /\ sent'[t] \in {sent[t], sent[t] + 1}
  /\ Inside(t)' => Continues(t) \/ Begins(t)

(* A step is one of the publisher's own, or leaves it where it is. *)
LEMMA OwnStep ==
  ASSUME IInv, [Next]_vars, NEW p \in Publishers
  PROVE  PublisherStep(p) \/ UNCHANGED <<pc[p], draft[p], sent[p]>>
<1> USE BusAssumption
<1>1. ASSUME NEW t \in Publishers, t # p, PublisherStep(t)
      PROVE  UNCHANGED <<pc[p], draft[p], sent[p]>>
  <2>1. draft'[p] = draft[p] /\ sent'[p] = sent[p]
    BY <1>1 DEF PublisherStep, PublishBegin, PublishFull, AllocLoad, AllocStore, PublishEnd,
       Copied, IInv, TypeOK
  <2>2. \/ pc' = pc
        \/ \E label : pc' = [pc EXCEPT ![t] = label]
        \/ \E c \in Waiting : pc' = [pc EXCEPT ![t] = "idle", ![c] = "woken"]
    BY <1>1 DEF PublisherStep, PublishBegin, PublishFull, AllocLoad, AllocStore, PublishEnd,
       Goto, Signal
  <2>3. pc'[p] = pc[p]
    BY <1>1, <2>2 DEF IInv, TypeOK, Waiting
  <2>4. QED
    BY <2>1, <2>3
<1>2. ASSUME NEW c \in Consumers, ConsumerStep(c) PROVE UNCHANGED <<pc[p], draft[p], sent[p]>>
  <2>1. UNCHANGED <<sent, draft>> /\ \E label : pc' = [pc EXCEPT ![c] = label]
    BY <1>2 DEF ConsumerStep, ConsumeMessage, ConsumeDecidesToWait, ConsumeWait, SpuriousWakeup,
       WaitTimesOut, ConsumeTimeout, ConsumeEof, Goto
  <2>2. pc'[p] = pc[p]
    BY <2>1 DEF IInv, TypeOK
  <2>3. QED
    BY <2>1, <2>2
<1>3. CASE \/ ConsumeOutbound \/ (\E ch \in ForChannels : ConsumeOutboundFor(ch))
           \/ ResetArena \/ StopRunning \/ UNCHANGED vars
  BY <1>3 DEF ConsumeOutbound, ConsumeOutboundFor, ResetArena, StopRunning, vars
<1>4. CASE StopBroadcast
  <2>1. UNCHANGED <<sent, draft>> /\ pc' = [t \in DOMAIN pc |-> IF t \in Waiting THEN "woken" ELSE pc[t]]
    BY <1>4 DEF StopBroadcast
  <2>2. pc'[p] = pc[p]
    BY <2>1 DEF IInv, TypeOK, Waiting
  <2>3. QED
    BY <2>1, <2>2
<1>5. QED
  BY <1>1, <1>2, <1>3, <1>4 DEF Next

(* A publisher that ends its call is not inside any more. *)
LEMMA EndLeaves ==
  ASSUME IInv, NEW p \in Publishers, PublishEnd(p)
  PROVE  pc[p] = "alloc" /\ pc'[p] = "idle"
<1>1. CASE pc' = [pc EXCEPT ![p] = "idle"]
  BY <1>1 DEF IInv, TypeOK, PublishEnd
<1>2. CASE \E c \in Waiting : pc' = [pc EXCEPT ![p] = "idle", ![c] = "woken"]
  <2>1. PICK c \in Waiting : pc' = [pc EXCEPT ![p] = "idle", ![c] = "woken"]
    BY <1>2
  <2>2. c # p
    BY <2>1, BusAssumption DEF Waiting
  <2>3. QED
    BY <2>1, <2>2 DEF IInv, TypeOK, PublishEnd
<1>3. QED
  BY <1>1, <1>2 DEF PublishEnd, Signal, Goto

(* A draft after a step: the same, or begun, or longer by one string. *)
LEMMA DraftStep ==
  ASSUME IInv, [Next]_vars, NEW p \in Publishers, Inside(p)'
  PROVE  \/ Inside(p) /\ ~PublishEnd(p) /\ draft'[p] = draft[p] /\ sent'[p] = sent[p]
         \/ \E ch \in Channels : PublishBegin(p, ch)
         \/ AllocLoad(p) \/ AllocStore(p)
<1>1. CASE UNCHANGED <<pc[p], draft[p], sent[p]>>
  BY <1>1, EndLeaves DEF Inside
<1>2. ~PublishFull(p) /\ ~PublishEnd(p)
  BY EndLeaves DEF PublishFull, Inside
<1>3. QED
  BY <1>1, <1>2, OwnStep DEF PublisherStep

LEMMA BeginDraft ==
  ASSUME IInv, NEW p \in Publishers, NEW ch \in Channels, PublishBegin(p, ch)
  PROVE  /\ UNCHANGED <<ring, taken, offset, memory, epoch, raced>>
         /\ sent'[p] = sent[p] + 1 /\ draft'[p].ptr = <<>> /\ draft'[p].epoch = epoch
         /\ draft'[p].id.thread = p /\ draft'[p].id.n = sent[p] + 1
BY DEF PublishBegin, IInv, TypeOK, arenaVars

LEMMA LongerDraft ==
  ASSUME IInv, NEW p \in Publishers, AllocLoad(p) \/ AllocStore(p)
  PROVE  /\ UNCHANGED <<ring, taken, sent, epoch>>
         /\ Inside(p) /\ ~PublishEnd(p) /\ draft[p] \in Message
         /\ \/ draft' = draft
            \/ \E a \in Bytes \union {NULL} :
                 draft'[p] = [draft[p] EXCEPT !.ptr = Append(@, a)]
<1>1. Inside(p) /\ draft[p] \in Message /\ pc'[p] # "idle"
  <2>1. pc[p] \in {"alloc", "store"}
    BY DEF AllocLoad, AllocStore
  <2>2. pc' = pc \/ pc' = [pc EXCEPT ![p] = "store"] \/ pc' = [pc EXCEPT ![p] = "alloc"]
    BY DEF AllocLoad, AllocStore, Goto
  <2>3. QED
    BY <2>1, <2>2 DEF IInv, TypeOK, LockDiscipline, PublisherHolds, Inside
<1>2. ~PublishEnd(p)
  BY <1>1, EndLeaves
<1>3. UNCHANGED <<ring, taken, sent, epoch>>
  BY DEF AllocLoad, AllocStore, busVars, arenaVars
<1>4. CASE AllocLoad(p)
  <2>1. draft' = draft \/ draft' = [draft EXCEPT ![p].ptr = Append(@, NULL)]
    BY <1>4 DEF AllocLoad, Copied
  <2>2. QED
    BY <1>1, <1>2, <1>3, <2>1 DEF IInv, TypeOK
<1>5. CASE AllocStore(p)
  <2>1. /\ draft' = [draft EXCEPT ![p].ptr = Append(@, reg[p])] /\ pc[p] = "store"
    BY <1>5 DEF AllocStore, Copied
  <2>2. reg[p] \in Bytes
    <3>1. /\ reg[p] + NextSize(p) <= ArenaSize /\ NextString(p) \in Strings(DirOf(p))
          /\ reg[p] \in Nat
      BY <2>1, BusAssumption DEF IInv, TypeOK, LockDiscipline, PublisherHolds
    <3>2. NextSize(p) \in Nat \ {0}
      BY <3>1, BusAssumption, DirOfType, ElementOfSeq DEF NextSize, Strings
    <3>3. QED
      BY <3>1, <3>2, BusAssumption DEF Bytes
  <2>3. QED
    BY <1>1, <1>2, <1>3, <2>1, <2>2 DEF IInv, TypeOK
<1>6. QED
  BY <1>1, <1>2, <1>3, <1>4, <1>5

LEMMA NumbersStep ==
  ASSUME IInv, [Next]_vars, NEW p \in Publishers
  PROVE  Numbers(p)
<1>1. ASSUME NEW ch \in Channels, PublishBegin(p, ch) PROVE Numbers(p)
  BY <1>1, BeginDraft DEF Numbers, Begins
<1>2. CASE PublishFull(p)
  BY <1>2 DEF PublishFull, Numbers, Inside, IInv, TypeOK
<1>3. CASE AllocLoad(p) \/ AllocStore(p)
  <2>1. draft'[p].id = draft[p].id
    BY <1>3, LongerDraft DEF Message
  <2>2. QED
    BY <1>3, <2>1, LongerDraft DEF Numbers, Continues
<1>4. CASE PublishEnd(p)
  BY <1>4, EndLeaves DEF PublishEnd, Numbers, Inside
<1>5. CASE UNCHANGED <<pc[p], draft[p], sent[p]>>
  BY <1>5, EndLeaves DEF Numbers, Continues, Inside
<1>6. QED
  BY <1>1, <1>2, <1>3, <1>4, <1>5, OwnStep DEF PublisherStep

LEMMA NextNumbered == IInv /\ Numbered /\ [Next]_vars => Numbered'
<1> SUFFICES ASSUME IInv, Numbered, [Next]_vars PROVE Numbered'
  OBVIOUS
<1>1. ASSUME NEW t \in Publishers, PublishEnd(t)
      PROVE  draft[t] \in Message /\ draft[t].id.thread = t /\ draft[t].id.n = sent[t]
  <2>1. Inside(t)
    BY <1>1 DEF PublishEnd, Inside
  <2>2. QED
    BY <1>1, <2>1, EnqueueStep DEF Numbered
<1>2. ASSUME NEW m \in Message PROVE m.id.thread \in Publishers /\ m.id.n \in Nat
  BY BusAssumption DEF Message, MessageId
<1>3. \A t \in Publishers : sent[t] \in Nat /\ sent'[t] \in Nat /\ sent[t] <= sent'[t]
  <2> TAKE t \in Publishers
  <2>1. sent[t] \in Nat
    BY BusAssumption DEF IInv, TypeOK
  <2>2. sent'[t] \in {sent[t], sent[t] + 1}
    BY NumbersStep DEF Numbers
  <2>3. QED
    BY <2>1, <2>2
<1>4. ASSUME NEW d \in Dirs, NEW m \in Held(d)' PROVE m.id.n <= sent'[m.id.thread]
  <2>1. CASE m \in Held(d)
    <3>1. m \in Message /\ m.id.n <= sent[m.id.thread]
      BY <2>1, HeldType DEF Numbered
    <3>2. QED
      BY <1>2, <1>3, <3>1
  <2>2. CASE \E t \in Publishers : PublishEnd(t) /\ m = draft[t]
    <3>1. PICK t \in Publishers : PublishEnd(t) /\ m = draft[t]
      BY <2>2
    <3>2. m.id.n = sent[t] /\ m.id.thread = t
      BY <1>1, <3>1
    <3>3. QED
      BY <1>3, <3>2
  <2>3. QED
    BY <2>1, <2>2, HeldStep
<1>5. ASSUME NEW p \in Publishers, Inside(p)'
      PROVE  /\ draft'[p].id.thread = p /\ draft'[p].id.n = sent'[p]
             /\ \A m \in Held(DirOf(p))' : m.id # draft'[p].id
  <2>1. Continues(p) \/ Begins(p)
    BY <1>5, NumbersStep DEF Numbers
  <2>2. DirOf(p) \in Dirs
    BY DirOfType
  <2>3. CASE Continues(p)
    <3>1. /\ ~PublishEnd(p) /\ draft'[p].id = draft[p].id /\ sent'[p] = sent[p]
          /\ draft[p].id.thread = p /\ draft[p].id.n = sent[p]
          /\ \A m \in Held(DirOf(p)) : m.id # draft[p].id
      BY <2>3 DEF Continues, Numbered
    <3>2. ASSUME NEW m \in Held(DirOf(p))' PROVE m.id # draft'[p].id
      <4>1. CASE m \in Held(DirOf(p))
        BY <3>1, <4>1
      <4>2. CASE \E t \in Publishers : PublishEnd(t) /\ m = draft[t]
        BY <1>1, <3>1, <4>2
      <4>3. QED
        BY <2>2, <3>2, <4>1, <4>2, HeldStep
    <3>3. QED
      BY <3>1, <3>2
  <2>4. CASE Begins(p)
    <3>1. /\ Held(DirOf(p))' = Held(DirOf(p))
          /\ draft'[p].id.thread = p /\ draft'[p].id.n = sent[p] + 1 /\ sent'[p] = sent[p] + 1
      BY <2>4 DEF Begins, Held, Queued, Taken
    <3>2. ASSUME NEW m \in Held(DirOf(p)), m.id = draft'[p].id PROVE FALSE
      <4>1. m.id.n <= sent[m.id.thread]
        BY <2>2 DEF Numbered
      <4>2. QED
        BY <1>3, <3>1, <3>2, <4>1
    <3>3. QED
      BY <3>1, <3>2
  <2>5. QED
    BY <2>1, <2>3, <2>4
<1>6. QED
  BY <1>4, <1>5 DEF Numbered

-----------------------------------------------------------------------------
(***************************************************************************)
(* The refinement of FifoQueue: a publisher's last step is a Put, a        *)
(* consumer's a Take of the first message, every other step a stutter.     *)
(***************************************************************************)
LEMMA AppendIsPut ==
  ASSUME NEW s \in Seq(Message), NEW m \in Message
  PROVE  LET a == Append(s, m) IN
         a # <<>> /\ SubSeq(a, 1, Len(a) - 1) = s /\ a[Len(a)] = m
<1> DEFINE a == Append(s, m)
<1>1. /\ a \in Seq(Message) /\ Len(a) = Len(s) + 1 /\ Len(s) \in Nat
      /\ a[Len(s) + 1] = m /\ \A i \in 1 .. Len(s) : a[i] = s[i]
  BY AppendProperties, LenProperties
<1> HIDE DEF a
<1>2. \A i \in 1 .. Len(s) : a[i] \in Message
  BY <1>1, ElementOfSeq
<1>3. /\ SubSeq(a, 1, Len(s)) \in Seq(Message) /\ Len(SubSeq(a, 1, Len(s))) = Len(s)
      /\ \A i \in 1 .. Len(s) : SubSeq(a, 1, Len(s))[i] = a[i]
  BY <1>1, <1>2, SubSeqProperties
<1>4. SubSeq(a, 1, Len(s)) = s
  BY <1>1, <1>3, SeqEqual
<1>5. a # <<>>
  BY <1>1, EmptySeq
<1>6. QED
  BY <1>1, <1>4, <1>5 DEF a

LEMMA TailIsTake ==
  ASSUME NEW s \in Seq(Message), s # <<>>
  PROVE  /\ 1 \in 1 .. Len(s) /\ Head(s) = s[1]
         /\ SubSeq(s, 1, 1 - 1) \o SubSeq(s, 1 + 1, Len(s)) = Tail(s)
<1>1. Len(s) \in Nat \ {0}
  BY EmptySeq
<1>2. SubSeq(s, 1, 1 - 1) = <<>>
  BY SubSeqEmpty
<1>3. SubSeq(s, 1 + 1, Len(s)) = Tail(s) /\ Tail(s) \in Seq(Message)
  BY TailIsSubSeq, HeadTailProperties
<1>4. QED
  BY <1>1, <1>2, <1>3, ConcatEmptySeq

(* The message a publisher enters is not held yet. *)
LEMMA EnteredIsNew ==
  ASSUME IInv, Numbered, NEW t \in Publishers, PublishEnd(t)
  PROVE  draft[t] \notin Held(DirOf(t))
BY DEF Numbered, PublishEnd, Inside

LEMMA HeldIsRange ==
  ASSUME IInv, NEW d \in Dirs
  PROVE  Held(d) = {Contents(ring[d])[i] : i \in DOMAIN Contents(ring[d])}
                   \union {taken[d][i] : i \in DOMAIN taken[d]}
<1>1. DOMAIN Contents(ring[d]) = 1 .. ring[d].count /\ DOMAIN taken[d] = 1 .. Len(taken[d])
  BY ContentsOf, LenProperties
<1>2. QED
  BY <1>1 DEF Held, Queued, Taken

LEMMA InPut ==
  ASSUME IInv, Numbered, NEW t \in Publishers, PublishEnd(t), DirOf(t) = "in"
  PROVE  InQueue!Put
<1> DEFINE c == Contents(ring["in"])
<1>1. /\ "in" \in Dirs /\ c \in Seq(Message) /\ Len(c) = ring["in"].count
  BY ContentsOf DEF Dirs
<1>2. /\ draft[t] \in Message /\ Len(c) < QueueSize
      /\ Contents(ring'["in"]) = Append(c, draft[t]) /\ taken' = taken
  BY <1>1, EnqueueStep
<1>3. draft[t] \notin Held("in")
  BY EnteredIsNew
<1>4. QED
  BY <1>1, <1>2, <1>3, AppendIsPut, HeldIsRange
     DEF InQueue!Put, InQueue!Front, InQueue!Last, InQueue!Range

LEMMA InTake ==
  ASSUME IInv, NEW c \in Consumers, ConsumeMessage(c)
  PROVE  InQueue!Take
<1> DEFINE q == Contents(ring["in"])
<1>1. "in" \in Dirs /\ q \in Seq(Message)
  BY ContentsOf DEF Dirs
<1>2. /\ q # <<>> /\ Contents(ring'["in"]) = Tail(q)
      /\ taken'["in"] = Append(taken["in"], Head(q))
  BY <1>1, DequeueStep DEF ConsumeMessage
<1>3. InQueue!FirstOfChannel(1)
  BY DEF InQueue!FirstOfChannel
<1>4. QED
  BY <1>1, <1>2, <1>3, TailIsTake DEF InQueue!Take, InQueue!RemoveAt

LEMMA InNext == IInv /\ Numbered /\ [Next]_vars => [InQueue!Next]_(InQueue!vars)
<1> SUFFICES ASSUME IInv, Numbered, [Next]_vars PROVE [InQueue!Next]_(InQueue!vars)
  OBVIOUS
<1>1. "in" \in Dirs
  BY DEF Dirs
<1>2. ASSUME ring'["in"] = ring["in"], taken'["in"] = taken["in"] PROVE UNCHANGED InQueue!vars
  BY <1>2 DEF InQueue!vars
<1>3. ASSUME NEW t \in Publishers, PublishEnd(t) PROVE [InQueue!Next]_(InQueue!vars)
  BY <1>1, <1>2, <1>3, EnqueueStep, InPut DEF InQueue!Next
<1>4. ASSUME NEW c \in Consumers, ConsumeMessage(c) PROVE [InQueue!Next]_(InQueue!vars)
  BY <1>4, InTake DEF InQueue!Next
<1>5. CASE ConsumeOutbound \/ (\E ch \in ForChannels : ConsumeOutboundFor(ch))
  <2>1. ring'["in"] = ring["in"] /\ taken'["in"] = taken["in"]
    BY <1>5 DEF ConsumeOutbound, ConsumeOutboundFor, IInv, TypeOK, Dirs
  <2>2. QED
    BY <1>2, <2>1
<1>6. QED
  BY <1>2, <1>3, <1>4, <1>5, OtherSteps

(* The inbound ring of sea_bus.c, with its mutex, its condition variable   *)
(* and its timeouts, is a bounded FIFO queue that loses, repeats and       *)
(* reorders no message it has accepted.                                    *)
THEOREM BusInboundIsFifo == Spec => InboundIsFifo
<1>1. Init => InQueue!Init
  BY DEF Init, InQueue!Init, Dirs, EmptyRing, Contents
<1>2. QED
  BY <1>1, InitIInv, InitNumbered, NextIInv, NextNumbered, InNext, PTL
     DEF Spec, InboundIsFifo, InQueue!Spec

(***************************************************************************)
(* The same for the outbound ring, when messages are taken at its head     *)
(* only, as the dispatcher of main.c does: consume_outbound_for compares   *)
(* texts in the arena, which a race of two allocations may have spoiled.   *)
(***************************************************************************)
LEMMA OutPut ==
  ASSUME IInv, Numbered, NEW t \in Publishers, PublishEnd(t), DirOf(t) = "out"
  PROVE  OutQueue!Put
<1> DEFINE c == Contents(ring["out"])
<1>1. /\ "out" \in Dirs /\ c \in Seq(Message) /\ Len(c) = ring["out"].count
  BY ContentsOf DEF Dirs
<1>2. /\ draft[t] \in Message /\ Len(c) < QueueSize
      /\ Contents(ring'["out"]) = Append(c, draft[t]) /\ taken' = taken
  BY <1>1, EnqueueStep
<1>3. draft[t] \notin Held("out")
  BY EnteredIsNew
<1>4. QED
  BY <1>1, <1>2, <1>3, AppendIsPut, HeldIsRange
     DEF OutQueue!Put, OutQueue!Front, OutQueue!Last, OutQueue!Range

LEMMA OutTake ==
  ASSUME IInv, ConsumeOutbound
  PROVE  OutQueue!Take
<1> DEFINE q == Contents(ring["out"])
<1>1. "out" \in Dirs /\ q \in Seq(Message)
  BY ContentsOf DEF Dirs
<1>2. /\ q # <<>> /\ Contents(ring'["out"]) = Tail(q)
      /\ taken'["out"] = Append(taken["out"], Head(q))
  BY <1>1, DequeueStep DEF ConsumeOutbound
<1>3. OutQueue!FirstOfChannel(1)
  BY DEF OutQueue!FirstOfChannel
<1>4. QED
  BY <1>1, <1>2, <1>3, TailIsTake DEF OutQueue!Take, OutQueue!RemoveAt

LEMMA OutNext ==
  ForChannels = {} /\ IInv /\ Numbered /\ [Next]_vars => [OutQueue!Next]_(OutQueue!vars)
<1> SUFFICES ASSUME ForChannels = {}, IInv, Numbered, [Next]_vars
             PROVE  [OutQueue!Next]_(OutQueue!vars)
  OBVIOUS
<1>1. "out" \in Dirs
  BY DEF Dirs
<1>2. ASSUME ring'["out"] = ring["out"], taken'["out"] = taken["out"]
      PROVE  UNCHANGED OutQueue!vars
  BY <1>2 DEF OutQueue!vars
<1>3. ASSUME NEW t \in Publishers, PublishEnd(t) PROVE [OutQueue!Next]_(OutQueue!vars)
  BY <1>1, <1>2, <1>3, EnqueueStep, OutPut DEF OutQueue!Next
<1>4. ASSUME NEW c \in Consumers, ConsumeMessage(c) PROVE [OutQueue!Next]_(OutQueue!vars)
  <2>1. ring'["out"] = ring["out"] /\ taken'["out"] = taken["out"]
    BY <1>4 DEF ConsumeMessage, IInv, TypeOK, Dirs
  <2>2. QED
    BY <1>2, <2>1
<1>5. CASE ConsumeOutbound
  BY <1>5, OutTake DEF OutQueue!Next
<1>6. QED
  BY <1>2, <1>3, <1>4, <1>5, OtherSteps

(* The outbound ring is a bounded FIFO queue as well, for a program that   *)
(* does not call sea_bus_consume_outbound_for.                             *)
THEOREM BusOutboundIsFifo == ForChannels = {} => (Spec => OutboundIsFifo)
<1>1. Init => OutQueue!Init
  BY DEF Init, OutQueue!Init, Dirs, EmptyRing, Contents
<1> SUFFICES ASSUME ForChannels = {} PROVE Spec => OutboundIsFifo
  OBVIOUS
<1>2. IInv /\ Numbered /\ [Next]_vars => [OutQueue!Next]_(OutQueue!vars)
  BY OutNext
<1>3. QED
  BY <1>1, <1>2, InitIInv, InitNumbered, NextIInv, NextNumbered, PTL
     DEF Spec, OutboundIsFifo, OutQueue!Spec

-----------------------------------------------------------------------------
(***************************************************************************)
(* No wakeup is lost.  Each message that enters while somebody sleeps      *)
(* wakes one sleeper, who takes one message when it comes to the queue; a  *)
(* consumer goes to sleep only when the queue is empty, and its mutex      *)
(* keeps it empty until the consumer does sleep.                           *)
(***************************************************************************)
Woken == {c \in Consumers : pc[c] = "woken"}

LEMMA WokenFinite ==
  /\ IsFiniteSet(Woken) /\ Cardinality(Woken) \in Nat
  /\ IsFiniteSet(Woken') /\ Cardinality(Woken') \in Nat
<1>1. Woken \subseteq Consumers /\ Woken' \subseteq Consumers /\ IsFiniteSet(Consumers)
  BY BusAssumption DEF Woken
<1>2. QED
  BY <1>1, FS_Subset, FS_CardinalityType

LEMMA InitWakeup == Init => NoLostWakeup
BY BusAssumption DEF Init, NoLostWakeup, Waiting

LEMMA NextWakeup == IInv /\ NoLostWakeup /\ [Next]_vars => NoLostWakeup'
<1> SUFFICES ASSUME IInv, NoLostWakeup, [Next]_vars, running', Waiting' # {}
             PROVE  ring'["in"].count <= Cardinality(Woken')
  BY DEF NoLostWakeup, Woken
<1> USE BusAssumption
<1>1. "in" \in Dirs /\ ring["in"].count \in Nat /\ Cardinality(Woken) \in Nat
      /\ Cardinality(Woken') \in Nat /\ IsFiniteSet(Woken)
  BY ContentsOf, WokenFinite, QueueSizeAssumption DEF Dirs
<1>2. running /\ Waiting # {} => ring["in"].count <= Cardinality(Woken)
  BY DEF NoLostWakeup, Woken
(* A step that neither adds a message nor a sleeper nor calms anybody.     *)
<1>3. ASSUME running' = running, ring'["in"] = ring["in"],
             \A c \in Consumers : pc'[c] = pc[c]
      PROVE  ring'["in"].count <= Cardinality(Woken')
  <2>1. Waiting' = Waiting /\ Woken' = Woken
    BY <1>3 DEF Waiting, Woken
  <2>2. QED
    BY <1>2, <1>3, <2>1
<1>4. ASSUME NEW t \in Publishers, PublishEnd(t) PROVE ring'["in"].count <= Cardinality(Woken')
  <2>1. running' = running
    BY <1>4 DEF PublishEnd
  <2>2. CASE DirOf(t) = "out" \/ Waiting = {}
    <3>1. pc' = [pc EXCEPT ![t] = "idle"]
      BY <1>4, <2>2 DEF PublishEnd, Signal, Goto
    <3>2. \A c \in Consumers : pc'[c] = pc[c]
      BY <3>1 DEF IInv, TypeOK
    <3>3. Waiting' = Waiting
      BY <3>2 DEF Waiting
    <3>4. DirOf(t) = "out" => ring'["in"] = ring["in"]
      BY <1>1, <1>4, EnqueueStep
    <3>5. QED
      BY <1>3, <2>1, <2>2, <3>2, <3>3, <3>4
  <2>3. CASE DirOf(t) # "out" /\ Waiting # {}
    <3>1. PICK w \in Waiting : pc' = [pc EXCEPT ![t] = "idle", ![w] = "woken"]
      BY <1>4, <2>3 DEF PublishEnd, Signal
    <3>2. w \in Consumers /\ w \notin Woken /\ w # t
      BY <3>1 DEF Waiting, Woken
    <3>3. \A c \in Consumers : pc'[c] = IF c = w THEN "woken" ELSE pc[c]
      BY <3>1, <3>2 DEF IInv, TypeOK
    <3>4. Woken' = Woken \union {w}
      BY <3>2, <3>3 DEF Woken
    <3>5. Cardinality(Woken') = Cardinality(Woken) + 1
      BY <1>1, <3>2, <3>4, FS_AddElement
    <3>6. ring'["in"].count = ring["in"].count + 1
      BY <1>4, <2>3, EnqueueStep DEF DirOf
    <3>7. QED
      BY <1>1, <1>2, <2>1, <2>3, <3>5, <3>6
  <2>4. QED
    BY <2>2, <2>3
<1>5. ASSUME NEW c \in Consumers, NEW label, pc' = [pc EXCEPT ![c] = label]
      PROVE  /\ \A e \in Consumers : e # c => pc'[e] = pc[e]
             /\ pc'[c] = label
             /\ Cardinality(Woken') >= Cardinality(Woken)
                  - (IF pc[c] = "woken" /\ label # "woken" THEN 1 ELSE 0)
             /\ label # "waiting" => Waiting' \subseteq Waiting
  <2>1. (\A e \in Consumers : e # c => pc'[e] = pc[e]) /\ pc'[c] = label
    BY <1>5 DEF IInv, TypeOK
  <2>2. Woken' = IF label = "woken" THEN Woken \union {c} ELSE Woken \ {c}
    BY <2>1 DEF Woken
  <2>3. c \in Woken <=> pc[c] = "woken"
    BY DEF Woken
  <2>4. Cardinality(Woken') >= Cardinality(Woken)
          - (IF pc[c] = "woken" /\ label # "woken" THEN 1 ELSE 0)
    <3>1. CASE label = "woken"
      <4>1. Cardinality(Woken \union {c})
              = IF c \in Woken THEN Cardinality(Woken) ELSE Cardinality(Woken) + 1
        BY <1>1, FS_AddElement
      <4>2. QED
        BY <1>1, <2>2, <3>1, <4>1
    <3>2. CASE label # "woken"
      <4>1. Cardinality(Woken \ {c})
              = IF c \in Woken THEN Cardinality(Woken) - 1 ELSE Cardinality(Woken)
        BY <1>1, FS_RemoveElement
      <4>2. QED
        BY <1>1, <2>2, <2>3, <3>2, <4>1
    <3>3. QED
      BY <3>1, <3>2
  <2>5. label # "waiting" => Waiting' \subseteq Waiting
    BY <2>1 DEF Waiting
  <2>6. QED
    BY <2>1, <2>4, <2>5
<1>6. ASSUME NEW c \in Consumers, ConsumeMessage(c) PROVE ring'["in"].count <= Cardinality(Woken')
  <2>1. pc' = [pc EXCEPT ![c] = "idle"] /\ running
    BY <1>6 DEF ConsumeMessage, Goto
  <2>2. ring'["in"].count = ring["in"].count - 1
    BY <1>1, <1>6, DequeueStep DEF ConsumeMessage
  <2>3. Waiting # {} /\ Cardinality(Woken') >= Cardinality(Woken) - 1
    <3>1. /\ Waiting' \subseteq Waiting
          /\ Cardinality(Woken') >= Cardinality(Woken)
               - (IF pc[c] = "woken" /\ "idle" # "woken" THEN 1 ELSE 0)
      BY <1>5, <2>1
    <3>2. QED
      BY <1>1, <3>1
  <2>4. QED
    BY <1>1, <1>2, <2>1, <2>2, <2>3
<1>7. ASSUME NEW c \in Consumers, ConsumeDecidesToWait(c) \/ ConsumeWait(c)
      PROVE  ring'["in"].count <= Cardinality(Woken')
  <2>1. ring' = ring /\ ring["in"].count = 0
    BY <1>7 DEF ConsumeDecidesToWait, ConsumeWait, IInv, LockDiscipline, ConsumerHolds
  <2>2. QED
    BY <1>1, <2>1
<1>8. ASSUME NEW c \in Consumers, SpuriousWakeup(c) \/ WaitTimesOut(c) \/ ConsumeTimeout(c)
      PROVE  ring'["in"].count <= Cardinality(Woken')
  <2>1. /\ ring' = ring /\ running' = running /\ pc[c] # "woken"
        /\ \E label \in {"woken", "timedout", "idle"} : pc' = [pc EXCEPT ![c] = label]
    BY <1>8 DEF SpuriousWakeup, WaitTimesOut, ConsumeTimeout, Goto, busVars
  <2>2. Waiting # {} /\ Cardinality(Woken') >= Cardinality(Woken)
    <3>1. PICK label \in {"woken", "timedout", "idle"} : pc' = [pc EXCEPT ![c] = label]
      BY <2>1
    <3>2. /\ Waiting' \subseteq Waiting
          /\ Cardinality(Woken') >= Cardinality(Woken)
               - (IF pc[c] = "woken" /\ label # "woken" THEN 1 ELSE 0)
      BY <1>5, <3>1
    <3>3. QED
      BY <1>1, <2>1, <3>2
  <2>3. QED
    BY <1>1, <1>2, <2>1, <2>2
<1>9. ASSUME NEW c \in Consumers, ConsumeEof(c) PROVE FALSE
  BY <1>9 DEF ConsumeEof, busVars
<1>10. ASSUME NEW t \in Publishers, PublisherStep(t), ~PublishEnd(t)
       PROVE  ring'["in"].count <= Cardinality(Woken')
  <2>1. /\ ring' = ring /\ running' = running
        /\ pc' = pc \/ \E label : pc' = [pc EXCEPT ![t] = label]
    BY <1>10 DEF PublisherStep, PublishBegin, PublishFull, AllocLoad, AllocStore, Goto, busVars
  <2>2. \A c \in Consumers : pc'[c] = pc[c]
    BY <2>1 DEF IInv, TypeOK
  <2>3. QED
    BY <1>3, <2>1, <2>2
<1>11. CASE ConsumeOutbound \/ (\E ch \in ForChannels : ConsumeOutboundFor(ch))
  <2>1. ring'["in"] = ring["in"] /\ pc' = pc /\ running' = running
    BY <1>11 DEF ConsumeOutbound, ConsumeOutboundFor, IInv, TypeOK, Dirs
  <2>2. QED
    BY <1>3, <2>1
<1>12. CASE ResetArena \/ UNCHANGED vars
  <2>1. ring' = ring /\ pc' = pc /\ running' = running
    BY <1>12 DEF ResetArena, vars, busVars
  <2>2. QED
    BY <1>3, <2>1
<1>13. CASE StopRunning
  BY <1>13 DEF StopRunning
<1>14. CASE StopBroadcast
  <2>1. ~running
    BY <1>14, Zenon DEF StopBroadcast, IInv, LockDiscipline, HoldersKnown
  <2>2. QED
    BY <1>14, <2>1 DEF StopBroadcast
<1>15. QED
  BY <1>4, <1>6, <1>7, <1>8, <1>9, <1>10, <1>11, <1>12, <1>13, <1>14 DEF Next, ConsumerStep

(* While some consumer sleeps in pthread_cond_timedwait, every queued      *)
(* message has a consumer that was woken for it, for any number of poll    *)
(* threads and consumers and any spurious wakeups and timeouts.            *)
THEOREM BusNoLostWakeup == Spec => []NoLostWakeup
BY BusInvariant, InitWakeup, NextWakeup, PTL DEF Spec

-----------------------------------------------------------------------------
(***************************************************************************)
(* Why the strings of a message stay its own as long as no allocation      *)
(* races another: everything that was copied lies below the offset of the  *)
(* arena, and a copy is made at the offset or above it.                    *)
(***************************************************************************)

(* The messages with strings in the arena: those held and those in the     *)
(* hands of a publisher.                                                   *)
Live(m) ==
  \/ \E d \in Dirs : m \in Held(d)
  \/ \E t \in Publishers : Inside(t) /\ m = draft[t]

SizesOf(m) == Sizes[DirOf(m.id.thread)]

(* Its strings lie below the offset and are its own. *)
Owned(m) ==
  \A k \in DOMAIN m.ptr : m.ptr[k] # NULL => m.ptr[k] + SizesOf(m)[k] <= offset /\ Intact(m, k)

Placed(m) ==
  /\ m.epoch <= epoch /\ Len(m.ptr) <= Len(SizesOf(m))
  /\ ~raced /\ m.epoch = epoch => Owned(m)

MemoryInv ==
  /\ \A m \in Message : Live(m) => Placed(m)
  /\ \A t \in Publishers : Inside(t) => draft[t].epoch = epoch

LEMMA LiveType ==
  ASSUME IInv, NEW m, Live(m)
  PROVE  /\ m \in Message /\ m.id.thread \in Publishers /\ m.epoch \in Nat
         /\ m.ptr \in Seq(Bytes \union {NULL}) /\ SizesOf(m) \in Seq(Nat \ {0})
<1>1. m \in Message
  <2>1. ASSUME NEW t \in Publishers, Inside(t) PROVE draft[t] \in Message
    BY <2>1 DEF IInv, TypeOK, LockDiscipline, PublisherHolds
  <2>2. QED
    BY <2>1, HeldType DEF Live
<1>2. m.id.thread \in Publishers /\ m.ptr \in Seq(Bytes \union {NULL}) /\ m.epoch \in Nat
  BY <1>1 DEF Message, MessageId
<1>3. SizesOf(m) \in Seq(Nat \ {0})
  BY <1>2, DirOfType, BusAssumption DEF SizesOf
<1>4. QED
  BY <1>1, <1>2, <1>3

LEMMA InitMemory == Init => MemoryInv
<1> SUFFICES ASSUME Init PROVE MemoryInv
  OBVIOUS
<1>1. ASSUME NEW d \in Dirs PROVE Held(d) = {}
  <2>1. ring[d].count = 0 /\ taken[d] = <<>>
    BY DEF Init, EmptyRing
  <2>2. QED
    BY <2>1 DEF Held, Queued, Taken
<1>2. ASSUME NEW t \in Publishers PROVE ~Inside(t)
  BY DEF Init, Inside
<1>3. QED
  BY <1>1, <1>2 DEF MemoryInv, Live

(* What is live after a step was live before, or is a publisher's new      *)
(* draft.                                                                  *)
LEMMA LiveStep ==
  ASSUME IInv, [Next]_vars, NEW m, Live(m)'
  PROVE  \/ Live(m)
         \/ \E t \in Publishers : /\ m = draft'[t] /\ Inside(t)'
                                  /\ \/ \E ch \in Channels : PublishBegin(t, ch)
                                     \/ AllocLoad(t) \/ AllocStore(t)
<1>1. ASSUME NEW d \in Dirs, m \in Held(d)' PROVE Live(m)
  <2>1. CASE m \in Held(d)
    BY <2>1 DEF Live
  <2>2. CASE \E t \in Publishers : PublishEnd(t) /\ m = draft[t]
    BY <2>2 DEF PublishEnd, Inside, Live
  <2>3. QED
    BY <1>1, <2>1, <2>2, HeldStep
<1>2. ASSUME NEW t \in Publishers, Inside(t)', m = draft'[t], Inside(t), draft'[t] = draft[t]
      PROVE  Live(m)
  BY <1>2 DEF Live
<1>3. ASSUME NEW t \in Publishers, Inside(t)', m = draft'[t]
      PROVE  \/ Live(m)
             \/ \E ch \in Channels : PublishBegin(t, ch)
             \/ AllocLoad(t) \/ AllocStore(t)
  BY <1>2, <1>3, DraftStep
<1>4. QED
  BY <1>1, <1>3 DEF Live

(* A step that leaves the arena alone leaves messages where they are. *)
LEMMA PlacedKept ==
  ASSUME NEW m, Placed(m), UNCHANGED arenaVars
  PROVE  Placed(m)'
BY DEF Placed, Owned, Intact, arenaVars

(* The bytes of a string that lies below a limit. *)
LEMMA StringBytes ==
  ASSUME IInv, NEW m, Live(m), Len(m.ptr) <= Len(SizesOf(m)),
         NEW k \in DOMAIN m.ptr, m.ptr[k] # NULL
  PROVE  /\ m.ptr[k] \in Bytes /\ SizesOf(m)[k] \in Nat \ {0}
         /\ BytesOf(m, k) = m.ptr[k] .. m.ptr[k] + SizesOf(m)[k] - 1
<1>1. m.ptr \in Seq(Bytes \union {NULL}) /\ SizesOf(m) \in Seq(Nat \ {0})
  BY LiveType
<1>2. k \in 1 .. Len(m.ptr) /\ Len(m.ptr) \in Nat /\ Len(SizesOf(m)) \in Nat
  BY <1>1, LenProperties
<1>3. m.ptr[k] \in Bytes /\ SizesOf(m)[k] \in Nat \ {0}
  BY <1>1, <1>2, ElementOfSeq
<1>4. QED
  BY <1>3 DEF BytesOf, SizesOf

(* Copying a string at the offset does not touch what lies below it. *)
LEMMA PlacedBelow ==
  ASSUME IInv, MemoryInv, NEW t \in Publishers, AllocStore(t), NEW m, Live(m)
  PROVE  Placed(m)'
<1>1. /\ offset' = reg[t] + NextSize(t) /\ raced' = (raced \/ offset # reg[t]) /\ epoch' = epoch
      /\ pc[t] = "store"
  BY DEF AllocStore
<1>2. m.epoch <= epoch /\ Len(m.ptr) <= Len(SizesOf(m))
  BY LiveType DEF MemoryInv, Placed
<1>3. ASSUME ~raced', m.epoch = epoch,
             NEW k \in DOMAIN m.ptr, m.ptr[k] # NULL
      PROVE  m.ptr[k] + SizesOf(m)[k] <= offset' /\ Intact(m, k)'
  <2>1. ~raced /\ offset = reg[t]
    BY <1>1, <1>3
  <2>2. m.ptr[k] + SizesOf(m)[k] <= offset /\ Intact(m, k)
    BY <1>3, <2>1, LiveType DEF MemoryInv, Placed, Owned
  <2>3. /\ m.ptr[k] \in Bytes /\ SizesOf(m)[k] \in Nat \ {0}
        /\ BytesOf(m, k) = m.ptr[k] .. m.ptr[k] + SizesOf(m)[k] - 1
    BY <1>2, <1>3, StringBytes
  <2>4. /\ offset \in 0 .. ArenaSize /\ ArenaSize \in Nat
        /\ NextString(t) \in Strings(DirOf(t))
    BY <1>1, BusAssumption DEF IInv, TypeOK, LockDiscipline, PublisherHolds
  <2>5. NextSize(t) \in Nat \ {0}
    BY <2>4, BusAssumption, DirOfType, ElementOfSeq DEF NextSize, Strings
  <2>6. ASSUME NEW a \in BytesOf(m, k) PROVE memory'[a] = memory[a]
    <3>1. a \in Bytes /\ a < offset
      BY <2>2, <2>3, <2>4 DEF Bytes
    <3>2. a \notin reg[t] .. reg[t] + NextSize(t) - 1
      BY <2>1, <2>4, <3>1 DEF Bytes
    <3>3. QED
      BY <3>1, <3>2 DEF AllocStore
  <2>7. Intact(m, k)'
    BY <2>2, <2>6 DEF Intact, BytesOf
  <2>8. QED
    BY <1>1, <2>1, <2>2, <2>3, <2>4, <2>5, <2>7 DEF Bytes
<1>4. QED
  BY <1>1, <1>2, <1>3 DEF Placed, Owned, SizesOf

LEMMA DraftIsMessage ==
  ASSUME IInv, NEW t \in Publishers, Inside(t)
  PROVE  draft[t] \in Message
BY DEF IInv, TypeOK, LockDiscipline, PublisherHolds

(* A draft that grows by one string, old becoming m. *)
Grown(t, old, m, a) ==
  /\ Live(old) /\ old.epoch = epoch /\ m.epoch = epoch /\ m.id = old.id
  /\ SizesOf(m) = Sizes[DirOf(t)] /\ SizesOf(old) = Sizes[DirOf(t)]
  /\ Len(old.ptr) \in Nat /\ Len(m.ptr) = NextString(t)
  /\ NextString(t) = Len(old.ptr) + 1 /\ m.ptr[NextString(t)] = a
  /\ \A k \in DOMAIN old.ptr : m.ptr[k] = old.ptr[k]
  /\ DOMAIN old.ptr = 1 .. Len(old.ptr) /\ DOMAIN m.ptr = 1 .. NextString(t)

LEMMA GrownDraft ==
  ASSUME IInv, Numbered, MemoryInv, NEW t \in Publishers, Inside(t),
         NEW old, old = draft[t], NEW m, NEW a \in Bytes \union {NULL},
         m.id = old.id, m.epoch = old.epoch, m.ptr = Append(old.ptr, a)
  PROVE  Grown(t, old, m, a)
<1>1. Live(old) /\ old.epoch = epoch /\ old.id.thread = t
  BY DEF Live, MemoryInv, Numbered
<1>2. old \in Message
  BY <1>1, LiveType
<1>3. m.epoch = old.epoch /\ m.id = old.id /\ m.ptr = Append(old.ptr, a)
  OBVIOUS
<1>4. old.ptr \in Seq(Bytes \union {NULL}) /\ Len(old.ptr) \in Nat
  BY <1>2, LenProperties DEF Message
<1>5. /\ m.ptr \in Seq(Bytes \union {NULL}) /\ Len(m.ptr) = Len(old.ptr) + 1
      /\ m.ptr[Len(old.ptr) + 1] = a
      /\ \A k \in 1 .. Len(old.ptr) : m.ptr[k] = old.ptr[k]
  BY <1>3, <1>4, AppendProperties
<1>6. DOMAIN old.ptr = 1 .. Len(old.ptr) /\ DOMAIN m.ptr = 1 .. Len(m.ptr)
  BY <1>4, <1>5, LenProperties
<1>7. QED
  BY <1>1, <1>3, <1>4, <1>5, <1>6 DEF Grown, SizesOf, NextString

(* A string copied without a race is the draft's own. *)
LEMMA StoredDraft ==
  ASSUME IInv, Numbered, MemoryInv, NEW t \in Publishers, AllocStore(t),
         NEW m, m = draft'[t]
  PROVE  Placed(m)'
<1>1. PICK old : old = draft[t]
  OBVIOUS
<1>2. /\ offset' = reg[t] + NextSize(t) /\ raced' = (raced \/ offset # reg[t]) /\ epoch' = epoch
      /\ pc[t] = "store" /\ Inside(t)
  BY DEF AllocStore, Inside
<1>3. /\ NextString(t) \in Strings(DirOf(t)) /\ reg[t] + NextSize(t) <= ArenaSize
      /\ reg[t] \in Nat /\ ArenaSize \in Nat /\ Len(Sizes[DirOf(t)]) \in Nat
  BY <1>2, BusAssumption, DirOfType, LenProperties DEF IInv, TypeOK, LockDiscipline, PublisherHolds
<1>4. NextSize(t) \in Nat \ {0}
  BY <1>3, BusAssumption, DirOfType, ElementOfSeq DEF NextSize, Strings
<1>5. reg[t] \in Bytes
  BY <1>3, <1>4 DEF Bytes
<1>6. m.id = old.id /\ m.epoch = old.epoch /\ m.ptr = Append(old.ptr, reg[t])
  BY <1>1, <1>2, DraftIsMessage DEF AllocStore, Copied, Message, IInv, TypeOK
<1>7. Grown(t, old, m, reg[t])
  BY <1>1, <1>2, <1>5, <1>6, GrownDraft
<1>8. /\ Live(old) /\ old.epoch = epoch /\ m.epoch = epoch /\ m.id = old.id
      /\ SizesOf(m) = Sizes[DirOf(t)] /\ SizesOf(old) = Sizes[DirOf(t)]
      /\ Len(old.ptr) \in Nat /\ Len(m.ptr) = NextString(t)
      /\ NextString(t) = Len(old.ptr) + 1 /\ m.ptr[NextString(t)] = reg[t]
      /\ \A k \in DOMAIN old.ptr : m.ptr[k] = old.ptr[k]
      /\ DOMAIN old.ptr = 1 .. Len(old.ptr) /\ DOMAIN m.ptr = 1 .. NextString(t)
  BY <1>7 DEF Grown
<1>9. Placed(old)'
  BY <1>8, PlacedBelow
<1>10. ASSUME ~raced', NEW k \in DOMAIN m.ptr, m.ptr[k] # NULL
      PROVE  m.ptr[k] + SizesOf(m)[k] <= offset' /\ Intact(m, k)'
  <2>1. CASE k \in DOMAIN old.ptr
    <3>1. m.ptr[k] = old.ptr[k] /\ old.ptr[k] # NULL
      BY <1>8, <1>10, <2>1
    <3>2. old.ptr[k] + SizesOf(old)[k] <= offset' /\ Intact(old, k)'
      BY <1>2, <1>8, <1>9, <1>10, <2>1, <3>1 DEF Placed, Owned, SizesOf
    <3>3. Intact(m, k)'
      BY <1>8, <3>1, <3>2 DEF Intact, BytesOf
    <3>4. QED
      BY <1>8, <3>1, <3>2, <3>3
  <2>2. CASE k = NextString(t)
    <3>1. m.ptr[k] = reg[t] /\ SizesOf(m)[k] = NextSize(t)
      BY <1>8, <2>2 DEF NextSize
    <3>2. BytesOf(m, k) = reg[t] .. reg[t] + NextSize(t) - 1
      BY <3>1 DEF BytesOf, SizesOf
    <3>3. ASSUME NEW b \in BytesOf(m, k)
          PROVE  memory'[b] = [id |-> m.id, string |-> k, byte |-> b - m.ptr[k]]
      <4>1. b \in reg[t] .. reg[t] + NextSize(t) - 1 /\ b \in Bytes
        BY <1>3, <1>4, <3>2, <3>3 DEF Bytes
      <4>2. memory'[b] = [id |-> draft[t].id, string |-> NextString(t), byte |-> b - reg[t]]
        BY <4>1 DEF AllocStore
      <4>3. QED
        BY <1>1, <1>8, <2>2, <3>1, <4>2
    <3>4. Intact(m, k)'
      BY <3>3 DEF Intact, BytesOf
    <3>5. QED
      BY <1>2, <1>3, <1>4, <3>1, <3>4
  <2>3. k \in 1 .. Len(old.ptr) \/ k = NextString(t)
    BY <1>8, <1>10
  <2>4. QED
    BY <1>8, <2>1, <2>2, <2>3
<1>11. m.epoch <= epoch /\ Len(m.ptr) <= Len(SizesOf(m))
  BY <1>3, <1>8, BusAssumption DEF Strings, IInv, TypeOK
<1>12. QED
  BY <1>2, <1>10, <1>11 DEF Placed, Owned, SizesOf

(* An allocation that loads the offset, or finds no room, copies nothing.  *)
LEMMA LoadedDraft ==
  ASSUME IInv, Numbered, MemoryInv, NEW t \in Publishers, AllocLoad(t),
         NEW m, m = draft'[t]
  PROVE  Placed(m)'
<1>1. PICK old : old = draft[t]
  OBVIOUS
<1>2. Inside(t) /\ UNCHANGED arenaVars
  BY DEF AllocLoad, Inside
<1>3. CASE m = old
  BY <1>1, <1>2, <1>3, PlacedKept, LiveType DEF Live, MemoryInv
<1>4. CASE m.id = old.id /\ m.epoch = old.epoch /\ m.ptr = Append(old.ptr, NULL)
  <2>1. Grown(t, old, m, NULL)
    BY <1>1, <1>2, <1>4, GrownDraft
  <2>2. /\ Live(old) /\ old.epoch = epoch /\ m.epoch = epoch /\ m.id = old.id
        /\ SizesOf(m) = Sizes[DirOf(t)] /\ SizesOf(old) = Sizes[DirOf(t)]
        /\ Len(old.ptr) \in Nat /\ Len(m.ptr) = NextString(t)
        /\ NextString(t) = Len(old.ptr) + 1 /\ m.ptr[NextString(t)] = NULL
        /\ \A k \in DOMAIN old.ptr : m.ptr[k] = old.ptr[k]
        /\ DOMAIN old.ptr = 1 .. Len(old.ptr) /\ DOMAIN m.ptr = 1 .. NextString(t)
    BY <2>1 DEF Grown
  <2>3. Placed(old)
    BY <2>2, LiveType DEF MemoryInv
  <2>4. ASSUME ~raced, NEW k \in DOMAIN m.ptr, m.ptr[k] # NULL
        PROVE  m.ptr[k] + SizesOf(m)[k] <= offset /\ Intact(m, k)
    <3>1. k \in DOMAIN old.ptr /\ m.ptr[k] = old.ptr[k]
      BY <2>2, <2>4
    <3>2. old.ptr[k] + SizesOf(old)[k] <= offset /\ Intact(old, k)
      BY <2>2, <2>3, <2>4, <3>1 DEF Placed, Owned
    <3>3. QED
      BY <2>2, <3>1, <3>2 DEF Intact, BytesOf
  <2>5. m.epoch <= epoch /\ Len(m.ptr) <= Len(SizesOf(m))
    <3>1. NextString(t) \in Strings(DirOf(t)) /\ epoch \in Nat
      BY BusAssumption DEF AllocLoad, IInv, TypeOK
    <3>2. QED
      BY <2>2, <3>1 DEF Strings
  <2>6. Placed(m)
    BY <2>4, <2>5 DEF Placed, Owned
  <2>7. QED
    BY <1>2, <2>6, PlacedKept
<1>5. QED
  BY <1>1, <1>2, <1>3, <1>4, DraftIsMessage DEF AllocLoad, Copied, Message, IInv, TypeOK

(* A message that lives on through a step stays in place. *)
LEMMA LiveKept ==
  ASSUME IInv, MemoryInv, [Next]_vars, NEW m, Live(m)
  PROVE  Placed(m)'
<1>1. Placed(m) /\ m.epoch \in Nat /\ epoch \in Nat
  BY LiveType, BusAssumption DEF MemoryInv, IInv, TypeOK
<1>2. CASE UNCHANGED arenaVars
  BY <1>1, <1>2, PlacedKept
<1>3. CASE ResetArena
  BY <1>1, <1>3 DEF ResetArena, Placed, SizesOf
<1>4. ASSUME NEW t \in Publishers, AllocStore(t) PROVE Placed(m)'
  BY <1>4, PlacedBelow
<1>5. ASSUME NEW t \in Publishers, PublisherStep(t), ~AllocStore(t) PROVE UNCHANGED arenaVars
  BY <1>5 DEF PublisherStep, PublishBegin, PublishFull, AllocLoad, PublishEnd
<1>6. ASSUME NEW c \in Consumers, ConsumerStep(c) PROVE UNCHANGED arenaVars
  BY <1>6 DEF ConsumerStep, ConsumeMessage, ConsumeDecidesToWait, ConsumeWait, SpuriousWakeup,
     WaitTimesOut, ConsumeTimeout, ConsumeEof
<1>7. CASE \/ ConsumeOutbound \/ (\E ch \in ForChannels : ConsumeOutboundFor(ch))
           \/ StopRunning \/ StopBroadcast \/ UNCHANGED vars
  BY <1>2, <1>7 DEF ConsumeOutbound, ConsumeOutboundFor, StopRunning, StopBroadcast, vars, arenaVars
<1>8. QED
  BY <1>2, <1>3, <1>4, <1>5, <1>6, <1>7 DEF Next

(* A step while a publisher is inside does not reset the arena, as both    *)
(* mutexes are needed for that.                                            *)
LEMMA EpochStep ==
  ASSUME IInv, [Next]_vars, NEW t \in Publishers, Inside(t)
  PROVE  epoch' = epoch
<1>1. ~ResetArena
  BY DirOfType, BusAssumption DEF IInv, LockDiscipline, PublisherHolds, ResetArena
<1>2. ASSUME NEW p \in Publishers, PublisherStep(p) PROVE epoch' = epoch
  BY <1>2 DEF PublisherStep, PublishBegin, PublishFull, AllocLoad, AllocStore, PublishEnd, arenaVars
<1>3. ASSUME NEW c \in Consumers, ConsumerStep(c) PROVE epoch' = epoch
  BY <1>3 DEF ConsumerStep, ConsumeMessage, ConsumeDecidesToWait, ConsumeWait, SpuriousWakeup,
     WaitTimesOut, ConsumeTimeout, ConsumeEof, arenaVars
<1>4. CASE \/ ConsumeOutbound \/ (\E ch \in ForChannels : ConsumeOutboundFor(ch))
           \/ StopRunning \/ StopBroadcast \/ UNCHANGED vars
  BY <1>4 DEF ConsumeOutbound, ConsumeOutboundFor, StopRunning, StopBroadcast, vars, arenaVars
<1>5. QED
  BY <1>1, <1>2, <1>3, <1>4 DEF Next

LEMMA NextMemory == IInv /\ Numbered /\ MemoryInv /\ [Next]_vars => MemoryInv'
<1> SUFFICES ASSUME IInv, Numbered, MemoryInv, [Next]_vars PROVE MemoryInv'
  OBVIOUS
<1>1. ASSUME NEW m \in Message, Live(m)' PROVE Placed(m)'
  <2>1. ASSUME NEW t \in Publishers, NEW ch \in Channels, PublishBegin(t, ch), m = draft'[t]
        PROVE  Placed(m)'
    <3>1. m.ptr = <<>> /\ m.epoch = epoch /\ epoch' = epoch /\ epoch \in Nat
      BY <2>1, BeginDraft, BusAssumption DEF IInv, TypeOK
    <3>2. Len(SizesOf(m)) \in Nat
      BY DirOfType, BusAssumption, LenProperties DEF SizesOf, Message, MessageId
    <3>3. QED
      BY <3>1, <3>2 DEF Placed, Owned, SizesOf
  <2>2. QED
    BY <1>1, <2>1, LiveStep, LiveKept, StoredDraft, LoadedDraft
<1>2. ASSUME NEW t \in Publishers, Inside(t)' PROVE draft'[t].epoch = epoch'
  <2>1. ASSUME NEW ch \in Channels, PublishBegin(t, ch) PROVE draft'[t].epoch = epoch'
    BY <2>1, BeginDraft
  <2>2. CASE AllocLoad(t) \/ AllocStore(t)
    <3>1. draft'[t].epoch = draft[t].epoch
      BY <2>2, LongerDraft DEF Message
    <3>2. QED
      BY <2>2, <3>1, LongerDraft DEF MemoryInv
  <2>3. CASE Inside(t) /\ draft'[t] = draft[t]
    BY <2>3, EpochStep DEF MemoryInv
  <2>4. QED
    BY <1>2, <2>1, <2>2, <2>3, DraftStep
<1>3. QED
  BY <1>1, <1>2 DEF MemoryInv

(* The strings of a message that is queued or was handed out are its own   *)
(* until the arena is reset, whatever the two directions do, unless two    *)
(* allocations raced for the offset: neither a full queue, a full arena    *)
(* nor a removal from the middle of the queue spoils them.                 *)
THEOREM BusIntactUnlessRaced == Spec => []IntactUnlessRaced
<1>1. IInv /\ MemoryInv => IntactUnlessRaced
  <2> SUFFICES ASSUME IInv, MemoryInv, ~raced, NEW d \in Dirs, NEW m \in Held(d), m.epoch = epoch,
                      NEW k \in DOMAIN m.ptr, m.ptr[k] # NULL
               PROVE  Intact(m, k)
    BY DEF IntactUnlessRaced, DataValidUntilReset
  <2>1. Placed(m)
    BY HeldType DEF MemoryInv, Live
  <2>2. QED
    BY <2>1 DEF Placed, Owned
<1>2. QED
  BY <1>1, InitIInv, NextIInv, InitNumbered, NextNumbered, InitMemory, NextMemory, PTL DEF Spec

-----------------------------------------------------------------------------
(***************************************************************************)
(* Messages taken by channel.  sea_bus_consume_outbound_for compares texts *)
(* in the arena, so it finds the channel of a message only as long as that *)
(* text is still its own and was copied at all.                            *)
(***************************************************************************)

(* The text of the channel of every message queued is in the arena.        *)
NamesFit == \A m \in Queued("out") : m.ptr # <<>> /\ m.ptr[1] # NULL

(* And nothing was written over it.                                        *)
NamesKept == ~raced /\ \A m \in Queued("out") : m.epoch = epoch

LEMMA ChannelFound ==
  ASSUME IInv, MemoryInv, NamesFit, NamesKept, NEW m \in Queued("out"), NEW ch
  PROVE  ChannelTextIs(m, ch) <=> m.id.chan = ch
<1>1. "out" \in Dirs /\ m \in Held("out")
  BY DEF Dirs, Held
<1>2. Live(m) /\ m \in Message
  BY <1>1, HeldType DEF Live
<1>3. Placed(m) /\ m.ptr # <<>> /\ m.ptr[1] # NULL /\ m.epoch = epoch /\ ~raced
  BY <1>2 DEF MemoryInv, NamesFit, NamesKept
<1>4. Len(m.ptr) <= Len(SizesOf(m)) /\ Owned(m)
  BY <1>3 DEF Placed
<1>5. 1 \in DOMAIN m.ptr
  <2>1. m.ptr \in Seq(Bytes \union {NULL})
    BY <1>2, LiveType
  <2>2. Len(m.ptr) \in Nat \ {0} /\ DOMAIN m.ptr = 1 .. Len(m.ptr)
    BY <1>3, <2>1, EmptySeq, LenProperties
  <2>3. QED
    BY <2>2
<1>6. /\ m.ptr[1] \in Nat /\ SizesOf(m)[1] \in Nat \ {0}
      /\ BytesOf(m, 1) = m.ptr[1] .. m.ptr[1] + SizesOf(m)[1] - 1
  BY <1>2, <1>3, <1>4, <1>5, StringBytes, BusAssumption DEF Bytes
<1>7. ASSUME NEW a \in BytesOf(m, 1)
      PROVE  memory[a].id = m.id /\ memory[a].string = 1 /\ memory[a].byte = a - m.ptr[1]
  <2>1. memory[a] = [id |-> m.id, string |-> 1, byte |-> a - m.ptr[1]]
    BY <1>3, <1>4, <1>5 DEF Owned, Intact
  <2>2. QED
    BY <2>1
<1>8. m.ptr[1] \in BytesOf(m, 1)
  BY <1>6
<1>9. \A a \in BytesOf(m, 1) :
        memory[a].id.chan = m.id.chan /\ memory[a].string = 1 /\ memory[a].byte = a - m.ptr[1]
  BY <1>7
<1>10. QED
  BY <1>3, <1>8, <1>9 DEF ChannelTextIs

(* A sequence without its k-th element. *)
LEMMA WithoutOne ==
  ASSUME NEW S, NEW s \in Seq(S), NEW k \in 1 .. Len(s), NEW e \in Seq(S), Len(e) = Len(s) - 1,
         \A j \in 1 .. Len(s) - 1 : e[j] = IF j < k THEN s[j] ELSE s[j + 1]
  PROVE  e = SubSeq(s, 1, k - 1) \o SubSeq(s, k + 1, Len(s))
<1> DEFINE u == SubSeq(s, 1, k - 1)
           v == SubSeq(s, k + 1, Len(s))
<1>1. Len(s) \in Nat /\ k \in Nat /\ \A i \in 1 .. Len(s) : s[i] \in S
  BY LenProperties, ElementOfSeq
<1>2. u \in Seq(S) /\ Len(u) = k - 1 /\ \A i \in 1 .. k - 1 : u[i] = s[i]
  <2>1. CASE k = 1
    <3>1. u = <<>>
      BY <2>1, SubSeqEmpty
    <3>2. QED BY <2>1, <3>1, EmptySeq
  <2>2. CASE k # 1
    <3>1. 1 \in 1 .. Len(s) + 1 /\ k - 1 \in 1 - 1 .. Len(s)
      BY <1>1
    <3>2. u \in Seq(S) /\ Len(u) = (k - 1) - 1 + 1 /\ \A i \in 1 .. (k - 1) - 1 + 1 : u[i] = s[1 + i - 1]
      BY <1>1, <3>1, SubSeqProperties
    <3> HIDE DEF u
    <3>3. QED BY <1>1, <3>2
  <2>3. QED BY <2>1, <2>2
<1>3. v \in Seq(S) /\ Len(v) = Len(s) - k /\ \A i \in 1 .. Len(s) - k : v[i] = s[k + i]
  <2>1. k + 1 \in 1 .. Len(s) + 1 /\ Len(s) \in (k + 1) - 1 .. Len(s)
    BY <1>1
  <2>2. /\ v \in Seq(S) /\ Len(v) = Len(s) - (k + 1) + 1
        /\ \A i \in 1 .. Len(s) - (k + 1) + 1 : v[i] = s[(k + 1) + i - 1]
    BY <1>1, <2>1, SubSeqProperties
  <2> HIDE DEF v
  <2>3. Len(s) - (k + 1) + 1 = Len(s) - k /\ \A i \in 1 .. Len(s) - k : (k + 1) + i - 1 = k + i
    BY <1>1
  <2>4. QED BY <2>2, <2>3
<1> HIDE DEF u, v
<1>4. /\ u \o v \in Seq(S) /\ Len(u \o v) = Len(u) + Len(v)
      /\ \A i \in 1 .. Len(u) + Len(v) : (u \o v)[i] = IF i <= Len(u) THEN u[i] ELSE v[i - Len(u)]
  BY <1>2, <1>3, ConcatProperties
<1>5. Len(u \o v) = Len(e)
  BY <1>1, <1>2, <1>3, <1>4
<1>6. ASSUME NEW i \in 1 .. Len(e) PROVE e[i] = (u \o v)[i]
  <2>1. i \in 1 .. Len(s) - 1 /\ i \in 1 .. Len(u) + Len(v)
    BY <1>1, <1>2, <1>3
  <2>2. CASE i < k
    BY <1>1, <1>2, <1>4, <2>1, <2>2
  <2>3. CASE ~(i < k)
    <3>1. i - (k - 1) \in 1 .. Len(s) - k /\ ~(i <= k - 1) /\ k + (i - (k - 1)) = i + 1
      BY <1>1, <2>1, <2>3
    <3>2. (u \o v)[i] = v[i - (k - 1)]
      BY <1>2, <1>4, <2>1, <3>1
    <3>3. v[i - (k - 1)] = s[k + (i - (k - 1))]
      BY <1>3, <3>1
    <3>4. QED BY <2>1, <2>3, <3>1, <3>2, <3>3
  <2>4. QED BY <2>2, <2>3
<1>7. QED
  BY <1>4, <1>5, <1>6, SeqEqual DEF u, v

(* The message taken is the oldest of its channel. *)
LEMMA OutTakeFor ==
  ASSUME IInv, MemoryInv, NamesFit, NamesKept, NEW ch \in ForChannels, ConsumeOutboundFor(ch)
  PROVE  OutQueue!Take
<1> DEFINE r == ring["out"]
           q == Contents(r)
<1>1. "out" \in Dirs /\ q \in Seq(Message) /\ Len(q) = r.count /\ r.count \in Nat
  BY ContentsOf, QueueSizeAssumption DEF Dirs
<1>2. PICK i \in 0 .. r.count - 1 :
        /\ ChannelTextIs(q[i + 1], ch)
        /\ \A j \in 1 .. i : ~ChannelTextIs(q[j], ch)
        /\ taken' = [taken EXCEPT !["out"] = Append(@, q[i + 1])]
        /\ ring' = [ring EXCEPT !["out"] = RemoveAt(@, i)]
  BY DEF ConsumeOutboundFor
<1>3. taken'["out"] = Append(taken["out"], q[i + 1]) /\ ring'["out"] = RemoveAt(r, i)
  BY <1>1, <1>2 DEF IInv, TypeOK
<1>4. r \in Ring(Slot) /\ WellFormed(r)
  BY <1>1, RingType DEF IInv, RingsWellFormed
<1>5. /\ Contents(RemoveAt(r, i)) \in Seq(Message)
      /\ Len(Contents(RemoveAt(r, i))) = r.count - 1
      /\ \A j \in 1 .. r.count - 1 :
           Contents(RemoveAt(r, i))[j] = IF j <= i THEN q[j] ELSE q[j + 1]
  BY <1>1, <1>4, RemoveAtContents, RemoveMessage
<1> DEFINE e == Contents(RemoveAt(r, i))
           k == i + 1
<1>6. k \in 1 .. Len(q) /\ k \in Nat
  BY <1>1
<1>7. \A j \in 1 .. k : q[j] \in Queued("out")
  BY <1>1, <1>6 DEF Queued
<1>8. q[k].id.chan = ch /\ \A j \in 1 .. k - 1 : q[j].id.chan # ch
  BY <1>2, <1>6, <1>7, ChannelFound
<1> HIDE DEF e, q
<1>9. e = SubSeq(q, 1, k - 1) \o SubSeq(q, k + 1, Len(q))
  <2>1. \A j \in 1 .. Len(q) - 1 : e[j] = IF j < k THEN q[j] ELSE q[j + 1]
    BY <1>1, <1>5 DEF e, q
  <2>2. e \in Seq(Message) /\ Len(e) = Len(q) - 1
    BY <1>1, <1>5 DEF e
  <2> HIDE DEF k
  <2>3. QED BY <1>1, <1>6, <2>1, <2>2, WithoutOne
<1>10. OutQueue!FirstOfChannel(k)
  BY <1>8 DEF OutQueue!FirstOfChannel, ChannelName, q
<1>11. Contents(ring["out"])' = e /\ taken["out"]' = Append(taken["out"], q[k])
  BY <1>3 DEF e
<1>12. QED
  BY <1>6, <1>9, <1>10, <1>11 DEF OutQueue!Take, OutQueue!RemoveAt, q

LEMMA OutNextByChannel ==
  IInv /\ Numbered /\ MemoryInv /\ NamesFit /\ NamesKept /\ [Next]_vars
    => [OutQueue!Next]_(OutQueue!vars)
<1> SUFFICES ASSUME IInv, Numbered, MemoryInv, NamesFit, NamesKept, [Next]_vars
             PROVE  [OutQueue!Next]_(OutQueue!vars)
  OBVIOUS
<1>1. "out" \in Dirs
  BY DEF Dirs
<1>2. ASSUME ring'["out"] = ring["out"], taken'["out"] = taken["out"]
      PROVE  UNCHANGED OutQueue!vars
  BY <1>2 DEF OutQueue!vars
<1>3. ASSUME NEW t \in Publishers, PublishEnd(t) PROVE [OutQueue!Next]_(OutQueue!vars)
  BY <1>1, <1>2, <1>3, EnqueueStep, OutPut DEF OutQueue!Next
<1>4. ASSUME NEW c \in Consumers, ConsumeMessage(c) PROVE [OutQueue!Next]_(OutQueue!vars)
  <2>1. ring'["out"] = ring["out"] /\ taken'["out"] = taken["out"]
    BY <1>4 DEF ConsumeMessage, IInv, TypeOK, Dirs
  <2>2. QED
    BY <1>2, <2>1
<1>5. CASE ConsumeOutbound
  BY <1>5, OutTake DEF OutQueue!Next
<1>6. ASSUME NEW ch \in ForChannels, ConsumeOutboundFor(ch) PROVE [OutQueue!Next]_(OutQueue!vars)
  BY <1>6, OutTakeFor DEF OutQueue!Next
<1>7. QED
  BY <1>2, <1>3, <1>4, <1>5, <1>6, OtherSteps

(* Taken at the head or by channel, in any order: the outbound ring is a   *)
(* bounded queue in which no message of a channel overtakes another, as    *)
(* long as the arena had room for the channels' names, no two allocations  *)
(* raced and the arena was not reset under queued messages.                *)
THEOREM BusOutboundByChannelIsFifo == Spec /\ []NamesFit /\ []NamesKept => OutboundIsFifo
<1>1. Init => OutQueue!Init
  BY DEF Init, OutQueue!Init, Dirs, EmptyRing, Contents
<1>2. QED
  BY <1>1, InitIInv, NextIInv, InitNumbered, NextNumbered, InitMemory, NextMemory,
     OutNextByChannel, PTL
     DEF Spec, OutboundIsFifo, OutQueue!Spec

(***************************************************************************)
(* Where only replies are published and the arena is reset only when       *)
(* nothing is queued, the last two hold by themselves: the outbound mutex  *)
(* covers every allocation.                                                *)
(***************************************************************************)
LoadedLast == \A t \in Publishers : pc[t] = "store" => reg[t] = offset

(* Only publishers and a reset touch the arena. *)
LEMMA ArenaSteps ==
  ASSUME [Next]_vars
  PROVE  \/ \E t \in Publishers : PublisherStep(t)
         \/ ResetArena
         \/ UNCHANGED <<reg, offset, epoch, raced>>
<1>1. ASSUME NEW c \in Consumers, ConsumerStep(c) PROVE UNCHANGED <<reg, offset, epoch, raced>>
  BY <1>1 DEF ConsumerStep, ConsumeMessage, ConsumeDecidesToWait, ConsumeWait, SpuriousWakeup,
     WaitTimesOut, ConsumeTimeout, ConsumeEof, arenaVars
<1>2. CASE \/ ConsumeOutbound \/ (\E ch \in ForChannels : ConsumeOutboundFor(ch))
           \/ StopRunning \/ StopBroadcast \/ UNCHANGED vars
  BY <1>2 DEF ConsumeOutbound, ConsumeOutboundFor, StopRunning, StopBroadcast, vars, arenaVars
<1>3. QED
  BY <1>1, <1>2 DEF Next

(* What the steps do to the messages queued. *)
LEMMA QueuedStep ==
  ASSUME IInv, [Next]_vars
  PROVE  \/ Queued("out")' \subseteq Queued("out")
         \/ \E t \in Publishers : /\ PublishEnd(t)
                                  /\ Queued("out")' \subseteq Queued("out") \union {draft[t]}
<1> DEFINE q == Contents(ring["out"])
<1>1. "out" \in Dirs /\ q \in Seq(Message) /\ Len(q) = ring["out"].count /\ ring["out"].count \in Nat
  BY ContentsOf, QueueSizeAssumption DEF Dirs
<1>2. ASSUME ring'["out"] = ring["out"] PROVE Queued("out")' = Queued("out")
  BY <1>2 DEF Queued
<1>3. ASSUME NEW t \in Publishers, PublishEnd(t)
      PROVE  \/ Queued("out")' = Queued("out")
             \/ Queued("out")' \subseteq Queued("out") \union {draft[t]}
  <2>1. CASE DirOf(t) # "out"
    BY <1>1, <1>2, <1>3, <2>1, EnqueueStep
  <2>2. CASE DirOf(t) = "out"
    <3>1. /\ draft[t] \in Message /\ Contents(ring'["out"]) = Append(q, draft[t])
          /\ ring'["out"].count = ring["out"].count + 1
      BY <1>3, <2>2, EnqueueStep
    <3>2. /\ Append(q, draft[t])[Len(q) + 1] = draft[t]
          /\ \A i \in 1 .. Len(q) : Append(q, draft[t])[i] = q[i]
      BY <1>1, <3>1, AppendProperties
    <3> HIDE DEF q
    <3>3. \A i \in 1 .. ring["out"].count + 1 : i \in 1 .. Len(q) \/ i = Len(q) + 1
      BY <1>1
    <3>4. Queued("out")' = {Append(q, draft[t])[i] : i \in 1 .. ring["out"].count + 1}
      BY <3>1 DEF Queued
    <3>5. Queued("out") = {q[i] : i \in 1 .. Len(q)}
      BY <1>1 DEF Queued, q
    <3>6. QED
      BY <3>2, <3>3, <3>4, <3>5
  <2>3. QED
    BY <2>1, <2>2
<1>4. CASE ConsumeOutbound
  <2>1. q # <<>> /\ Contents(ring'["out"]) = Tail(q) /\ ring'["out"].count = ring["out"].count - 1
    BY <1>1, <1>4, DequeueStep DEF ConsumeOutbound, IInv, TypeOK, Dequeue
  <2>2. \A i \in 1 .. ring["out"].count - 1 : Tail(q)[i] = q[i + 1] /\ i + 1 \in 1 .. ring["out"].count
    <3>1. Len(Tail(q)) = Len(q) - 1 /\ \A i \in 1 .. Len(Tail(q)) : Tail(q)[i] = q[i + 1]
      BY <1>1, <2>1, HeadTailProperties
    <3> HIDE DEF q
    <3>2. QED BY <1>1, <3>1
  <2>3. QED
    BY <2>1, <2>2 DEF Queued
<1>5. ASSUME NEW ch \in ForChannels, ConsumeOutboundFor(ch)
      PROVE  Queued("out")' \subseteq Queued("out")
  <2>1. PICK i \in 0 .. ring["out"].count - 1 : ring' = [ring EXCEPT !["out"] = RemoveAt(@, i)]
    BY <1>5 DEF ConsumeOutboundFor
  <2>2. ring'["out"] = RemoveAt(ring["out"], i)
    BY <1>1, <2>1 DEF IInv, TypeOK
  <2>3. ring["out"] \in Ring(Slot) /\ WellFormed(ring["out"])
    BY <1>1, RingType DEF IInv, RingsWellFormed
  <2>4. \A j \in 1 .. ring["out"].count - 1 :
          Contents(ring'["out"])[j] = IF j <= i THEN q[j] ELSE q[j + 1]
    BY <2>2, <2>3, RemoveAtContents
  <2>5. ring'["out"].count = ring["out"].count - 1
    BY <2>2 DEF RemoveAt
  <2>6. \A j \in 1 .. ring["out"].count - 1 :
          j \in 1 .. ring["out"].count /\ j + 1 \in 1 .. ring["out"].count
    BY <1>1
  <2>7. QED
    BY <2>4, <2>5, <2>6 DEF Queued
<1>6. ASSUME NEW c \in Consumers, ConsumeMessage(c) PROVE Queued("out")' = Queued("out")
  BY <1>2, <1>6 DEF ConsumeMessage, IInv, TypeOK, Dirs
<1>7. QED
  BY <1>2, <1>3, <1>4, <1>5, <1>6, OtherSteps

LEMMA NextAlone ==
  InPublishers = {} /\ ~ResetsAnyTime
    => (IInv /\ MemoryInv /\ NamesKept /\ LoadedLast /\ [Next]_vars => NamesKept' /\ LoadedLast')
<1> SUFFICES ASSUME InPublishers = {}, ~ResetsAnyTime, IInv, MemoryInv, NamesKept, LoadedLast,
                    [Next]_vars
             PROVE  NamesKept' /\ LoadedLast'
  OBVIOUS
<1>1. \A t \in Publishers : DirOf(t) = "out" /\ (Inside(t) <=> lock["out"] = t) /\ t # NULL
  BY BusAssumption DEF DirOf, Publishers, IInv, LockDiscipline, PublisherHolds
<1>2. raced' = FALSE
  <2>1. ASSUME NEW t \in Publishers, AllocStore(t) PROVE raced' = FALSE
    BY <2>1 DEF AllocStore, LoadedLast, NamesKept
  <2>2. ASSUME NEW t \in Publishers, PublisherStep(t), ~AllocStore(t) PROVE raced' = raced
    BY <2>2 DEF PublisherStep, PublishBegin, PublishFull, AllocLoad, PublishEnd, arenaVars
  <2>3. ResetArena => raced' = raced
    BY DEF ResetArena
  <2>4. raced = FALSE
    BY DEF NamesKept, IInv, TypeOK
  <2>5. QED
    BY <2>1, <2>2, <2>3, <2>4, ArenaSteps
<1>3. ASSUME NEW p \in Publishers, pc'[p] = "store" PROVE reg'[p] = offset'
  <2>1. CASE PublisherStep(p)
    <3>1. AllocLoad(p)
      <4>1. ~PublishEnd(p)
        BY <1>3, EndLeaves
      <4>2. pc' = [pc EXCEPT ![p] = "alloc"] => pc'[p] # "store"
        BY DEF IInv, TypeOK
      <4>3. ~PublishFull(p)
        BY <1>3 DEF PublishFull
      <4>4. QED
        BY <1>3, <2>1, <4>1, <4>2, <4>3 DEF PublisherStep, PublishBegin, AllocStore, Goto
    <3>2. pc[p] = "alloc" /\ pc' # pc
      BY <1>3, <3>1 DEF AllocLoad
    <3>3. QED
      BY <3>1, <3>2 DEF AllocLoad, arenaVars, IInv, TypeOK
  <2>2. CASE pc'[p] = pc[p] /\ ~PublisherStep(p)
    <3>1. lock["out"] = p /\ p # NULL /\ reg[p] = offset
      BY <1>1, <1>3, <2>2 DEF Inside, LoadedLast
    <3>2. ASSUME NEW t \in Publishers, PublisherStep(t) PROVE FALSE
      <4>1. t # p /\ ~Inside(t)
        BY <1>1, <2>2, <3>1, <3>2
      <4>2. pc[t] = "idle" /\ lock["out"] = NULL
        BY <1>1, <3>2, <4>1 DEF PublisherStep, PublishBegin, PublishFull, AllocLoad, AllocStore,
           PublishEnd, Inside
      <4>3. QED
        BY <3>1, <4>2
    <3>3. ~ResetArena
      BY <3>1 DEF ResetArena, Dirs
    <3>4. UNCHANGED <<reg, offset>>
      BY <3>2, <3>3, ArenaSteps
    <3>5. QED
      BY <3>1, <3>4
  <2>3. QED
    BY <2>1, <2>2, OwnStep
<1>4. ASSUME NEW m \in Queued("out")' PROVE m.epoch = epoch'
  <2>1. m \in Queued("out") \/ \E t \in Publishers : PublishEnd(t) /\ m = draft[t]
    BY <1>4, QueuedStep
  <2>2. CASE ResetArena
    <3>1. ring'["out"].count = 0
      BY <2>2 DEF ResetArena, busVars, Dirs
    <3>2. Queued("out")' = {}
      BY <3>1 DEF Queued
    <3>3. QED
      BY <1>4, <3>2
  <2>3. ASSUME NEW t \in Publishers, PublishEnd(t), m = draft[t] PROVE m.epoch = epoch'
    <3>1. Inside(t)
      BY <2>3 DEF PublishEnd, Inside
    <3>2. QED
      BY <2>3, <3>1, EpochStep DEF MemoryInv
  <2>4. CASE m \in Queued("out") /\ ~ResetArena
    <3>1. ASSUME NEW p \in Publishers, PublisherStep(p) PROVE epoch' = epoch
      BY <3>1 DEF PublisherStep, PublishBegin, PublishFull, AllocLoad, AllocStore, PublishEnd,
         arenaVars
    <3>2. epoch' = epoch
      BY <2>4, <3>1, ArenaSteps
    <3>3. QED
      BY <2>4, <3>2 DEF NamesKept
  <2>5. QED
    BY <2>1, <2>2, <2>3, <2>4
<1>5. QED
  BY <1>2, <1>3, <1>4 DEF NamesKept, LoadedLast

(* A program that only publishes replies, takes them in any way and resets *)
(* the arena only when nothing is queued, has what the theorem above asks  *)
(* for if there is room for the channels' names.                           *)
THEOREM BusOutboundAloneIsFifo ==
  InPublishers = {} /\ ~ResetsAnyTime => (Spec /\ []NamesFit => OutboundIsFifo)
<1> SUFFICES ASSUME InPublishers = {}, ~ResetsAnyTime
             PROVE  Spec /\ []NamesFit => OutboundIsFifo
  OBVIOUS
<1>1. Init => NamesKept /\ LoadedLast
  BY DEF Init, NamesKept, LoadedLast, Queued, EmptyRing, Dirs
<1>2. IInv /\ MemoryInv /\ NamesKept /\ LoadedLast /\ [Next]_vars => NamesKept' /\ LoadedLast'
  BY NextAlone
<1>3. QED
  BY <1>1, <1>2, InitIInv, NextIInv, InitNumbered, NextNumbered, InitMemory, NextMemory,
     BusOutboundByChannelIsFifo, PTL DEF Spec
=============================================================================

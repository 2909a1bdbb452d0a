------------------------------- MODULE SeaBus -------------------------------
(***************************************************************************)
(* The message bus of src/bus/sea_bus.c: an inbound queue (channels to     *)
(* agent) and an outbound queue (agent to channels), each a ring under a   *)
(* mutex of its own, the inbound one with a condition variable.  The       *)
(* strings of all messages, of both directions, are copied into ONE arena  *)
(* that no mutex protects: an allocation is a load of the arena's offset   *)
(* and a later store, and those of the two directions may interleave.      *)
(*                                                                         *)
(* Threads are the publishers of either direction and the consumers of     *)
(* the inbound queue, which wait with a timeout.  Outbound messages are    *)
(* taken in one critical section that reads nothing outside the mutex, so  *)
(* each of these calls is one step.                                        *)
(***************************************************************************)
EXTENDS BusRing, FiniteSets

CONSTANTS
  InPublishers,   \* threads that call sea_bus_publish_inbound
  OutPublishers,  \* threads that call sea_bus_publish_outbound
  Consumers,      \* threads that call sea_bus_consume_inbound with a timeout
  Channels,       \* channel names
  ForChannels,    \* those somebody calls sea_bus_consume_outbound_for with
  Sizes,          \* Sizes[d]: bytes of each string of a message, in the order
                  \*   the code copies them
  ArenaSize,      \* bytes of the arena
  ResetsAnyTime,  \* FALSE: the arena is reset only when nothing is queued
  MaxSent,        \* bound: publish calls of one thread
  MaxResets       \* bound: arena resets

Dirs == {"in", "out"}
Publishers == InPublishers \union OutPublishers
Bytes == 0 .. ArenaSize - 1

ASSUME BusAssumption ==
  /\ InPublishers \intersect OutPublishers = {}
  /\ Publishers \intersect Consumers = {} /\ IsFiniteSet(Consumers)
  /\ NULL \notin Publishers \union Consumers \union Channels
  /\ ForChannels \subseteq Channels
  /\ Sizes \in [Dirs -> Seq(Nat \ {0})]
  /\ ArenaSize \in Nat /\ NULL \notin Nat
  /\ ResetsAnyTime \in BOOLEAN
  /\ MaxSent \in Nat /\ MaxResets \in Nat

VARIABLES
  ring,      \* ring[d]: the circular buffer of direction d
  lock,      \* lock[d]: the thread that holds its mutex, or NULL
  offset,    \* SeaArena.offset
  memory,    \* memory[a]: whose string, and which byte of it, is at address a
  pc,        \* where each thread is
  reg,       \* reg[t]: the offset publisher t has loaded
  draft,     \* draft[t]: the message publisher t is building in the tail slot
  running,   \* SeaBus.running
  stopper,   \* how far sea_bus_destroy has come
  sent,      \* sent[t]: publish calls of t so far
  taken,     \* history: the messages handed out, per direction
  epoch,     \* history: how often the arena was reset
  raced      \* history: an allocation overwrote an offset it had not loaded

busVars == <<ring, lock, running, stopper, taken>>
arenaVars == <<offset, memory, epoch, raced>>
vars == <<ring, lock, offset, memory, pc, reg, draft, running, stopper, sent,
          taken, epoch, raced>>

DirOf(t) == IF t \in InPublishers THEN "in" ELSE "out"
Strings(d) == 1 .. Len(Sizes[d])

(***************************************************************************)
(* A message: its identity (with the channel it names), the address of     *)
(* each string copied for it (NULL when the arena had no room), and the    *)
(* arena epoch the addresses belong to.                                    *)
(***************************************************************************)
MessageId == [thread : Publishers, n : 1 .. MaxSent, chan : Channels]
Message == [id : MessageId, ptr : Seq(Bytes \union {NULL}), epoch : Nat]

ASSUME NullAssumption == NULL \notin Message

(* The bytes of string k of message m, and whether they are still its own. *)
BytesOf(m, k) == m.ptr[k] .. m.ptr[k] + Sizes[DirOf(m.id.thread)][k] - 1
Intact(m, k) ==
  \A a \in BytesOf(m, k) : memory[a] = [id |-> m.id, string |-> k, byte |-> a - m.ptr[k]]

Init ==
  /\ ring = [d \in Dirs |-> EmptyRing]
  /\ lock = [d \in Dirs |-> NULL]
  /\ offset = 0
  /\ memory = [a \in Bytes |-> NULL]
  /\ pc = [t \in Publishers \union Consumers |-> "idle"]
  /\ reg = [t \in Publishers |-> 0]
  /\ draft = [t \in Publishers |-> NULL]
  /\ running = TRUE
  /\ stopper = "running"
  /\ sent = [t \in Publishers |-> 0]
  /\ taken = [d \in Dirs |-> <<>>]
  /\ epoch = 0
  /\ raced = FALSE

Goto(t, label) == pc' = [pc EXCEPT ![t] = label]

-----------------------------------------------------------------------------
(***************************************************************************)
(* sea_bus_publish_inbound and sea_bus_publish_outbound.                   *)
(***************************************************************************)

(* Mutant: the mutex is not taken first. *)
PublishBeginUnlocked(t, ch) ==
  LET d == DirOf(t) IN
  /\ pc[t] = "idle"
  /\ sent[t] < MaxSent
  /\ ~IsFull(ring[d])
  /\ sent' = [sent EXCEPT ![t] = @ + 1]
  /\ lock' = [lock EXCEPT ![d] = t]
  /\ draft' = [draft EXCEPT ![t] = [id |-> [thread |-> t, n |-> sent[t] + 1, chan |-> ch],
                                    ptr |-> <<>>, epoch |-> epoch]]
  /\ Goto(t, "alloc")
  /\ UNCHANGED <<arenaVars, ring, reg, running, stopper, taken>>

(* The mutex is taken and there is room: the strings are copied next. *)
PublishBegin(t, ch) ==
  LET d == DirOf(t) IN
  /\ pc[t] = "idle" /\ lock[d] = NULL
  /\ sent[t] < MaxSent
  /\ ~IsFull(ring[d])
  /\ sent' = [sent EXCEPT ![t] = @ + 1]
  /\ lock' = [lock EXCEPT ![d] = t]
  /\ draft' = [draft EXCEPT ![t] = [id |-> [thread |-> t, n |-> sent[t] + 1, chan |-> ch],
                                    ptr |-> <<>>, epoch |-> epoch]]
  /\ Goto(t, "alloc")
  /\ UNCHANGED <<arenaVars, ring, reg, running, stopper, taken>>

(* The queue is full: the call returns SEA_ERR_ARENA_FULL, the message is lost. *)
PublishFull(t) ==
  LET d == DirOf(t) IN
  /\ pc[t] = "idle" /\ lock[d] = NULL
  /\ sent[t] < MaxSent
  /\ IsFull(ring[d])
  /\ sent' = [sent EXCEPT ![t] = @ + 1]
  /\ UNCHANGED <<busVars, arenaVars, pc, reg, draft>>

NextString(t) == Len(draft[t].ptr) + 1
NextSize(t) == Sizes[DirOf(t)][NextString(t)]
Copied(t, addr) == draft' = [draft EXCEPT ![t].ptr = Append(@, addr)]

(* sea_arena_alloc loads the offset; when the string does not fit, the     *)
(* pointer stays NULL and the publish goes on all the same.                *)
AllocLoad(t) ==
  /\ pc[t] = "alloc"
  /\ NextString(t) \in Strings(DirOf(t))
  /\ IF offset + NextSize(t) > ArenaSize
     THEN Copied(t, NULL) /\ UNCHANGED <<pc, reg>>
     ELSE /\ reg' = [reg EXCEPT ![t] = offset]
          /\ Goto(t, "store")
          /\ UNCHANGED draft
  /\ UNCHANGED <<busVars, arenaVars, sent>>

(* Mutant: room is kept for the text but not for its terminator. *)
AllocStoreNoTerminator(t) ==
  LET string == [a \in reg[t] .. reg[t] + NextSize(t) - 1 |->
                   [id |-> draft[t].id, string |-> NextString(t), byte |-> a - reg[t]]]
  IN
  /\ pc[t] = "store"
  /\ offset' = reg[t] + NextSize(t) - 1
  /\ raced' = (raced \/ offset # reg[t])
  /\ memory' = [a \in Bytes |-> IF a \in DOMAIN string THEN string[a] ELSE memory[a]]
  /\ Copied(t, reg[t])
  /\ Goto(t, "alloc")
  /\ UNCHANGED <<busVars, reg, sent, epoch>>

(* The new offset is stored and the string is copied to where the old one was. *)
AllocStore(t) ==
  LET string == [a \in reg[t] .. reg[t] + NextSize(t) - 1 |->
                   [id |-> draft[t].id, string |-> NextString(t), byte |-> a - reg[t]]]
  IN
  /\ pc[t] = "store"
  /\ offset' = reg[t] + NextSize(t)
  /\ raced' = (raced \/ offset # reg[t])
  /\ memory' = [a \in Bytes |-> IF a \in DOMAIN string THEN string[a] ELSE memory[a]]
  /\ Copied(t, reg[t])
  /\ Goto(t, "alloc")
  /\ UNCHANGED <<busVars, reg, sent, epoch>>

(* pthread_cond_signal wakes one waiting consumer, if there is one. *)
Waiting == {c \in Consumers : pc[c] = "waiting"}
Signal(label, t) ==
  IF label = "out" \/ Waiting = {}
  THEN Goto(t, "idle")
  ELSE \E c \in Waiting : pc' = [pc EXCEPT ![t] = "idle", ![c] = "woken"]

(* Mutant: a consumer is signalled only when the queue was empty. *)
PublishEndSignalsOnce(t) ==
  LET d == DirOf(t) IN
  /\ pc[t] = "alloc"
  /\ NextString(t) \notin Strings(d)
  /\ ring' = [ring EXCEPT ![d] = Enqueue(@, draft[t])]
  /\ IF ring[d].count = 0 THEN Signal(d, t) ELSE Goto(t, "idle")
  /\ lock' = [lock EXCEPT ![d] = NULL]
  /\ draft' = [draft EXCEPT ![t] = NULL]
  /\ UNCHANGED <<arenaVars, reg, running, stopper, sent, taken>>

(* Mutant: nobody is signalled. *)
PublishEndSilent(t) ==
  LET d == DirOf(t) IN
  /\ pc[t] = "alloc"
  /\ NextString(t) \notin Strings(d)
  /\ ring' = [ring EXCEPT ![d] = Enqueue(@, draft[t])]
  /\ Goto(t, "idle")
  /\ lock' = [lock EXCEPT ![d] = NULL]
  /\ draft' = [draft EXCEPT ![t] = NULL]
  /\ UNCHANGED <<arenaVars, reg, running, stopper, sent, taken>>

(* The message enters the ring, a consumer is signalled, the mutex released. *)
PublishEnd(t) ==
  LET d == DirOf(t) IN
  /\ pc[t] = "alloc"
  /\ NextString(t) \notin Strings(d)
  /\ ring' = [ring EXCEPT ![d] = Enqueue(@, draft[t])]
  /\ Signal(d, t)
  /\ lock' = [lock EXCEPT ![d] = NULL]
  /\ draft' = [draft EXCEPT ![t] = NULL]
  /\ UNCHANGED <<arenaVars, reg, running, stopper, sent, taken>>

-----------------------------------------------------------------------------
(***************************************************************************)
(* sea_bus_consume_inbound with a timeout.                                 *)
(***************************************************************************)

AtLoopTest(c) == pc[c] \in {"idle", "woken"} /\ lock["in"] = NULL

ConsumeMessage(c) ==
  /\ AtLoopTest(c) /\ running
  /\ ring["in"].count > 0
  /\ taken' = [taken EXCEPT !["in"] = Append(@, First(ring["in"]))]
  /\ ring' = [ring EXCEPT !["in"] = Dequeue(@)]
  /\ Goto(c, "idle")
  /\ UNCHANGED <<arenaVars, lock, reg, draft, running, stopper, sent>>

(* Mutant: the loop test does not look at running. *)
ConsumeDecidesToWaitAnyway(c) ==
  /\ AtLoopTest(c)
  /\ ring["in"].count = 0
  /\ lock' = [lock EXCEPT !["in"] = c]
  /\ Goto(c, "towait")
  /\ UNCHANGED <<arenaVars, ring, reg, draft, running, stopper, sent, taken>>

(* Nothing queued: the consumer, still in the critical section, will wait. *)
ConsumeDecidesToWait(c) ==
  /\ AtLoopTest(c) /\ running
  /\ ring["in"].count = 0
  /\ lock' = [lock EXCEPT !["in"] = c]
  /\ Goto(c, "towait")
  /\ UNCHANGED <<arenaVars, ring, reg, draft, running, stopper, sent, taken>>

ConsumeWait(c) ==
  /\ pc[c] = "towait"
  /\ lock' = [lock EXCEPT !["in"] = NULL]
  /\ Goto(c, "waiting")
  /\ UNCHANGED <<arenaVars, ring, reg, draft, running, stopper, sent, taken>>

(* A wait may end without a signal. *)
SpuriousWakeup(c) ==
  /\ pc[c] = "waiting"
  /\ Goto(c, "woken")
  /\ UNCHANGED <<busVars, arenaVars, reg, draft, sent>>

WaitTimesOut(c) ==
  /\ pc[c] = "waiting"
  /\ Goto(c, "timedout")
  /\ UNCHANGED <<busVars, arenaVars, reg, draft, sent>>

(* SEA_ERR_TIMEOUT, without another look at the queue. *)
ConsumeTimeout(c) ==
  /\ pc[c] = "timedout" /\ lock["in"] = NULL
  /\ Goto(c, "idle")
  /\ UNCHANGED <<busVars, arenaVars, reg, draft, sent>>

(* SEA_ERR_EOF, whatever is queued; the caller stops calling. *)
ConsumeEof(c) ==
  /\ AtLoopTest(c) /\ ~running
  /\ Goto(c, "eof")
  /\ UNCHANGED <<busVars, arenaVars, reg, draft, sent>>

-----------------------------------------------------------------------------
(* sea_bus_consume_outbound. *)
ConsumeOutbound ==
  /\ lock["out"] = NULL
  /\ ring["out"].count > 0
  /\ taken' = [taken EXCEPT !["out"] = Append(@, First(ring["out"]))]
  /\ ring' = [ring EXCEPT !["out"] = Dequeue(@)]
  /\ UNCHANGED <<arenaVars, lock, pc, reg, draft, running, stopper, sent>>

(***************************************************************************)
(* sea_bus_consume_outbound_for compares the text at the channel pointer:  *)
(* it is ch when the bytes there are those of a channel string that is ch. *)
(***************************************************************************)
ChannelTextIs(m, ch) ==
  /\ m.ptr[1] # NULL
  /\ \A a \in BytesOf(m, 1) : /\ memory[a].string = 1
                              /\ memory[a].byte = a - m.ptr[1]
                              /\ memory[a].id.chan = ch

ConsumeOutboundFor(ch) ==
  LET r == ring["out"] IN
  /\ lock["out"] = NULL
  /\ \E i \in 0 .. r.count - 1 :
       /\ ChannelTextIs(Contents(r)[i + 1], ch)
       /\ \A j \in 1 .. i : ~ChannelTextIs(Contents(r)[j], ch)
       /\ taken' = [taken EXCEPT !["out"] = Append(@, Contents(r)[i + 1])]
       /\ ring' = [ring EXCEPT !["out"] = RemoveAt(@, i)]
  /\ UNCHANGED <<arenaVars, lock, pc, reg, draft, running, stopper, sent>>
-----------------------------------------------------------------------------
(* sea_bus_reset_arena, under both mutexes; queued messages keep their pointers. *)
ResetArena ==
  /\ \A d \in Dirs : lock[d] = NULL
  /\ ResetsAnyTime \/ \A d \in Dirs : ring[d].count = 0
  /\ epoch < MaxResets
  /\ offset' = 0
  /\ epoch' = epoch + 1
  /\ UNCHANGED <<busVars, memory, raced, pc, reg, draft, sent>>

(* sea_bus_destroy clears running without the mutex, then wakes whoever    *)
(* waits by then.  Freeing the mutexes and the arena is left to Gateway.   *)
StopRunning ==
  /\ stopper = "running"
  /\ stopper' = "stopped"
  /\ running' = FALSE
  /\ UNCHANGED <<arenaVars, ring, lock, pc, reg, draft, sent, taken>>

StopBroadcast ==
  /\ stopper = "stopped"
  /\ stopper' = "done"
  /\ pc' = [t \in DOMAIN pc |-> IF t \in Waiting THEN "woken" ELSE pc[t]]
  /\ UNCHANGED <<arenaVars, ring, lock, reg, draft, running, sent, taken>>

PublisherStep(t) ==
  \/ \E ch \in Channels : PublishBegin(t, ch)
  \/ PublishFull(t)
  \/ AllocLoad(t)
  \/ AllocStore(t)
  \/ PublishEnd(t)

ConsumerStep(c) ==
  \/ ConsumeMessage(c)
  \/ ConsumeDecidesToWait(c)
  \/ ConsumeWait(c)
  \/ SpuriousWakeup(c)
  \/ WaitTimesOut(c)
  \/ ConsumeTimeout(c)
  \/ ConsumeEof(c)

Next ==
  \/ \E t \in Publishers : PublisherStep(t)
  \/ \E c \in Consumers : ConsumerStep(c)
  \/ ConsumeOutbound
  \/ \E ch \in ForChannels : ConsumeOutboundFor(ch)
  \/ ResetArena
  \/ StopRunning
  \/ StopBroadcast

Spec == Init /\ [][Next]_vars

(***************************************************************************)
(* A publisher inside the call comes to its end, and consumers keep        *)
(* calling: the loop of the agent thread calls again after every return.   *)
(* Timeouts, spurious wakeups, resets and the shutdown need never happen.  *)
(***************************************************************************)
Liveness ==
  /\ \A t \in Publishers : WF_vars(AllocLoad(t) \/ AllocStore(t) \/ PublishEnd(t))
  /\ \A c \in Consumers : WF_vars(\/ ConsumeMessage(c) \/ ConsumeDecidesToWait(c)
                                  \/ ConsumeWait(c) \/ ConsumeTimeout(c)
                                  \/ ConsumeEof(c))

FairSpec == Spec /\ Liveness

-----------------------------------------------------------------------------
(***************************************************************************)
(* Properties.                                                             *)
(***************************************************************************)

PublisherLabels == {"idle", "alloc", "store"}
ConsumerLabels == {"idle", "towait", "waiting", "woken", "timedout", "eof"}

TypeOK ==
  /\ ring \in [Dirs -> [slots : [Slots -> Message \union {NULL}], head : Slots,
                        tail : Slots, count : 0 .. QueueSize]]
  /\ lock \in [Dirs -> Publishers \union Consumers \union {NULL}]
  /\ offset \in 0 .. ArenaSize
  /\ memory \in [Bytes -> [id : MessageId, string : Nat, byte : Nat] \union {NULL}]
  /\ pc \in [Publishers \union Consumers -> PublisherLabels \union ConsumerLabels]
  /\ \A t \in Publishers : pc[t] \in PublisherLabels
  /\ \A c \in Consumers : pc[c] \in ConsumerLabels
  /\ reg \in [Publishers -> 0 .. ArenaSize]
  /\ draft \in [Publishers -> Message \union {NULL}]
  /\ running \in BOOLEAN
  /\ stopper \in {"running", "stopped", "done"}
  /\ sent \in [Publishers -> 0 .. MaxSent]
  /\ taken \in [Dirs -> Seq(Message)]
  /\ epoch \in 0 .. MaxResets
  /\ raced \in BOOLEAN

(* Publishing, popping and taking out of the middle, in any order, keep    *)
(* head, tail and count of each ring in step (sea_bus.c indexes the arrays *)
(* with them without a check), and what lies between head and tail is      *)
(* messages, never a slot nobody has written.                              *)
RingsWellFormed ==
  \A d \in Dirs : WellFormed(ring[d]) /\ Contents(ring[d]) \in Seq(Message)

(***************************************************************************)
(* Each mutex covers its whole critical section: whoever is inside holds   *)
(* it, so the room a publisher saw is still there when it writes the tail, *)
(* what it loaded still fits, and a consumer about to sleep has really     *)
(* nothing to take.                                                        *)
(***************************************************************************)
Inside(t) == pc[t] \in {"alloc", "store"}

PublisherHolds(t) ==
  /\ Inside(t) <=> lock[DirOf(t)] = t
  /\ Inside(t) => draft[t] # NULL /\ ~IsFull(ring[DirOf(t)])
  /\ pc[t] = "store" => /\ NextString(t) \in Strings(DirOf(t))
                        /\ reg[t] + NextSize(t) <= ArenaSize

ConsumerHolds(c) ==
  /\ pc[c] = "towait" <=> lock["in"] = c
  /\ pc[c] = "towait" => ring["in"].count = 0

HoldersKnown ==
  /\ lock["out"] \in OutPublishers \union {NULL}
  /\ lock["in"] \in InPublishers \union Consumers \union {NULL}
  /\ running <=> stopper = "running"

LockDiscipline ==
  /\ \A t \in Publishers : PublisherHolds(t)
  /\ \A c \in Consumers : ConsumerHolds(c)
  /\ HoldersKnown

(* No message waits behind a lost wakeup: while some consumer sleeps in    *)
(* pthread_cond_timedwait, every queued message has a consumer that has    *)
(* been woken for it and is on its way to the queue.                       *)
NoLostWakeup ==
  running /\ Waiting # {} =>
    ring["in"].count <= Cardinality({c \in Consumers : pc[c] = "woken"})

(* The messages of one direction that are queued or were handed out.       *)
Queued(d) == {Contents(ring[d])[i] : i \in 1 .. ring[d].count}
Taken(d) == {taken[d][i] : i \in 1 .. Len(taken[d])}
Held(d) == Queued(d) \union Taken(d)

(* "The message data is valid until the next arena reset" (sea_bus.h): the *)
(* strings of a message queued or handed out are still its own.            *)
DataValidUntilReset ==
  \A d \in Dirs : \A m \in Held(d) : m.epoch = epoch =>
    \A k \in DOMAIN m.ptr : m.ptr[k] # NULL => Intact(m, k)

(* The one thing that can spoil them is a lost update of the arena offset: *)
(* neither a full arena, nor a full queue, nor a reset does.               *)
IntactUnlessRaced == ~raced => DataValidUntilReset

(* Each direction is a bounded queue that loses, repeats and reorders      *)
(* nothing: the rings implement FifoQueue.                                 *)
ChannelName(m) == m.id.chan
InQueue == INSTANCE FifoQueue WITH
             Capacity <- QueueSize, Channel <- ChannelName,
             queue <- Contents(ring["in"]), taken <- taken["in"]
OutQueue == INSTANCE FifoQueue WITH
              Capacity <- QueueSize, Channel <- ChannelName,
              queue <- Contents(ring["out"]), taken <- taken["out"]

InboundIsFifo == InQueue!Spec
OutboundIsFifo == OutQueue!Spec

(* A message the agent has been sent is handed to it, unless the bus stops *)
(* first: this needs no timeout to happen, so no wakeup is lost.           *)
InboundServed ==
  \A t \in InPublishers : \A n \in 1 .. MaxSent :
    (\E i \in 1 .. ring["in"].count :
       Contents(ring["in"])[i].id.thread = t /\ Contents(ring["in"])[i].id.n = n)
    ~> (~running \/ \E i \in 1 .. Len(taken["in"]) :
                     taken["in"][i].id.thread = t /\ taken["in"][i].id.n = n)

(* Once running is cleared every consumer gets out of the call, though the *)
(* broadcast of sea_bus_destroy misses the one that tested running just    *)
(* before and sleeps just after: that one is saved by its timeout, so a    *)
(* wait that nobody signals is assumed to end after timeout_ms.            *)
StopReleasesConsumers ==
  (\A c \in Consumers : WF_vars(WaitTimesOut(c)))
    => (~running ~> \A c \in Consumers : pc[c] = "eof")
=============================================================================

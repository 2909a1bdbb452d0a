----------------------------- MODULE SeaTelegram -----------------------------
(***************************************************************************)
(* The Telegram client of src/telegram/sea_telegram.c and the arena it     *)
(* works in, in both of its modes: the direct mode of main.c, where one    *)
(* thread polls, handles commands and answers, and the channel of the      *)
(* gateway, whose poll thread and dispatch thread share one poll_arena.    *)
(*                                                                         *)
(* The arena is counted in units and every unit knows what was written     *)
(* into it last.  An update is its text in the body of the response and    *)
(* its nodes in the parse tree; what the user meant by it is a choice made *)
(* when it is handled.  An allocation is one step: SeaBus splits it, and   *)
(* here two that overlap are a crossing already.                           *)
(***************************************************************************)
EXTENDS Integers, Sequences, FiniteSets, SequencesExt

CONSTANTS
  Room,        \* units of the arena
  Sizes,       \* units the text of an update may take in the response
  Costs,       \* units a command or a chat may need of the arena
  Limit,       \* updates in one response at most (limit=10)
  MaxUpdates,  \* bound: updates users send
  MaxSends     \* bound: replies of the dispatch thread

ASSUME TelegramAssumption ==
  /\ Room \in Nat \ {0} /\ Limit \in Nat \ {0}
  /\ Sizes \subseteq Nat \ {0} /\ Sizes # {}
  /\ Costs \subseteq Nat
  /\ MaxUpdates \in Nat /\ MaxSends \in Nat

VARIABLES
  direct,    \* run_telegram, or the channel of the gateway
  arrived,   \* the sizes of the updates that have reached the server
  last,      \* last_update_id
  phase,     \* where sea_telegram_poll is
  batch,     \* its updates still to be handled: number, text and nodes
  body,      \* where the response lies, and its updates, until it is parsed
  saved,     \* saved_offset of sea_telegram_poll, 0 outside of it
  offset,    \* SeaArena.offset
  mem,       \* what was written into each unit last
  send,      \* where each thread is in sea_telegram_send
  model,     \* s_agent_cfg.model, when it was swapped
  sends,     \* replies the dispatch thread has begun
  open,      \* history: the saved offsets not yet restored, oldest first
  crossed,   \* history: one of them was not restored or used in order
  misread    \* history: an update was read from memory that is not its own

memVars == <<offset, mem>>
pollVars == <<phase, batch, body, saved>>
historyVars == <<open, crossed, misread>>
vars == <<direct, arrived, last, pollVars, memVars, send, model, sends, historyVars>>

Threads == {"poll", "dispatch"}
Windows == {"batch", "reply", "dispatch"}
Blank == 0
Body == -1
Nodes == -2
Scratch == -3
NoBody == [at |-> 0, updates |-> <<>>]
NoModel == [at |-> 0, n |-> 0, fresh |-> FALSE]
AtRest == [phase |-> "none", saved |-> 0]

Init ==
  /\ direct \in BOOLEAN
  /\ arrived = <<>> /\ last = 0
  /\ phase = "idle" /\ batch = <<>> /\ body = NoBody /\ saved = 0
  /\ offset = 0 /\ mem = [c \in 0..Room - 1 |-> Blank]
  /\ send = [t \in Threads |-> AtRest]
  /\ model = NoModel /\ sends = 0
  /\ open = <<>> /\ crossed = FALSE /\ misread = FALSE

-----------------------------------------------------------------------------
(* Memory.                                                                 *)

Written(from, n, what) == [c \in DOMAIN mem |-> IF c \in from..from + n - 1 THEN what ELSE mem[c]]

Holds(at, n, what) == \A c \in at..at + n - 1 : mem[c] = what

Fits(n) == offset + n <= Room

(* Mutant: the bump is lost when the request is for one unit. *)
AllocWithoutBump(n, what) ==
  /\ mem' = Written(offset, n, what)
  /\ offset' = IF n = 1 THEN offset ELSE offset + n

(* sea_arena_alloc, and what its caller writes there. *)
Alloc(n, what) ==
  /\ mem' = Written(offset, n, what)
  /\ offset' = offset + n

(* A window is the time from saving the offset to restoring it.  Windows   *)
(* that open and close like a stack, with allocations only by the owner of *)
(* the innermost one, cannot hurt each other.                              *)
Owner(window) == IF window = "dispatch" THEN "dispatch" ELSE "poll"

Opens(window) == open' = Append(open, window)

Uses(thread) ==
  /\ UNCHANGED open
  /\ crossed' = (crossed \/ (open # <<>> /\ Owner(Last(open)) # thread))

Closes(window) ==
  /\ \E i \in DOMAIN open : open[i] = window /\ open' = RemoveAt(open, i)
  /\ crossed' = (crossed \/ (open # <<>> /\ Last(open) # window))

-----------------------------------------------------------------------------
(* Receiving updates.                                                      *)

(* Someone sends the bot a message. *)
Arrive ==
  /\ Len(arrived) < MaxUpdates
  /\ \E size \in Sizes : arrived' = Append(arrived, size)
  /\ UNCHANGED <<direct, last, pollVars, memVars, send, model, sends, historyVars>>

(* sea_telegram_poll, up to the request. *)
Ask ==
  /\ phase = "idle"
  /\ phase' = "asking" /\ saved' = offset
  /\ Opens("batch")
  /\ crossed' = (open # <<>> /\ crossed)
  /\ UNCHANGED <<direct, arrived, last, batch, body, memVars, send, model, sends, misread>>

(* What the server answers: the first updates after the last one seen. *)
Response ==
  [i \in 1..(IF Len(arrived) - last < Limit THEN Len(arrived) - last ELSE Limit) |->
    [n |-> last + i, size |-> arrived[last + i]]]

Total(updates) ==
  LET sum[i \in 0..Len(updates)] == IF i = 0 THEN 0 ELSE sum[i - 1] + updates[i].size
  IN sum[Len(updates)]

(* write_callback: a buffer that is too small is left behind for one twice *)
(* as large.  The buffers of 1, 2, ... 2^k units that a text of n units    *)
(* goes through take 2^(k+1) - 1 units, and as many as fit are written.    *)
Caps(n) ==
  LET doubled[k \in 0..n] == IF k = 0 THEN 1 ELSE 2 * doubled[k - 1]
  IN {doubled[k] : k \in 0..n}

Cap(n) == CHOOSE p \in Caps(n) : p >= n /\ \A q \in Caps(n) : q >= n => p <= q

Buffers(n) == 2 * Cap(n) - 1

Reached(n) == CHOOSE u \in {2 * p - 1 : p \in Caps(n)} \union {0} :
  /\ u <= Buffers(n) /\ Fits(u)
  /\ \A v \in {2 * p - 1 : p \in Caps(n)} : v <= Buffers(n) /\ Fits(v) => v <= u

(* The end of a poll, good or bad: the offset goes back, and tg_poll of    *)
(* the channel empties the arena besides.                                  *)
Leave ==
  /\ phase' = "idle" /\ batch' = <<>> /\ body' = NoBody
  /\ offset' = IF direct THEN saved ELSE 0
  /\ Closes("batch")
  /\ saved' = 0
  /\ UNCHANGED misread

(* The request fails, or its answer has a status other than 200. *)
AskFails ==
  /\ phase = "asking"
  /\ Leave
  /\ UNCHANGED <<direct, arrived, last, mem, send, model, sends>>

(* The response arrives and fits. *)
Receive ==
  /\ phase = "asking" /\ Fits(Buffers(Total(Response)))
  /\ LET n == Total(Response)
         at == offset + Cap(n) - 1 IN
     /\ phase' = "received"
     /\ body' = [at |-> at, updates |-> Response]
     /\ Alloc(Buffers(n), Body)
     /\ model' = [model EXCEPT !.fresh = FALSE]
     /\ Uses("poll")
  /\ UNCHANGED <<direct, arrived, last, batch, saved, send, sends, misread>>

(* The response arrives and does not fit: curl is told to give up. *)
ReceiveOverflows ==
  /\ phase = "asking" /\ ~Fits(Buffers(Total(Response)))
  /\ mem' = Written(offset, Reached(Total(Response)), Body)
  /\ model' = [model EXCEPT !.fresh = FALSE]
  /\ Leave
  /\ UNCHANGED <<direct, arrived, last, send, sends>>

BodyIntact == Holds(body.at, Total(body.updates), Body)

(* Where the text of update i lies and where its nodes will. *)
Parsed(i) ==
  [n |-> body.updates[i].n,
   at |-> body.at + Total(SubSeq(body.updates, 1, i - 1)), size |-> body.updates[i].size,
   nodes |-> offset + i - 1]

(* sea_json_parse: the strings stay in the body, the nodes are allocated.  *)
(* A body that was overwritten may be parsed to anything.                  *)
Parse ==
  /\ phase = "received"
  /\ LET n == Len(body.updates) IN
     \/ /\ Fits(n)
        /\ phase' = "handling"
        /\ batch' = [i \in 1..n |-> Parsed(i)]
        /\ body' = NoBody
        /\ Alloc(n, Nodes)
        /\ Uses("poll")
        /\ UNCHANGED <<saved, misread>>
     \/ /\ ~Fits(n) \/ ~BodyIntact
        /\ mem' = Written(offset, IF Fits(n) THEN n ELSE Room - offset, Nodes)
        /\ Leave
  /\ UNCHANGED <<direct, arrived, last, send, model, sends>>

-----------------------------------------------------------------------------
(* Answering.                                                              *)

(* sea_telegram_send: the offset is saved, as the handler has left it, *)
SendBegins(t, window) ==
  /\ send[t].phase = "none"
  /\ send' = [send EXCEPT ![t] = [phase |-> "asked", saved |-> offset']]
  /\ Opens(window)
  /\ UNCHANGED crossed

(* the server answers, or not, or not so that it fits, *)
SendAnswered(t) ==
  /\ send[t].phase = "asked"
  /\ send' = [send EXCEPT ![t].phase = "answered"]
  /\ \/ Fits(1) /\ Alloc(1, Scratch) /\ Uses(t)
     \/ UNCHANGED <<memVars, open, crossed>>
  /\ UNCHANGED <<direct, arrived, last, pollVars, model, sends, misread>>

WindowOf(t) == IF t = "dispatch" THEN "dispatch" ELSE "reply"

(* and the offset goes back to where it was. *)
SendEnds(t) ==
  /\ send[t].phase = "answered"
  /\ offset' = send[t].saved
  /\ send' = [send EXCEPT ![t] = AtRest]
  /\ Closes(WindowOf(t))
  /\ UNCHANGED <<direct, arrived, last, pollVars, mem, model, sends, misread>>

(* tg_send, for a reply from the bus. *)
DispatchSends ==
  /\ ~direct /\ sends < MaxSends
  /\ sends' = sends + 1
  /\ UNCHANGED memVars
  /\ SendBegins("dispatch", "dispatch")
  /\ UNCHANGED <<direct, arrived, last, pollVars, model, misread>>

-----------------------------------------------------------------------------
(* Handling updates.                                                       *)

Intact(u) == Holds(u.at, u.size, Body) /\ mem[u.nodes] = Nodes

MaxOf(a, b) == IF a > b THEN a ELSE b

Handling ==
  /\ phase = "handling" /\ batch # <<>> /\ send["poll"].phase = "none"

(* Mutant: an update is seen only when its handler has succeeded. *)
SeesIfAnswered(answer) ==
  /\ Intact(Head(batch))
  /\ last' = IF answer THEN MaxOf(last, Head(batch).n) ELSE last
  /\ batch' = Tail(batch)

(* The update is what was sent, and it counts as seen before it is handled.*)
Sees(answer) ==
  /\ Intact(Head(batch))
  /\ last' = MaxOf(last, Head(batch).n)
  /\ batch' = Tail(batch)

Replies(answer) ==
  IF answer THEN SendBegins("poll", "reply") ELSE UNCHANGED <<send, open, crossed>>

(* From another chat, without a text, or answered with nothing. *)
PassOver ==
  /\ Handling /\ Sees(FALSE)
  /\ UNCHANGED <<direct, arrived, phase, body, saved, memVars, send, model, sends, historyVars>>

(* tg_bus_handler: published, or refused with a reply.  In the direct mode *)
(* a command that is answered with a constant.                             *)
AnswerPlainly ==
  /\ Handling
  /\ \E refused \in BOOLEAN :
       /\ direct => refused
       /\ UNCHANGED memVars
       /\ Sees(refused) /\ Replies(refused)
  /\ UNCHANGED <<direct, arrived, phase, body, saved, model, sends, misread>>

(* telegram_handler, tools, delegation and the agent: they allocate what   *)
(* they need, and what they report without room is an error.               *)
Work ==
  /\ Handling /\ direct
  /\ \E n \in {c \in Costs : Fits(c)} : Alloc(n, Scratch)
  /\ Sees(TRUE) /\ Replies(TRUE)
  /\ UNCHANGED <<direct, arrived, phase, body, saved, model, sends, misread>>

(* /model, /audit, /usage: the reply is a copy in the arena, or nothing.   *)
Show ==
  /\ Handling /\ direct
  /\ IF Fits(1) THEN Alloc(1, Scratch) ELSE UNCHANGED memVars
  /\ Sees(Fits(1)) /\ Replies(Fits(1))
  /\ UNCHANGED <<direct, arrived, phase, body, saved, model, sends, misread>>

(* /model set: the name is copied into the arena of the poll, and the      *)
(* configuration keeps a pointer to it.                                    *)
SwapModel ==
  /\ Handling /\ direct /\ Fits(1)
  /\ LET n == Head(batch).n
         noted == Written(offset, 1, n) IN
     /\ model' = [at |-> offset, n |-> n, fresh |-> TRUE]
     /\ mem' = IF Fits(2) THEN [noted EXCEPT ![offset + 1] = Scratch] ELSE noted
     /\ offset' = offset + (IF Fits(2) THEN 2 ELSE 1)
     /\ Sees(Fits(2)) /\ Replies(Fits(2))
  /\ UNCHANGED <<direct, arrived, phase, body, saved, sends, misread>>

(* An update whose memory is no longer its own may be taken for anything,  *)
(* its number too.                                                         *)
Misread ==
  /\ Handling /\ ~Intact(Head(batch))
  /\ misread' = TRUE
  /\ batch' = Tail(batch)
  /\ last' \in {last, MaxOf(last, Head(batch).n), Len(arrived)}
  /\ UNCHANGED <<direct, arrived, phase, body, saved, memVars, send, model, sends, open, crossed>>

EndBatch ==
  /\ phase = "handling" /\ batch = <<>> /\ send["poll"].phase = "none"
  /\ Leave
  /\ UNCHANGED <<direct, arrived, last, mem, send, model, sends>>

-----------------------------------------------------------------------------
Handle == PassOver \/ AnswerPlainly \/ Work \/ Show \/ SwapModel \/ Misread

Next ==
  \/ Arrive \/ Ask \/ AskFails \/ Receive \/ ReceiveOverflows \/ Parse
  \/ Handle \/ EndBatch
  \/ DispatchSends
  \/ \E t \in Threads : SendAnswered(t) \/ SendEnds(t)

(* Both threads go on, a request returns (curl gives up after 120 seconds) *)
(* and one that is made again and again succeeds some time; nothing is     *)
(* known of when users write or replies come.                              *)
Fairness ==
  /\ WF_vars(Ask) /\ WF_vars(AskFails \/ Receive \/ ReceiveOverflows) /\ SF_vars(Receive)
  /\ WF_vars(Parse) /\ WF_vars(Handle) /\ WF_vars(EndBatch)
  /\ \A t \in Threads : WF_vars(SendAnswered(t)) /\ WF_vars(SendEnds(t))

Spec == Init /\ [][Next]_vars /\ Fairness

-----------------------------------------------------------------------------
(* Properties.                                                             *)

(* As long as every offset is restored in the reverse order of its saving  *)
(* and nobody allocates inside another thread's window, the text and the   *)
(* nodes of every update of a batch stay its own until it is handled, and  *)
(* the body of the response until it is parsed.  The direct mode, where    *)
(* one thread does everything, never leaves that order.                    *)
IntactWhenNested ==
  /\ direct => ~crossed
  /\ ~crossed =>
       /\ \A i \in DOMAIN batch : Intact(batch[i])
       /\ phase = "received" => BodyIntact

(* Whatever fails on the way, a poll gives the whole arena back: unless    *)
(* windows have crossed, it is empty whenever nobody is inside one.        *)
NothingLeaks == open = <<>> /\ ~crossed => offset = 0

(* The name /model set has put into the arena is intact until the response *)
(* to a later getUpdates arrives; from then on s_agent_cfg.model points to *)
(* whatever is written over it.                                            *)
NamedUntilNextResponse == model.fresh => mem[model.at] = model.n

(* The arena of a poll keeps what lies in it, is given back, and keeps the *)
(* name that was left in it until something else is written there.         *)
PollArenaHolds == IntactWhenNested /\ NothingLeaks /\ NamedUntilNextResponse

(* A response that the arena cannot hold together with its parse tree is   *)
(* asked for again, with what has arrived meanwhile.                       *)
TooLarge == ~(Buffers(Total(Response)) + Len(Response) <= Room)

(* Every update is handled in the end, unless the response it is part of   *)
(* is too large for the arena, or an update was misread.                   *)
EveryUpdateHandled ==
  \A u \in 1..MaxUpdates :
    (Len(arrived) >= u) ~> (last >= u \/ TooLarge \/ misread)
=============================================================================

--------------------------- MODULE SeaAgentProofs ---------------------------
(***************************************************************************)
(* Proofs about the agent loop, for any number of rounds, fallbacks and    *)
(* chats, any depth of agents that spawn agents, any allocation that       *)
(* fails, any row that the database refuses and a loss of the process at   *)
(* any time: requests hold the calls in order, each result after its call, *)
(* every tool run is accounted for in the audit trail, failover leaves     *)
(* nobody out, and the chat log is a sequence of turns.                    *)
(***************************************************************************)
EXTENDS SeaAgent, SequenceTheorems, FiniteSetTheorems, TLAPS

Kinds == {"chat", "compact", "spawn"}
Frames == [kind : Kinds, id : Ids, hist : Seq(Rows), extra : Seq(Messages),
           input : Rows, limit : 0 .. Rounds, sent : Nat, pc : Pcs, round : 0 .. Rounds,
           k : 0 .. Fallbacks + 1, last : {"none", "net", "http"},
           tried : SUBSET (0 .. Fallbacks), ran : 0 .. Rounds]
Outcomes == [error : {"OK", "OOM", "TIMEOUT", "IO", "INVALID", "CRASH"},
             text : {"none", "answer", "errorPage", "rejected"},
             tried : SUBSET (0 .. Fallbacks)]

Types ==
  /\ stack \in Seq(Frames) /\ Len(stack) <= MaxDepth /\ log \in Seq(Rows)
  /\ db \in BOOLEAN /\ broken \in SUBSET Ids
  /\ chats \in 0 .. MaxChats /\ shortages \in 0 .. MaxShortages /\ refused \in 0 .. MaxRefusals
  /\ started \in Nat /\ audited \in Nat /\ unaudited \in Nat /\ lost \in Nat
  /\ outcome \in Outcomes

(* The tool rounds of a chat are in its messages, each with its call. *)
CallsInOrder(f) ==
  /\ Len(f.extra) <= 2 * f.round
  /\ {f.extra[i].n : i \in Calls(f.extra)} = 1 .. f.round
  /\ \A i, j \in Calls(f.extra) : i < j => f.extra[i].n < f.extra[j].n
  /\ \A i \in 1 .. Len(f.extra) : f.extra[i].role = "result" =>
       i > 1 /\ f.extra[i - 1] = Message("call", f.id, f.extra[i].n, "call")

(* The providers before the one that is next were asked, or passed over    *)
(* when there was no room to ask them.                                     *)
PassedOver(f) == (0 .. f.k - 1) \ f.tried

(* A chat under way is within its rounds, has run as many tools as it has  *)
(* rounds behind it, or one more while one is running; and only want of    *)
(* room cuts its request or passes over a provider.                        *)
Busy(f) == f.pc \in {"tool", "waits", "ok", "unset"}
FrameInv(f, short) ==
  /\ f.limit = IF f.kind = "compact" THEN 0 ELSE Rounds
  /\ f.round <= f.limit /\ (f.pc # "build" => f.round < f.limit)
  /\ f.ran = IF Busy(f) THEN f.round + 1 ELSE f.round
  /\ CallsInOrder(f)
  /\ f.sent <= Len(Request(f)) /\ (f.pc = "ask" /\ f.sent # Len(Request(f)) => short > 0)
  /\ (f.pc # "fallback" => f.k <= Fallbacks) /\ Cardinality(PassedOver(f)) <= short

(* Whoever is not the innermost waits for its tool, and agents are spawned *)
(* by chats only.                                                          *)
StackInv ==
  \A i \in 1 .. Len(stack) :
    /\ stack[i].id = <<chats, i>>
    /\ stack[i].pc = "waits" <=> i < Len(stack)
    /\ stack[i].kind = "spawn" <=> i > 1
    /\ FrameInv(stack[i], shortages)

(* The window of a chat begins with a question, if every turn is whole.    *)
BeginsWithUser(f) == f.kind = "chat" /\ f.hist # <<>> => f.hist[1].role = "user"
HistInv == broken = {} => \A i \in 1 .. Len(stack) : BeginsWithUser(stack[i])

(* Every tool is accounted for. *)
One(busy) == IF busy THEN 1 ELSE 0
ToolsRunning == IF stack = <<>> THEN 0 ELSE Len(stack) - 1 + One(Busy(Top))
AuditInv ==
  /\ started = audited + unaudited + lost + ToolsRunning
  /\ IF db THEN unaudited <= refused ELSE audited = 0

(* What is logged is a chat that has its answer. *)
Ending == stack # <<>> /\ Top.pc \in {"asked", "answered"}
EndInv == Ending => Len(stack) = 1 /\ Top.kind = "chat" /\ outcome.text \in {"answer", "errorPage"}

(* The turns of the log belong to chats that are over, but for the one     *)
(* whose answer is to be written.                                          *)
RowInv(i) ==
  /\ log[i].of[2] = 1 /\ log[i].of[1] <= chats
  /\ IsQuestion(log[i]) \/ IsAnswer(log[i])
  /\ stack # <<>> => log[i].of[1] < chats \/ IsOpen(i)
  /\ \A k \in i + 1 .. Len(log) : log[k].of[1] > log[i].of[1] \/ (k = i + 1 /\ OneTurn(i))
  /\ \/ log[i].of \in broken \/ IsOpen(i)
     \/ i < Len(log) /\ OneTurn(i)
     \/ i > 1 /\ OneTurn(i - 1)
LogInv ==
  /\ \A i \in 1 .. Len(log) : RowInv(i)
  /\ At("answered") => Top.id \in broken \/ (Len(log) >= 1 /\ IsOpen(Len(log)))
  /\ broken = {} =>
       /\ Len(log) % 2 = IF At("answered") THEN 1 ELSE 0
       /\ \A i \in 1 .. Len(log) : i % 2 = 1 => log[i].role = "user"

IInv == Types /\ StackInv /\ HistInv /\ AuditInv /\ FailoverComplete /\ EndInv /\ LogInv

-----------------------------------------------------------------------------
(* The sizes the constants are assumed to have. *)
LEMMA Sizes ==
  /\ Rounds \in Nat /\ Rounds >= 1 /\ Fallbacks \in Nat /\ ExtraRoom \in Nat
  /\ Window \in Nat /\ CompactFrom \in Nat /\ MaxChats \in Nat
  /\ MaxDepth \in Nat /\ MaxDepth >= 1 /\ MaxShortages \in Nat /\ MaxRefusals \in Nat
  /\ 2 * Rounds <= ExtraRoom /\ Window % 2 = 0
BY AgentAssumption

(* The innermost chat. *)
LEMMA TopFrame ==
  ASSUME Types, StackInv, stack # <<>>
  PROVE  /\ Len(stack) \in Nat /\ Len(stack) >= 1 /\ Len(stack) \in 1 .. Len(stack)
         /\ Top \in Frames /\ Top.id = <<chats, Len(stack)>> /\ Top.pc # "waits"
         /\ (Top.kind = "spawn" <=> Len(stack) > 1) /\ FrameInv(Top, shortages)
         /\ Top = stack[Len(stack)]
<1>1. stack \in Seq(Frames) /\ Len(stack) \in Nat /\ Len(stack) >= 1
  BY DEF Types
<1>2. Len(stack) \in 1 .. Len(stack) /\ ~(Len(stack) < Len(stack))
  BY <1>1
<1>3. Top \in Frames
  BY <1>1, <1>2, ElementOfSeq DEF Top
<1>4. QED BY <1>1, <1>2, <1>3 DEF Top, StackInv

(* The numbers of a state are numbers. *)
LEMMA Numbers ==
  ASSUME Types
  PROVE  /\ chats \in Nat /\ shortages \in Nat /\ refused \in Nat
         /\ started \in Nat /\ audited \in Nat /\ unaudited \in Nat /\ lost \in Nat
BY Sizes DEF Types

(* The providers passed over are finitely many. *)
LEMMA PassedOverFinite ==
  ASSUME NEW f \in Frames
  PROVE  IsFiniteSet(PassedOver(f)) /\ Cardinality(PassedOver(f)) \in Nat
<1>1. f.k - 1 \in Int
  BY Sizes DEF Frames
<1>2. IsFiniteSet(0 .. f.k - 1)
  BY <1>1, FS_Interval
<1>3. IsFiniteSet(PassedOver(f))
  BY <1>2, FS_Subset DEF PassedOver
<1>4. QED BY <1>3, FS_CardinalityType

LEMMA NotTriedFinite ==
  Cardinality((0 .. Fallbacks) \ outcome.tried) \in Nat
<1>1. 0 \in Int /\ Fallbacks \in Int
  BY Sizes
<1>2. IsFiniteSet(0 .. Fallbacks)
  BY <1>1, FS_Interval
<1>3. IsFiniteSet((0 .. Fallbacks) \ outcome.tried)
  BY <1>2, FS_Subset
<1>4. QED BY <1>3, FS_CardinalityType

(* The messages of a request: the history, those of the tools, the prompt. *)
LEMMA RequestShape ==
  ASSUME NEW f \in Frames
  PROVE  /\ Len(f.hist) \in Nat /\ Len(f.extra) \in Nat
         /\ Len(Request(f)) = Len(f.hist) + Len(f.extra) + 1
         /\ DOMAIN Request(f) = 1 .. Len(f.hist) + Len(f.extra) + 1
         /\ \A i \in 1 .. Len(f.hist) : Request(f)[i] = f.hist[i]
         /\ \A i \in 1 .. Len(f.extra) : Request(f)[Len(f.hist) + i] = f.extra[i]
         /\ Request(f)[Len(f.hist) + Len(f.extra) + 1] = f.input
<1> DEFINE a == f.hist
           b == f.extra
           q == Request(f)
<1>1. a \in Seq(Rows) /\ b \in Seq(Messages) /\ f.input \in Rows /\ Rows \subseteq Messages
  BY DEF Frames, Messages
<1>2. a \in Seq(Messages) /\ Len(a) \in Nat /\ Len(b) \in Nat
  BY <1>1
<1>3. q = (a \o b) \o <<f.input>>
  BY DEF Request
<1> DEFINE c == a \o b
           d == f.input
<1> HIDE DEF a, b, q, d
<1>4. /\ c \in Seq(Messages) /\ Len(c) = Len(a) + Len(b)
      /\ \A i \in 1 .. Len(a) + Len(b) : c[i] = IF i <= Len(a) THEN a[i] ELSE b[i - Len(a)]
  BY <1>1, <1>2, ConcatProperties
<1>5. <<d>> \in Seq(Messages) /\ Len(<<d>>) = 1 /\ <<d>>[1] = d
  BY <1>1 DEF d
<1> DEFINE e == <<d>>
<1> HIDE DEF c, e
<1>6. /\ c \o e \in Seq(Messages) /\ Len(c \o e) = Len(c) + Len(e)
      /\ \A i \in 1 .. Len(c) + Len(e) : (c \o e)[i] = IF i <= Len(c) THEN c[i] ELSE e[i - Len(c)]
  BY <1>4, <1>5, ConcatProperties DEF e
<1>7. q = c \o e
  BY <1>3 DEF c, e, d
<1>8. Len(e) = 1 /\ e[1] = d
  BY <1>5 DEF e
<1>9. Len(q) = Len(a) + Len(b) + 1 /\ q \in Seq(Messages)
  BY <1>4, <1>6, <1>7, <1>8
<1>10. DOMAIN q = 1 .. Len(a) + Len(b) + 1
  BY <1>9
<1>11. \A i \in 1 .. Len(a) : q[i] = a[i]
  BY <1>2, <1>4, <1>6, <1>7, <1>8
<1>12. ASSUME NEW i \in 1 .. Len(b)
       PROVE  q[Len(a) + i] = b[i]
  <2>1. Len(a) + i \in 1 .. Len(c) /\ ~(Len(a) + i <= Len(a)) /\ (Len(a) + i) - Len(a) = i
    BY <1>2, <1>4
  <2>2. q[Len(a) + i] = c[Len(a) + i]
    BY <1>2, <1>4, <1>6, <1>7, <1>8, <2>1
  <2>3. QED BY <1>4, <2>1, <2>2
<1>13. q[Len(a) + Len(b) + 1] = d
  BY <1>2, <1>4, <1>6, <1>7, <1>8
<1>14. QED BY <1>2, <1>9, <1>10, <1>11, <1>12, <1>13 DEF a, b, q, d

(* More allocations that failed explain as much. *)
LEMMA FrameInvLater ==
  ASSUME NEW f \in Frames, NEW s \in Nat, NEW t \in Nat, s <= t, FrameInv(f, s)
  PROVE  FrameInv(f, t)
<1>1. Cardinality(PassedOver(f)) \in Nat
  BY PassedOverFinite
<1>2. Cardinality(PassedOver(f)) <= t
  BY <1>1 DEF FrameInv
<1>3. f.pc = "ask" /\ f.sent # Len(Request(f)) => t > 0
  BY DEF FrameInv
<1>4. QED BY <1>2, <1>3 DEF FrameInv

-----------------------------------------------------------------------------
(* What is to be shown of the log in a step that leaves it as it is, and   *)
(* is not the end of a turn.                                               *)
LEMMA LogKept ==
  ASSUME IInv, ~At("answered"), ~At("answered")', UNCHANGED <<log, broken>>,
         stack' # <<>> => (stack # <<>> /\ chats' = chats) \/ chats' = chats + 1,
         chats' = chats \/ chats' = chats + 1
  PROVE  LogInv'
<1>1. log \in Seq(Rows) /\ Len(log) \in Nat /\ chats \in Nat
  BY Numbers DEF IInv, Types
<1>2. \A i : ~IsOpen(i) /\ ~IsOpen(i)'
  BY DEF IsOpen
<1>3. \A i : OneTurn(i)' = OneTurn(i)
  BY DEF OneTurn, IsQuestion, IsAnswer
<1>4. ASSUME NEW i \in 1 .. Len(log)
      PROVE  RowInv(i)'
  <2>1. RowInv(i)
    BY DEF IInv, LogInv
  <2>2. log[i].of[1] \in Nat
    <3>1. log[i] \in Rows
      BY <1>1, ElementOfSeq
    <3>2. QED BY <3>1, Sizes DEF Rows, Ids
  <2>3. log[i].of[2] = 1 /\ log[i].of[1] <= chats /\ (stack # <<>> => log[i].of[1] < chats)
    BY <1>2, <2>1 DEF RowInv
  <2>4. log[i].of[1] <= chats' /\ (stack' # <<>> => log[i].of[1] < chats')
    BY <1>1, <2>2, <2>3
  <2>5. /\ \A k \in i + 1 .. Len(log) : log[k].of[1] > log[i].of[1] \/ (k = i + 1 /\ OneTurn(i))
        /\ \/ log[i].of \in broken
           \/ i < Len(log) /\ OneTurn(i)
           \/ i > 1 /\ OneTurn(i - 1)
        /\ IsQuestion(log[i]) \/ IsAnswer(log[i])
    BY <1>2, <2>1 DEF RowInv
  <2>6. IsQuestion(log[i])' \/ IsAnswer(log[i])'
    BY <2>5 DEF IsQuestion, IsAnswer
  <2>7. QED BY <1>3, <2>3, <2>4, <2>5, <2>6 DEF RowInv
<1>5. broken = {} => /\ Len(log) % 2 = 0
                     /\ \A i \in 1 .. Len(log) : i % 2 = 1 => log[i].role = "user"
  BY DEF IInv, LogInv
<1>6. QED BY <1>4, <1>5 DEF LogInv

(* What is to be shown of a step of the innermost chat: its new frame is   *)
(* in order, and what it ran is accounted for.                             *)
LEMMA TopReplaced ==
  ASSUME IInv, stack # <<>>, NEW f \in Frames, f.id = Top.id, f.kind = Top.kind,
         f.hist = Top.hist, ~Ending, f.pc \notin {"waits", "asked", "answered"},
         FrameInv(f, shortages'),
         stack' = [stack EXCEPT ![Len(stack)] = f],
         UNCHANGED <<db, logVars, chats, lost, outcome>>,
         shortages' \in 0 .. MaxShortages, shortages <= shortages',
         refused' \in 0 .. MaxRefusals, started' \in Nat, audited' \in Nat, unaudited' \in Nat,
         started' + One(Busy(Top)) + (audited + unaudited)
           = started + One(Busy(f)) + (audited' + unaudited'),
         IF db THEN unaudited' <= refused' ELSE audited' = 0
  PROVE  IInv'
<1> DEFINE n == Len(stack)
<1>1. /\ n \in Nat /\ n >= 1 /\ n \in 1 .. n
      /\ Top \in Frames /\ Top.id = <<chats, n>> /\ Top.pc # "waits"
      /\ (Top.kind = "spawn" <=> n > 1) /\ FrameInv(Top, shortages) /\ Top = stack[n]
  BY TopFrame DEF IInv
<1>2. stack \in Seq(Frames) /\ n <= MaxDepth /\ shortages \in Nat /\ shortages' \in Nat
  BY Sizes DEF IInv, Types
<1>3. /\ stack' \in Seq(Frames) /\ Len(stack') = n
      /\ \A i \in 1 .. n : stack'[i] = IF i = n THEN f ELSE stack[i]
  <2> DEFINE u == [stack EXCEPT ![n] = f]
  <2>1. /\ u \in Seq(Frames) /\ Len(u) = n
        /\ \A i \in 1 .. n : u[i] = IF i = n THEN f ELSE stack[i]
    BY <1>1, <1>2, ExceptSeq
  <2>2. stack' = u
    OBVIOUS
  <2> HIDE DEF u
  <2>3. QED BY <2>1, <2>2
<1> HIDE DEF n
<1>4. Types'
  BY <1>2, <1>3 DEF IInv, Types, logVars
<1>5. StackInv'
  <2>1. ASSUME NEW i \in 1 .. n
        PROVE  /\ stack'[i].id = <<chats, i>> /\ (stack'[i].pc = "waits" <=> i < n)
               /\ (stack'[i].kind = "spawn" <=> i > 1) /\ FrameInv(stack'[i], shortages')
    <3>1. CASE i = n
      BY <1>1, <1>3, <3>1
    <3>2. CASE i # n
      <4>1. stack'[i] = stack[i] /\ stack[i] \in Frames
        BY <1>2, <1>3, <3>2, ElementOfSeq DEF n
      <4>2. /\ stack[i].id = <<chats, i>> /\ (stack[i].pc = "waits" <=> i < n)
            /\ (stack[i].kind = "spawn" <=> i > 1) /\ FrameInv(stack[i], shortages)
        BY DEF IInv, StackInv, n
      <4>3. QED BY <1>2, <4>1, <4>2, FrameInvLater
    <3>3. QED BY <3>1, <3>2
  <2>2. QED BY <1>3, <2>1 DEF StackInv
<1>6. HistInv'
  <2>1. ASSUME broken = {}, NEW i \in 1 .. n
        PROVE  BeginsWithUser(stack'[i])
    <3>1. BeginsWithUser(stack[i])
      BY <2>1 DEF IInv, HistInv, n
    <3>2. QED BY <1>1, <1>3, <3>1 DEF BeginsWithUser
  <2>2. QED BY <1>3, <2>1 DEF HistInv, logVars
<1>7. Top' = f /\ stack' # <<>>
  <2>1. stack'[n] = f /\ n # 0
    BY <1>1, <1>3
  <2>2. stack' = <<>> => Len(stack') = 0
    BY EmptySeq
  <2>3. QED BY <1>3, <2>1, <2>2 DEF Top
<1>8. AuditInv'
  <2>1. ToolsRunning = n - 1 + One(Busy(Top)) /\ ToolsRunning' = n - 1 + One(Busy(f))
    <3>1. Busy(Top)' = Busy(f)
      BY <1>7 DEF Busy
    <3>2. One(Busy(Top)) \in {0, 1} /\ One(Busy(f)) \in {0, 1}
      BY DEF One
    <3>3. One(Busy(Top))' = One(Busy(f))
      BY <1>7, <3>1 DEF One
    <3>4. QED BY <1>3, <1>7, <3>3 DEF ToolsRunning, n
  <2>2. started = audited + unaudited + lost + ToolsRunning
    BY DEF IInv, AuditInv
  <2>3. started' = audited' + unaudited' + lost' + ToolsRunning'
    <3> DEFINE a == One(Busy(Top))
               b == One(Busy(f))
               s1 == started'
               d1 == audited'
               u1 == unaudited'
    <3>1. /\ n \in Nat /\ a \in Nat /\ b \in Nat /\ s1 \in Nat /\ d1 \in Nat /\ u1 \in Nat
          /\ started \in Nat /\ audited \in Nat /\ unaudited \in Nat /\ lost \in Nat
      BY <1>1, Numbers DEF One, IInv
    <3>2. s1 + a + (audited + unaudited) = started + b + (d1 + u1)
      OBVIOUS
    <3>3. started = audited + unaudited + lost + (n - 1 + a)
      BY <2>1, <2>2, Zenon
    <3> HIDE DEF a, b, s1, d1, u1
    <3>4. s1 = d1 + u1 + lost + (n - 1 + b)
      BY <3>1, <3>2, <3>3
    <3>5. ToolsRunning' = n - 1 + b /\ lost' = lost
      BY <2>1 DEF b
    <3>6. d1 + u1 + lost' + ToolsRunning' = d1 + u1 + lost + (n - 1 + b)
      BY <3>5, Zenon
    <3>7. QED BY <3>4, <3>6, Zenon DEF s1, d1, u1
  <2>4. QED BY <2>3 DEF AuditInv
<1>9. FailoverComplete'
  <2>1. Cardinality((0 .. Fallbacks) \ outcome.tried) \in Nat
    BY NotTriedFinite
  <2>2. QED BY <1>2, <2>1 DEF IInv, FailoverComplete
<1>10. EndInv'
  BY <1>7 DEF EndInv, Ending
<1>11. LogInv'
  <2>1. ~At("answered") /\ ~At("answered")'
    BY <1>7 DEF At, Ending
  <2>2. UNCHANGED <<log, broken>> /\ chats' = chats
    BY DEF logVars
  <2>3. QED BY <2>1, <2>2, LogKept
<1>12. QED BY <1>4, <1>5, <1>6, <1>8, <1>9, <1>10, <1>11 DEF IInv

-----------------------------------------------------------------------------
(* The provider that is next becomes one of those behind. *)
LEMMA NextProvider ==
  ASSUME NEW f \in Frames, NEW g \in Frames, g.k = f.k + 1, f.k <= Fallbacks,
         NEW s \in Nat, Cardinality(PassedOver(f)) <= s
  PROVE  /\ g.tried = f.tried \union {f.k} => Cardinality(PassedOver(g)) <= s
         /\ g.tried = f.tried => Cardinality(PassedOver(g)) <= s + 1
<1>1. f.k \in Nat /\ f.tried \subseteq 0 .. Fallbacks /\ g.k - 1 = f.k
  <2>1. f.k \in 0 .. Fallbacks + 1 /\ f.tried \subseteq 0 .. Fallbacks
    BY DEF Frames
  <2>2. f.k \in Nat
    BY <2>1, Sizes
  <2>3. QED BY <2>1, <2>2
<1>2. IsFiniteSet(PassedOver(f)) /\ Cardinality(PassedOver(f)) \in Nat
  BY PassedOverFinite
<1>3. IsFiniteSet(PassedOver(g)) /\ Cardinality(PassedOver(g)) \in Nat
  BY PassedOverFinite
<1>4. ASSUME g.tried = f.tried \union {f.k}
      PROVE  Cardinality(PassedOver(g)) <= s
  <2>1. \A x \in 0 .. f.k : x # f.k => x \in 0 .. f.k - 1
    BY <1>1
  <2>2. PassedOver(g) \subseteq PassedOver(f)
    BY <1>1, <1>4, <2>1 DEF PassedOver
  <2>3. Cardinality(PassedOver(g)) <= Cardinality(PassedOver(f))
    BY <1>2, <2>2, FS_Subset
  <2>4. QED BY <1>2, <1>3, <2>3
<1>5. ASSUME g.tried = f.tried
      PROVE  Cardinality(PassedOver(g)) <= s + 1
  <2> DEFINE P == PassedOver(f)
             Q == P \union {f.k}
  <2>1. \A x \in 0 .. f.k : x # f.k => x \in 0 .. f.k - 1
    BY <1>1
  <2>2. PassedOver(g) \subseteq Q
    BY <1>1, <1>5, <2>1 DEF PassedOver
  <2>3. IsFiniteSet(P) /\ Cardinality(P) \in Nat /\ Cardinality(P) <= s
    BY <1>2
  <2> HIDE DEF P
  <2>4. IsFiniteSet(Q) /\ (Cardinality(Q) = Cardinality(P) \/ Cardinality(Q) = Cardinality(P) + 1)
    BY <2>3, FS_AddElement
  <2> HIDE DEF Q
  <2>5. Cardinality(PassedOver(g)) <= Cardinality(Q)
    BY <2>2, <2>4, FS_Subset
  <2>6. QED BY <1>3, <2>3, <2>4, <2>5
<1>6. QED BY <1>4, <1>5

(* A call, alone or with its result, continues the order of a chat. *)
LEMMA CallAdded ==
  ASSUME NEW f \in Frames, NEW g \in Frames, CallsInOrder(f),
         g.id = f.id, g.round = f.round + 1, f.ran = f.round + 1, NEW m \in 1 .. 2,
         Len(g.extra) = Len(f.extra) + m,
         \A i \in 1 .. Len(f.extra) : g.extra[i] = f.extra[i],
         g.extra[Len(f.extra) + 1] = Call(f),
         m = 2 => /\ g.extra[Len(f.extra) + 2].role = "result"
                  /\ g.extra[Len(f.extra) + 2].n = f.ran
  PROVE  CallsInOrder(g)
<1> DEFINE e == f.extra
           x == g.extra
           L == Len(e)
           r == f.round
<1>1. /\ e \in Seq(Messages) /\ x \in Seq(Messages) /\ L \in Nat /\ r \in Nat
      /\ DOMAIN e = 1 .. L /\ DOMAIN x = 1 .. L + m
  BY Sizes DEF Frames
<1>2. x[L + 1].role = "call" /\ x[L + 1].n = r + 1 /\ x[L + 1] = Message("call", g.id, r + 1, "call")
  BY DEF Call, Message
<1>3. m = 2 => x[L + 2].role = "result" /\ x[L + 2].n = r + 1
  OBVIOUS
<1>4. \A i \in 1 .. L : x[i] = e[i]
  OBVIOUS
<1>5. /\ L <= 2 * r
      /\ {e[i].n : i \in Calls(e)} = 1 .. r
      /\ \A i, j \in Calls(e) : i < j => e[i].n < e[j].n
      /\ \A i \in 1 .. L : e[i].role = "result" =>
           i > 1 /\ e[i - 1] = Message("call", f.id, e[i].n, "call")
  BY DEF CallsInOrder
<1>6. Calls(e) = {i \in 1 .. L : e[i].role = "call"}
  BY <1>1 DEF Calls
<1>7. Calls(x) = {i \in 1 .. L + m : x[i].role = "call"}
  BY <1>1 DEF Calls
<1>8. Len(x) = L + m /\ g.round = r + 1 /\ g.id = f.id
  OBVIOUS
<1> HIDE DEF e, x, L, r
<1>9. Calls(x) = Calls(e) \union {L + 1}
  <2>1. \A i \in 1 .. L + m : i \in 1 .. L \/ i = L + 1 \/ (m = 2 /\ i = L + 2)
    BY <1>1
  <2>2. L + 1 \in 1 .. L + m /\ \A i \in 1 .. L : i \in 1 .. L + m
    BY <1>1
  <2>3. QED BY <1>2, <1>3, <1>4, <1>6, <1>7, <2>1, <2>2
<1>10. \A i \in Calls(e) : x[i] = e[i] /\ i \in 1 .. L /\ e[i].n \in 1 .. r
  BY <1>4, <1>5, <1>6
<1>11. {x[i].n : i \in Calls(x)} = 1 .. r + 1
  <2>1. \A i \in Calls(x) : x[i].n \in 1 .. r + 1
    BY <1>1, <1>2, <1>9, <1>10
  <2>2. ASSUME NEW c \in 1 .. r + 1
        PROVE  \E i \in Calls(x) : x[i].n = c
    <3>1. CASE c = r + 1
      BY <1>2, <1>9, <3>1
    <3>2. CASE c # r + 1
      <4>1. c \in 1 .. r
        BY <1>1, <3>2
      <4>2. \E i \in Calls(e) : e[i].n = c
        BY <1>5, <4>1
      <4>3. QED BY <1>9, <1>10, <4>2
    <3>3. QED BY <3>1, <3>2
  <2>3. QED BY <2>1, <2>2
<1>12. \A i, j \in Calls(x) : i < j => x[i].n < x[j].n
  <2>1. ASSUME NEW i \in Calls(x), NEW j \in Calls(x), i < j
        PROVE  x[i].n < x[j].n
    <3>1. i \in Calls(e)
      BY <1>1, <1>9, <1>10, <2>1
    <3>2. CASE j \in Calls(e)
      BY <1>5, <1>10, <2>1, <3>1, <3>2
    <3>3. CASE j = L + 1
      <4>1. x[i].n = e[i].n /\ e[i].n \in 1 .. r
        BY <1>10, <3>1
      <4>2. x[j].n = r + 1
        BY <1>2, <3>3
      <4>3. \A c \in 1 .. r : c < r + 1
        BY <1>1
      <4>4. QED BY <4>1, <4>2, <4>3
    <3>4. QED BY <1>9, <3>2, <3>3
  <2>2. QED BY <2>1
<1>13. ASSUME NEW i \in 1 .. L + m, x[i].role = "result"
       PROVE  i > 1 /\ x[i - 1] = Message("call", g.id, x[i].n, "call")
  <2>1. CASE i \in 1 .. L
    <3>1. e[i].role = "result" /\ x[i] = e[i]
      BY <1>4, <1>13, <2>1
    <3>2. i > 1 /\ e[i - 1] = Message("call", f.id, e[i].n, "call")
      BY <1>5, <2>1, <3>1
    <3>3. i - 1 \in 1 .. L
      BY <1>1, <2>1, <3>2
    <3>4. QED BY <1>4, <1>8, <3>1, <3>2, <3>3
  <2>2. CASE m = 2 /\ i = L + 2
    <3>1. i > 1 /\ i - 1 = L + 1
      BY <1>1, <2>2
    <3>2. QED BY <1>2, <1>3, <2>2, <3>1
  <2>3. QED BY <1>1, <1>2, <1>13, <2>1, <2>2
<1>14. L + m <= 2 * (r + 1)
  BY <1>1, <1>5
<1>15. QED BY <1>8, <1>11, <1>12, <1>13, <1>14 DEF CallsInOrder, x

(* A tool is done: its call is among the messages of the chat. *)
Done(h, input) == [h EXCEPT !.pc = "build", !.round = @ + 1, !.input = input]
LEMMA RoundDone ==
  ASSUME NEW f \in Frames, FrameInv(f, shortages), shortages \in Nat, Busy(f),
         NEW input \in Rows, NEW h, h = WithResult(f) \/ h = WithoutResult(f)
  PROVE  LET g == Done(h, input) IN
         /\ g \in Frames /\ g.id = f.id /\ g.kind = f.kind /\ g.pc = "build" /\ g.hist = f.hist
         /\ FrameInv(g, shortages)
<1> DEFINE g == Done(h, input)
           c == Call(f)
           o == Result(f)
           e == f.extra
<1>1. /\ f.pc \notin {"build", "ask", "fallback"} /\ f.round < f.limit /\ f.limit \in 0 .. Rounds
      /\ f.round \in 0 .. Rounds /\ f.ran = f.round + 1 /\ f.ran \in 0 .. Rounds /\ f.id \in Ids
      /\ CallsInOrder(f) /\ f.limit = IF f.kind = "compact" THEN 0 ELSE Rounds
      /\ f.k <= Fallbacks /\ Cardinality(PassedOver(f)) <= shortages
  BY DEF FrameInv, Busy, Frames
<1>2. c \in Messages /\ o \in Messages
  BY <1>1 DEF Call, Result, Message, Messages
<1>3. e \in Seq(Messages) /\ Len(e) \in Nat /\ Len(e) <= 2 * f.round
  BY <1>1 DEF Frames, CallsInOrder
<1>4. HasRoom(f)
  <2>1. Len(e) < ExtraRoom - 1
    BY Sizes, <1>1, <1>3
  <2>2. QED BY <2>1 DEF HasRoom
<1>5. f.round + 1 \in 0 .. Rounds /\ f.round + 1 <= f.limit
  BY <1>1, Sizes
<1>6. PICK m \in 1 .. 2, x \in Seq(Messages) :
        /\ h = [f EXCEPT !.extra = x] /\ Len(x) = Len(e) + m
        /\ \A i \in 1 .. Len(e) : x[i] = e[i]
        /\ x[Len(e) + 1] = c /\ (m = 2 => x[Len(e) + 2] = o)
  <2>1. CASE h = WithResult(f)
    <3> DEFINE x == e \o <<c, o>>
    <3>1. h = [f EXCEPT !.extra = x]
      BY <1>4, <2>1 DEF WithResult
    <3>2. <<c, o>> \in Seq(Messages) /\ Len(<<c, o>>) = 2 /\ <<c, o>>[1] = c /\ <<c, o>>[2] = o
      BY <1>2
    <3> DEFINE p == <<c, o>>
    <3> HIDE DEF p, c, o, e
    <3>3. /\ e \o p \in Seq(Messages) /\ Len(e \o p) = Len(e) + Len(p)
          /\ \A i \in 1 .. Len(e) + Len(p) :
               (e \o p)[i] = IF i <= Len(e) THEN e[i] ELSE p[i - Len(e)]
      BY <1>3, <3>2, ConcatProperties DEF p
    <3>4. x = e \o p
      BY DEF p
    <3>5. Len(p) = 2 /\ p[1] = c /\ p[2] = o
      BY <3>2 DEF p
    <3> HIDE DEF x
    <3>6. x[Len(e) + 1] = c
      BY <1>3, <3>3, <3>4, <3>5
    <3>7. x[Len(e) + 2] = o
      BY <1>3, <3>3, <3>4, <3>5
    <3>8. \A i \in 1 .. Len(e) : x[i] = e[i]
      BY <1>3, <3>3, <3>4, <3>5
    <3>9. x \in Seq(Messages) /\ Len(x) = Len(e) + 2 /\ 2 \in 1 .. 2
      BY <3>3, <3>4, <3>5
    <3>10. QED BY <3>1, <3>6, <3>7, <3>8, <3>9
  <2>2. CASE h = WithoutResult(f)
    <3> DEFINE x == Append(e, c)
    <3>1. h = [f EXCEPT !.extra = x]
      BY <1>4, <2>2 DEF WithoutResult
    <3> HIDE DEF c, e
    <3>2. /\ x \in Seq(Messages) /\ Len(x) = Len(e) + 1
          /\ \A i \in 1 .. Len(e) : x[i] = e[i]
          /\ x[Len(e) + 1] = c
      BY <1>2, <1>3, AppendProperties
    <3> HIDE DEF x
    <3>3. 1 \in 1 .. 2 /\ 1 # 2
      OBVIOUS
    <3>4. QED BY <3>1, <3>2, <3>3
  <2>3. QED BY <2>1, <2>2
<1>7. g = [f EXCEPT !.extra = x, !.pc = "build", !.round = f.round + 1, !.input = input]
  BY <1>6 DEF Frames, Done
<1>8. /\ g \in Frames /\ g.extra = x /\ g.pc = "build" /\ g.round = f.round + 1
      /\ g.id = f.id /\ g.kind = f.kind /\ g.limit = f.limit /\ g.ran = f.ran /\ g.hist = f.hist
      /\ g.k = f.k /\ g.tried = f.tried /\ g.sent = f.sent
  BY <1>5, <1>7 DEF Frames, Pcs
<1> HIDE DEF g
<1>9. CallsInOrder(g)
  <2>1. m = 2 => o.role = "result" /\ o.n = f.ran
    BY DEF Result, Message
  <2>2. /\ Len(g.extra) = Len(f.extra) + m
        /\ \A i \in 1 .. Len(f.extra) : g.extra[i] = f.extra[i]
        /\ g.extra[Len(f.extra) + 1] = Call(f)
        /\ m = 2 => /\ g.extra[Len(f.extra) + 2].role = "result"
                    /\ g.extra[Len(f.extra) + 2].n = f.ran
    BY <1>6, <1>8, <2>1
  <2>3. QED BY <1>1, <1>8, <2>2, CallAdded
<1>10. ~Busy(g) /\ g.pc = "build"
  BY <1>8 DEF Busy
<1>11. g.sent <= Len(Request(g))
  <2>1. /\ Len(Request(f)) = Len(f.hist) + Len(e) + 1
        /\ Len(Request(g)) = Len(f.hist) + Len(x) + 1 /\ Len(f.hist) \in Nat
    BY <1>8, RequestShape
  <2>2. f.sent <= Len(Request(f)) /\ f.sent \in Nat
    BY DEF FrameInv, Frames
  <2>3. Len(x) >= Len(e) /\ Len(x) \in Nat
    BY <1>3, <1>6
  <2> HIDE DEF e
  <2>4. QED BY <1>3, <1>8, <2>1, <2>2, <2>3
<1>12. PassedOver(g) = PassedOver(f)
  BY <1>8 DEF PassedOver
<1>13. FrameInv(g, shortages)
  BY <1>1, <1>5, <1>8, <1>9, <1>10, <1>11, <1>12 DEF FrameInv
<1>14. QED BY <1>8, <1>13 DEF g

-----------------------------------------------------------------------------
(* A frame of which only the place in its round differs. *)
LEMMA SameCalls ==
  ASSUME NEW f \in Frames, NEW g \in Frames, f.extra = g.extra, f.hist = g.hist,
         f.id = g.id, f.round = g.round
  PROVE  Len(Request(f)) = Len(Request(g)) /\ (CallsInOrder(f) => CallsInOrder(g))
<1>1. Len(Request(f)) = Len(Request(g))
  BY RequestShape
<1>2. QED BY <1>1 DEF CallsInOrder

(* Each step of the innermost chat that stays within it. *)
LEMMA SendsKeeps ==
  ASSUME IInv, stack # <<>>, Top.pc \in {"build", "fallback"}, Top.round < Top.limit,
         Top.k <= Fallbacks, Sends(Top),
         UNCHANGED <<db, logVars, chats, toolVars, refused, outcome>>
  PROVE  IInv'
<1> DEFINE f(n) == [Top EXCEPT !.pc = "ask", !.sent = n]
<1>1. /\ Top \in Frames /\ FrameInv(Top, shortages) /\ ~Busy(Top) /\ ~Ending
      /\ Len(Request(Top)) \in Nat
  BY TopFrame, RequestShape DEF IInv, Busy, Ending
<1>2. /\ shortages \in 0 .. MaxShortages /\ refused \in 0 .. MaxRefusals /\ shortages \in Nat
      /\ started \in Nat /\ audited \in Nat /\ unaudited \in Nat
      /\ IF db THEN unaudited <= refused ELSE audited = 0
  BY Numbers DEF IInv, Types, AuditInv
<1>3. PICK n \in 0 .. Len(Request(Top)) :
        /\ stack' = [stack EXCEPT ![Len(stack)] = f(n)]
        /\ \/ Enough /\ n = Len(Request(Top))
           \/ Short
  <2>1. \A n \in 0 .. Len(Request(Top)) - 1 : n \in 0 .. Len(Request(Top))
    BY <1>1
  <2>2. Len(Request(Top)) \in 0 .. Len(Request(Top))
    BY <1>1
  <2>3. QED BY <2>1, <2>2 DEF Sends, Replace
<1>4. /\ f(n) \in Frames /\ f(n).id = Top.id /\ f(n).kind = Top.kind /\ f(n).pc = "ask"
      /\ f(n).round = Top.round /\ f(n).limit = Top.limit /\ f(n).ran = Top.ran
      /\ f(n).extra = Top.extra /\ f(n).hist = Top.hist /\ f(n).sent = n
      /\ f(n).k = Top.k /\ f(n).tried = Top.tried
  <2>1. n \in Nat
    BY <1>1
  <2>2. QED BY <1>1, <2>1 DEF Frames, Pcs
<1> DEFINE g == f(n)
<1>5. stack' = [stack EXCEPT ![Len(stack)] = g]
  BY <1>3
<1>6. /\ g \in Frames /\ g.id = Top.id /\ g.kind = Top.kind /\ g.pc = "ask"
      /\ g.round = Top.round /\ g.limit = Top.limit /\ g.ran = Top.ran
      /\ g.extra = Top.extra /\ g.hist = Top.hist /\ g.sent = n
      /\ g.k = Top.k /\ g.tried = Top.tried
  BY <1>4
<1> HIDE DEF g, f
<1>7. /\ shortages' \in 0 .. MaxShortages /\ shortages <= shortages' /\ shortages' \in Nat
      /\ (n # Len(Request(Top)) => shortages' > 0)
  BY <1>2, <1>3, Sizes DEF Enough, Short
<1>8. ~Busy(g)
  BY <1>6 DEF Busy
<1>9. Len(Request(Top)) = Len(Request(g)) /\ CallsInOrder(g)
  BY <1>1, <1>6, SameCalls DEF FrameInv
<1>10. n <= Len(Request(Top))
  BY <1>1
<1>11. PassedOver(g) = PassedOver(Top) /\ Cardinality(PassedOver(Top)) \in Nat
  BY <1>1, <1>6, PassedOverFinite DEF PassedOver
<1>12. Cardinality(PassedOver(g)) <= shortages'
  BY <1>1, <1>2, <1>7, <1>11 DEF FrameInv
<1>13. FrameInv(g, shortages')
  BY <1>1, <1>6, <1>7, <1>8, <1>9, <1>10, <1>12 DEF FrameInv
<1>14. /\ started' + One(Busy(Top)) + (audited + unaudited)
           = started + One(Busy(g)) + (audited' + unaudited')
       /\ started' \in Nat /\ audited' \in Nat /\ unaudited' \in Nat /\ refused' \in 0 .. MaxRefusals
       /\ IF db THEN unaudited' <= refused' ELSE audited' = 0
  BY <1>1, <1>2, <1>8 DEF One, toolVars
<1>15. g.pc \notin {"waits", "asked", "answered"} /\ lost' = lost
  BY <1>6 DEF toolVars
<1>16. QED BY <1>1, <1>5, <1>6, <1>7, <1>13, <1>14, <1>15, TopReplaced

LEMMA RequestsKeep ==
  ASSUME IInv, BuildRequest \/ FallbackRequest
  PROVE  IInv'
<1>1. /\ stack # <<>> /\ Top.pc \in {"build", "fallback"} /\ Sends(Top)
      /\ UNCHANGED <<db, logVars, chats, toolVars, refused, outcome>>
  BY DEF BuildRequest, FallbackRequest, At
<1>2. Top.round < Top.limit /\ Top.k <= Fallbacks
  <2>1. FrameInv(Top, shortages)
    BY <1>1, TopFrame DEF IInv
  <2>2. QED BY <2>1 DEF BuildRequest, FallbackRequest, FrameInv, At
<1>3. QED BY <1>1, <1>2, SendsKeeps

LEMMA AskingKeeps ==
  ASSUME IInv, stack # <<>>, Top.pc \in {"ask", "fallback"}, Top.k <= Fallbacks, NEW f \in Frames,
         stack' = [stack EXCEPT ![Len(stack)] = f],
         f = [Top EXCEPT !.pc = "fallback", !.k = Top.k + 1, !.last = f.last, !.tried = f.tried],
         \/ f.tried = Top.tried \union {Top.k} /\ UNCHANGED shortages
         \/ f.tried = Top.tried /\ Short,
         UNCHANGED <<db, logVars, chats, toolVars, refused, outcome>>
  PROVE  IInv'
<1>1. Top \in Frames /\ FrameInv(Top, shortages) /\ ~Busy(Top) /\ ~Ending
  BY TopFrame DEF IInv, Busy, Ending
<1>2. /\ shortages \in 0 .. MaxShortages /\ refused \in 0 .. MaxRefusals /\ shortages \in Nat
      /\ started \in Nat /\ audited \in Nat /\ unaudited \in Nat
      /\ IF db THEN unaudited <= refused ELSE audited = 0
  BY Numbers DEF IInv, Types, AuditInv
<1>3. /\ f.id = Top.id /\ f.kind = Top.kind /\ f.pc = "fallback" /\ f.k = Top.k + 1
      /\ f.round = Top.round /\ f.limit = Top.limit /\ f.ran = Top.ran
      /\ f.extra = Top.extra /\ f.hist = Top.hist /\ f.sent = Top.sent
  BY <1>1 DEF Frames
<1>4. shortages' \in 0 .. MaxShortages /\ shortages <= shortages'
  BY Sizes, <1>2 DEF Short
<1>5. Cardinality(PassedOver(Top)) <= shortages
  BY <1>1 DEF FrameInv
<1>6. Cardinality(PassedOver(f)) <= shortages'
  BY <1>1, <1>2, <1>3, <1>5, NextProvider DEF Short
<1>7. ~Busy(f)
  BY <1>3 DEF Busy
<1>8. Len(Request(Top)) = Len(Request(f)) /\ CallsInOrder(f)
  BY <1>1, <1>3, SameCalls DEF FrameInv
<1>9. Top.round < Top.limit
  BY <1>1 DEF FrameInv
<1>10. FrameInv(f, shortages')
  BY <1>1, <1>3, <1>6, <1>7, <1>8, <1>9 DEF FrameInv
<1>11. /\ started' + One(Busy(Top)) + (audited + unaudited)
           = started + One(Busy(f)) + (audited' + unaudited')
       /\ started' \in Nat /\ audited' \in Nat /\ unaudited' \in Nat /\ refused' \in 0 .. MaxRefusals
       /\ IF db THEN unaudited' <= refused' ELSE audited' = 0
  BY <1>1, <1>2, <1>7 DEF One, toolVars
<1>12. f.pc \notin {"waits", "asked", "answered"} /\ lost' = lost
  BY <1>3 DEF toolVars
<1>13. QED BY <1>1, <1>3, <1>4, <1>10, <1>11, <1>12, TopReplaced

LEMMA ProviderFailsKeeps ==
  ASSUME IInv, NEW how \in {"net", "http"}, ProviderFails(how)
  PROVE  IInv'
<1> DEFINE f == [Top EXCEPT !.pc = "fallback", !.k = @ + 1, !.last = how,
                            !.tried = @ \union {Top.k}]
<1>1. stack # <<>> /\ Top.pc = "ask"
  BY DEF ProviderFails, At
<1>2. /\ Top \in Frames /\ Top.k <= Fallbacks
      /\ Top.k + 1 \in 0 .. Fallbacks + 1 /\ Top.k \in 0 .. Fallbacks
  <2>1. Top \in Frames /\ Top.k <= Fallbacks
    BY <1>1, TopFrame DEF IInv, FrameInv
  <2>2. Top.k \in 0 .. Fallbacks + 1
    BY <2>1 DEF Frames
  <2>3. QED BY <2>1, <2>2, Sizes
<1>3. /\ f \in Frames /\ f.tried = Top.tried \union {Top.k}
      /\ f = [Top EXCEPT !.pc = "fallback", !.k = Top.k + 1, !.last = f.last, !.tried = f.tried]
  BY <1>2 DEF Frames, Pcs
<1>4. stack' = [stack EXCEPT ![Len(stack)] = f]
  BY DEF ProviderFails, Replace
<1>5. UNCHANGED <<db, logVars, chats, toolVars, refused, outcome>> /\ UNCHANGED shortages
  BY DEF ProviderFails
<1> HIDE DEF f
<1>6. QED BY <1>1, <1>2, <1>3, <1>4, <1>5, AskingKeeps

LEMMA FallbackSkippedKeeps ==
  ASSUME IInv, FallbackSkipped
  PROVE  IInv'
<1> DEFINE f == [Top EXCEPT !.k = @ + 1]
<1>1. stack # <<>> /\ Top.pc = "fallback" /\ Top.k <= Fallbacks /\ Short
  BY DEF FallbackSkipped, At
<1>2. Top \in Frames /\ Top.k + 1 \in 0 .. Fallbacks + 1
  <2>1. Top \in Frames
    BY <1>1, TopFrame DEF IInv
  <2>2. Top.k \in 0 .. Fallbacks + 1
    BY <2>1 DEF Frames
  <2>3. QED BY <1>1, <2>1, <2>2, Sizes
<1>3. /\ f \in Frames /\ f.tried = Top.tried
      /\ f = [Top EXCEPT !.pc = "fallback", !.k = Top.k + 1, !.last = f.last, !.tried = f.tried]
  BY <1>1, <1>2 DEF Frames, Pcs
<1>4. stack' = [stack EXCEPT ![Len(stack)] = f]
  BY DEF FallbackSkipped, Replace
<1>5. UNCHANGED <<db, logVars, chats, toolVars, refused, outcome>>
  BY DEF FallbackSkipped
<1> HIDE DEF f
<1>6. QED BY <1>1, <1>2, <1>3, <1>4, <1>5, AskingKeeps

LEMMA ToolCalledKeeps ==
  ASSUME IInv, ToolCalled
  PROVE  IInv'
<1> DEFINE f == [Top EXCEPT !.pc = "tool", !.ran = @ + 1,
                            !.sent = 0, !.k = 0, !.last = "none", !.tried = {}]
<1>1. stack # <<>> /\ Top.pc = "ask"
  BY DEF ToolCalled, At
<1>2. Top \in Frames /\ FrameInv(Top, shortages) /\ ~Busy(Top) /\ ~Ending
  BY <1>1, TopFrame DEF IInv, Busy, Ending
<1>3. /\ shortages \in 0 .. MaxShortages /\ refused \in 0 .. MaxRefusals /\ shortages \in Nat
      /\ started \in Nat /\ audited \in Nat /\ unaudited \in Nat
      /\ IF db THEN unaudited <= refused ELSE audited = 0
  BY Numbers DEF IInv, Types, AuditInv
<1>4. /\ Top.ran = Top.round /\ Top.round < Top.limit /\ Top.limit \in 0 .. Rounds
      /\ Top.round \in 0 .. Rounds /\ Top.ran + 1 \in 0 .. Rounds
  <2>1. /\ Top.ran = Top.round /\ Top.round < Top.limit
        /\ Top.limit \in 0 .. Rounds /\ Top.round \in 0 .. Rounds
    BY <1>1, <1>2 DEF FrameInv, Frames
  <2>2. QED BY Sizes, <2>1
<1>5. /\ f \in Frames /\ f.id = Top.id /\ f.kind = Top.kind /\ f.pc = "tool"
      /\ f.round = Top.round /\ f.limit = Top.limit /\ f.ran = Top.round + 1
      /\ f.extra = Top.extra /\ f.hist = Top.hist /\ f.sent = 0 /\ f.k = 0 /\ f.tried = {}
  <2>1. 0 \in 0 .. Fallbacks + 1 /\ {} \subseteq 0 .. Fallbacks
    BY Sizes
  <2>2. QED BY <1>2, <1>4, <2>1 DEF Frames, Pcs
<1>6. stack' = [stack EXCEPT ![Len(stack)] = f]
  BY DEF ToolCalled, Replace
<1>7. /\ UNCHANGED <<db, logVars, chats, audited, unaudited, lost, shortages, refused, outcome>>
      /\ started' = started + 1
  BY DEF ToolCalled
<1> HIDE DEF f
<1>8. Busy(f) /\ f.pc \notin {"waits", "asked", "answered", "ask", "build", "fallback"}
  BY <1>5 DEF Busy
<1>9. CallsInOrder(f) /\ f.sent <= Len(Request(f))
  <2>1. CallsInOrder(f) /\ Len(Request(f)) \in Nat
    BY <1>2, <1>5, SameCalls, RequestShape DEF FrameInv
  <2>2. QED BY <1>5, <2>1
<1>10. f.k <= Fallbacks /\ Cardinality(PassedOver(f)) <= shortages
  <2>1. PassedOver(f) = {}
    BY <1>5 DEF PassedOver
  <2>2. QED BY <1>3, <1>5, <2>1, Sizes, FS_EmptySet
<1>11. FrameInv(f, shortages')
  BY <1>2, <1>4, <1>5, <1>7, <1>8, <1>9, <1>10 DEF FrameInv
<1>12. started' + One(Busy(Top)) + (audited + unaudited)
         = started + One(Busy(f)) + (audited' + unaudited')
  <2>1. One(Busy(Top)) = 0 /\ One(Busy(f)) = 1
    BY <1>2, <1>8 DEF One
  <2>2. QED BY <1>3, <1>7, <2>1
<1>13. /\ shortages' \in 0 .. MaxShortages /\ shortages <= shortages' /\ started' \in Nat
       /\ refused' \in 0 .. MaxRefusals /\ audited' \in Nat /\ unaudited' \in Nat
       /\ IF db THEN unaudited' <= refused' ELSE audited' = 0
  BY Sizes, <1>3, <1>7
<1>14. QED BY <1>1, <1>2, <1>5, <1>6, <1>7, <1>8, <1>11, <1>12, <1>13, TopReplaced

(* The audit trail gets its row, or the tool is counted as one without.    *)
AuditsOne ==
  /\ audited' \in Nat /\ unaudited' \in Nat /\ refused' \in 0 .. MaxRefusals
  /\ audited' + unaudited' = audited + unaudited + 1
  /\ IF db THEN unaudited' <= refused' ELSE audited' = 0
LEMMA AuditsCounts ==
  ASSUME IInv, Audits
  PROVE  AuditsOne
<1>1. /\ refused \in Nat /\ audited \in Nat /\ unaudited \in Nat /\ db \in BOOLEAN
      /\ refused \in 0 .. MaxRefusals
      /\ IF db THEN unaudited <= refused ELSE audited = 0
  BY Numbers DEF IInv, Types, AuditInv
<1>2. CASE db /\ Obeys /\ audited' = audited + 1 /\ UNCHANGED unaudited
  BY <1>1, <1>2, Sizes DEF Obeys, AuditsOne
<1>3. CASE Refuses /\ unaudited' = unaudited + 1 /\ UNCHANGED audited
  BY <1>1, <1>3, Sizes DEF Refuses, AuditsOne
<1>4. CASE ~db /\ Obeys /\ unaudited' = unaudited + 1 /\ UNCHANGED audited
  BY <1>1, <1>4, Sizes DEF Obeys, AuditsOne
<1>5. QED BY <1>2, <1>3, <1>4 DEF Audits

(* A tool that is done, in whatever way, is accounted for. *)
LEMMA ToolDoneKeeps ==
  ASSUME IInv, stack # <<>>, Top.pc \in {"tool", "ok", "unset"}, Audits,
         NEW h, h = WithResult(Top) \/ h = WithoutResult(Top), NextRound(h),
         UNCHANGED <<db, logVars, chats, started, lost, outcome>>,
         shortages' \in 0 .. MaxShortages, shortages <= shortages'
  PROVE  IInv'
<1> DEFINE g == Done(h, NextInput)
<1>1. Top \in Frames /\ FrameInv(Top, shortages) /\ Busy(Top) /\ Top.id \in Ids /\ ~Ending
  BY TopFrame DEF IInv, Busy, Frames, Ending
<1>2. /\ shortages \in Nat /\ shortages' \in Nat /\ started \in Nat
      /\ audited \in Nat /\ unaudited \in Nat
  BY Sizes, Numbers DEF IInv, Types
<1>3. NextInput \in Rows
  <2>1. Top.round < Top.limit /\ Top.limit \in 0 .. Rounds /\ Top.round \in 0 .. Rounds
    BY <1>1 DEF FrameInv, Frames, Busy
  <2>2. Top.round + 1 \in 0 .. Rounds
    BY Sizes, <2>1
  <2>3. QED BY <1>1, <2>2 DEF NextInput, Message, Rows
<1>4. /\ g \in Frames /\ g.id = Top.id /\ g.kind = Top.kind /\ g.pc = "build"
      /\ g.hist = Top.hist /\ FrameInv(g, shortages)
  <2> DEFINE t == Top
             y == NextInput
  <2>1. t \in Frames /\ FrameInv(t, shortages) /\ Busy(t) /\ y \in Rows
    BY <1>1, <1>3
  <2>2. h = WithResult(t) \/ h = WithoutResult(t)
    OBVIOUS
  <2> HIDE DEF t, y
  <2>3. LET d == Done(h, y) IN
        /\ d \in Frames /\ d.id = t.id /\ d.kind = t.kind /\ d.pc = "build" /\ d.hist = t.hist
        /\ FrameInv(d, shortages)
    BY <1>2, <2>1, <2>2, RoundDone
  <2>4. QED BY <2>3 DEF t, y
<1>5. stack' = [stack EXCEPT ![Len(stack)] = g]
  BY DEF NextRound, Replace, Done
<1> HIDE DEF g
<1>6. g.pc \notin {"waits", "asked", "answered"} /\ ~Busy(g) /\ FrameInv(g, shortages')
  BY <1>2, <1>4, FrameInvLater DEF Busy
<1>7. AuditsOne
  BY AuditsCounts
<1>8. started' + One(Busy(Top)) + (audited + unaudited)
        = started + One(Busy(g)) + (audited' + unaudited')
  <2>1. One(Busy(Top)) = 1 /\ One(Busy(g)) = 0
    BY <1>1, <1>6 DEF One
  <2> DEFINE a == audited + unaudited
             b == audited' + unaudited'
  <2>2. a \in Nat /\ b = a + 1 /\ started' = started
    <3>1. started' = started
      OBVIOUS
    <3>2. audited' + unaudited' = audited + unaudited + 1
      BY <1>7 DEF AuditsOne
    <3>3. QED BY <1>2, <3>1, <3>2
  <2> HIDE DEF a, b
  <2>3. started' + 1 + a = started + 0 + b
    BY <1>2, <2>2
  <2>4. QED BY <2>1, <2>3 DEF a, b
<1>9. /\ started' \in Nat /\ audited' \in Nat /\ unaudited' \in Nat /\ refused' \in 0 .. MaxRefusals
      /\ IF db THEN unaudited' <= refused' ELSE audited' = 0
  BY <1>2, <1>7 DEF AuditsOne
<1>10. QED BY <1>1, <1>4, <1>5, <1>6, <1>8, <1>9, TopReplaced

LEMMA ToolEndsKeeps ==
  ASSUME IInv, ToolEnds
  PROVE  IInv'
<1>1. /\ stack # <<>> /\ Top.pc \in {"tool", "ok", "unset"} /\ Audits
      /\ UNCHANGED <<db, logVars, chats, started, lost, outcome>>
  BY DEF ToolEnds
<1>2. shortages \in 0 .. MaxShortages
  BY DEF IInv, Types
<1>3. CASE Enough /\ NextRound(WithResult(Top))
  <2>1. shortages' \in 0 .. MaxShortages /\ shortages <= shortages'
    BY <1>2, <1>3, Sizes DEF Enough
  <2>2. QED BY <1>1, <1>3, <2>1, ToolDoneKeeps
<1>4. CASE Short /\ HasRoom(Top) /\ NextRound(WithoutResult(Top))
  <2>1. shortages' \in 0 .. MaxShortages /\ shortages <= shortages'
    BY <1>2, <1>4, Sizes DEF Short
  <2>2. QED BY <1>1, <1>4, <2>1, ToolDoneKeeps
<1>5. QED BY <1>3, <1>4 DEF ToolEnds

LEMMA ToolFailsKeeps ==
  ASSUME IInv, ToolFails
  PROVE  IInv'
<1>1. /\ stack # <<>> /\ Top.pc \in {"tool", "ok", "unset"} /\ Audits
      /\ UNCHANGED <<db, logVars, chats, started, lost, outcome>> /\ UNCHANGED shortages
      /\ NextRound(WithResult(Top)) \/ NextRound(WithoutResult(Top))
  BY DEF ToolFails, At
<1>2. shortages' \in 0 .. MaxShortages /\ shortages <= shortages'
  BY <1>1, Sizes DEF IInv, Types
<1>3. QED BY <1>1, <1>2, ToolDoneKeeps

-----------------------------------------------------------------------------
(* The tools under way: those that wait for their agent, and the innermost.*)
LEMMA RunningCount ==
  ASSUME IInv
  PROVE  Cardinality(Running) = ToolsRunning /\ ToolsRunning \in Nat
<1>1. stack \in Seq(Frames)
  BY DEF IInv, Types
<1>2. CASE stack = <<>>
  <2>1. Running = {} /\ ToolsRunning = 0
    BY <1>2 DEF Running, ToolsRunning
  <2>2. QED BY <2>1, FS_EmptySet
<1>3. CASE stack # <<>>
  <2> DEFINE n == Len(stack)
  <2>1. n \in Nat /\ n >= 1 /\ Top \in Frames /\ Top.pc # "waits" /\ Top = stack[n]
    BY <1>3, TopFrame DEF IInv, Top
  <2>2. \A i \in 1 .. n : stack[i].pc = "waits" <=> i < n
    BY DEF IInv, StackInv
  <2>3. Running = {i \in 1 .. n : Busy(stack[i])}
    BY <1>1 DEF Running, Busy
  <2>4. ToolsRunning = n - 1 + One(Busy(Top))
    BY <1>3 DEF ToolsRunning
  <2> HIDE DEF n
  <2>5. \A i \in 1 .. n : i = n \/ i < n
    BY <2>1
  <2>6. \A i \in 1 .. n : i < n => Busy(stack[i])
    BY <2>2 DEF Busy
  <2>7. CASE Busy(Top)
    <3>1. Running = 1 .. n /\ One(Busy(Top)) = 1
      BY <2>1, <2>3, <2>5, <2>6, <2>7 DEF One
    <3>2. Cardinality(1 .. n) = n
      <4>1. Cardinality(1 .. n) = IF 1 > n THEN 0 ELSE n - 1 + 1
        BY <2>1, FS_Interval
      <4>2. QED BY <2>1, <4>1
    <3>3. QED BY <2>1, <2>4, <3>1, <3>2
  <2>8. CASE ~Busy(Top)
    <3>1. Running = {i \in 1 .. n : i < n} /\ One(Busy(Top)) = 0
      BY <2>1, <2>3, <2>5, <2>6, <2>8 DEF One
    <3>2. Running = 1 .. n - 1
      BY <2>1, <3>1
    <3>3. Cardinality(1 .. n - 1) = n - 1
      <4>1. n - 1 \in Int /\ 1 \in Int
        BY <2>1
      <4>2. Cardinality(1 .. n - 1) = IF 1 > n - 1 THEN 0 ELSE (n - 1) - 1 + 1
        BY <4>1, FS_Interval
      <4>3. QED BY <2>1, <4>2
    <3>4. ToolsRunning = (n - 1) + 0
      BY <2>4, <3>1
    <3>5. (n - 1) + 0 = n - 1 /\ n - 1 \in Nat
      BY <2>1
    <3>6. QED BY <3>2, <3>3, <3>4, <3>5, Zenon
  <2>9. QED BY <2>7, <2>8
<1>4. QED BY <1>2, <1>3

(* A turn that is cut off: its chat is one of the broken ones. *)
LEMMA LogCut ==
  ASSUME IInv, At("answered"), stack' = <<>>, UNCHANGED <<log, chats>>,
         broken' = broken \union {Top.id}
  PROVE  LogInv'
<1>1. \A i : OneTurn(i)' = OneTurn(i)
  BY DEF OneTurn, IsQuestion, IsAnswer
<1>2. ASSUME NEW i \in 1 .. Len(log)
      PROVE  RowInv(i)'
  <2>1. /\ log[i].of[2] = 1 /\ log[i].of[1] <= chats
        /\ IsQuestion(log[i]) \/ IsAnswer(log[i])
        /\ \A k \in i + 1 .. Len(log) : log[k].of[1] > log[i].of[1] \/ (k = i + 1 /\ OneTurn(i))
        /\ \/ log[i].of \in broken \/ IsOpen(i)
           \/ i < Len(log) /\ OneTurn(i)
           \/ i > 1 /\ OneTurn(i - 1)
    BY DEF IInv, LogInv, RowInv
  <2>2. IsOpen(i) => log[i].of \in broken'
    BY DEF IsOpen
  <2>3. IsQuestion(log[i])' \/ IsAnswer(log[i])'
    BY <2>1 DEF IsQuestion, IsAnswer
  <2>4. QED BY <1>1, <2>1, <2>2, <2>3 DEF RowInv
<1>3. ~At("answered")' /\ broken' # {}
  BY DEF At
<1>4. QED BY <1>2, <1>3 DEF LogInv

(* The process is lost, with the tools that were under way. *)
LEMMA LossKeeps ==
  ASSUME IInv, stack # <<>>, NEW running \in Nat, Lose(running),
         shortages' \in 0 .. MaxShortages, refused' \in 0 .. MaxRefusals,
         audited' \in Nat, unaudited' \in Nat,
         audited' + unaudited' + running = audited + unaudited + ToolsRunning,
         IF db THEN unaudited' <= refused' ELSE audited' = 0,
         broken' = IF Top.pc = "answered" THEN broken \union {Top.id} ELSE broken
  PROVE  IInv'
<1>1. /\ stack' = <<>> /\ lost' = lost + running
      /\ outcome' = [outcome EXCEPT !.error = "CRASH", !.text = "none"]
      /\ db' = db /\ log' = log /\ chats' = chats /\ started' = started
  BY DEF Lose
<1>2. /\ outcome \in Outcomes /\ started \in Nat /\ audited \in Nat /\ unaudited \in Nat
      /\ lost \in Nat /\ ToolsRunning \in Nat
  BY Numbers, RunningCount DEF IInv, Types
<1>3. outcome' \in Outcomes /\ outcome'.error = "CRASH" /\ outcome'.text = "none"
  BY <1>1, <1>2 DEF Outcomes
<1>4. Types'
  <2>1. <<>> \in Seq(Frames) /\ Len(<<>>) = 0 /\ 0 <= MaxDepth
    BY Sizes
  <2>2. broken' \in SUBSET Ids
    <3>1. Top.id \in Ids /\ broken \in SUBSET Ids
      BY TopFrame DEF IInv, Types, Frames
    <3>2. QED BY <3>1
  <2>3. lost' \in Nat
    BY <1>1, <1>2
  <2>4. QED BY <1>1, <1>2, <1>3, <2>1, <2>2, <2>3 DEF IInv, Types
<1>5. StackInv' /\ HistInv'
  <2>1. \A i \in 1 .. Len(<<>>) : FALSE
    OBVIOUS
  <2>2. QED BY <1>1, <2>1 DEF StackInv, HistInv
<1>6. AuditInv'
  <2>1. ToolsRunning' = 0
    BY <1>1 DEF ToolsRunning
  <2>2. started = audited + unaudited + lost + ToolsRunning
    BY DEF IInv, AuditInv
  <2>3. started' = audited' + unaudited' + lost' + ToolsRunning'
    <3> DEFINE d1 == audited'
               u1 == unaudited'
               t == ToolsRunning
    <3>1. d1 \in Nat /\ u1 \in Nat /\ t \in Nat /\ d1 + u1 + running = audited + unaudited + t
      BY <1>2
    <3>2. started = audited + unaudited + lost + t
      BY <2>2
    <3> HIDE DEF d1, u1, t
    <3>3. started = d1 + u1 + (lost + running) + 0
      BY <1>2, <3>1, <3>2
    <3>4. d1 + u1 + lost' + ToolsRunning' = d1 + u1 + (lost + running) + 0
      BY <1>1, <2>1, Zenon
    <3>5. QED BY <1>1, <3>3, <3>4, Zenon DEF d1, u1
  <2>4. QED BY <1>1, <2>3 DEF AuditInv
<1>7. FailoverComplete' /\ EndInv'
  BY <1>1, <1>3 DEF FailoverComplete, EndInv, Ending
<1>8. LogInv'
  <2>1. CASE At("answered")
    <3>1. Top.pc = "answered"
      BY <2>1 DEF At
    <3>2. QED BY <1>1, <2>1, <3>1, LogCut
  <2>2. CASE ~At("answered")
    <3>1. Top.pc # "answered" /\ ~At("answered")'
      BY <1>1, <2>2 DEF At
    <3>2. QED BY <1>1, <2>2, <3>1, LogKept
  <2>3. QED BY <2>1, <2>2
<1>9. QED BY <1>4, <1>5, <1>6, <1>7, <1>8 DEF IInv

LEMMA CrashesKeep ==
  ASSUME IInv, BuildCrashes \/ ToolNameCrashes \/ ToolCrashes \/ Killed
  PROVE  IInv'
<1>1. stack # <<>>
  BY DEF BuildCrashes, ToolNameCrashes, ToolCrashes, Killed, At
<1>2. /\ audited \in Nat /\ unaudited \in Nat
      /\ shortages \in 0 .. MaxShortages /\ refused \in 0 .. MaxRefusals
      /\ IF db THEN unaudited <= refused ELSE audited = 0
  BY DEF IInv, Types, AuditInv
<1>3. Cardinality(Running) = ToolsRunning /\ ToolsRunning \in Nat
  BY RunningCount
<1>4. CASE BuildCrashes \/ ToolNameCrashes
  <2>1. Short /\ Lose(ToolsRunning) /\ UNCHANGED <<broken, audited, unaudited, refused>>
    BY <1>3, <1>4 DEF BuildCrashes, ToolNameCrashes, Crash
  <2>2. shortages' \in 0 .. MaxShortages
    BY <1>2, <2>1, Sizes DEF Short
  <2>3. Top.pc # "answered"
    BY <1>4 DEF BuildCrashes, ToolNameCrashes, At
  <2>4. QED BY <1>1, <1>2, <1>3, <2>1, <2>2, <2>3, LossKeeps
<1>5. CASE Killed
  <2>1. /\ Lose(ToolsRunning) /\ UNCHANGED <<audited, unaudited, shortages, refused>>
        /\ broken' = IF Top.pc = "answered" THEN broken \union {Top.id} ELSE broken
    BY <1>3, <1>5 DEF Killed
  <2>2. QED BY <1>1, <1>2, <1>3, <2>1, LossKeeps
<1>6. CASE ToolCrashes
  <2>1. Top.pc = "unset" /\ Audits /\ Lose(ToolsRunning - 1) /\ UNCHANGED <<broken, shortages>>
    BY <1>3, <1>6 DEF ToolCrashes, At
  <2>2. AuditsOne
    BY <2>1, AuditsCounts
  <2>3. ToolsRunning >= 1
    <3>1. Len(stack) \in Nat /\ Len(stack) >= 1
      BY <1>1, TopFrame DEF IInv
    <3>2. One(Busy(Top)) = 1
      BY <2>1 DEF One, Busy
    <3>3. ToolsRunning = Len(stack) - 1 + 1
      BY <1>1, <3>2 DEF ToolsRunning
    <3>4. QED BY <3>1, <3>3
  <2>4. ToolsRunning - 1 \in Nat
    BY <1>3, <2>3
  <2>5. audited' + unaudited' + (ToolsRunning - 1) = audited + unaudited + ToolsRunning
    <3> DEFINE a == audited + unaudited
               b == audited' + unaudited'
               t == ToolsRunning
    <3>1. b = a + 1
      BY <2>2 DEF AuditsOne
    <3>2. a \in Nat /\ t \in Nat
      BY <1>2, <1>3
    <3> HIDE DEF a, b, t
    <3>3. b + (t - 1) = a + t
      BY <3>1, <3>2
    <3>4. QED BY <3>3 DEF a, b, t
  <2>6. Top.pc # "answered"
    BY <2>1
  <2>7. shortages' \in 0 .. MaxShortages
    BY <1>2, <2>1
  <2>8. QED BY <1>1, <2>1, <2>2, <2>4, <2>5, <2>6, <2>7, LossKeeps DEF AuditsOne
<1>7. QED BY <1>4, <1>5, <1>6

-----------------------------------------------------------------------------
(* A chat that begins. *)
LEMMA FrameBegins ==
  ASSUME NEW kind \in Kinds, NEW id \in Ids, NEW hist \in Seq(Rows)
  PROVE  LET f == Frame(kind, id, hist) IN
         /\ f \in Frames /\ f.id = id /\ f.kind = kind /\ f.hist = hist
         /\ f.pc = "build" /\ ~Busy(f) /\ \A s \in Nat : FrameInv(f, s)
<1> DEFINE f == Frame(kind, id, hist)
<1>1. /\ 0 \in 0 .. Rounds /\ Rounds \in 0 .. Rounds /\ 0 \in 0 .. Fallbacks + 1
      /\ {} \subseteq 0 .. Fallbacks /\ <<>> \in Seq(Messages)
  BY Sizes
<1>2. Question(id) \in Rows
  BY <1>1 DEF Question, Message, Rows
<1>3. f \in Frames
  BY <1>1, <1>2 DEF Frame, Frames, Pcs
<1>4. /\ f.id = id /\ f.kind = kind /\ f.pc = "build" /\ f.round = 0 /\ f.ran = 0
      /\ f.extra = <<>> /\ f.hist = hist /\ f.limit = (IF kind = "compact" THEN 0 ELSE Rounds)
      /\ f.sent = 0 /\ f.k = 0 /\ f.tried = {}
  BY DEF Frame
<1> HIDE DEF f
<1>5. CallsInOrder(f)
  <2>1. Calls(f.extra) = {}
    BY <1>4 DEF Calls
  <2>2. Len(f.extra) <= 2 * f.round /\ 1 .. f.round = {} /\ \A i \in 1 .. Len(f.extra) : FALSE
    BY <1>4
  <2>3. QED BY <2>1, <2>2 DEF CallsInOrder
<1>6. ~Busy(f)
  BY <1>4 DEF Busy
<1>7. f.round <= f.limit /\ f.k <= Fallbacks /\ f.pc # "ask"
  BY <1>4, Sizes
<1>8. f.sent <= Len(Request(f))
  <2>1. Len(Request(f)) \in Nat
    BY <1>3, RequestShape
  <2>2. QED BY <1>4, <2>1
<1>9. Cardinality(PassedOver(f)) = 0
  <2>1. PassedOver(f) = {}
    BY <1>4 DEF PassedOver
  <2>2. QED BY <2>1, FS_EmptySet
<1>10. ASSUME NEW s \in Nat
       PROVE  FrameInv(f, s)
  <2>1. Cardinality(PassedOver(f)) <= s
    BY <1>9
  <2>2. QED BY <1>4, <1>5, <1>6, <1>7, <1>8, <2>1 DEF FrameInv
<1>11. QED BY <1>3, <1>4, <1>6, <1>10 DEF f

(* The chat is counted, and nothing is known of it yet. *)
ChatCounted ==
  /\ stack = <<>> /\ chats < MaxChats /\ chats' = chats + 1
  /\ started' = 0 /\ audited' = 0 /\ unaudited' = 0 /\ lost' = 0
  /\ outcome' \in Outcomes /\ outcome'.error \in {"OK", "CRASH"} /\ outcome'.text = "none"
  /\ shortages' \in 0 .. MaxShortages /\ refused' \in 0 .. MaxRefusals
  /\ UNCHANGED <<db, logVars>>

LEMMA CountedKeeps ==
  ASSUME IInv, ChatCounted, ~Ending',
         stack' \in Seq(Frames), Len(stack') <= MaxDepth, ToolsRunning' = 0
  PROVE  Types' /\ AuditInv' /\ FailoverComplete' /\ EndInv' /\ LogInv'
<1>1. chats \in Nat /\ chats' \in 0 .. MaxChats /\ refused' \in Nat
  BY Numbers, Sizes DEF IInv, Types, ChatCounted
<1>2. Types'
  BY <1>1 DEF IInv, Types, ChatCounted, logVars
<1>3. AuditInv'
  <2>1. 0 = 0 + 0 + 0 + 0 /\ 0 <= refused'
    BY <1>1
  <2>2. QED BY <2>1 DEF AuditInv, ChatCounted
<1>4. FailoverComplete'
  BY DEF FailoverComplete, ChatCounted
<1>5. EndInv'
  BY DEF EndInv
<1>6. LogInv'
  <2>1. ~At("answered") /\ ~At("answered")'
    BY DEF At, Ending, ChatCounted
  <2>2. QED BY <2>1, LogKept DEF ChatCounted, logVars
<1>7. QED BY <1>2, <1>3, <1>4, <1>5, <1>6

LEMMA BeginsKeeps ==
  ASSUME IInv, NEW kind \in {"chat", "compact"}, NEW hist \in Seq(Rows), Begins(kind, hist),
         broken = {} => (kind = "chat" /\ hist # <<>> => hist[1].role = "user"),
         shortages' \in 0 .. MaxShortages, refused' \in 0 .. MaxRefusals
  PROVE  IInv'
<1> DEFINE f == Frame(kind, <<chats', 1>>, hist)
<1>1. /\ chats \in Nat /\ chats' \in 1 .. MaxChats /\ chats' = chats + 1
      /\ shortages' \in Nat /\ 1 \in 1 .. MaxDepth
  BY Sizes, Numbers DEF IInv, Types, Begins
<1>2. <<chats', 1>> \in Ids /\ kind \in Kinds
  BY <1>1 DEF Ids, Kinds
<1>3. /\ f \in Frames /\ f.id = <<chats', 1>> /\ f.kind = kind /\ f.hist = hist
      /\ f.pc = "build" /\ ~Busy(f) /\ \A s \in Nat : FrameInv(f, s)
  <2> DEFINE id == <<chats', 1>>
  <2>1. id \in Ids
    BY <1>2
  <2> HIDE DEF id
  <2>2. LET g == Frame(kind, id, hist) IN
        /\ g \in Frames /\ g.id = id /\ g.kind = kind /\ g.hist = hist
        /\ g.pc = "build" /\ ~Busy(g) /\ \A s \in Nat : FrameInv(g, s)
    BY <1>2, <2>1, FrameBegins
  <2>3. QED BY <2>2 DEF id
<1>4. stack' = <<f>>
  BY DEF Begins
<1> HIDE DEF f
<1>5. stack' \in Seq(Frames) /\ Len(stack') = 1 /\ stack'[1] = f /\ stack' # <<>>
  BY <1>3, <1>4
<1>6. Top' = f
  BY <1>5 DEF Top
<1>7. StackInv'
  BY <1>1, <1>3, <1>5 DEF StackInv
<1>8. HistInv'
  <2>1. broken' = broken
    BY DEF Begins, logVars
  <2>2. broken = {} => BeginsWithUser(f)
    BY <1>3 DEF BeginsWithUser
  <2>3. QED BY <1>5, <2>1, <2>2 DEF HistInv
<1>9. ToolsRunning' = 0 /\ ~Ending'
  BY <1>3, <1>5, <1>6 DEF ToolsRunning, Ending, One, Busy
<1>10. ChatCounted
  <2>1. NoOutcome \in Outcomes /\ NoOutcome.error = "OK" /\ NoOutcome.text = "none"
    BY DEF NoOutcome, Outcomes
  <2>2. QED BY <2>1 DEF Begins, ChatCounted
<1>11. Len(stack') <= MaxDepth
  BY <1>5, Sizes
<1>12. Types' /\ AuditInv' /\ FailoverComplete' /\ EndInv' /\ LogInv'
  BY <1>5, <1>9, <1>10, <1>11, CountedKeeps
<1>13. QED BY <1>7, <1>8, <1>12 DEF IInv

LEMMA HistoryCrashesKeeps ==
  ASSUME IInv, HistoryCrashes
  PROVE  IInv'
<1>1. stack = <<>> /\ stack' = <<>> /\ broken' = broken
  BY DEF HistoryCrashes, logVars
<1>2. ChatCounted
  <2>1. outcome' \in Outcomes /\ outcome'.error = "CRASH" /\ outcome'.text = "none"
    BY DEF HistoryCrashes, NoOutcome, Outcomes
  <2>2. shortages' \in 0 .. MaxShortages /\ refused' \in 0 .. MaxRefusals
    <3>1. shortages \in 0 .. MaxShortages /\ refused \in 0 .. MaxRefusals
      BY DEF IInv, Types
    <3>2. shortages < MaxShortages /\ shortages' = shortages + 1 /\ refused' = refused
      BY DEF HistoryCrashes, Short
    <3>3. QED BY <3>1, <3>2, Sizes
  <2>3. QED BY <2>1, <2>2 DEF HistoryCrashes, ChatCounted
<1>3. stack' \in Seq(Frames) /\ Len(stack') <= MaxDepth
  BY <1>1, Sizes
<1>4. ToolsRunning' = 0 /\ ~Ending'
  BY <1>1 DEF ToolsRunning, Ending
<1>5. StackInv' /\ HistInv'
  BY <1>1 DEF StackInv, HistInv
<1>6. Types' /\ AuditInv' /\ FailoverComplete' /\ EndInv' /\ LogInv'
  BY <1>2, <1>3, <1>4, CountedKeeps
<1>7. QED BY <1>5, <1>6 DEF IInv

(* The window of a chat is of whole turns. *)
LEMMA EvenWindow ==
  ASSUME NEW n \in Nat, NEW w \in Nat, n % 2 = 0, w % 2 = 0
  PROVE  (n - w + 1) % 2 = 1
OBVIOUS

UserFirst(hist) == broken = {} /\ hist # <<>> => hist[1].role = "user"
LEMMA LatestRows ==
  ASSUME IInv, stack = <<>>
  PROVE  LET rows == Latest(log, Window) IN rows \in Seq(Rows) /\ UserFirst(rows)
<1> DEFINE hist == Latest(log, Window)
<1>1. log \in Seq(Rows) /\ Len(log) \in Nat /\ Window \in Nat
  BY Sizes DEF IInv, Types
<1>2. broken = {} => /\ Len(log) % 2 = 0
                     /\ \A i \in 1 .. Len(log) : i % 2 = 1 => log[i].role = "user"
  <2>1. ~At("answered")
    BY DEF At
  <2>2. QED BY <2>1 DEF IInv, LogInv
<1>3. CASE Len(log) <= Window
  <2>1. hist = log
    BY <1>3 DEF Latest
  <2>2. log # <<>> => 1 \in 1 .. Len(log) /\ 1 % 2 = 1
    BY <1>1
  <2>3. QED BY <1>1, <1>2, <2>1, <2>2 DEF UserFirst
<1>4. CASE ~(Len(log) <= Window)
  <2> DEFINE b == Len(log) - Window + 1
             e == Len(log)
             s == SubSeq(log, b, e)
  <2>1. hist = s
    BY <1>4 DEF Latest
  <2>2. e \in Nat /\ b \in Nat /\ b >= 1 /\ b <= e + 1
    BY <1>1, <1>4
  <2>3. broken = {} => b % 2 = 1
    BY <1>1, <1>2, Sizes, EvenWindow
  <2> HIDE DEF b
  <2>4. \A i \in b .. e : i \in 1 .. Len(log)
    BY <1>1, <2>2
  <2>5. /\ s \in Seq(Rows)
        /\ Len(s) = IF b <= e THEN e - b + 1 ELSE 0
        /\ \A i \in 1 .. (e - b + 1) : s[i] = log[b + i - 1]
    BY <1>1, <2>2, <2>4, SubSeqProperties
  <2> HIDE DEF s
  <2>6. CASE b <= e
    <3>1. 1 \in 1 .. (e - b + 1) /\ b + 1 - 1 = b /\ b \in 1 .. Len(log)
      BY <2>2, <2>6
    <3>2. s[1] = log[b]
      BY <2>5, <3>1
    <3>3. QED BY <1>2, <2>1, <2>3, <2>5, <3>1, <3>2 DEF UserFirst
  <2>7. CASE ~(b <= e)
    <3>1. s = <<>>
      BY <2>5, <2>7, EmptySeq
    <3>2. QED BY <2>1, <2>5, <3>1 DEF UserFirst
  <2>8. QED BY <2>6, <2>7
<1>5. QED BY <1>3, <1>4 DEF hist

(* What is left of it when the reading breaks off, or a text is lost.      *)
LEMMA PartRead ==
  ASSUME NEW rows \in Seq(Rows), UserFirst(rows), NEW n \in 0 .. Len(rows) - 1
  PROVE  SubSeq(rows, 1, n) \in Seq(Rows) /\ UserFirst(SubSeq(rows, 1, n))
<1> DEFINE s == SubSeq(rows, 1, n)
<1>1. Len(rows) \in Nat /\ n \in Nat /\ 1 \in Nat
  OBVIOUS
<1>2. \A i \in 1 .. n : i \in 1 .. Len(rows)
  BY <1>1
<1>3. /\ s \in Seq(Rows) /\ Len(s) = (IF 1 <= n THEN n - 1 + 1 ELSE 0)
      /\ \A i \in 1 .. (n - 1 + 1) : s[i] = rows[1 + i - 1]
  BY <1>1, <1>2, SubSeqProperties
<1> HIDE DEF s
<1>4. CASE n >= 1
  <2>1. 1 \in 1 .. (n - 1 + 1) /\ 1 + 1 - 1 = 1 /\ Len(rows) # 0
    BY <1>1, <1>4
  <2>2. s[1] = rows[1] /\ rows # <<>>
    BY <1>3, <2>1, EmptySeq
  <2>3. QED BY <1>3, <2>2 DEF UserFirst, s
<1>5. CASE ~(n >= 1)
  <2>1. s = <<>>
    BY <1>1, <1>3, <1>5, EmptySeq
  <2>2. QED BY <1>3, <2>1 DEF UserFirst, s
<1>6. QED BY <1>4, <1>5

LEMMA TextLost ==
  ASSUME NEW rows \in Seq(Rows), UserFirst(rows), NEW i \in DOMAIN rows
  PROVE  /\ [rows EXCEPT ![i].what = "nothing"] \in Seq(Rows)
         /\ UserFirst([rows EXCEPT ![i].what = "nothing"])
<1> DEFINE r == [rows[i] EXCEPT !.what = "nothing"]
           s == [rows EXCEPT ![i] = r]
<1>1. i \in 1 .. Len(rows) /\ Len(rows) \in Nat
  OBVIOUS
<1>2. rows[i] \in Rows
  BY <1>1, ElementOfSeq
<1>3. r \in Rows /\ r.role = rows[i].role
  BY <1>2 DEF Rows
<1>4. s = [rows EXCEPT ![i].what = "nothing"]
  OBVIOUS
<1> HIDE DEF r
<1>5. s \in Seq(Rows) /\ Len(s) = Len(rows)
      /\ \A j \in 1 .. Len(rows) : s[j] = IF j = i THEN r ELSE rows[j]
  BY <1>1, <1>3, ExceptSeq
<1>6. UserFirst(s)
  <2>1. 1 \in 1 .. Len(rows) /\ rows # <<>>
    BY <1>1
  <2>2. s[1].role = rows[1].role
    BY <1>3, <1>5, <2>1
  <2>3. QED BY <2>1, <2>2 DEF UserFirst
<1>7. QED BY <1>4, <1>5, <1>6

LEMMA StartChatKeeps ==
  ASSUME IInv, StartChat
  PROVE  IInv'
<1> DEFINE rows == Latest(log, Window)
<1>1. stack = <<>>
  BY DEF StartChat, Begins
<1>2. rows \in Seq(Rows) /\ UserFirst(rows)
  BY <1>1, LatestRows
<1>3. shortages \in 0 .. MaxShortages /\ refused \in 0 .. MaxRefusals
  BY DEF IInv, Types
<1>4. \/ Enough /\ Obeys /\ Begins("chat", rows)
      \/ Enough /\ Refuses /\ \E n \in 0 .. Len(rows) - 1 : Begins("chat", SubSeq(rows, 1, n))
      \/ Short /\ Obeys /\ \E i \in DOMAIN rows : Begins("chat", [rows EXCEPT ![i].what = "nothing"])
  BY DEF StartChat
<1> HIDE DEF rows
<1>5. PICK hist \in Seq(Rows) : UserFirst(hist) /\ Begins("chat", hist)
  BY <1>2, <1>4, PartRead, TextLost
<1>6. shortages' \in 0 .. MaxShortages
  <2>1. shortages' = shortages \/ (shortages < MaxShortages /\ shortages' = shortages + 1)
    BY <1>4 DEF Enough, Short
  <2>2. QED BY <1>3, <2>1, Sizes
<1>7. refused' \in 0 .. MaxRefusals
  <2>1. refused' = refused \/ (refused < MaxRefusals /\ refused' = refused + 1)
    BY <1>4 DEF Obeys, Refuses
  <2>2. QED BY <1>3, <2>1, Sizes
<1>8. QED BY <1>5, <1>6, <1>7, BeginsKeeps DEF UserFirst

LEMMA StartCompactKeeps ==
  ASSUME IInv, StartCompact
  PROVE  IInv'
<1> DEFINE hist == <<>>
<1>1. hist \in Seq(Rows) /\ "compact" # "chat" /\ Begins("compact", hist)
  BY DEF StartCompact
<1>2. shortages' \in 0 .. MaxShortages /\ refused' \in 0 .. MaxRefusals
  BY DEF StartCompact, Enough, Obeys, IInv, Types
<1> HIDE DEF hist
<1>3. QED BY <1>1, <1>2, BeginsKeeps

LEMMA ClearLogKeeps ==
  ASSUME IInv, ClearLog
  PROVE  IInv'
<1>1. /\ stack = <<>> /\ log' = <<>> /\ broken' = {}
      /\ UNCHANGED <<stack, db, chats, started, audited, unaudited, lost, shortages, refused, outcome>>
  BY DEF ClearLog, toolVars
<1>2. Types'
  BY <1>1 DEF IInv, Types
<1>3. StackInv' /\ HistInv'
  BY <1>1 DEF StackInv, HistInv
<1>4. AuditInv'
  BY <1>1 DEF IInv, AuditInv, ToolsRunning
<1>5. FailoverComplete' /\ EndInv'
  BY <1>1 DEF IInv, FailoverComplete, EndInv, Ending
<1>6. LogInv'
  <2>1. Len(log') = 0 /\ 0 % 2 = 0 /\ ~At("answered")' /\ \A i \in 1 .. Len(log') : FALSE
    BY <1>1 DEF At
  <2>2. QED BY <2>1 DEF LogInv
<1>7. QED BY <1>2, <1>3, <1>4, <1>5, <1>6 DEF IInv

-----------------------------------------------------------------------------
(* The rows of a turn, each by itself. *)
LEMMA OddNext ==
  ASSUME NEW n \in Nat
  PROVE  (n % 2 = 0 => (n + 1) % 2 = 1) /\ (n % 2 = 1 => (n + 1) % 2 = 0)
OBVIOUS

LEMMA LogGrows ==
  ASSUME log \in Seq(Rows), NEW row \in Rows, log' = Append(log, row)
  PROVE  /\ log' \in Seq(Rows) /\ Len(log) \in Nat /\ Len(log') = Len(log) + 1
         /\ \A i \in 1 .. Len(log) : log'[i] = log[i]
         /\ log'[Len(log) + 1] = row
         /\ \A i \in 1 .. Len(log) - 1 : OneTurn(i)' = OneTurn(i)
<1> DEFINE x == Append(log, row)
           L == Len(log)
<1>1. /\ x \in Seq(Rows) /\ Len(x) = L + 1 /\ L \in Nat
      /\ \A i \in 1 .. L : x[i] = log[i]
      /\ x[L + 1] = row
  BY AppendProperties
<1>2. log' = x
  OBVIOUS
<1> HIDE DEF x
<1>3. ASSUME NEW i \in 1 .. L - 1
      PROVE  OneTurn(i)' = OneTurn(i)
  <2>1. i \in 1 .. L /\ i + 1 \in 1 .. L
    BY <1>1
  <2>2. log'[i] = log[i] /\ log'[i + 1] = log[i + 1]
    BY <1>1, <1>2, <2>1
  <2>3. QED BY <2>2 DEF OneTurn, IsQuestion, IsAnswer
<1>4. QED BY <1>1, <1>2, <1>3

LEMMA QuestionLogged ==
  ASSUME IInv, At("asked"), Top.id = <<chats, 1>>, Top.id \in Ids,
         log' = Append(log, Question(Top.id)), UNCHANGED <<broken, chats>>,
         stack' # <<>>, Top'.pc = "answered", Top'.id = Top.id
  PROVE  log' \in Seq(Rows) /\ LogInv'
<1>0. PICK L \in Nat : L = Len(log)
  BY DEF IInv, Types
<1> DEFINE q == Question(Top.id)
<1>1. q \in Rows /\ q.of = Top.id /\ q.role = "user" /\ IsQuestion(q) /\ log \in Seq(Rows)
  BY Sizes DEF Question, Message, Rows, IInv, Types, IsQuestion
<1>2. stack # <<>> /\ ~At("answered") /\ chats \in Nat
  BY Numbers DEF At, IInv
<1>3. /\ log' \in Seq(Rows) /\ L \in Nat /\ Len(log') = L + 1
      /\ \A i \in 1 .. L : log'[i] = log[i]
      /\ log'[L + 1] = q
      /\ \A i \in 1 .. L - 1 : OneTurn(i)' = OneTurn(i)
  BY <1>0, <1>1, LogGrows
<1>4. At("answered")' /\ chats' = chats /\ broken' = broken
  BY DEF At
<1>5. Top.id[1] = chats /\ Top.id[2] = 1
  OBVIOUS
<1>6. broken = {} => L % 2 = 0 /\ \A i \in 1 .. L : i % 2 = 1 => log[i].role = "user"
  BY <1>0, <1>2 DEF IInv, LogInv
<1>7. \A i \in 1 .. L : RowInv(i) /\ ~IsOpen(i)
  BY <1>0, <1>2 DEF IInv, LogInv, IsOpen
<1> HIDE DEF q
<1>8. ASSUME NEW i \in 1 .. L
      PROVE  RowInv(i)'
  <2>1. /\ log[i].of[2] = 1 /\ log[i].of[1] < chats
        /\ IsQuestion(log[i]) \/ IsAnswer(log[i])
        /\ \A k \in i + 1 .. L : log[k].of[1] > log[i].of[1] \/ (k = i + 1 /\ OneTurn(i))
        /\ \/ log[i].of \in broken
           \/ i < L /\ OneTurn(i)
           \/ i > 1 /\ OneTurn(i - 1)
    BY <1>0, <1>2, <1>7 DEF RowInv
  <2>2. log'[i] = log[i] /\ log[i].of[1] <= chats
    <3>1. log[i] \in Rows
      BY <1>0, <1>1, ElementOfSeq
    <3>2. log[i].of[1] \in Nat
      BY <3>1, Sizes DEF Rows, Ids
    <3>3. QED BY <1>2, <1>3, <2>1, <3>2
  <2>3. ASSUME NEW k \in i + 1 .. L + 1
        PROVE  log'[k].of[1] > log'[i].of[1] \/ (k = i + 1 /\ OneTurn(i)')
    <3>1. CASE k = L + 1
      <4>1. log'[k].of[1] = chats
        BY <1>1, <1>3, <1>5, <3>1
      <4>2. QED BY <1>2, <2>1, <2>2, <4>1
    <3>2. CASE k # L + 1
      <4>1. k \in i + 1 .. L /\ k \in 1 .. L
        BY <1>3, <3>2
      <4>2. k = i + 1 => i \in 1 .. L - 1
        BY <1>3, <4>1
      <4>3. QED BY <1>3, <2>1, <2>2, <4>1, <4>2
    <3>3. QED BY <3>1, <3>2
  <2>4. \/ log'[i].of \in broken'
        \/ i < L + 1 /\ OneTurn(i)'
        \/ i > 1 /\ OneTurn(i - 1)'
    <3>1. i < L => i \in 1 .. L - 1 /\ i < L + 1
      BY <1>3
    <3>2. i > 1 => i - 1 \in 1 .. L - 1
      BY <1>3
    <3>3. QED BY <1>3, <1>4, <2>1, <2>2, <3>1, <3>2
  <2>5. IsQuestion(log[i])' \/ IsAnswer(log[i])'
    BY <2>1, <2>2 DEF IsQuestion, IsAnswer
  <2>6. QED BY <1>3, <1>4, <2>1, <2>2, <2>3, <2>4, <2>5 DEF RowInv
<1>9. IsOpen(L + 1)'
  <2>1. IsQuestion(log'[L + 1])
    BY <1>1, <1>3
  <2>2. QED BY <1>1, <1>3, <1>4, <2>1 DEF IsOpen, IsQuestion
<1>10. RowInv(L + 1)'
  <2>1. log'[L + 1].of[2] = 1 /\ log'[L + 1].of[1] <= chats'
    BY <1>1, <1>2, <1>3, <1>4, <1>5
  <2>2. IsQuestion(log[L + 1])'
    BY <1>1, <1>3 DEF IsQuestion
  <2>3. \A k \in L + 1 + 1 .. L + 1 : FALSE
    BY <1>3
  <2>4. QED BY <1>3, <1>9, <2>1, <2>2, <2>3 DEF RowInv
<1>11. \A i \in 1 .. L + 1 : i \in 1 .. L \/ i = L + 1
  BY <1>3
<1>12. broken = {} => (L + 1) % 2 = 1 /\ \A i \in 1 .. L + 1 : i % 2 = 1 => log'[i].role = "user"
  BY <1>1, <1>3, <1>6, <1>11, OddNext
<1>13. \A i \in 1 .. L + 1 : RowInv(i)'
  BY <1>8, <1>10, <1>11
<1>14. L + 1 >= 1
  BY <1>3
<1>15. LogInv'
  BY <1>3, <1>4, <1>9, <1>12, <1>13, <1>14 DEF LogInv
<1>16. QED BY <1>3, <1>15

LEMMA QuestionRefused ==
  ASSUME IInv, At("asked"), UNCHANGED <<log, chats>>, broken' = broken \union {Top.id},
         stack' # <<>>, Top'.id = Top.id
  PROVE  LogInv'
<1>1. \A i : OneTurn(i)' = OneTurn(i)
  BY DEF OneTurn, IsQuestion, IsAnswer
<1>2. stack # <<>> /\ ~At("answered") /\ \A i : ~IsOpen(i)
  BY DEF At, IsOpen
<1>3. ASSUME NEW i \in 1 .. Len(log)
      PROVE  RowInv(i)'
  <2>1. /\ log[i].of[2] = 1 /\ log[i].of[1] <= chats /\ log[i].of[1] < chats
        /\ IsQuestion(log[i]) \/ IsAnswer(log[i])
        /\ \A k \in i + 1 .. Len(log) : log[k].of[1] > log[i].of[1] \/ (k = i + 1 /\ OneTurn(i))
        /\ \/ log[i].of \in broken
           \/ i < Len(log) /\ OneTurn(i)
           \/ i > 1 /\ OneTurn(i - 1)
    BY <1>2 DEF IInv, LogInv, RowInv
  <2>2. IsQuestion(log[i])' \/ IsAnswer(log[i])'
    BY <2>1 DEF IsQuestion, IsAnswer
  <2>3. QED BY <1>1, <2>1, <2>2 DEF RowInv
<1>4. Top'.id \in broken' /\ broken' # {}
  OBVIOUS
<1>5. QED BY <1>3, <1>4 DEF LogInv

LEMMA AnswerLogged ==
  ASSUME IInv, At("answered"), Top.id = <<chats, 1>>, Top.id \in Ids,
         NEW text \in {"answer", "errorPage"},
         log' = Append(log, Message("assistant", Top.id, 0, text)), UNCHANGED <<broken, chats>>,
         stack' = <<>>
  PROVE  log' \in Seq(Rows) /\ LogInv'
<1>0. PICK L \in Nat : L = Len(log)
  BY DEF IInv, Types
<1> DEFINE a == Message("assistant", Top.id, 0, text)
<1>1. a \in Rows /\ a.of = Top.id /\ IsAnswer(a) /\ log \in Seq(Rows)
  BY Sizes DEF Message, Rows, IInv, Types, IsAnswer
<1>2. stack # <<>> /\ chats \in Nat
  BY Numbers DEF At, IInv
<1>3. /\ log' \in Seq(Rows) /\ L \in Nat /\ Len(log') = L + 1
      /\ \A i \in 1 .. L : log'[i] = log[i]
      /\ log'[L + 1] = a
      /\ \A i \in 1 .. L - 1 : OneTurn(i)' = OneTurn(i)
  BY <1>0, <1>1, LogGrows
<1>4. ~At("answered")' /\ chats' = chats /\ broken' = broken
  BY DEF At
<1>5. Top.id[1] = chats /\ Top.id[2] = 1
  OBVIOUS
<1>6. broken = {} => L % 2 = 1 /\ \A i \in 1 .. L : i % 2 = 1 => log[i].role = "user"
  BY <1>0 DEF IInv, LogInv
<1>7. /\ \A i \in 1 .. L : RowInv(i)
      /\ Top.id \in broken \/ (L >= 1 /\ IsOpen(L))
  BY <1>0 DEF IInv, LogInv
<1>8. \A i \in 1 .. L : IsOpen(i) => i = L /\ log[L].of = Top.id /\ IsQuestion(log[L])
  BY <1>0 DEF IsOpen
<1> HIDE DEF a
<1>9. L >= 1 /\ IsOpen(L) => OneTurn(L)'
  <2>1. SUFFICES ASSUME L >= 1, IsOpen(L) PROVE OneTurn(L)'
    OBVIOUS
  <2>2. L \in 1 .. L
    BY <1>3, <2>1
  <2>3. log'[L] = log[L] /\ log[L].of = Top.id /\ IsQuestion(log[L])
    BY <1>3, <1>8, <2>1, <2>2
  <2>4. QED BY <1>1, <1>3, <2>3 DEF OneTurn, IsQuestion, IsAnswer
<1>10. ASSUME NEW i \in 1 .. L
       PROVE  RowInv(i)'
  <2>1. /\ log[i].of[2] = 1 /\ log[i].of[1] <= chats
        /\ log[i].of[1] < chats \/ IsOpen(i)
        /\ IsQuestion(log[i]) \/ IsAnswer(log[i])
        /\ \A k \in i + 1 .. L : log[k].of[1] > log[i].of[1] \/ (k = i + 1 /\ OneTurn(i))
        /\ \/ log[i].of \in broken \/ IsOpen(i)
           \/ i < L /\ OneTurn(i)
           \/ i > 1 /\ OneTurn(i - 1)
    BY <1>0, <1>2, <1>7 DEF RowInv
  <2>2. log'[i] = log[i] /\ L >= 1
    BY <1>3
  <2>3. IsOpen(i) => i = L /\ OneTurn(i)'
    BY <1>8, <1>9, <2>2
  <2>4. ASSUME NEW k \in i + 1 .. L + 1
        PROVE  log'[k].of[1] > log'[i].of[1] \/ (k = i + 1 /\ OneTurn(i)')
    <3>1. CASE k = L + 1
      <4>1. log'[k].of[1] = chats
        BY <1>1, <1>3, <1>5, <3>1
      <4>2. log[i].of[1] < chats => chats > log[i].of[1]
        <5>1. log[i] \in Rows
          BY <1>0, <1>1, ElementOfSeq
        <5>2. log[i].of \in Ids
          BY <5>1 DEF Rows
        <5>3. log[i].of[1] \in 1 .. MaxChats
          BY <5>2 DEF Ids
        <5>4. log[i].of[1] \in Nat
          BY <5>3
        <5>5. QED BY <1>2, <5>4
      <4>3. QED BY <2>1, <2>2, <2>3, <3>1, <4>1, <4>2
    <3>2. CASE k # L + 1
      <4>1. k \in i + 1 .. L /\ k \in 1 .. L
        BY <1>3, <3>2
      <4>2. k = i + 1 => i \in 1 .. L - 1
        BY <1>3, <4>1
      <4>3. QED BY <1>3, <2>1, <2>2, <4>1, <4>2
    <3>3. QED BY <3>1, <3>2
  <2>5. \/ log'[i].of \in broken'
        \/ i < L + 1 /\ OneTurn(i)'
        \/ i > 1 /\ OneTurn(i - 1)'
    <3>1. (i < L => i \in 1 .. L - 1) /\ i < L + 1
      BY <1>3
    <3>2. i > 1 => i - 1 \in 1 .. L - 1
      BY <1>3
    <3>3. QED BY <1>3, <1>4, <2>1, <2>2, <2>3, <3>1, <3>2
  <2>6. IsQuestion(log[i])' \/ IsAnswer(log[i])'
    BY <2>1, <2>2 DEF IsQuestion, IsAnswer
  <2>7. QED BY <1>3, <1>4, <2>1, <2>2, <2>4, <2>5, <2>6 DEF RowInv
<1>11. RowInv(L + 1)'
  <2>1. log'[L + 1].of[2] = 1 /\ log'[L + 1].of[1] <= chats'
    BY <1>1, <1>2, <1>3, <1>4, <1>5
  <2>2. IsAnswer(log[L + 1])'
    BY <1>1, <1>3 DEF IsAnswer
  <2>3. \A k \in L + 1 + 1 .. L + 1 : FALSE
    BY <1>3
  <2>4. log'[L + 1].of \in broken' \/ (L + 1 > 1 /\ OneTurn(L + 1 - 1)')
    <3>1. L + 1 - 1 = L /\ (L >= 1 => L + 1 > 1)
      BY <1>3
    <3>2. QED BY <1>1, <1>3, <1>4, <1>7, <1>9, <3>1
  <2>5. QED BY <1>3, <2>1, <2>2, <2>3, <2>4 DEF RowInv
<1>12. \A i \in 1 .. L + 1 : i \in 1 .. L \/ i = L + 1
  BY <1>3
<1>13. broken = {} => (L + 1) % 2 = 0 /\ \A i \in 1 .. L + 1 : i % 2 = 1 => log'[i].role = "user"
  <2>1. broken = {} => (L + 1) % 2 = 0
    BY <1>3, <1>6, OddNext
  <2>2. QED BY <1>3, <1>6, <1>12, <2>1
<1>14. \A i \in 1 .. L + 1 : RowInv(i)'
  BY <1>10, <1>11, <1>12
<1>15. LogInv'
  BY <1>3, <1>4, <1>13, <1>14 DEF LogInv
<1>16. QED BY <1>3, <1>15

(* The chat whose turn is written. *)
LEMMA EndingFrame ==
  ASSUME IInv, Ending
  PROVE  /\ stack # <<>> /\ Len(stack) = 1 /\ Top = stack[1] /\ Top \in Frames
         /\ Top.kind = "chat" /\ Top.id = <<chats, 1>> /\ Top.id \in Ids
         /\ FrameInv(Top, shortages) /\ ~Busy(Top) /\ ToolsRunning = 0
         /\ outcome.text \in {"answer", "errorPage"}
<1>1. stack # <<>> /\ Len(stack) = 1 /\ Top.kind = "chat" /\ ~Busy(Top)
      /\ outcome.text \in {"answer", "errorPage"}
  BY DEF IInv, EndInv, Ending, Busy
<1>2. /\ Top = stack[1] /\ Top \in Frames /\ Top.id = <<chats, 1>> /\ FrameInv(Top, shortages)
  BY <1>1, TopFrame DEF IInv
<1>3. Top.id \in Ids
  BY <1>2 DEF Frames
<1>4. ToolsRunning = 0
  BY <1>1 DEF ToolsRunning, One
<1>5. QED BY <1>1, <1>2, <1>3, <1>4

LEMMA LogsQuestionKeeps ==
  ASSUME IInv, LogsQuestion
  PROVE  IInv'
<1> DEFINE f == [Top EXCEPT !.pc = "answered"]
<1>1. /\ At("asked") /\ stack' = [stack EXCEPT ![Len(stack)] = f]
      /\ UNCHANGED <<db, chats, shortages, outcome>>
      /\ UNCHANGED <<started, audited, unaudited, lost>>
  BY DEF LogsQuestion, Replace, toolVars
<1>2. Ending
  BY <1>1 DEF At, Ending
<1>3. /\ stack # <<>> /\ Len(stack) = 1 /\ Top = stack[1] /\ Top \in Frames
      /\ Top.kind = "chat" /\ Top.id = <<chats, 1>> /\ Top.id \in Ids
      /\ FrameInv(Top, shortages) /\ ~Busy(Top) /\ ToolsRunning = 0
      /\ outcome.text \in {"answer", "errorPage"}
  BY <1>2, EndingFrame
<1>4. /\ f \in Frames /\ f.id = Top.id /\ f.kind = Top.kind /\ f.pc = "answered"
      /\ f.round = Top.round /\ f.limit = Top.limit /\ f.ran = Top.ran
      /\ f.extra = Top.extra /\ f.hist = Top.hist /\ f.sent = Top.sent
      /\ f.k = Top.k /\ f.tried = Top.tried
  BY <1>3 DEF Frames, Pcs
<1> HIDE DEF f
<1>5. stack' \in Seq(Frames) /\ Len(stack') = 1 /\ stack'[1] = f /\ stack' # <<>>
  <2> DEFINE u == [stack EXCEPT ![1] = f]
  <2>1. 1 \in 1 .. Len(stack) /\ stack \in Seq(Frames)
    BY <1>3 DEF IInv, Types
  <2>2. u \in Seq(Frames) /\ Len(u) = 1 /\ u[1] = f
    BY <1>3, <1>4, <2>1, ExceptSeq
  <2>3. stack' = u
    BY <1>1, <1>3
  <2> HIDE DEF u
  <2>4. QED BY <2>2, <2>3
<1>6. Top' = f
  BY <1>5 DEF Top
<1>7. ~Busy(f)
  BY <1>4 DEF Busy
<1>8. StackInv'
  <2>1. Len(Request(Top)) = Len(Request(f)) /\ CallsInOrder(f)
    BY <1>3, <1>4, SameCalls DEF FrameInv
  <2>2. PassedOver(f) = PassedOver(Top)
    BY <1>4 DEF PassedOver
  <2>3. FrameInv(Top, shortages) /\ Top.pc = "asked"
    BY <1>1, <1>3 DEF At
  <2>4. FrameInv(f, shortages)
    BY <1>4, <1>7, <2>1, <2>2, <2>3 DEF FrameInv, Busy
  <2>5. shortages' = shortages /\ chats' = chats
    BY <1>1
  <2>6. ASSUME NEW i \in 1 .. 1
        PROVE  /\ stack'[i].id = <<chats', i>> /\ (stack'[i].pc = "waits" <=> i < 1)
               /\ (stack'[i].kind = "spawn" <=> i > 1) /\ FrameInv(stack'[i], shortages')
    <3>1. i = 1 /\ stack'[i] = f
      BY <1>5
    <3>2. QED BY <1>3, <1>4, <2>4, <2>5, <3>1
  <2>7. QED BY <1>5, <2>6 DEF StackInv
<1>9. ToolsRunning' = 0
  BY <1>5, <1>6, <1>7 DEF ToolsRunning, One, Busy
<1>10. EndInv' /\ FailoverComplete'
  BY <1>1, <1>3, <1>4, <1>5, <1>6 DEF EndInv, Ending, FailoverComplete, IInv
<1>11. refused \in 0 .. MaxRefusals /\ broken \in SUBSET Ids /\ log \in Seq(Rows)
  BY DEF IInv, Types
<1>12. CASE /\ Obeys /\ UNCHANGED broken
            /\ log' = IF Top.kind = "chat" THEN Append(log, Question(Top.id)) ELSE <<>>
  <2>1. log' \in Seq(Rows) /\ LogInv'
    BY <1>1, <1>3, <1>4, <1>5, <1>6, <1>12, QuestionLogged
  <2>2. Types'
    BY <1>1, <1>5, <1>12, <2>1, Sizes DEF IInv, Types, Obeys
  <2>3. HistInv'
    BY <1>3, <1>4, <1>5, <1>12 DEF IInv, HistInv, BeginsWithUser
  <2>4. AuditInv'
    BY <1>1, <1>3, <1>9, <1>12 DEF IInv, AuditInv, Obeys
  <2>5. QED BY <1>8, <1>10, <2>1, <2>2, <2>3, <2>4 DEF IInv
<1>13. CASE Refuses /\ broken' = broken \union {Top.id} /\ UNCHANGED log
  <2>1. LogInv'
    BY <1>1, <1>4, <1>5, <1>6, <1>13, QuestionRefused
  <2>2. refused' \in 0 .. MaxRefusals /\ refused' = refused + 1 /\ broken' \in SUBSET Ids
    BY <1>3, <1>11, <1>13, Sizes DEF Refuses
  <2>3. Types'
    BY <1>1, <1>5, <1>13, <2>2, Sizes DEF IInv, Types
  <2>4. HistInv'
    BY <1>13 DEF HistInv
  <2>5. AuditInv'
    <3>1. unaudited \in Nat /\ refused \in Nat
      BY Numbers DEF IInv
    <3>2. unaudited <= refused => unaudited <= refused'
      BY <2>2, <3>1
    <3>3. QED BY <1>1, <1>3, <1>9, <3>2 DEF IInv, AuditInv
  <2>6. QED BY <1>8, <1>10, <2>1, <2>3, <2>4, <2>5 DEF IInv
<1>14. QED BY <1>12, <1>13 DEF LogsQuestion

LEMMA LogsAnswerKeeps ==
  ASSUME IInv, LogsAnswer
  PROVE  IInv'
<1>1. /\ At("answered") /\ stack' = <<>>
      /\ UNCHANGED <<db, chats, shortages, outcome>>
      /\ UNCHANGED <<started, audited, unaudited, lost>>
  BY DEF LogsAnswer, toolVars
<1>2. Ending
  BY <1>1 DEF At, Ending
<1>3. /\ Top.kind = "chat" /\ Top.id = <<chats, 1>> /\ Top.id \in Ids /\ ToolsRunning = 0
      /\ outcome.text \in {"answer", "errorPage"}
  BY <1>2, EndingFrame
<1>4. StackInv' /\ HistInv' /\ ToolsRunning' = 0 /\ EndInv'
  <2>1. \A i \in 1 .. Len(<<>>) : FALSE
    OBVIOUS
  <2>2. QED BY <1>1, <2>1 DEF StackInv, HistInv, ToolsRunning, EndInv, Ending
<1>5. FailoverComplete'
  BY <1>1 DEF FailoverComplete, IInv
<1>6. /\ refused \in 0 .. MaxRefusals /\ broken \in SUBSET Ids /\ log \in Seq(Rows)
      /\ <<>> \in Seq(Frames) /\ Len(<<>>) = 0 /\ 0 <= MaxDepth
  BY Sizes DEF IInv, Types
<1>7. CASE /\ Obeys /\ UNCHANGED broken
           /\ log' = Append(log, Message("assistant", Top.id, 0, outcome.text))
  <2>1. log' \in Seq(Rows) /\ LogInv'
    BY <1>1, <1>3, <1>7, AnswerLogged
  <2>2. Types'
    BY <1>1, <1>6, <1>7, <2>1 DEF IInv, Types, Obeys
  <2>3. AuditInv'
    BY <1>1, <1>3, <1>4, <1>7 DEF IInv, AuditInv, Obeys
  <2>4. QED BY <1>4, <1>5, <2>1, <2>2, <2>3 DEF IInv
<1>8. CASE Refuses /\ broken' = broken \union {Top.id} /\ UNCHANGED log
  <2>1. LogInv'
    BY <1>1, <1>8, LogCut
  <2>2. refused' \in 0 .. MaxRefusals /\ refused' = refused + 1 /\ broken' \in SUBSET Ids
    BY <1>3, <1>6, <1>8, Sizes DEF Refuses
  <2>3. Types'
    BY <1>1, <1>6, <1>8, <2>2 DEF IInv, Types
  <2>4. AuditInv'
    <3>1. unaudited \in Nat /\ refused \in Nat
      BY Numbers DEF IInv
    <3>2. unaudited <= refused => unaudited <= refused'
      BY <2>2, <3>1
    <3>3. QED BY <1>1, <1>3, <1>4, <3>2 DEF IInv, AuditInv
  <2>5. QED BY <1>4, <1>5, <2>1, <2>3, <2>4 DEF IInv
<1>9. QED BY <1>3, <1>7, <1>8 DEF LogsAnswer

-----------------------------------------------------------------------------
(* The innermost agent was spawned, and its text is the output of a tool.  *)
LEMMA AgentReturns ==
  ASSUME IInv, Len(stack) > 1, Top.pc \in {"build", "ask", "fallback"},
         NEW what \in {"ok", "unset"},
         stack' = [Front(stack) EXCEPT ![Len(stack) - 1].pc = what],
         shortages' \in 0 .. MaxShortages, shortages <= shortages',
         UNCHANGED <<db, logVars, chats, toolVars, refused, outcome>>
  PROVE  IInv'
<1> DEFINE n == Len(stack)
           m == n - 1
           s == Front(stack)
           f == [s[m] EXCEPT !.pc = what]
<1>1. /\ stack \in Seq(Frames) /\ n \in Nat /\ n > 1 /\ n <= MaxDepth /\ stack # <<>>
      /\ shortages \in Nat /\ shortages' \in Nat /\ m \in Nat /\ m >= 1 /\ m < n
  <2> HIDE DEF f, s
  <2>1. stack \in Seq(Frames) /\ n \in Nat /\ n > 1 /\ n <= MaxDepth
    BY DEF IInv, Types
  <2>2. n # 0
    BY <2>1
  <2>3. stack # <<>>
    BY <2>2, EmptySeq
  <2>4. shortages \in Nat /\ shortages' \in Nat
    BY Sizes DEF IInv, Types
  <2> HIDE DEF n
  <2>5. m \in Nat /\ m >= 1 /\ m < n
    BY <2>1
  <2>6. QED BY <2>1, <2>3, <2>4, <2>5
<1>2. s \in Seq(Frames) /\ Len(s) = m /\ \A i \in 1 .. m : s[i] = stack[i]
  <2>1. /\ SubSeq(stack, 1, m) \in Seq(Frames)
        /\ Len(SubSeq(stack, 1, m)) = IF 1 <= m THEN m - 1 + 1 ELSE 0
        /\ \A i \in 1 .. (m - 1 + 1) : SubSeq(stack, 1, m)[i] = stack[1 + i - 1]
    <3>1. \A i \in 1 .. m : i \in 1 .. Len(stack)
      BY <1>1
    <3>2. 1 \in Nat /\ m \in Nat
      BY <1>1
    <3>3. QED BY <1>1, <3>1, <3>2, SubSeqProperties
  <2>2. s = SubSeq(stack, 1, m)
    BY DEF Front
  <2>3. m - 1 + 1 = m /\ 1 <= m /\ \A i \in 1 .. m : 1 + i - 1 = i
    BY <1>1
  <2> HIDE DEF s, m
  <2>4. QED BY <2>1, <2>2, <2>3
<1>3. stack' = [s EXCEPT ![m] = f]
  OBVIOUS
<1>4. /\ m \in 1 .. n /\ m \in 1 .. m /\ s[m] = stack[m] /\ stack[m] \in Frames
  BY <1>1, <1>2, ElementOfSeq
<1>5. /\ stack[m].id = <<chats, m>> /\ stack[m].pc = "waits" /\ (stack[m].kind = "spawn" <=> m > 1)
      /\ FrameInv(stack[m], shortages)
  BY <1>1, <1>4 DEF IInv, StackInv
<1>6. /\ f \in Frames /\ f.id = stack[m].id /\ f.kind = stack[m].kind /\ f.pc = what
      /\ f.round = stack[m].round /\ f.limit = stack[m].limit /\ f.ran = stack[m].ran
      /\ f.extra = stack[m].extra /\ f.hist = stack[m].hist /\ f.sent = stack[m].sent
      /\ f.k = stack[m].k /\ f.tried = stack[m].tried
  BY <1>4 DEF Frames, Pcs
<1> HIDE DEF f, s
<1>7. Busy(f) /\ Busy(stack[m]) /\ f.pc \notin {"waits", "ask", "fallback", "build", "asked", "answered"}
  BY <1>5, <1>6 DEF Busy
<1>8. FrameInv(f, shortages')
  <2>1. Len(Request(f)) = Len(Request(stack[m])) /\ CallsInOrder(f)
    BY <1>4, <1>5, <1>6, SameCalls DEF FrameInv
  <2>2. PassedOver(f) = PassedOver(stack[m])
    BY <1>6 DEF PassedOver
  <2>3. FrameInv(f, shortages)
    BY <1>5, <1>6, <1>7, <2>1, <2>2 DEF FrameInv
  <2>4. QED BY <1>1, <1>6, <2>3, FrameInvLater
<1>9. /\ stack' \in Seq(Frames) /\ Len(stack') = m
      /\ \A i \in 1 .. m : stack'[i] = IF i = m THEN f ELSE s[i]
  <2> DEFINE u == [s EXCEPT ![m] = f]
  <2>1. /\ u \in Seq(Frames) /\ Len(u) = m
        /\ \A i \in 1 .. m : u[i] = IF i = m THEN f ELSE s[i]
    BY <1>2, <1>4, <1>6, ExceptSeq
  <2>2. stack' = u
    BY <1>3
  <2> HIDE DEF u
  <2>3. QED BY <2>1, <2>2
<1> HIDE DEF m, n
<1>10. Types'
  <2>1. m <= MaxDepth
    BY <1>1, Sizes
  <2>2. QED BY <1>9, <2>1 DEF IInv, Types, logVars, toolVars
<1>11. StackInv'
  <2>1. ASSUME NEW i \in 1 .. m
        PROVE  /\ stack'[i].id = <<chats, i>> /\ (stack'[i].pc = "waits" <=> i < m)
               /\ (stack'[i].kind = "spawn" <=> i > 1) /\ FrameInv(stack'[i], shortages')
    <3>1. CASE i = m
      <4>1. stack'[i] = f /\ ~(i < m)
        BY <1>1, <1>9, <3>1
      <4>2. QED BY <1>5, <1>6, <1>7, <1>8, <3>1, <4>1
    <3>2. CASE i # m
      <4>1. stack'[i] = stack[i] /\ i < m /\ i < n /\ i \in 1 .. n
        <5>1. i < m /\ i < n /\ i \in 1 .. n
          BY <1>1, <3>2
        <5>2. QED BY <1>2, <1>9, <3>2, <5>1
      <4>2. stack[i] \in Frames
        BY <1>1, <4>1, ElementOfSeq DEF n
      <4>3. /\ stack[i].id = <<chats, i>> /\ (stack[i].pc = "waits" <=> i < n)
            /\ (stack[i].kind = "spawn" <=> i > 1) /\ FrameInv(stack[i], shortages)
        BY <4>1 DEF IInv, StackInv, n
      <4>4. FrameInv(stack[i], shortages')
        BY <1>1, <4>2, <4>3, FrameInvLater
      <4>5. QED BY <4>1, <4>3, <4>4
    <3>3. QED BY <3>1, <3>2
  <2>2. QED BY <1>9, <2>1 DEF StackInv
<1>12. HistInv'
  <2>1. ASSUME broken = {}, NEW i \in 1 .. m
        PROVE  BeginsWithUser(stack'[i])
    <3>1. i \in 1 .. n
      BY <1>1
    <3>2. BeginsWithUser(stack[i])
      BY <2>1, <3>1 DEF IInv, HistInv, n
    <3>3. stack'[i].kind = stack[i].kind /\ stack'[i].hist = stack[i].hist
      BY <1>2, <1>6, <1>9
    <3>4. QED BY <3>2, <3>3 DEF BeginsWithUser
  <2>2. QED BY <1>9, <2>1 DEF HistInv, logVars
<1>13. stack' # <<>> /\ Top' = f
  <2>1. Len(stack') # 0
    BY <1>1, <1>9
  <2>2. stack' # <<>>
    BY <2>1, EmptySeq
  <2>3. stack'[Len(stack')] = f
    BY <1>9, <1>1
  <2>4. QED BY <2>2, <2>3 DEF Top
<1>14. AuditInv'
  <2>1. ToolsRunning' = (m - 1) + 1
    <3>1. One(Busy(Top))' = 1
      BY <1>7, <1>13 DEF One, Busy
    <3>2. QED BY <1>9, <1>13, <3>1 DEF ToolsRunning
  <2>2. ToolsRunning = (n - 1) + 0
    <3>1. One(Busy(Top)) = 0
      BY DEF One, Busy
    <3>2. QED BY <1>1, <3>1 DEF ToolsRunning, n
  <2>3. ToolsRunning' = ToolsRunning
    <3>1. (m - 1) + 1 = (n - 1) + 0
      BY <1>1 DEF m
    <3>2. QED BY <2>1, <2>2, <3>1
  <2>4. QED BY <2>3 DEF IInv, AuditInv, toolVars
<1>15. FailoverComplete'
  <2>1. Cardinality((0 .. Fallbacks) \ outcome.tried) \in Nat
    BY NotTriedFinite
  <2>2. QED BY <1>1, <2>1 DEF IInv, FailoverComplete
<1>16. EndInv'
  BY <1>7, <1>13 DEF EndInv, Ending
<1>17. LogInv'
  <2>1. ~At("answered") /\ ~At("answered")'
    BY <1>7, <1>13 DEF At
  <2>2. QED BY <1>1, <2>1, LogKept DEF logVars
<1>18. QED BY <1>10, <1>11, <1>12, <1>14, <1>15, <1>16, <1>17 DEF IInv

(* A chat that ends, with what it tells its user. *)
Errors == {"OK", "OOM", "TIMEOUT", "IO", "INVALID"}
Texts == {"none", "answer", "errorPage", "rejected"}
Fresh == [Frame(Top.kind, Top.id, <<>>) EXCEPT !.pc = "asked"]

LEMMA FreshFrame ==
  ASSUME IInv, stack # <<>>, Top.kind = "chat", shortages' \in Nat
  PROVE  /\ Fresh \in Frames /\ Fresh.id = Top.id /\ Fresh.kind = "chat" /\ Fresh.pc = "asked"
         /\ Fresh.hist = <<>> /\ ~Busy(Fresh) /\ FrameInv(Fresh, shortages')
<1> DEFINE g == Frame(Top.kind, Top.id, <<>>)
           f == [g EXCEPT !.pc = "asked"]
<1>1. Top \in Frames
  BY TopFrame DEF IInv
<1>2. Top.id \in Ids /\ Top.kind \in Kinds /\ <<>> \in Seq(Rows)
  BY <1>1 DEF Frames
<1>3. /\ g \in Frames /\ g.id = Top.id /\ g.kind = Top.kind /\ g.hist = <<>>
      /\ g.pc = "build" /\ ~Busy(g) /\ \A s \in Nat : FrameInv(g, s)
  <2> DEFINE t == Top.id
             c == Top.kind
             h == <<>>
  <2>1. t \in Ids /\ c \in Kinds /\ h \in Seq(Rows)
    BY <1>2
  <2> HIDE DEF t, c, h
  <2>2. LET d == Frame(c, t, h) IN
        /\ d \in Frames /\ d.id = t /\ d.kind = c /\ d.hist = h
        /\ d.pc = "build" /\ ~Busy(d) /\ \A s \in Nat : FrameInv(d, s)
    BY <2>1, FrameBegins
  <2>3. QED BY <2>2 DEF t, c, h
<1>round. g.round = 0 /\ g.limit = Rounds
  BY DEF Frame
<1> HIDE DEF g
<1>4. /\ f \in Frames /\ f.id = g.id /\ f.kind = g.kind /\ f.pc = "asked"
      /\ f.round = g.round /\ f.limit = g.limit /\ f.ran = g.ran
      /\ f.extra = g.extra /\ f.hist = g.hist /\ f.sent = g.sent
      /\ f.k = g.k /\ f.tried = g.tried
  BY <1>3 DEF Frames, Pcs
<1>5. f = Fresh
  BY DEF Fresh, g
<1> HIDE DEF f
<1>6. ~Busy(f)
  BY <1>4 DEF Busy
<1>7. FrameInv(f, shortages')
  <2>1. Len(Request(f)) = Len(Request(g)) /\ (CallsInOrder(g) => CallsInOrder(f))
    BY <1>3, <1>4, SameCalls
  <2>2. PassedOver(f) = PassedOver(g)
    BY <1>4 DEF PassedOver
  <2>3. FrameInv(g, shortages')
    BY <1>3
  <2>4. f.round < f.limit
    BY <1>4, <1>round, Sizes
  <2>5. QED BY <1>3, <1>4, <1>6, <2>1, <2>2, <2>3, <2>4 DEF FrameInv
<1>8. QED BY <1>3, <1>4, <1>5, <1>6, <1>7

LEMMA ReturnKeeps ==
  ASSUME IInv, stack # <<>>, Top.pc \in {"build", "ask", "fallback"}, NEW failed \in {0, 1},
         NEW error \in Errors, NEW text \in Texts, ReturnAfter(failed, error, text),
         error = "OK" => Top.pc # "build" /\ text \in {"answer", "errorPage"},
         error = "IO" \/ text = "errorPage" => Top.pc = "fallback" /\ Top.k > Fallbacks
  PROVE  IInv'
<1>1. /\ Len(stack) \in Nat /\ Len(stack) >= 1 /\ Top \in Frames /\ Top.id = <<chats, Len(stack)>>
      /\ (Top.kind = "spawn" <=> Len(stack) > 1) /\ FrameInv(Top, shortages) /\ ~Busy(Top)
  BY TopFrame DEF IInv, Busy
<1>2. /\ shortages \in Nat /\ shortages \in 0 .. MaxShortages /\ log \in Seq(Rows) /\ chats \in Nat
  BY Sizes, Numbers DEF IInv, Types
<1>3. /\ UNCHANGED <<db, logVars, chats, toolVars, refused>> /\ shortages' <= MaxShortages
  BY DEF ReturnAfter
<1>4. CASE Len(stack) > 1
  <2>1. Len(stack) # 1
    BY <1>1, <1>4
  <2>2. PICK what \in {"ok", "unset"} :
          /\ stack' = [Front(stack) EXCEPT ![Len(stack) - 1].pc = what]
          /\ shortages' = shortages + failed + (IF what = "unset" THEN 1 ELSE 0)
    BY <2>1 DEF ReturnAfter
  <2>3. UNCHANGED outcome
    BY <2>1 DEF ReturnAfter
  <2>4. shortages' \in 0 .. MaxShortages /\ shortages <= shortages'
    <3> DEFINE u == IF what = "unset" THEN 1 ELSE 0
    <3>1. u \in Nat /\ failed \in Nat /\ shortages' = shortages + failed + u
      BY <2>2
    <3> HIDE DEF u
    <3>2. QED BY <1>2, <1>3, <3>1, Sizes
  <2>5. QED BY <1>3, <1>4, <2>2, <2>3, <2>4, AgentReturns
<1>5. CASE Len(stack) = 1
  <2>1. /\ stack' = IF ToBeLogged(error) THEN <<Fresh>> ELSE <<>>
        /\ outcome' = [error |-> error, text |-> text, tried |-> Top.tried]
        /\ shortages' = shortages + failed
    BY <1>5 DEF ReturnAfter, Fresh
  <2>2. shortages' \in 0 .. MaxShortages /\ shortages <= shortages' /\ shortages' \in Nat
    BY <1>2, <1>3, <2>1, Sizes
  <2>3. outcome' \in Outcomes /\ outcome'.text = text /\ outcome'.error = error
        /\ outcome'.tried = Top.tried
    BY <1>1, <2>1 DEF Outcomes, Errors, Texts, Frames
  <2>4. ToBeLogged(error) =>
          /\ stack' \in Seq(Frames) /\ Len(stack') = 1 /\ stack'[1] = Fresh /\ stack' # <<>>
          /\ Top' = Fresh /\ text \in {"answer", "errorPage"}
          /\ Fresh.id = <<chats, 1>> /\ Fresh.kind = "chat" /\ Fresh.pc = "asked"
          /\ Fresh.hist = <<>> /\ ~Busy(Fresh) /\ FrameInv(Fresh, shortages')
    <3>1. SUFFICES ASSUME ToBeLogged(error)
                   PROVE  /\ stack' \in Seq(Frames) /\ Len(stack') = 1 /\ stack'[1] = Fresh
                          /\ stack' # <<>>
                          /\ Top' = Fresh /\ text \in {"answer", "errorPage"}
                          /\ Fresh.id = <<chats, 1>> /\ Fresh.kind = "chat" /\ Fresh.pc = "asked"
                          /\ Fresh.hist = <<>> /\ ~Busy(Fresh) /\ FrameInv(Fresh, shortages')
      OBVIOUS
    <3>2. error = "OK"
      BY <3>1 DEF ToBeLogged
    <3>3. Top.kind = "chat"
      <4>1. Top.round < Top.limit /\ Top.round \in Nat
        BY <1>1, <3>2, Sizes DEF FrameInv, Frames
      <4>2. Top.limit # 0
        BY <4>1
      <4>3. Top.kind # "compact"
        BY <1>1, <4>2 DEF FrameInv
      <4>4. Top.kind # "spawn"
        BY <1>1, <1>5
      <4>5. QED BY <1>1, <4>3, <4>4 DEF Frames, Kinds
    <3>4. /\ Fresh \in Frames /\ Fresh.id = Top.id /\ Fresh.kind = "chat" /\ Fresh.pc = "asked"
          /\ Fresh.hist = <<>> /\ ~Busy(Fresh) /\ FrameInv(Fresh, shortages')
      BY <2>2, <3>3, FreshFrame
    <3>5. stack' = <<Fresh>>
      BY <2>1, <3>1
    <3> DEFINE f == Fresh
    <3> HIDE DEF f
    <3>6. stack' = <<f>> /\ f \in Frames
      BY <3>4, <3>5 DEF f
    <3>7. stack' \in Seq(Frames) /\ Len(stack') = 1 /\ stack'[1] = f /\ stack' # <<>>
      BY <3>6
    <3>8. Top' = f
      BY <3>7 DEF Top
    <3>9. QED BY <1>1, <1>5, <3>2, <3>4, <3>7, <3>8 DEF f
  <2>5. ~ToBeLogged(error) => stack' = <<>>
    BY <2>1
  <2>6. Types'
    <3>1. <<>> \in Seq(Frames) /\ Len(<<>>) = 0 /\ 0 <= MaxDepth /\ 1 <= MaxDepth
      BY Sizes
    <3>2. stack' \in Seq(Frames) /\ Len(stack') <= MaxDepth
      BY <2>4, <2>5, <3>1
    <3>3. QED BY <1>3, <2>2, <2>3, <3>2 DEF IInv, Types, logVars, toolVars
  <2>7. StackInv' /\ HistInv'
    <3>1. CASE ToBeLogged(error)
      <4>1. chats' = chats
        BY <1>3
      <4>2. ASSUME NEW i \in 1 .. 1
            PROVE  /\ stack'[i].id = <<chats', i>> /\ (stack'[i].pc = "waits" <=> i < 1)
                   /\ (stack'[i].kind = "spawn" <=> i > 1) /\ FrameInv(stack'[i], shortages')
                   /\ BeginsWithUser(stack'[i])
        <5>1. i = 1 /\ stack'[i] = Fresh
          BY <2>4, <3>1
        <5>2. BeginsWithUser(Fresh)
          BY <2>4, <3>1 DEF BeginsWithUser
        <5>3. QED BY <2>4, <3>1, <4>1, <5>1, <5>2
      <4>3. Len(stack') = 1
        BY <2>4, <3>1
      <4>4. QED BY <4>2, <4>3 DEF StackInv, HistInv
    <3>2. CASE ~ToBeLogged(error)
      <4>1. \A i \in 1 .. Len(<<>>) : FALSE
        OBVIOUS
      <4>2. QED BY <2>5, <3>2, <4>1 DEF StackInv, HistInv
    <3>3. QED BY <3>1, <3>2
  <2>8. AuditInv'
    <3>1. ToolsRunning' = 0
      BY <2>4, <2>5 DEF ToolsRunning, One, Busy
    <3>2. ToolsRunning = 0
      BY <1>1, <1>5 DEF ToolsRunning, One
    <3>3. QED BY <1>3, <3>1, <3>2 DEF IInv, AuditInv, toolVars
  <2>9. EndInv'
    BY <2>3, <2>4, <2>5 DEF EndInv, Ending
  <2>10. LogInv'
    <3>1. ~At("answered") /\ ~At("answered")'
      BY <2>4, <2>5 DEF At
    <3>2. QED BY <1>3, <3>1, LogKept DEF logVars
  <2>11. FailoverComplete'
    <3>1. SUFFICES ASSUME error = "IO" \/ text = "errorPage"
                   PROVE  Cardinality((0 .. Fallbacks) \ Top.tried) <= shortages'
      BY <2>3 DEF FailoverComplete
    <3>2. Top.k = Fallbacks + 1
      BY <1>1, <3>1, Sizes DEF Frames
    <3>3. (0 .. Fallbacks) \ Top.tried = PassedOver(Top)
      <4>1. Top.k - 1 = Fallbacks
        BY <3>2, Sizes
      <4>2. QED BY <4>1 DEF PassedOver
    <3>4. Cardinality(PassedOver(Top)) <= shortages
      BY <1>1 DEF FrameInv
    <3>5. Cardinality(PassedOver(Top)) \in Nat
      BY <1>1, PassedOverFinite
    <3> DEFINE c == Cardinality(PassedOver(Top))
    <3>6. Cardinality((0 .. Fallbacks) \ Top.tried) = c
      BY <3>3
    <3>7. c \in Nat /\ c <= shortages
      BY <3>4, <3>5
    <3> HIDE DEF c
    <3>8. QED BY <1>2, <2>2, <3>6, <3>7
  <2>12. QED BY <2>6, <2>7, <2>8, <2>9, <2>10, <2>11 DEF IInv
<1>6. QED BY <1>1, <1>4, <1>5

LEMMA ReturnsKeep ==
  ASSUME IInv, BuildFails \/ RoundsExhausted \/ AllFailed \/ Answer \/ ToolRejected
  PROVE  IInv'
<1>1. CASE BuildFails
  BY <1>1, ReturnKeeps DEF BuildFails, At, Errors, Texts
<1>2. CASE RoundsExhausted
  BY <1>2, ReturnKeeps DEF RoundsExhausted, Return, At, Errors, Texts
<1>3. CASE AllFailed
  <2>1. stack # <<>> /\ Top.pc = "fallback" /\ Top.k > Fallbacks
    BY <1>3 DEF AllFailed, At
  <2>2. ReturnAfter(0, "OK", "errorPage") \/ ReturnAfter(0, "IO", "none")
    BY <1>3 DEF AllFailed, Return
  <2>3. QED BY <2>1, <2>2, ReturnKeeps DEF Errors, Texts
<1>4. CASE Answer
  <2>1. stack # <<>> /\ Top.pc = "ask"
    BY <1>4 DEF Answer, At
  <2>2. ReturnAfter(0, "OK", "answer") \/ ReturnAfter(0, "INVALID", "rejected")
    BY <1>4 DEF Answer, Return
  <2>3. QED BY <2>1, <2>2, ReturnKeeps DEF Errors, Texts
<1>5. CASE ToolRejected
  BY <1>5, ReturnKeeps DEF ToolRejected, Return, At, Errors, Texts
<1>6. QED BY <1>1, <1>2, <1>3, <1>4, <1>5

-----------------------------------------------------------------------------
(* The innermost chat has called its tool and spawns an agent with it.     *)
LEMMA ToolSpawnsKeeps ==
  ASSUME IInv, ToolSpawns
  PROVE  IInv'
<1> DEFINE n == Len(stack)
           id == <<chats, n + 1>>
           hist == <<Message("system", id, 0, "sub-agent")>>
           g == Frame("spawn", id, hist)
           f == [Top EXCEPT !.pc = "waits"]
           s == [stack EXCEPT ![n] = f]
<1>1. /\ stack # <<>> /\ Top.pc = "tool" /\ n < MaxDepth /\ stack' = Append(s, g)
      /\ UNCHANGED <<db, logVars, chats, toolVars, shortages, refused, outcome>>
  BY DEF ToolSpawns, At, Top
<1>2. /\ n \in Nat /\ n >= 1 /\ n \in 1 .. n
      /\ Top \in Frames /\ Top.id = <<chats, n>> /\ Busy(Top)
      /\ (Top.kind = "spawn" <=> n > 1) /\ FrameInv(Top, shortages)
  BY <1>1, TopFrame DEF IInv, Busy
<1>3. /\ stack \in Seq(Frames) /\ shortages \in Nat
      /\ chats \in 0 .. MaxChats
  BY Sizes DEF IInv, Types
<1>4. /\ f \in Frames /\ f.id = Top.id /\ f.kind = Top.kind /\ f.pc = "waits"
      /\ f.round = Top.round /\ f.limit = Top.limit /\ f.ran = Top.ran
      /\ f.extra = Top.extra /\ f.hist = Top.hist /\ f.sent = Top.sent
      /\ f.k = Top.k /\ f.tried = Top.tried
  BY <1>2 DEF Frames, Pcs
<1>5. id \in Ids
  <2>1. Top.id \in Ids
    BY <1>2 DEF Frames
  <2>2. chats \in 1 .. MaxChats
    BY <1>2, <2>1 DEF Ids
  <2>3. n + 1 \in 1 .. MaxDepth
    BY <1>1, <1>2, Sizes
  <2>4. QED BY <2>2, <2>3 DEF Ids
<1> HIDE DEF f, id
<1>6. hist \in Seq(Rows)
  <2>1. 0 \in 0 .. Rounds
    BY Sizes
  <2>2. Message("system", id, 0, "sub-agent") \in Rows
    BY <1>5, <2>1 DEF Message, Rows
  <2>3. QED BY <2>2
<1> HIDE DEF hist
<1>7. /\ g \in Frames /\ g.id = id /\ g.kind = "spawn" /\ g.pc = "build" /\ ~Busy(g)
      /\ FrameInv(g, shortages)
  BY <1>3, <1>5, <1>6, FrameBegins DEF Kinds
<1> HIDE DEF g
<1>8. s \in Seq(Frames) /\ Len(s) = n /\ \A i \in 1 .. n : s[i] = IF i = n THEN f ELSE stack[i]
  BY <1>2, <1>3, <1>4, ExceptSeq
<1> HIDE DEF s
<1>9. /\ stack' \in Seq(Frames) /\ Len(stack') = n + 1 /\ stack'[n + 1] = g
      /\ \A i \in 1 .. n : stack'[i] = IF i = n THEN f ELSE stack[i]
  BY <1>1, <1>7, <1>8, AppendProperties
<1> HIDE DEF n
<1>10. Types'
  <2>1. n + 1 <= MaxDepth
    BY <1>1, <1>2, Sizes
  <2>2. QED BY <1>1, <1>9, <2>1 DEF IInv, Types, logVars, toolVars
<1>11. FrameInv(f, shortages)
  <2>1. Len(Request(f)) = Len(Request(Top)) /\ CallsInOrder(f)
    BY <1>2, <1>4, SameCalls DEF FrameInv
  <2>2. Busy(f) /\ f.pc \notin {"ask", "fallback", "build"}
    BY <1>4 DEF Busy
  <2>3. Top.round < Top.limit /\ Top.k <= Fallbacks
    BY <1>1, <1>2 DEF FrameInv
  <2>4. PassedOver(f) = PassedOver(Top)
    BY <1>4 DEF PassedOver
  <2>5. QED BY <1>2, <1>4, <2>1, <2>2, <2>3, <2>4 DEF FrameInv
<1>12. StackInv'
  <2>1. ASSUME NEW i \in 1 .. n + 1
        PROVE  /\ stack'[i].id = <<chats, i>> /\ (stack'[i].pc = "waits" <=> i < n + 1)
               /\ (stack'[i].kind = "spawn" <=> i > 1) /\ FrameInv(stack'[i], shortages)
    <3>1. CASE i = n + 1
      <4>1. i > 1 /\ ~(i < n + 1)
        BY <1>2, <3>1
      <4>2. QED BY <1>7, <1>9, <3>1, <4>1 DEF id
    <3>2. CASE i = n
      <4>1. i < n + 1 /\ stack'[i] = f
        BY <1>2, <1>9, <3>2
      <4>2. QED BY <1>2, <1>4, <1>11, <3>2, <4>1
    <3>3. CASE i < n
      <4>1. stack'[i] = stack[i] /\ i < n + 1 /\ i \in 1 .. Len(stack) /\ i < Len(stack)
        BY <1>2, <1>9, <3>3 DEF n
      <4>2. QED BY <4>1 DEF IInv, StackInv
    <3>4. QED BY <1>2, <3>1, <3>2, <3>3
  <2>2. QED BY <1>1, <1>9, <2>1 DEF StackInv
<1>13. stack' # <<>>
  <2>1. Len(stack') # 0
    BY <1>2, <1>9
  <2>2. QED BY <2>1, EmptySeq
<1>14. Top' = g
  BY <1>9 DEF Top
<1>15. AuditInv'
  <2>1. ToolsRunning' = (n + 1 - 1) + 0
    <3>1. One(Busy(Top))' = 0
      BY <1>7, <1>14 DEF One, Busy
    <3>2. ToolsRunning' = Len(stack') - 1 + One(Busy(Top))'
      BY <1>13 DEF ToolsRunning
    <3>3. Len(stack') = n + 1
      BY <1>9
    <3>4. QED BY <1>2, <3>1, <3>2, <3>3
  <2>2. ToolsRunning = (n - 1) + 1
    BY <1>1, <1>2 DEF ToolsRunning, One, n
  <2>3. ToolsRunning' = ToolsRunning
    <3>1. (n - 1) + 1 = (n + 1 - 1) + 0
      BY <1>2
    <3>2. QED BY <2>1, <2>2, <3>1
  <2>4. QED BY <1>1, <2>3 DEF IInv, AuditInv, toolVars
<1>16. HistInv'
  <2>1. ASSUME broken = {}, NEW i \in 1 .. n + 1
        PROVE  BeginsWithUser(stack'[i])
    <3>1. CASE i = n + 1
      BY <1>7, <1>9, <3>1 DEF BeginsWithUser
    <3>2. CASE i # n + 1
      <4>1. i \in 1 .. n
        BY <1>2, <3>2
      <4>2. BeginsWithUser(stack[i])
        BY <2>1, <4>1 DEF IInv, HistInv, n
      <4>3. stack'[i].kind = stack[i].kind /\ stack'[i].hist = stack[i].hist
        BY <1>4, <1>9, <4>1 DEF Top, n
      <4>4. QED BY <4>2, <4>3 DEF BeginsWithUser
    <3>3. QED BY <3>1, <3>2
  <2>2. broken' = broken
    BY <1>1 DEF logVars
  <2>3. QED BY <1>9, <2>1, <2>2 DEF HistInv
<1>17. FailoverComplete' /\ EndInv'
  BY <1>1, <1>7, <1>13, <1>14 DEF IInv, FailoverComplete, EndInv, Ending
<1>18. LogInv'
  <2>1. ~At("answered") /\ ~At("answered")'
    BY <1>1, <1>7, <1>14 DEF At
  <2>2. QED BY <1>1, <2>1, LogKept DEF logVars
<1>19. QED BY <1>10, <1>12, <1>15, <1>16, <1>17, <1>18 DEF IInv

-----------------------------------------------------------------------------
LEMMA InitHolds == Init => IInv
<1> SUFFICES ASSUME Init PROVE IInv
  OBVIOUS
<1>1. Types
  <2>1. NoOutcome \in Outcomes
    BY DEF NoOutcome, Outcomes
  <2>2. 0 <= MaxDepth /\ 0 \in 0 .. MaxChats /\ 0 \in 0 .. MaxShortages /\ 0 \in 0 .. MaxRefusals
    BY Sizes
  <2>3. QED BY <2>1, <2>2 DEF Init, Types
<1>2. StackInv /\ HistInv
  BY DEF Init, StackInv, HistInv
<1>3. AuditInv
  BY DEF Init, AuditInv, ToolsRunning
<1>4. FailoverComplete /\ EndInv
  BY DEF Init, FailoverComplete, NoOutcome, EndInv, Ending
<1>5. LogInv
  <2>1. Len(log) = 0 /\ 0 % 2 = 0 /\ ~At("answered")
    BY DEF Init, At
  <2>2. QED BY <2>1 DEF LogInv
<1>6. QED BY <1>1, <1>2, <1>3, <1>4, <1>5 DEF IInv

LEMMA StutterKeeps == IInv /\ UNCHANGED vars => IInv'
<1> SUFFICES ASSUME IInv, UNCHANGED vars PROVE IInv'
  OBVIOUS
<1>1. /\ UNCHANGED <<stack, db, log, broken, chats>>
      /\ UNCHANGED <<started, audited, unaudited, lost, shortages, refused, outcome>>
  BY DEF vars, logVars, toolVars
<1>2. Types'
  BY <1>1 DEF IInv, Types
<1>3. StackInv' /\ HistInv'
  BY <1>1 DEF IInv, StackInv, HistInv
<1>4. Top' = Top
  BY <1>1 DEF Top
<1>5. AuditInv'
  BY <1>1, <1>4 DEF IInv, AuditInv, ToolsRunning
<1>6. FailoverComplete' /\ EndInv'
  BY <1>1, <1>4 DEF IInv, FailoverComplete, EndInv, Ending
<1>7. LogInv'
  <2>1. At("answered")' = At("answered")
    BY <1>1, <1>4 DEF At
  <2>2. \A i : /\ OneTurn(i)' = OneTurn(i) /\ IsOpen(i)' = IsOpen(i)
               /\ IsQuestion(log[i])' = IsQuestion(log[i]) /\ IsAnswer(log[i])' = IsAnswer(log[i])
    BY <1>1, <1>4, <2>1 DEF OneTurn, IsOpen, IsQuestion, IsAnswer
  <2>3. \A i \in 1 .. Len(log) : RowInv(i)'
    BY <1>1, <2>2 DEF IInv, LogInv, RowInv
  <2>4. IsOpen(Len(log))' = IsOpen(Len(log))
    BY <1>1, <1>4, <2>1 DEF IsOpen, IsQuestion
  <2>5. QED BY <1>1, <1>4, <2>1, <2>3, <2>4 DEF IInv, LogInv
<1>8. QED BY <1>2, <1>3, <1>5, <1>6, <1>7 DEF IInv

LEMMA NextKeeps == IInv /\ Next => IInv'
<1> SUFFICES ASSUME IInv, Next PROVE IInv'
  OBVIOUS
<1>1. CASE Start
  BY <1>1, StartChatKeeps, HistoryCrashesKeeps, StartCompactKeeps, ClearLogKeeps DEF Start
<1>2. CASE Step
  <2>1. CASE BuildRequest \/ BuildCrashes \/ BuildFails \/ RoundsExhausted
    BY <2>1, RequestsKeep, CrashesKeep, ReturnsKeep
  <2>2. CASE \E how \in {"net", "http"} : ProviderFails(how)
    BY <2>2, ProviderFailsKeeps
  <2>3. CASE FallbackRequest \/ FallbackSkipped \/ AllFailed \/ Answer
    BY <2>3, RequestsKeep, FallbackSkippedKeeps, ReturnsKeep
  <2>4. CASE ToolRejected \/ ToolNameCrashes \/ ToolCalled
    BY <2>4, ReturnsKeep, CrashesKeep, ToolCalledKeeps
  <2>5. CASE ToolEnds \/ ToolCrashes \/ ToolFails \/ ToolSpawns
    BY <2>5, ToolEndsKeeps, CrashesKeep, ToolFailsKeeps, ToolSpawnsKeeps
  <2>6. CASE LogsQuestion \/ LogsAnswer
    BY <2>6, LogsQuestionKeeps, LogsAnswerKeeps
  <2>7. QED BY <1>2, <2>1, <2>2, <2>3, <2>4, <2>5, <2>6 DEF Step
<1>3. CASE Killed
  BY <1>3, CrashesKeep
<1>4. QED BY <1>1, <1>2, <1>3 DEF Next

(* The inductive invariant holds of the agent loop. *)
LEMMA Invariance == Spec => []IInv
<1>1. Init => IInv
  BY InitHolds
<1>2. IInv /\ [Next]_vars => IInv'
  BY NextKeeps, StutterKeeps
<1>3. QED BY <1>1, <1>2, PTL DEF Spec

-----------------------------------------------------------------------------
(* What a sequence holds. *)
LEMMA InRange ==
  ASSUME NEW S, NEW s \in Seq(S), NEW m \in Range(s)
  PROVE  m \in S
<1>1. PICK j \in DOMAIN s : m = s[j]
  BY DEF Range
<1>2. j \in 1 .. Len(s)
  OBVIOUS
<1>3. QED BY <1>1, <1>2, ElementOfSeq

(* sea_agent_chat and the chats it spawns keep to their rounds, their      *)
(* buffer of messages and their providers; only the innermost is at work.  *)
THEOREM AgentTypes == Spec => []TypeOK
<1>1. IInv => TypeOK
  <2> SUFFICES ASSUME IInv PROVE TypeOK
    OBVIOUS
  <2>1. stack \in Seq(Frames) /\ log \in Seq(Rows)
    BY DEF IInv, Types
  <2>2. \A m \in Range(log) : m \in Rows
    BY <2>1, InRange
  <2>3. ASSUME NEW i \in DOMAIN stack
        PROVE  LET f == stack[i] IN
               /\ f.id = <<chats, i>> /\ f.pc \in Pcs
               /\ (f.pc = "waits") <=> (i < Len(stack))
               /\ f.input \in Messages
               /\ f.round \in 0 .. f.limit /\ f.k \in 0 .. Fallbacks + 1
               /\ f.tried \subseteq 0 .. Fallbacks
               /\ f.sent \in 0 .. Len(Request(f))
               /\ Len(f.extra) <= ExtraRoom /\ \A m \in Range(f.extra) : m \in Messages
               /\ \A m \in Range(f.hist) : m \in Rows
    <3> DEFINE f == stack[i]
    <3>1. i \in 1 .. Len(stack)
      BY <2>1
    <3>2. f \in Frames
      BY <2>1, <3>1, ElementOfSeq
    <3>3. f.id = <<chats, i>> /\ (f.pc = "waits" <=> i < Len(stack)) /\ FrameInv(f, shortages)
      BY <3>1 DEF IInv, StackInv
    <3> HIDE DEF f
    <3>4. f.round \in 0 .. f.limit
      BY <3>2, <3>3, Sizes DEF FrameInv, Frames
    <3>5. Len(f.extra) <= ExtraRoom
      <4>1. Len(f.extra) <= 2 * f.round /\ f.round \in 0 .. Rounds /\ Len(f.extra) \in Nat
        BY <3>2, <3>3 DEF FrameInv, CallsInOrder, Frames
      <4>2. QED BY <4>1, Sizes
    <3>6. f.sent \in 0 .. Len(Request(f))
      <4>1. f.sent \in Nat /\ f.sent <= Len(Request(f)) /\ Len(Request(f)) \in Nat
        BY <3>2, <3>3, RequestShape DEF Frames, FrameInv
      <4>2. QED BY <4>1
    <3>7. (\A m \in Range(f.extra) : m \in Messages) /\ (\A m \in Range(f.hist) : m \in Rows)
      <4>1. f.extra \in Seq(Messages) /\ f.hist \in Seq(Rows)
        BY <3>2 DEF Frames
      <4>2. QED BY <4>1, InRange
    <3>8. f.input \in Messages /\ f.pc \in Pcs /\ f.k \in 0 .. Fallbacks + 1
          /\ f.tried \subseteq 0 .. Fallbacks
      BY <3>2 DEF Frames, Messages
    <3>9. QED BY <3>3, <3>4, <3>5, <3>6, <3>7, <3>8 DEF f
  <2>4. QED BY <2>2, <2>3 DEF IInv, Types, TypeOK
<1>2. QED BY <1>1, Invariance, PTL

(* A request, whole or cut short where its buffer could not grow, holds    *)
(* the calls of its chat in order and none without the earlier ones, each  *)
(* result directly after its call, however deep the agents were in between.*)
THEOREM CallsKeepTheirResults == Spec => []ResultsFollowCalls
<1>1. IInv => ResultsFollowCalls
  <2> SUFFICES ASSUME IInv, At("ask") PROVE ResultsFollowCalls
    BY DEF ResultsFollowCalls
  <2> DEFINE f == Top
             q == Request(f)
             e == f.extra
             s == Sent(f)
  <2>1. stack # <<>> /\ f.pc = "ask"
    BY DEF At
  <2>2. f \in Frames /\ FrameInv(f, shortages) /\ ~Busy(f)
    BY <2>1, TopFrame DEF IInv, Busy
  <2> HIDE DEF f
  <2>3. /\ CallsInOrder(f) /\ f.ran = f.round /\ e \in Seq(Messages) /\ f.hist \in Seq(Rows)
        /\ f.input \in Rows /\ f.sent \in Nat /\ f.sent <= Len(q)
        /\ f.sent # Len(q) => shortages > 0
    BY <2>1, <2>2 DEF FrameInv, Frames
  <2>4. PICK a \in Nat, b \in Nat, n \in Nat :
          /\ a = Len(f.hist) /\ b = Len(e) /\ n = f.sent
          /\ Len(q) = a + b + 1 /\ DOMAIN q = 1 .. a + b + 1
          /\ \A i \in 1 .. a : q[i] = f.hist[i]
          /\ \A i \in 1 .. b : q[a + i] = e[i]
          /\ q[a + b + 1] = f.input
    BY <2>2, <2>3, RequestShape
  <2>5. n <= a + b + 1 /\ f.round \in Nat
    BY <2>2, <2>3, <2>4, Sizes DEF Frames
  <2>nums. a \in Nat /\ b \in Nat /\ n \in Nat /\ n <= a + b + 1
    BY <2>4, <2>5
  <2>6. DOMAIN s = 1 .. n /\ \A i \in 1 .. n : s[i] = q[i]
    <3> DEFINE z == SubSeq(q, 1, n)
    <3>1. s = z
      BY <2>4 DEF Sent
    <3>2. q \in Seq(Messages)
      <4>1. f.hist \in Seq(Messages) /\ f.input \in Messages /\ <<f.input>> \in Seq(Messages)
        BY <2>3 DEF Messages
      <4>2. QED BY <2>3, <4>1, ConcatProperties DEF Request
    <3>3. \A i \in 1 .. n : i \in 1 .. a + b + 1
      BY <2>nums
    <3>4. \A i \in 1 .. n : i \in 1 .. Len(q)
      BY <2>4, <3>3
    <3> HIDE DEF q
    <3>5. /\ z \in Seq(Messages) /\ Len(z) = (IF 1 <= n THEN n - 1 + 1 ELSE 0)
          /\ \A i \in 1 .. (n - 1 + 1) : z[i] = q[1 + i - 1]
      BY <2>nums, <3>2, <3>4, SubSeqProperties
    <3> HIDE DEF z
    <3>6. n - 1 + 1 = n /\ \A i \in 1 .. n : 1 + i - 1 = i
      BY <2>nums
    <3>7. Len(z) = n
      BY <2>nums, <3>5
    <3>8. DOMAIN z = 1 .. n /\ \A i \in 1 .. n : z[i] = q[i]
      BY <3>5, <3>6, <3>7
    <3>9. QED BY <3>1, <3>8, Zenon
  <2>7. ASSUME NEW i \in 1 .. n
        PROVE  \/ s[i].role \notin {"call", "result"}
               \/ i - a \in 1 .. b /\ i > a /\ s[i] = e[i - a]
    <3>1. CASE i \in 1 .. a
      <4>1. s[i] = f.hist[i] /\ f.hist[i] \in Rows
        BY <2>3, <2>4, <2>6, <3>1, ElementOfSeq
      <4>2. QED BY <4>1 DEF Rows
    <3>2. CASE i = a + b + 1
      <4>1. s[i] = f.input
        BY <2>4, <2>6, <3>2
      <4>2. QED BY <2>3, <4>1 DEF Rows
    <3>3. CASE i > a /\ i < a + b + 1
      <4>1. i - a \in 1 .. b /\ a + (i - a) = i
        BY <2>nums, <3>3
      <4>2. s[i] = e[i - a]
        BY <2>4, <2>6, <4>1
      <4>3. QED BY <3>3, <4>1, <4>2
    <3>4. i \in 1 .. a \/ i = a + b + 1 \/ (i > a /\ i < a + b + 1)
      BY <2>nums
    <3>5. QED BY <3>1, <3>2, <3>3, <3>4
  <2>8. DOMAIN e = 1 .. b
    BY <2>3, <2>4
  <2>9. /\ {e[i].n : i \in Calls(e)} = 1 .. f.round
        /\ \A i, j \in Calls(e) : i < j => e[i].n < e[j].n
        /\ \A i \in 1 .. b : e[i].role = "result" =>
             i > 1 /\ e[i - 1] = Message("call", f.id, e[i].n, "call")
    BY <2>3, <2>4 DEF CallsInOrder
  <2> DEFINE C == Calls(e)
             D == Calls(s)
  <2>10. C = {i \in 1 .. b : e[i].role = "call"} /\ D = {i \in 1 .. n : s[i].role = "call"}
    BY <2>6, <2>8 DEF Calls
  <2> HIDE DEF q, e, s, C, D
  <2>11. \A i \in D : i \in 1 .. n /\ i > a /\ i - a \in C /\ s[i] = e[i - a]
    BY <2>7, <2>10
  <2>12. \A c \in C : a + c \in 1 .. n => a + c \in D /\ s[a + c] = e[c]
    <3>1. \A c \in C : a + c \in 1 .. n => s[a + c] = e[c]
      BY <2>4, <2>6, <2>10
    <3>2. QED BY <2>10, <3>1
  <2>13. \A c \in C : c \in 1 .. b /\ e[c].n \in 1 .. f.round
    BY <2>9, <2>10 DEF C
  <2>14. \A x \in 1 .. f.round : \E c \in C : e[c].n = x
    BY <2>9 DEF C
  <2>15. \A i, j \in C : i < j => e[i].n < e[j].n
    BY <2>9 DEF C
  <2>16. n # a + b + 1 => shortages > 0
    BY <2>3, <2>4
  <2>17. n = a + b + 1 => {s[i].n : i \in D} = 1 .. f.round
    <3>1. SUFFICES ASSUME n = a + b + 1
                   PROVE  {s[i].n : i \in D} = 1 .. f.round
      OBVIOUS
    <3>2. \A i \in D : s[i].n \in 1 .. f.round
      BY <2>11, <2>13
    <3>3. ASSUME NEW x \in 1 .. f.round
          PROVE  \E i \in D : s[i].n = x
      <4>1. PICK c \in C : e[c].n = x
        BY <2>14
      <4>2. a + c \in 1 .. n
        BY <2>4, <2>13, <3>1, <4>1
      <4>3. QED BY <2>12, <4>1, <4>2
    <3>4. QED BY <3>2, <3>3
  <2>18. ASSUME NEW i \in D, NEW x \in 1 .. s[i].n - 1
         PROVE  \E j \in D : j < i /\ s[j].n = x
    <3>1. i \in 1 .. n /\ i > a /\ i - a \in C /\ s[i] = e[i - a]
      BY <2>11
    <3> DEFINE d == i - a
    <3>2. d \in C /\ e[d].n \in 1 .. f.round /\ x \in 1 .. e[d].n - 1 /\ d \in 1 .. b
      BY <2>13, <3>1
    <3>3. x \in 1 .. f.round /\ x < e[d].n
      BY <2>5, <3>2
    <3>4. PICK c \in C : e[c].n = x
      BY <2>14, <3>3
    <3>5. c < d
      <4>1. c \in 1 .. b
        BY <2>13
      <4>2. c # d
        BY <3>3, <3>4, <3>2, <2>5
      <4>3. ~(d < c)
        <5>1. d < c => e[d].n < e[c].n
          BY <2>15, <3>2
        <5>2. QED BY <2>5, <3>2, <3>3, <3>4, <5>1
      <4> HIDE DEF d
      <4>4. QED BY <2>4, <3>2, <4>1, <4>2, <4>3
    <3>6. a + c \in 1 .. n /\ a + c < i
      <4>1. c \in 1 .. b
        BY <2>13
      <4>2. QED BY <2>4, <3>1, <3>5, <4>1
    <3>7. QED BY <2>12, <3>4, <3>6
  <2>19. \A i, j \in D : i < j => s[i].n < s[j].n
    <3>1. ASSUME NEW i \in D, NEW j \in D, i < j
          PROVE  s[i].n < s[j].n
      <4>1. i - a \in C /\ j - a \in C /\ s[i] = e[i - a] /\ s[j] = e[j - a]
            /\ i \in 1 .. n /\ j \in 1 .. n
        BY <2>11
      <4>2. i - a < j - a
        BY <2>4, <3>1, <4>1
      <4>3. QED BY <2>15, <4>1, <4>2
    <3>2. QED BY <3>1
  <2>20. ASSUME NEW i \in 1 .. n, s[i].role = "result"
         PROVE  i > 1 /\ s[i - 1] = Message("call", f.id, s[i].n, "call")
    <3>1. i - a \in 1 .. b /\ i > a /\ s[i] = e[i - a]
      BY <2>7, <2>20
    <3> DEFINE d == i - a
    <3>2. d \in 1 .. b /\ e[d].role = "result"
      BY <2>20, <3>1
    <3>3. d > 1 /\ e[d - 1] = Message("call", f.id, e[d].n, "call")
      BY <2>9, <3>2
    <3>4. d - 1 \in 1 .. b /\ a + (d - 1) = i - 1 /\ i - 1 \in 1 .. n /\ i > 1
      BY <2>4, <3>1, <3>3
    <3>5. s[i - 1] = e[d - 1]
      <4>1. s[i - 1] = q[i - 1]
        BY <2>6, <3>4
      <4>2. q[a + (d - 1)] = e[d - 1]
        BY <2>4, <3>4
      <4>3. QED BY <3>4, <4>1, <4>2
    <3>6. QED BY <3>1, <3>3, <3>4, <3>5
  <2>21. /\ n = a + b + 1 \/ shortages > 0
         /\ n = a + b + 1 => {s[i].n : i \in D} = 1 .. f.round /\ f.ran = f.round
         /\ \A i \in D : \A x \in 1 .. s[i].n - 1 : \E j \in D : j < i /\ s[j].n = x
         /\ \A i, j \in D : i < j => s[i].n < s[j].n
         /\ \A i \in DOMAIN s : s[i].role = "result" =>
              i > 1 /\ s[i - 1] = Message("call", f.id, s[i].n, "call")
    BY <2>3, <2>6, <2>16, <2>17, <2>18, <2>19, <2>20
  <2>22. n = f.sent /\ Len(Request(f)) = a + b + 1
    BY <2>4 DEF q
  <2>23. QED BY <2>21, <2>22 DEF ResultsFollowCalls, s, D, f
<1>2. QED BY <1>1, Invariance, PTL

(* Every tool that was run has its row in the audit trail, but for those   *)
(* under way, those lost with the process and those whose row the database *)
(* refused or was not there to take.                                       *)
THEOREM EveryToolAudited == Spec => []ToolsAudited
<1>1. IInv => ToolsAudited
  BY RunningCount DEF IInv, AuditInv, ToolsAudited
<1>2. QED BY <1>1, Invariance, PTL

(* The user is told that the providers failed only when every one of them  *)
(* was asked, or passed over for want of room.                             *)
THEOREM FailoverLeavesNoneOut == Spec => []FailoverComplete
<1>1. IInv => FailoverComplete
  BY DEF IInv
<1>2. QED BY <1>1, Invariance, PTL

(* main.c and the gateway leave a log of turns, questions before their own *)
(* answers and in the order of the chats; half a turn is there only when a *)
(* row was refused, the process was lost between the two or the answer is  *)
(* yet to come; and the window that goes with a chat begins with a         *)
(* question as long as no turn was broken.                                 *)
THEOREM LogKeepsTurns == Spec => []LogIsTurns
<1>1. IInv => LogIsTurns
  <2> SUFFICES ASSUME IInv PROVE LogIsTurns
    OBVIOUS
  <2>1. DOMAIN log = 1 .. Len(log) /\ DOMAIN stack = 1 .. Len(stack)
    BY DEF IInv, Types
  <2>2. broken = {} => \A i \in 1 .. Len(stack) :
          stack[i].kind = "chat" /\ stack[i].hist # <<>> => stack[i].hist[1].role = "user"
    BY DEF IInv, HistInv, BeginsWithUser
  <2>3. \A i \in 1 .. Len(log) :
          /\ log[i].of[2] = 1 /\ (IsQuestion(log[i]) \/ IsAnswer(log[i]))
          /\ \A k \in i + 1 .. Len(log) :
               log[k].of[1] > log[i].of[1] \/ (k = i + 1 /\ OneTurn(i))
          /\ \/ log[i].of \in broken \/ IsOpen(i)
             \/ i < Len(log) /\ OneTurn(i)
             \/ i > 1 /\ OneTurn(i - 1)
    BY DEF IInv, LogInv, RowInv
  <2>4. QED BY <2>1, <2>2, <2>3 DEF LogIsTurns
<1>2. QED BY <1>1, Invariance, PTL

=============================================================================

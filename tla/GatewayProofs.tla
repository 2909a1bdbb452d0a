---------------------------- MODULE GatewayProofs ----------------------------
(***************************************************************************)
(* Proofs about gateway mode, for every sequence of updates, every size of *)
(* response, queue and arena, and any number of restarts and failed writes: *)
(* updates are handled in order, replies follow their questions, and the   *)
(* rows of the history stay paired.                                        *)
(***************************************************************************)
EXTENDS Gateway, SequenceTheorems, FiniteSetTheorems, TLAPS

(* The number the poll thread has reached: confirmed, or handled since. *)
Reached == MaxOf(acked, last)

(* The updates still to be handled follow what was reached, what is handled *)
(* follows what was handled before, and all of it lies within one response *)
(* of what the server was told to forget.                                  *)
UpdatesFollow ==
  /\ \A i \in 1 .. Len(batch) : batch[i] = Reached + i
  /\ Reached + Len(batch) <= acked + Limit
  /\ IF before = Len(handled) THEN last = 0
     ELSE last = handled[Len(handled)] /\ acked <= last
  /\ acked <= Latest(handled) /\ Latest(handled) <= acked + Limit
  /\ \A i \in before + 1 .. Len(handled) - 1 : handled[i + 1] = handled[i] + 1
  /\ before < Len(handled) =>
       /\ handled[before + 1] <= Latest(Earlier) + 1
       /\ handled[before + 1] > Latest(Earlier) - Limit

(* What the threads hold where they are, and where main is. *)
InTurn ==
  /\ agent \in {"working", "logUser", "logAssistant"} => turn \in Queued
  /\ disp = "sending" => reply \in Queued
  /\ main \in {"start", "launch", "done", "dead"} => agent = "none" /\ disp = "none"
  /\ main \in {"free", "exit"} => agent = "ended"

Rising(s) == \A i, j \in 1 .. Len(s) : i < j => s[i] < s[j]

InReply == IF disp = "sending" THEN <<reply.n>> ELSE <<>>

(* All replies of this life that have not been dropped, in the order in    *)
(* which they reach the chat.                                              *)
Replies == delivered \o InReply \o Numbers(outbound)

(* What was asked in this life is in the agent's hands, still queued, or    *)
(* replied to, and no message is accepted twice.                           *)
Asked ==
  /\ EachAnsweredOnce
  /\ Rising(accepted) /\ \A i \in 1 .. Len(accepted) : accepted[i] <= last

(* What was replied is on its way in the order of the questions. *)
Told == Rising(Replies) /\ Range(Replies) \subseteq Range(answered)

(* While the answer is written, its question is the last row, or the       *)
(* failed write of the question allows for one more row without its half.  *)
AskedLast == chatLog # <<>> /\ chatLog[Len(chatLog)] = [role |-> "user", n |-> turn.n]
HistoryInv ==
  /\ HistoryPaired
  /\ agent = "logAssistant" => AskedLast \/ Cardinality(Unpaired) + 2 <= lostRows + lives

-----------------------------------------------------------------------------
(* A finite set of numbers that is not empty has a greatest one. *)
LEMMA MaxIsGreatest ==
  ASSUME NEW S \in SUBSET Int, S # {}, IsFiniteSet(S)
  PROVE  Max(S) \in S /\ \A x \in S : x <= Max(S)
<1> DEFINE Above(x) == {y \in S : y >= x}
           Tails == {Above(x) : x \in S}
<1>1. Tails \subseteq FiniteSubsetsOf(S)
  <2>1. \A x \in S : Above(x) \in SUBSET S
    OBVIOUS
  <2>2. QED BY <2>1, FS_FiniteSubsetsOfFinite
<1>2. Tails # {}
  OBVIOUS
<1>3. PICK T \in Tails : \A U \in Tails : <<U, T>> \notin StrictSubsetOrdering(S)
  <2> HIDE DEF Tails
  <2>1. IsWellFoundedOn(StrictSubsetOrdering(S), FiniteSubsetsOf(S))
    BY FS_StrictSubsetOrderingWellFounded
  <2>2. QED BY <1>1, <1>2, <2>1, WFMin, Zenon
<1>4. PICK m \in S : T = Above(m)
  BY <1>3
<1>5. ASSUME NEW x \in S, x > m PROVE FALSE
  <2>0. x \in Int /\ m \in Int /\ \A y \in S : y \in Int
    OBVIOUS
  <2>1. Above(x) \subseteq T /\ Above(x) # T
    <3>1. \A y \in S : y >= x => y >= m
      BY <1>5, <2>0
    <3>2. m >= m /\ ~(m >= x)
      BY <1>5, <2>0
    <3>3. m \in T /\ m \notin Above(x)
      BY <1>4, <3>2
    <3>4. Above(x) \subseteq T
      BY <1>4, <3>1
    <3>5. QED BY <3>3, <3>4
  <2>2. Above(x) \in SUBSET S /\ T \in SUBSET S
    BY <1>4
  <2>3. <<Above(x), T>> \in StrictSubsetOrdering(S)
    BY <2>1, <2>2 DEF StrictSubsetOrdering
  <2>4. QED BY <1>3, <2>3
<1>6. m \in S /\ \A y \in S : m >= y
  BY <1>5
<1>7. QED BY <1>6 DEF Max

(* The latest of a sequence of updates is an upper bound of it, and one of *)
(* them if there is any.                                                   *)
LEMMA LatestIsLast ==
  ASSUME NEW N \in Nat, NEW s \in Seq(1 .. N)
  PROVE  /\ Latest(s) \in 0 .. N
         /\ \A i \in 1 .. Len(s) : s[i] <= Latest(s)
         /\ Latest(s) = 0 \/ \E i \in 1 .. Len(s) : Latest(s) = s[i]
<1> DEFINE S == {0} \union Range(s)
<1>1. Range(s) = {s[i] : i \in 1 .. Len(s)}
  BY RangeEquality
<1>2. S \subseteq 0 .. N /\ S # {}
  BY <1>1
<1>3. IsFiniteSet(S)
  <2> HIDE DEF S
  <2>1. IsFiniteSet(0 .. N) /\ S \in SUBSET (0 .. N)
    BY <1>2, FS_Interval
  <2>2. QED BY <2>1, FS_Subset, Zenon
<1>4. Latest(s) \in S /\ \A x \in S : x <= Latest(s)
  <2> HIDE DEF S
  <2>1. S \in SUBSET Int
    BY <1>2
  <2>2. Max(S) \in S /\ \A x \in S : x <= Max(S)
    BY <2>1, <1>2, <1>3, MaxIsGreatest
  <2>3. QED BY <2>2 DEF Latest, S
<1>5. QED BY <1>1, <1>2, <1>4

(* One more update makes it the later of the two. *)
LEMMA LatestOfAppend ==
  ASSUME NEW N \in Nat, NEW s \in Seq(1 .. N), NEW u \in 1 .. N
  PROVE  Latest(Append(s, u)) = MaxOf(Latest(s), u)
<1>1. Append(s, u) \in Seq(1 .. N) /\ Len(Append(s, u)) = Len(s) + 1 /\ Len(s) \in Nat
  OBVIOUS
<1>2. \A i \in 1 .. Len(s) : Append(s, u)[i] = s[i]
  OBVIOUS
<1>3. Append(s, u)[Len(s) + 1] = u
  OBVIOUS
<1> DEFINE a == Append(s, u)
<1>4. /\ Latest(a) \in 0 .. N
      /\ \A i \in 1 .. Len(a) : a[i] <= Latest(a)
      /\ Latest(a) = 0 \/ \E i \in 1 .. Len(a) : Latest(a) = a[i]
  BY <1>1, LatestIsLast
<1>5. /\ Latest(s) \in 0 .. N
      /\ \A i \in 1 .. Len(s) : s[i] <= Latest(s)
      /\ Latest(s) = 0 \/ \E i \in 1 .. Len(s) : Latest(s) = s[i]
  BY LatestIsLast
<1> HIDE DEF a
<1>6. u <= Latest(a) /\ Latest(s) <= Latest(a)
  BY <1>1, <1>2, <1>3, <1>4, <1>5 DEF a
<1>7. Latest(a) = u \/ Latest(a) <= Latest(s)
  BY <1>1, <1>2, <1>3, <1>4, <1>5 DEF a
<1>8. QED BY <1>4, <1>5, <1>6, <1>7 DEF MaxOf, a

(* The numbers of the messages of a queue. *)
LEMMA NumbersOfQueue ==
  ASSUME NEW q \in Seq(Queued)
  PROVE  /\ Numbers(q) \in Seq(1 .. Len(Updates))
         /\ Numbers(<<>>) = <<>>
         /\ \A m \in Queued : Numbers(Append(q, m)) = Append(Numbers(q), m.n)
         /\ q # <<>> => /\ Numbers(q) = <<Head(q).n>> \o Numbers(Tail(q))
                        /\ Head(q) \in Queued /\ Tail(q) \in Seq(Queued)
<1>0. \A m \in Queued : m.n \in 1 .. Len(Updates)
  BY DEF Queued
<1>1. \A p \in Seq(Queued) : /\ Numbers(p) \in Seq(1 .. Len(Updates)) /\ Len(Numbers(p)) = Len(p)
                             /\ \A i \in 1 .. Len(p) : Numbers(p)[i] = p[i].n
  BY <1>0 DEF Numbers
<1>2. Numbers(<<>>) = <<>>
  BY DEF Numbers
<1>3. ASSUME NEW m \in Queued PROVE Numbers(Append(q, m)) = Append(Numbers(q), m.n)
  <2> DEFINE a == Numbers(Append(q, m))
             b == Append(Numbers(q), m.n)
  <2>1. /\ Append(q, m) \in Seq(Queued) /\ Len(Append(q, m)) = Len(q) + 1 /\ Len(q) \in Nat
        /\ \A i \in 1 .. Len(q) : Append(q, m)[i] = q[i]
        /\ Append(q, m)[Len(q) + 1] = m
    OBVIOUS
  <2>2. /\ a \in Seq(1 .. Len(Updates)) /\ Len(a) = Len(q) + 1
        /\ \A i \in 1 .. Len(q) + 1 : a[i] = Append(q, m)[i].n
    BY <1>1, <2>1
  <2>3. /\ b \in Seq(1 .. Len(Updates)) /\ Len(b) = Len(q) + 1
        /\ \A i \in 1 .. Len(q) : b[i] = q[i].n
        /\ b[Len(q) + 1] = m.n
    <3>1. m.n \in 1 .. Len(Updates) /\ Numbers(q) \in Seq(1 .. Len(Updates)) /\ Len(Numbers(q)) = Len(q)
          /\ \A i \in 1 .. Len(q) : Numbers(q)[i] = q[i].n
      BY <1>0, <1>1
    <3>2. QED BY <3>1, AppendProperties
  <2> HIDE DEF a, b
  <2>4. ASSUME NEW i \in 1 .. Len(a) PROVE a[i] = b[i]
    <3>1. i \in 1 .. Len(q) + 1
      BY <2>2
    <3>2. CASE i \in 1 .. Len(q)
      BY <2>1, <2>2, <2>3, <3>1, <3>2, Zenon
    <3>3. CASE i = Len(q) + 1
      BY <2>1, <2>2, <2>3, <3>1, <3>3, Zenon
    <3>4. QED BY <2>1, <3>1, <3>2, <3>3
  <2>5. a = b
    BY <2>2, <2>3, <2>4, SeqEqual
  <2>6. QED BY <2>5 DEF a, b
<1>4. ASSUME q # <<>>
      PROVE  /\ Numbers(q) = <<Head(q).n>> \o Numbers(Tail(q))
             /\ Head(q) \in Queued /\ Tail(q) \in Seq(Queued)
  <2>1. Head(q) \in Queued /\ Tail(q) \in Seq(Queued) /\ Len(Tail(q)) = Len(q) - 1 /\ Len(q) \in Nat
        /\ Head(q) = q[1] /\ \A i \in 1 .. Len(q) - 1 : Tail(q)[i] = q[i + 1]
    BY <1>4
  <2>2. /\ Numbers(q) \in Seq(1 .. Len(Updates)) /\ Len(Numbers(q)) = Len(q)
        /\ \A i \in 1 .. Len(q) : Numbers(q)[i] = q[i].n
        /\ Numbers(Tail(q)) \in Seq(1 .. Len(Updates)) /\ Len(Numbers(Tail(q))) = Len(q) - 1
        /\ \A i \in 1 .. Len(q) - 1 : Numbers(Tail(q))[i] = Tail(q)[i].n
    BY <1>1, <2>1
  <2> DEFINE N == Len(q)
             h == <<Head(q).n>>
             t == Numbers(Tail(q))
             a == Numbers(q)
             b == h \o t
  <2>3. h \in Seq(1 .. Len(Updates)) /\ Len(h) = 1 /\ h[1] = q[1].n
    BY <1>0, <2>1
  <2>4. /\ t \in Seq(1 .. Len(Updates)) /\ Len(t) = N - 1
        /\ \A i \in 1 .. N - 1 : t[i] = q[i + 1].n
    BY <2>1, <2>2
  <2>5. a \in Seq(1 .. Len(Updates)) /\ Len(a) = N /\ \A i \in 1 .. N : a[i] = q[i].n
    BY <2>2
  <2>6. N \in Nat
    BY <2>1
  <2> HIDE DEF h, t, a, N
  <2>7. /\ b \in Seq(1 .. Len(Updates)) /\ Len(b) = N
        /\ \A i \in 1 .. N : b[i] = IF i <= 1 THEN h[i] ELSE t[i - 1]
    <3>1. /\ b \in Seq(1 .. Len(Updates)) /\ Len(b) = Len(h) + Len(t)
          /\ \A i \in 1 .. Len(h) + Len(t) : b[i] = IF i <= Len(h) THEN h[i] ELSE t[i - Len(h)]
      BY <2>3, <2>4, ConcatProperties
    <3>2. Len(h) = 1 /\ Len(h) + Len(t) = N
      BY <2>3, <2>4, <2>6
    <3>3. QED BY <3>1, <3>2, Zenon
  <2> HIDE DEF b
  <2>8. ASSUME NEW i \in 1 .. N PROVE a[i] = b[i]
    <3>1. CASE i = 1
      BY <2>3, <2>5, <2>6, <2>7, <3>1
    <3>2. CASE i > 1
      <4>1. i - 1 \in 1 .. N - 1 /\ (i - 1) + 1 = i
        BY <2>6, <3>2
      <4>2. t[i - 1] = q[i].n
        BY <2>4, <4>1
      <4>3. QED BY <2>5, <2>6, <2>7, <3>2, <4>2
    <3>3. QED BY <2>6, <3>1, <3>2
  <2>9. a = b
    BY <2>5, <2>7, <2>8, SeqEqual
  <2>10. QED BY <2>1, <2>9 DEF h, t, a, b
<1>5. QED BY <1>1, <1>2, <1>3, <1>4

(* The smaller of two numbers. *)
LEMMA MinOfTwo ==
  ASSUME NEW a \in Nat, NEW b \in Nat
  PROVE  Min({a, b}) \in Nat /\ Min({a, b}) <= a /\ Min({a, b}) <= b
<1>1. CASE a <= b
  <2>1. a \in {a, b} /\ \A y \in {a, b} : a <= y
    BY <1>1
  <2>2. QED BY <2>1 DEF Min
<1>2. CASE b <= a
  <2>1. b \in {a, b} /\ \A y \in {a, b} : b <= y
    BY <1>2
  <2>2. QED BY <2>1 DEF Min
<1>3. QED BY <1>1, <1>2

(* What the proofs use of the constants. *)
LEMMA Sizes == Limit \in Nat \ {0} /\ Capacity \in Nat \ {0} /\ MaxMishaps \in Nat /\ Len(Updates) \in Nat
  BY GatewayAssumption

(* What getUpdates answers when it was asked to forget the first k of A. *)
IsResponse(r, k, A) == r = [i \in 1 .. Min({Limit, A - k}) |-> k + i]

(* It is made of updates that have arrived, one after the other. *)
LEMMA Response ==
  ASSUME NEW A \in Nat, NEW k \in 0 .. A, NEW r, IsResponse(r, k, A)
  PROVE  r \in Seq(1 .. A) /\ Len(r) <= Limit /\ \A i \in 1 .. Len(r) : r[i] = k + i
<1> DEFINE M == Min({Limit, A - k})
<1>1. A - k \in Nat
  OBVIOUS
<1>2. M \in Nat /\ M <= A - k /\ M <= Limit
  BY <1>1, Sizes, MinOfTwo
<1>3. r = [i \in 1 .. M |-> k + i]
  BY DEF IsResponse
<1> HIDE DEF M
<1>4. ASSUME NEW i \in 1 .. M PROVE k + i \in 1 .. A
  BY <1>2
<1>5. r \in Seq(1 .. A) /\ Len(r) = M /\ \A i \in 1 .. M : r[i] = k + i
  <2>1. \A i \in 1 .. M : r[i] = k + i
    BY <1>3
  <2>2. [i \in 1 .. M |-> k + i] \in Seq(1 .. A) /\ Len([i \in 1 .. M |-> k + i]) = M
    BY <1>2, <1>4
  <2>3. QED BY <1>3, <2>1, <2>2
<1>6. QED BY <1>2, <1>5, Sizes

(* The beginning of a sequence. *)
LEMMA PrefixOf ==
  ASSUME NEW S, NEW s \in Seq(S), NEW k \in 0 .. Len(s)
  PROVE  /\ SubSeq(s, 1, k) \in Seq(S) /\ Len(SubSeq(s, 1, k)) = k
         /\ \A i \in 1 .. k : SubSeq(s, 1, k)[i] = s[i]
<1>1. k \in Int /\ \A i \in 1 .. k : s[i] \in S
  OBVIOUS
<1>2. /\ SubSeq(s, 1, k) \in Seq(S) /\ Len(SubSeq(s, 1, k)) = IF 1 <= k THEN k - 1 + 1 ELSE 0
      /\ \A i \in 1 .. k - 1 + 1 : SubSeq(s, 1, k)[i] = s[1 + i - 1]
  BY <1>1, SubSeqProperties
<1>3. k \in Nat /\ k - 1 + 1 = k /\ \A i \in 1 .. k : 1 + i - 1 = i
  OBVIOUS
<1>4. QED BY <1>2, <1>3

(* An arena that has room for the most strings. *)
LEMMA RoomsHaveMax == Max(Rooms) \in Nat /\ \A r \in Rooms : r \in 0 .. Max(Rooms)
<1>1. Rooms \in SUBSET Int /\ Rooms # {} /\ IsFiniteSet(Rooms) /\ Rooms \subseteq Nat
  BY GatewayAssumption
<1>2. Max(Rooms) \in Rooms /\ \A r \in Rooms : r <= Max(Rooms)
  BY <1>1, MaxIsGreatest
<1>3. \A r \in Rooms : r \in Nat
  BY <1>1
<1>4. QED BY <1>2, <1>3

-----------------------------------------------------------------------------
(* Types, and what the threads hold, in the beginning. *)
LEMMA TypesInitially == ASSUME Init PROVE TypeOK /\ InTurn
<1>1. \A S : <<>> \in Seq(S) /\ Len(<<>>) = 0
  OBVIOUS
<1>2. Len(Updates) \in Nat
  BY Sizes
<1>3. QED BY <1>1, <1>2, RoomsHaveMax, Sizes DEF Init, TypeOK, InTurn

(* A process that is gone leaves a well typed state behind. *)
LEMMA ForgetKeepsTypes ==
  ASSUME TypeOK, Forget, main' \in {"done", "dead"}, fault' \in {"none", "null", "stale", "kill"}
  PROVE  TypeOK' /\ InTurn'
<1>1. \A S : <<>> \in Seq(S) /\ Len(<<>>) = 0
  OBVIOUS
<1>2. Len(handled) \in Nat /\ Len(Updates) \in Nat
  BY Sizes DEF TypeOK
<1>3. InTurn'
  BY DEF Forget, InTurn
<1>4. TypeOK'
  BY <1>1, <1>2, RoomsHaveMax, Sizes DEF Forget, TypeOK
<1>5. QED BY <1>3, <1>4

(* The main thread, signals, losses and arrivals keep the types. *)
LEMMA MainKeepsTypes ==
  ASSUME TypeOK, InTurn, MainStep \/ Signal \/ Kill \/ Restart \/ Arrive
  PROVE  TypeOK' /\ InTurn'
<1> USE Sizes DEF mainVars, pollVars, agentVars, dispVars, lifeVars
<1>1. CASE StartChannel
  BY <1>1 DEF StartChannel, TypeOK, InTurn
<1>2. CASE LaunchThreads
  BY <1>2 DEF LaunchThreads, TypeOK, InTurn
<1>3. CASE StopAll
  BY <1>3 DEF StopAll, TypeOK, InTurn
<1>4. CASE DestroyBus
  BY <1>4, RoomsHaveMax DEF DestroyBus, TypeOK, InTurn
<1>5. CASE JoinThreads
  BY <1>5 DEF JoinThreads, TypeOK, InTurn
<1>6. CASE FreeChannel
  BY <1>6 DEF FreeChannel, TypeOK, InTurn
<1>7. CASE Exit
  BY <1>7, ForgetKeepsTypes DEF Exit, TypeOK
<1>8. CASE Signal
  <2>1. UNCHANGED <<main, chan, poller, last, batch, acked, handled, accepted, inbound, agent, turn,
                      chatLog, lostRows, answered, disp, reply, delivered, fault, lives, before,
                      outbound, room, arrived>>
    BY <1>8 DEF Signal
  <2>2. TypeOK'
    <3>1. running' \in BOOLEAN
      BY <1>8 DEF Signal
    <3>2. QED BY <2>1, <3>1 DEF TypeOK
  <2>3. InTurn'
    BY <2>1 DEF InTurn
  <2>4. QED BY <2>2, <2>3
<1>9. CASE Kill
  BY <1>9, ForgetKeepsTypes DEF Kill, Die
<1>10. CASE Restart
  BY <1>10 DEF Restart, TypeOK, InTurn, Alive
<1>11. CASE Arrive
  <2>1. arrived \in Nat /\ Len(Updates) \in Nat /\ arrived' = arrived + 1 /\ arrived < Len(Updates)
    BY <1>11 DEF Arrive, TypeOK
  <2>2. 1 .. arrived \subseteq 1 .. arrived'
    BY <2>1
  <2>3. batch \in Seq(1 .. arrived') /\ handled \in Seq(1 .. arrived')
    BY <2>2, SeqMonotonic DEF TypeOK
  <2>4. arrived' \in 0 .. Len(Updates) /\ acked \in 0 .. arrived' /\ last \in 0 .. arrived'
    BY <2>1 DEF TypeOK
  <2>5. TypeOK'
    BY <1>11, <2>3, <2>4 DEF Arrive, TypeOK
  <2>6. InTurn'
    BY <1>11 DEF Arrive, InTurn
  <2>7. QED BY <2>5, <2>6
<1>12. QED
  BY <1>1, <1>2, <1>3, <1>4, <1>5, <1>6, <1>7, <1>8, <1>9, <1>10, <1>11 DEF MainStep

(* So does the poll thread. *)
LEMMA PollKeepsTypes ==
  ASSUME TypeOK, InTurn, PollStep \/ FetchFails
  PROVE  TypeOK' /\ InTurn'
<1> USE Sizes DEF mainVars, pollVars, agentVars, dispVars, lifeVars
<1>1. CASE PollThreadRuns
  BY <1>1 DEF PollThreadRuns, TypeOK, InTurn
<1>2. CASE Fetch \/ FetchFails
  <2>0. arrived \in Nat
    BY DEF TypeOK
  <2>1. acked' \in 0 .. arrived
    BY <1>2 DEF Fetch, FetchFails, TypeOK, MaxOf
  <2>2. batch' \in Seq(1 .. arrived)
    <3>1. CASE Fetch
      <4>1. IsResponse(batch', acked', arrived)
        BY <3>1 DEF Fetch, IsResponse
      <4>2. QED BY <2>0, <2>1, <4>1, Response
    <3>2. CASE FetchFails
      BY <3>2 DEF FetchFails, TypeOK
    <3>3. QED BY <1>2, <3>1, <3>2
  <2>3. poller' \in {"none", "created", "looping", "handling", "ended"}
    BY <1>2 DEF Fetch, FetchFails, TypeOK, Remaining
  <2>4. UNCHANGED <<running, main, chan, last, handled, accepted, inbound, outbound, room, arrived,
                    agentVars, dispVars, lifeVars>>
    BY <1>2 DEF Fetch, FetchFails
  <2>5. TypeOK'
    BY <2>1, <2>2, <2>3, <2>4 DEF TypeOK
  <2>6. InTurn'
    BY <2>4 DEF InTurn
  <2>7. QED BY <2>5, <2>6
<1>3. CASE HandleUpdate
  <2> DEFINE u == Head(batch)
             m == [n |-> u, strings |-> Strings]
  <2>0. /\ batch \in Seq(1 .. arrived) /\ arrived \in 0 .. Len(Updates) /\ last \in 0 .. arrived
        /\ handled \in Seq(1 .. arrived) /\ before \in 0 .. Len(handled) /\ room \in 0 .. Max(Rooms)
        /\ inbound \in Seq(Queued) /\ Len(inbound) <= Capacity /\ accepted \in Seq(1 .. Len(Updates))
    BY DEF TypeOK
  <2>1. u \in 1 .. arrived /\ Tail(batch) \in Seq(1 .. arrived) /\ 1 .. arrived \subseteq 1 .. Len(Updates)
    <3>1. batch # <<>> /\ Len(Updates) \in Nat
      BY <1>3 DEF HandleUpdate
    <3>2. QED BY <2>0, <3>1
  <2>2. m \in Queued
    BY <2>1 DEF Queued, Strings
  <2> HIDE DEF u
  <2>3. /\ Append(inbound, m) \in Seq(Queued) /\ Len(Append(inbound, m)) = Len(inbound) + 1
        /\ Len(inbound) \in Nat
    BY <2>0, <2>2
  <2>4. Append(accepted, u) \in Seq(1 .. Len(Updates))
    BY <2>0, <2>1
  <2>5. inbound' \in Seq(Queued) /\ Len(inbound') <= Capacity /\ accepted' \in Seq(1 .. Len(Updates))
    <3> HIDE DEF m
    <3>1. \/ inbound' = Append(inbound, m) /\ Len(inbound) < Capacity /\ accepted' = Append(accepted, u)
          \/ inbound' = inbound /\ accepted' = accepted
      BY <1>3 DEF HandleUpdate, m, u
    <3>2. Len(inbound) < Capacity => Len(inbound) + 1 <= Capacity
      BY <2>3
    <3>3. QED BY <2>0, <2>3, <2>4, <3>1, <3>2, Zenon
  <2>6. room' \in 0 .. Max(Rooms)
    <3>1. UseRoom \/ room' = room
      BY <1>3, Zenon DEF HandleUpdate
    <3>2. QED BY <2>0, <3>1, RoomsHaveMax DEF UseRoom
  <2>7. /\ last' \in 0 .. arrived /\ batch' \in Seq(1 .. arrived)
        /\ handled' \in Seq(1 .. arrived) /\ before \in 0 .. Len(handled')
    <3>1. last' \in {last, u} /\ batch' = Tail(batch) /\ handled' = Append(handled, u)
      BY <1>3 DEF HandleUpdate, MaxOf, u
    <3>2. QED BY <2>0, <2>1, <3>1
  <2>8. poller' \in {"none", "created", "looping", "handling", "ended"}
    BY <1>3 DEF HandleUpdate, Remaining
  <2>9. UNCHANGED <<running, main, chan, acked, outbound, arrived, agentVars, dispVars, lifeVars>>
    BY <1>3 DEF HandleUpdate
  <2>10. TypeOK'
    BY <2>5, <2>6, <2>7, <2>8, <2>9 DEF TypeOK
  <2>11. InTurn'
    BY <2>9 DEF InTurn
  <2>12. QED BY <2>10, <2>11
<1>4. CASE PollThreadEnds
  BY <1>4 DEF PollThreadEnds, TypeOK, InTurn
<1>5. CASE PollThreadStale
  BY <1>5, ForgetKeepsTypes DEF PollThreadStale, Die
<1>6. QED BY <1>1, <1>2, <1>3, <1>4, <1>5 DEF PollStep

(* Publishing a reply, and writing a row. *)
LEMMA PublishKeepsTypes ==
  ASSUME TypeOK, turn \in Queued, PublishReply
  PROVE  /\ outbound' \in Seq(Queued) /\ Len(outbound') <= Capacity /\ room' \in 0 .. Max(Rooms)
         /\ answered' \in Seq(1 .. Len(Updates))
<1> DEFINE m == [n |-> turn.n, strings |-> Strings]
<1>1. turn.n \in 1 .. Len(Updates) /\ m \in Queued
  BY DEF Queued, Strings
<1>2. /\ Append(outbound, m) \in Seq(Queued) /\ Len(Append(outbound, m)) = Len(outbound) + 1
      /\ Len(outbound) \in Nat
  BY <1>1 DEF TypeOK
<1>3. outbound' \in Seq(Queued) /\ Len(outbound') <= Capacity
  <2> HIDE DEF m
  <2>1. (outbound' = Append(outbound, m) /\ Len(outbound) < Capacity) \/ outbound' = outbound
    BY DEF PublishReply, m
  <2>2. Len(outbound) < Capacity => Len(outbound) + 1 <= Capacity
    BY <1>2, Sizes
  <2>3. outbound \in Seq(Queued) /\ Len(outbound) <= Capacity
    BY DEF TypeOK
  <2>4. QED BY <1>2, <2>1, <2>2, <2>3, Zenon
<1>4. room' \in 0 .. Max(Rooms)
  <2>1. UseRoom \/ room' = room
    BY Zenon DEF PublishReply
  <2>2. room \in 0 .. Max(Rooms)
    BY DEF TypeOK
  <2>3. QED BY <2>1, <2>2, RoomsHaveMax DEF UseRoom
<1>5. answered' \in Seq(1 .. Len(Updates))
  BY <1>1 DEF PublishReply, TypeOK
<1>6. QED BY <1>3, <1>4, <1>5

(* So does writing a row of the history, or failing to. *)
LEMMA WriteKeepsTypes ==
  ASSUME TypeOK, turn \in Queued, NEW who \in {"user", "assistant"}, WriteRow(who), lives' = lives
  PROVE  /\ lives + lostRows' \in 1 .. MaxMishaps + 1 /\ lostRows' \in Nat
         /\ chatLog' \in Seq(Rows)
<1>1. [role |-> who, n |-> turn.n] \in Rows
  BY DEF Queued, Rows
<1>2. chatLog' \in Seq(Rows)
  <2> DEFINE r == [role |-> who, n |-> turn.n]
  <2>1. chatLog' = Append(chatLog, r) \/ chatLog' = chatLog
    BY DEF WriteRow
  <2>2. chatLog \in Seq(Rows)
    BY DEF TypeOK
  <2> HIDE DEF r
  <2>3. r \in Rows
    BY <1>1 DEF r
  <2>4. QED BY <2>1, <2>2, <2>3
<1>3. lives + lostRows' \in 1 .. MaxMishaps + 1 /\ lostRows' \in Nat
  <2>1. lostRows' = lostRows \/ (lives + lostRows <= MaxMishaps /\ lostRows' = lostRows + 1)
    BY DEF WriteRow
  <2>2. lives + lostRows \in 1 .. MaxMishaps + 1 /\ lives \in Nat /\ lostRows \in Nat
    BY DEF TypeOK
  <2>3. QED BY <2>1, <2>2, Sizes
<1>4. QED BY <1>2, <1>3

(* So does the agent thread. *)
LEMMA AgentKeepsTypes ==
  ASSUME TypeOK, InTurn, AgentStep
  PROVE  TypeOK' /\ InTurn'
<1> USE Sizes DEF mainVars, pollVars, agentVars, dispVars, lifeVars
<1>1. CASE AgentLoop \/ AgentGetsNothing
  <2>1. /\ agent' \in {"consuming", "ended"}
        /\ main \notin {"start", "launch", "free", "exit", "done", "dead"}
        /\ UNCHANGED <<mainVars, pollVars, turn, chatLog, lostRows, answered, dispVars, lifeVars,
                       outbound, room, arrived>>
    BY <1>1 DEF AgentLoop, AgentGetsNothing, InTurn, Alive
  <2>2. TypeOK'
    BY <2>1 DEF TypeOK
  <2>3. InTurn'
    BY <2>1 DEF InTurn
  <2>4. QED BY <2>2, <2>3
<1>2. CASE AgentConsume
  <2>1. Head(inbound) \in Queued /\ Tail(inbound) \in Seq(Queued) /\ Len(Tail(inbound)) <= Capacity
    BY <1>2 DEF AgentConsume, TypeOK
  <2>2. TypeOK' /\ InTurn'
    BY <1>2, <2>1 DEF AgentConsume, TypeOK, InTurn, Alive, BusDestroyed
  <2>3. QED BY <2>2
<1>3. CASE AgentRefuses \/ AgentAnswers
  <2>1. turn \in Queued /\ PublishReply
    BY <1>3 DEF AgentRefuses, AgentAnswers, InTurn
  <2>2. /\ outbound' \in Seq(Queued) /\ Len(outbound') <= Capacity /\ room' \in 0 .. Max(Rooms)
        /\ answered' \in Seq(1 .. Len(Updates))
    BY <2>1, PublishKeepsTypes
  <2>3. /\ agent' \in {"loop", "logUser"} /\ turn' \in {turn, NoMessage}
        /\ agent' = "logUser" => turn' = turn
        /\ main \notin {"start", "launch", "free", "exit", "done", "dead"}
        /\ UNCHANGED <<mainVars, pollVars, chatLog, lostRows, dispVars, lifeVars, arrived>>
    BY <1>3 DEF AgentRefuses, AgentAnswers, InTurn, Alive
  <2>4. TypeOK'
    BY <2>1, <2>2, <2>3 DEF TypeOK
  <2>5. InTurn'
    BY <2>1, <2>3 DEF InTurn
  <2>6. QED BY <2>4, <2>5
<1>4. CASE LogUser \/ LogAssistant
  <2>1. turn \in Queued /\ \E who \in {"user", "assistant"} : WriteRow(who)
    BY <1>4 DEF LogUser, LogAssistant, InTurn
  <2>2. /\ lives + lostRows' \in 1 .. MaxMishaps + 1 /\ lostRows' \in Nat
        /\ chatLog' \in Seq(Rows)
    BY <1>4, <2>1, WriteKeepsTypes DEF LogUser, LogAssistant
  <2>3. /\ agent' \in {"loop", "logAssistant"} /\ turn' \in {turn, NoMessage}
        /\ agent' = "logAssistant" => turn' = turn
        /\ main \notin {"start", "launch", "free", "exit", "done", "dead"}
        /\ UNCHANGED <<running, main, chan, poller, last, batch, acked, handled, accepted, inbound,
                       answered, disp, reply, delivered, fault, lives, before, outbound, room, arrived>>
    BY <1>4 DEF LogUser, LogAssistant, InTurn, Alive
  <2>4. TypeOK'
    <3>1. /\ agent' \in {"none", "loop", "consuming", "working", "logUser", "logAssistant", "ended"}
          /\ turn' \in Queued \union {NoMessage}
      BY <2>1, <2>3, Zenon
    <3>2. lives' + lostRows' \in 1 .. MaxMishaps + 1
      BY <2>2, <2>3
    <3>3. (/\ running \in BOOLEAN
           /\ main \in {"start", "launch", "wait", "destroy", "join", "free", "exit", "done", "dead"}
           /\ chan \in {"STOPPED", "STARTING", "RUNNING", "ERROR"}
           /\ poller \in {"none", "created", "looping", "handling", "ended"}
           /\ disp \in {"none", "loop", "draining", "sending", "ended"}
           /\ reply \in Queued \union {NoMessage}
           /\ fault \in {"none", "null", "stale", "kill"})'
      BY <2>3 DEF TypeOK
    <3>4. (/\ last \in 0 .. arrived /\ batch \in Seq(1 .. arrived)
           /\ inbound \in Seq(Queued) /\ Len(inbound) <= Capacity
           /\ outbound \in Seq(Queued) /\ Len(outbound) <= Capacity
           /\ room \in 0 .. Max(Rooms))'
      BY <2>3 DEF TypeOK
    <3>5. (/\ lives \in Nat /\ lostRows \in Nat /\ chatLog \in Seq(Rows)
           /\ arrived \in 0 .. Len(Updates) /\ acked \in 0 .. arrived
           /\ delivered \in Seq(1 .. Len(Updates)) /\ handled \in Seq(1 .. arrived)
           /\ before \in 0 .. Len(handled)
           /\ accepted \in Seq(1 .. Len(Updates)) /\ answered \in Seq(1 .. Len(Updates)))'
      BY <2>2, <2>3 DEF TypeOK
    <3>6. QED BY <3>1, <3>2, <3>3, <3>4, <3>5, Zenon DEF TypeOK
  <2>5. InTurn'
    BY <2>1, <2>3 DEF InTurn
  <2>6. QED BY <2>4, <2>5
<1>5. CASE AgentReadsNull \/ AgentStale
  BY <1>5, ForgetKeepsTypes DEF AgentReadsNull, AgentStale, Die
<1>6. QED BY <1>1, <1>2, <1>3, <1>4, <1>5 DEF AgentStep

(* So does the dispatcher. *)
LEMMA DispKeepsTypes ==
  ASSUME TypeOK, InTurn, DispStep
  PROVE  TypeOK' /\ InTurn'
<1> USE Sizes DEF mainVars, pollVars, agentVars, dispVars, lifeVars
<1>1. CASE DispLoop
  BY <1>1 DEF DispLoop, TypeOK, InTurn
<1>2. CASE DispTake
  <2>1. Head(outbound) \in Queued /\ Tail(outbound) \in Seq(Queued) /\ Len(Tail(outbound)) <= Capacity
    BY <1>2 DEF DispTake, TypeOK
  <2>2. TypeOK' /\ InTurn'
    BY <1>2, <2>1 DEF DispTake, TypeOK, InTurn
  <2>3. QED BY <2>2
<1>3. CASE DispDrop
  BY <1>3 DEF DispDrop, TypeOK, InTurn
<1>4. CASE DispSend
  <2>1. reply.n \in 1 .. Len(Updates)
    BY <1>4 DEF DispSend, InTurn, Queued
  <2>2. delivered' \in Seq(1 .. Len(Updates))
    BY <1>4, <2>1 DEF DispSend, TypeOK
  <2>3. TypeOK' /\ InTurn'
    BY <1>4, <2>2 DEF DispSend, TypeOK, InTurn
  <2>4. QED BY <2>3
<1>5. CASE DispReadsNull \/ DispStale
  BY <1>5, ForgetKeepsTypes DEF DispReadsNull, DispStale, Die
<1>6. QED BY <1>1, <1>2, <1>3, <1>4, <1>5 DEF DispStep

(* So does every step. *)
LEMMA TypesKept == ASSUME TypeOK, InTurn, [Next]_vars PROVE TypeOK' /\ InTurn'
<1>1. CASE UNCHANGED vars
  BY <1>1 DEF vars, mainVars, pollVars, agentVars, dispVars, lifeVars, TypeOK, InTurn
<1>2. QED
  BY <1>1, MainKeepsTypes, PollKeepsTypes, AgentKeepsTypes, DispKeepsTypes DEF Next

(* Every variable keeps its type. *)
THEOREM GatewayTypes == Spec => []TypeOK
<1>1. Init => TypeOK /\ InTurn
  BY TypesInitially
<1>2. (TypeOK /\ InTurn) /\ [Next]_vars => (TypeOK /\ InTurn)'
  BY TypesKept
<1>3. QED BY <1>1, <1>2, PTL DEF Spec

-----------------------------------------------------------------------------
(* No update was handled in the beginning. *)
LEMMA UpdatesInitially == ASSUME Init PROVE UpdatesFollow
<1>1. <<>> \in Seq(1 .. 0) /\ Len(<<>>) = 0
  OBVIOUS
<1>2. Latest(<<>>) \in 0 .. 0
  BY <1>1, LatestIsLast
<1>3. batch = <<>> /\ handled = <<>> /\ last = 0 /\ acked = 0 /\ before = 0
  BY DEF Init
<1>4. QED BY <1>1, <1>2, <1>3, Sizes DEF UpdatesFollow, Reached, MaxOf

(* What the invariant is about changes when updates are asked for, when    *)
(* one is handled, and when the process is lost.                           *)
LEMMA UpdatesChange ==
  ASSUME [Next]_vars
  PROVE  Fetch \/ FetchFails \/ HandleUpdate \/ Forget \/ UNCHANGED <<batch, acked, last, before, handled>>
<1> USE DEF mainVars, pollVars, agentVars, dispVars, lifeVars
<1>1. CASE MainStep
  BY <1>1 DEF MainStep, StartChannel, LaunchThreads, StopAll, DestroyBus, JoinThreads, FreeChannel, Exit
<1>2. CASE PollStep
  BY <1>2 DEF PollStep, PollThreadRuns, PollThreadEnds, PollThreadStale, Die
<1>3. CASE AgentStep
  BY <1>3 DEF AgentStep, AgentLoop, AgentConsume, AgentGetsNothing, AgentRefuses, AgentAnswers,
              LogUser, LogAssistant, AgentReadsNull, AgentStale, Die
<1>4. CASE DispStep
  BY <1>4 DEF DispStep, DispLoop, DispTake, DispDrop, DispSend, DispReadsNull, DispStale, Die
<1>5. CASE FetchFails \/ Signal \/ Kill \/ Restart \/ Arrive \/ UNCHANGED vars
  BY <1>5 DEF Signal, Kill, Die, Restart, Arrive, vars
<1>6. QED BY <1>1, <1>2, <1>3, <1>4, <1>5 DEF Next

(* What the types say of the updates. *)
LEMMA UpdateTypes ==
  ASSUME TypeOK
  PROVE  /\ arrived \in Nat /\ last \in Nat /\ acked \in Nat /\ acked \in 0 .. arrived /\ last \in 0 .. arrived
         /\ batch \in Seq(1 .. arrived) /\ handled \in Seq(1 .. arrived)
         /\ before \in 0 .. Len(handled) /\ Len(handled) \in Nat /\ Len(batch) \in Nat
         /\ Latest(handled) \in Nat /\ Latest(Earlier) \in Nat
         /\ \A i \in 1 .. Len(handled) : handled[i] <= Latest(handled) /\ handled[i] \in 1 .. arrived
<1>1. arrived \in Nat /\ last \in Nat /\ acked \in Nat /\ acked \in 0 .. arrived /\ last \in 0 .. arrived
  BY Sizes DEF TypeOK
<1>2. /\ batch \in Seq(1 .. arrived) /\ handled \in Seq(1 .. arrived)
      /\ before \in 0 .. Len(handled) /\ Len(handled) \in Nat /\ Len(batch) \in Nat
  BY DEF TypeOK
<1>3. /\ Latest(handled) \in Nat
      /\ \A i \in 1 .. Len(handled) : handled[i] <= Latest(handled) /\ handled[i] \in 1 .. arrived
  BY <1>1, <1>2, LatestIsLast
<1>4. Earlier \in Seq(1 .. arrived)
  BY <1>2, PrefixOf DEF Earlier
<1>5. Latest(Earlier) \in Nat
  BY <1>1, <1>4, LatestIsLast
<1>6. QED BY <1>1, <1>2, <1>3, <1>5

(* A request confirms what was handled since the last one. *)
LEMMA FetchKeepsUpdates ==
  ASSUME TypeOK, UpdatesFollow, Fetch \/ FetchFails
  PROVE  UpdatesFollow'
<1> USE UpdateTypes
<1>1. /\ acked' = Reached /\ UNCHANGED <<last, handled, before>>
      /\ Reached \in Nat /\ acked <= Reached /\ last <= Reached /\ (Reached = acked \/ Reached = last)
  BY DEF Fetch, FetchFails, Reached, MaxOf, lifeVars
<1>2. Reached' = Reached /\ UNCHANGED <<Earlier, Latest(handled), Latest(Earlier)>>
  BY <1>1 DEF Reached, MaxOf, Earlier
<1>3. Reached <= Latest(handled)
  BY <1>1 DEF UpdatesFollow
<1>4. Reached \in 0 .. arrived
  BY <1>1
<1>5. /\ \A i \in 1 .. Len(batch') : batch'[i] = Reached + i
      /\ Len(batch') \in Nat /\ Reached + Len(batch') <= Reached + Limit
  <2>1. CASE Fetch
    <3>1. IsResponse(batch', acked', arrived)
      BY <2>1 DEF Fetch, IsResponse
    <3>2. /\ batch' \in Seq(1 .. arrived) /\ Len(batch') <= Limit
          /\ \A i \in 1 .. Len(batch') : batch'[i] = acked' + i
      BY <1>1, <1>4, <3>1, Response
    <3>3. Len(batch') \in Nat
      BY <3>2
    <3>4. acked' = Reached
      BY <1>1
    <3>5. QED BY <1>1, <3>2, <3>3, <3>4, Sizes
  <2>2. CASE FetchFails
    <3>1. batch' = batch
      BY <2>2 DEF FetchFails
    <3>2. QED BY <1>1, <3>1, Sizes DEF UpdatesFollow
  <2>3. QED BY <2>1, <2>2
<1>6. Latest(handled) <= Reached + Limit
  BY <1>1, Sizes DEF UpdatesFollow
<1>7. QED BY <1>1, <1>2, <1>3, <1>5, <1>6 DEF UpdatesFollow

(* The update that is handled is the next one. *)
LEMMA HandleKeepsUpdates ==
  ASSUME TypeOK, UpdatesFollow, HandleUpdate
  PROVE  UpdatesFollow'
<1> DEFINE u == Head(batch)
           H == Len(handled)
<1>1. /\ batch # <<>> /\ last' = MaxOf(last, u) /\ batch' = Tail(batch) /\ handled' = Append(handled, u)
      /\ UNCHANGED <<acked, before>>
  BY DEF HandleUpdate, lifeVars
<1>2. /\ u = batch[1] /\ Len(batch) >= 1 /\ u \in 1 .. arrived /\ Len(Tail(batch)) = Len(batch) - 1
      /\ \A i \in 1 .. Len(batch) - 1 : Tail(batch)[i] = batch[i + 1]
  BY <1>1, UpdateTypes
<1>3. u = Reached + 1 /\ Reached \in Nat /\ acked <= Reached /\ last <= Reached
  BY <1>2, UpdateTypes DEF UpdatesFollow, Reached, MaxOf
<1>4. H \in Nat /\ Len(handled') = H + 1 /\ handled'[H + 1] = u
      /\ (\A i \in 1 .. H : handled'[i] = handled[i]) /\ before \in 0 .. H
  BY <1>1, <1>2, UpdateTypes
<1> HIDE DEF u
<1>5. last' = u /\ Reached' = u
  BY <1>1, <1>3, UpdateTypes DEF MaxOf, Reached
<1>6. \A i \in 1 .. Len(batch') : batch'[i] = u + i
  <2>1. ASSUME NEW i \in 1 .. Len(batch') PROVE batch'[i] = u + i
    <3>1. i \in 1 .. Len(batch) - 1 /\ i + 1 \in 1 .. Len(batch)
      BY <1>1, <1>2, UpdateTypes
    <3>2. batch'[i] = Reached + (i + 1)
      BY <1>1, <1>2, <3>1 DEF UpdatesFollow
    <3>3. QED BY <1>3, <3>2
  <2>2. QED BY <2>1
<1>7. Reached' + Len(batch') <= acked' + Limit /\ u <= acked + Limit
  BY <1>1, <1>2, <1>3, <1>5, UpdateTypes, Sizes DEF UpdatesFollow
<1>8. Latest(handled') = MaxOf(Latest(handled), u)
  BY <1>1, <1>2, UpdateTypes, LatestOfAppend
<1>9. acked' <= Latest(handled') /\ Latest(handled') <= acked' + Limit
  BY <1>1, <1>2, <1>7, <1>8, UpdateTypes DEF UpdatesFollow, MaxOf
<1>10. Earlier' = Earlier
  <2>1. handled \in Seq(1 .. arrived) /\ handled' \in Seq(1 .. arrived) /\ before' = before
        /\ before \in 0 .. Len(handled) /\ before \in 0 .. Len(handled')
    BY <1>1, <1>2, <1>4, UpdateTypes
  <2>2. /\ Earlier \in Seq(1 .. arrived) /\ Len(Earlier) = before
        /\ \A i \in 1 .. before : Earlier[i] = handled[i]
    BY <2>1, PrefixOf DEF Earlier
  <2>3. /\ Earlier' \in Seq(1 .. arrived) /\ Len(Earlier') = before
        /\ \A i \in 1 .. before : Earlier'[i] = handled'[i]
    BY <2>1, PrefixOf DEF Earlier
  <2>4. \A i \in 1 .. before : Earlier'[i] = Earlier[i]
    BY <1>4, <2>2, <2>3
  <2>5. QED BY <2>2, <2>3, <2>4, SeqEqual
<1>11. CASE before = H
  <2>1. Reached = acked /\ Earlier = handled
    BY <1>11, UpdateTypes, SubSeqFull DEF UpdatesFollow, Reached, MaxOf, Earlier
  <2>2. handled'[before + 1] <= Latest(Earlier) + 1 /\ handled'[before + 1] > Latest(Earlier) - Limit
    BY <1>3, <1>4, <1>11, <2>1, UpdateTypes, Sizes DEF UpdatesFollow
  <2>3. IF before' = Len(handled') THEN last' = 0 ELSE last' = handled'[Len(handled')] /\ acked' <= last'
    BY <1>1, <1>3, <1>4, <1>5, UpdateTypes
  <2>4. before + 1 .. Len(handled') - 1 = {}
    BY <1>4, <1>11
  <2>5. QED
    BY <1>1, <1>5, <1>6, <1>7, <1>9, <1>10, <2>2, <2>3, <2>4 DEF UpdatesFollow
<1>12. CASE before # H
  <2>1. last = handled[H] /\ acked <= last /\ u = last + 1
    BY <1>3, <1>12, UpdateTypes DEF UpdatesFollow, Reached, MaxOf
  <2>2. \A i \in before + 1 .. Len(handled') - 1 : handled'[i + 1] = handled'[i] + 1
    <3>1. ASSUME NEW i \in before + 1 .. H PROVE handled'[i + 1] = handled'[i] + 1
      <4>1. CASE i = H
        BY <1>4, <2>1, <4>1, <1>12
      <4>2. CASE i # H
        <5>1. i \in 1 .. H /\ i + 1 \in 1 .. H /\ i \in before + 1 .. Len(handled) - 1
          BY <1>4, <4>2
        <5>2. QED BY <1>4, <5>1 DEF UpdatesFollow
      <4>3. QED BY <4>1, <4>2
    <3>2. QED BY <1>4, <3>1
  <2>3. /\ handled'[before + 1] <= Latest(Earlier) + 1
        /\ handled'[before + 1] > Latest(Earlier) - Limit
    <3>1. before < H /\ before + 1 \in 1 .. H
      BY <1>4, <1>12
    <3>2. QED BY <1>4, <3>1 DEF UpdatesFollow
  <2>4. IF before' = Len(handled') THEN last' = 0 ELSE last' = handled'[Len(handled')] /\ acked' <= last'
    BY <1>1, <1>3, <1>4, <1>5, UpdateTypes
  <2>5. QED
    BY <1>1, <1>5, <1>6, <1>7, <1>9, <1>10, <2>2, <2>3, <2>4 DEF UpdatesFollow
<1>13. QED BY <1>11, <1>12

(* Every step keeps the updates in order; a lost process starts a new run *)
(* of them from what was confirmed.                                        *)
LEMMA UpdatesKept ==
  ASSUME TypeOK, UpdatesFollow, [Next]_vars
  PROVE  UpdatesFollow'
<1>1. CASE Forget
  <2>1. batch' = <<>> /\ last' = 0 /\ before' = Len(handled) /\ UNCHANGED <<acked, handled>>
    BY <1>1 DEF Forget
  <2>2. Reached' = acked /\ Len(batch') = 0
    BY <2>1, UpdateTypes DEF Reached, MaxOf
  <2>3. acked + Len(batch') <= acked + Limit /\ Len(handled) \in Nat
    BY <2>2, UpdateTypes, Sizes
  <2>4. QED BY <2>1, <2>2, <2>3 DEF UpdatesFollow
<1>2. CASE UNCHANGED <<batch, acked, last, before, handled>>
  BY <1>2 DEF UpdatesFollow, Reached, MaxOf, Latest, Earlier
<1>3. QED BY <1>1, <1>2, UpdatesChange, FetchKeepsUpdates, HandleKeepsUpdates

(* From the invariant to the property of the run. *)
LEMMA FollowMeansInOrder == ASSUME TypeOK, UpdatesFollow PROVE HandledInOrder
<1> DEFINE H == Len(handled)
<1>1. /\ H \in Nat /\ before \in 0 .. H /\ handled \in Seq(1 .. arrived)
      /\ Latest(Earlier) \in Nat /\ \A i \in 1 .. H : handled[i] \in 1 .. arrived
  BY UpdateTypes
<1>2. /\ Current \in Seq(1 .. arrived) /\ Len(Current) = H - before
      /\ \A i \in 1 .. H - before : Current[i] = handled[before + i]
  BY <1>1, SubSeqProperties DEF Current
<1> HIDE DEF H
<1>3. ASSUME NEW i \in 1 .. Len(Current) - 1 PROVE Current[i + 1] = Current[i] + 1
  <2>1. i \in 1 .. H - before /\ i + 1 \in 1 .. H - before /\ before + i \in before + 1 .. H - 1
        /\ before + (i + 1) = (before + i) + 1
    BY <1>1, <1>2
  <2>2. handled[(before + i) + 1] = handled[before + i] + 1
    BY <2>1 DEF UpdatesFollow, H
  <2>3. QED BY <1>2, <2>1, <2>2
<1>4. ASSUME Current # <<>>
      PROVE  Current[1] <= Latest(Earlier) + 1 /\ Current[1] > Latest(Earlier) - Limit
  <2>1. before < H /\ 1 \in 1 .. H - before
    BY <1>1, <1>2, <1>4
  <2>2. Current[1] = handled[before + 1]
    BY <1>2, <2>1
  <2>3. QED BY <2>1, <2>2 DEF UpdatesFollow, H
<1>5. QED BY <1>3, <1>4 DEF HandledInOrder, UpdatesInOrder, RedeliveryBounded, UpdatesFollow

(* Updates are handled in order and without a gap, however often the       *)
(* process is lost, and seen again within one response only.               *)
THEOREM UpdatesHandledInOrder == Spec => []HandledInOrder
<1>1. Init => TypeOK /\ InTurn /\ UpdatesFollow
  BY TypesInitially, UpdatesInitially
<1>2. (TypeOK /\ InTurn /\ UpdatesFollow) /\ [Next]_vars => (TypeOK /\ InTurn /\ UpdatesFollow)'
  BY TypesKept, UpdatesKept
<1>3. (TypeOK /\ InTurn /\ UpdatesFollow) => HandledInOrder
  BY FollowMeansInOrder
<1>4. QED BY <1>1, <1>2, <1>3, PTL DEF Spec

-----------------------------------------------------------------------------
(* Appending to the second of two sequences. *)
LEMMA AppendToConcat ==
  ASSUME NEW S, NEW s \in Seq(S), NEW t \in Seq(S), NEW x \in S
  PROVE  s \o Append(t, x) = Append(s \o t, x)
<1>1. <<x>> \in Seq(S) /\ s \o t \in Seq(S)
  OBVIOUS
<1>2. Append(t, x) = t \o <<x>> /\ Append(s \o t, x) = (s \o t) \o <<x>>
  BY <1>1, AppendIsConcat
<1>3. (s \o t) \o <<x>> = s \o (t \o <<x>>)
  BY <1>1, ConcatAssociative
<1>4. QED BY <1>2, <1>3

(* One more element. *)
LEMMA RangeOfAppend ==
  ASSUME NEW S, NEW s \in Seq(S), NEW x \in S
  PROVE  Range(Append(s, x)) = Range(s) \union {x}
<1> DEFINE a == Append(s, x)
<1>1. /\ a \in Seq(S) /\ Len(a) = Len(s) + 1 /\ Len(s) \in Nat
      /\ \A i \in 1 .. Len(s) : a[i] = s[i]
      /\ a[Len(s) + 1] = x
  BY AppendProperties
<1> HIDE DEF a
<1>2. Range(s) = {s[i] : i \in 1 .. Len(s)} /\ Range(a) = {a[i] : i \in 1 .. Len(s) + 1}
  BY <1>1, RangeEquality
<1>3. 1 .. Len(s) + 1 = (1 .. Len(s)) \union {Len(s) + 1}
  BY <1>1
<1>4. {a[i] : i \in 1 .. Len(s) + 1} = {s[i] : i \in 1 .. Len(s)} \union {x}
  BY <1>1, <1>3
<1>5. QED BY <1>2, <1>4 DEF a

(* A greater element at the end. *)
LEMMA RisingAppend ==
  ASSUME NEW S \in SUBSET Nat, NEW s \in Seq(S), NEW x \in S,
         Rising(s), \A i \in 1 .. Len(s) : s[i] < x
  PROVE  Rising(Append(s, x))
<1> DEFINE a == Append(s, x)
<1>1. /\ Len(a) = Len(s) + 1 /\ Len(s) \in Nat
      /\ \A i \in 1 .. Len(s) : a[i] = s[i]
      /\ a[Len(s) + 1] = x
  BY AppendProperties
<1> HIDE DEF a
<1>2. ASSUME NEW i \in 1 .. Len(a), NEW j \in 1 .. Len(a), i < j PROVE a[i] < a[j]
  <2>1. i \in 1 .. Len(s)
    BY <1>1, <1>2
  <2>2. CASE j \in 1 .. Len(s)
    BY <1>1, <1>2, <2>1, <2>2 DEF Rising
  <2>3. CASE j = Len(s) + 1
    BY <1>1, <2>1, <2>3
  <2>4. QED BY <1>1, <2>2, <2>3
<1>3. QED BY <1>2 DEF Rising, a

(* An element in the middle comes after all before it, and the rest still  *)
(* rises without it.                                                       *)
LEMMA RisingMiddle ==
  ASSUME NEW S \in SUBSET Nat, NEW s \in Seq(S), NEW x \in S, NEW t \in Seq(S),
         Rising(s \o <<x>> \o t)
  PROVE  /\ \A i \in 1 .. Len(s) : s[i] < x
         /\ Rising(s \o t)
<1> DEFINE a == s \o <<x>> \o t
           b == s \o t
<1>0. Len(s) \in Nat /\ Len(t) \in Nat /\ <<x>> \in Seq(S) /\ Len(<<x>>) = 1 /\ <<x>>[1] = x
  OBVIOUS
<1>1. /\ s \o <<x>> \in Seq(S) /\ Len(s \o <<x>>) = Len(s) + 1
      /\ \A i \in 1 .. Len(s) + 1 : (s \o <<x>>)[i] = IF i <= Len(s) THEN s[i] ELSE x
  <2>1. /\ s \o <<x>> \in Seq(S) /\ Len(s \o <<x>>) = Len(s) + Len(<<x>>)
        /\ \A i \in 1 .. Len(s) + Len(<<x>>) :
             (s \o <<x>>)[i] = IF i <= Len(s) THEN s[i] ELSE <<x>>[i - Len(s)]
    BY <1>0, ConcatProperties
  <2>2. ASSUME NEW i \in 1 .. Len(s) + 1, ~(i <= Len(s)) PROVE i - Len(s) = 1
    BY <1>0, <2>2
  <2>3. QED BY <1>0, <2>1, <2>2
<1>2. /\ Len(a) = Len(s) + 1 + Len(t)
      /\ \A i \in 1 .. Len(s) : a[i] = s[i]
      /\ a[Len(s) + 1] = x
      /\ \A i \in 1 .. Len(t) : a[Len(s) + 1 + i] = t[i]
  <2> DEFINE c == s \o <<x>>
  <2>1. c \in Seq(S) /\ Len(c) = Len(s) + 1
    BY <1>1
  <2> HIDE DEF c
  <2>2. /\ Len(c \o t) = Len(c) + Len(t)
        /\ \A i \in 1 .. Len(c) + Len(t) : (c \o t)[i] = IF i <= Len(c) THEN c[i] ELSE t[i - Len(c)]
    BY <2>1, ConcatProperties
  <2>3. \A i \in 1 .. Len(s) + 1 : (c \o t)[i] = c[i]
    BY <1>0, <2>1, <2>2
  <2>4. ASSUME NEW i \in 1 .. Len(t) PROVE (c \o t)[Len(s) + 1 + i] = t[i]
    <3>1. Len(s) + 1 + i \in 1 .. Len(c) + Len(t) /\ ~(Len(s) + 1 + i <= Len(c))
          /\ (Len(s) + 1 + i) - Len(c) = i
      BY <1>0, <2>1
    <3>2. QED BY <2>2, <3>1
  <2>5. QED BY <1>0, <1>1, <2>1, <2>2, <2>3, <2>4 DEF c
<1>3. /\ Len(b) = Len(s) + Len(t)
      /\ \A i \in 1 .. Len(s) + Len(t) : b[i] = IF i <= Len(s) THEN s[i] ELSE t[i - Len(s)]
  BY ConcatProperties
<1>4. Rising(a)
  OBVIOUS
<1> HIDE DEF a, b
<1>5. ASSUME NEW i \in 1 .. Len(s) PROVE s[i] < x
  <2>1. i \in 1 .. Len(a) /\ Len(s) + 1 \in 1 .. Len(a) /\ i < Len(s) + 1
    BY <1>0, <1>2
  <2>2. QED BY <1>2, <1>4, <2>1 DEF Rising
<1>6. ASSUME NEW i \in 1 .. Len(b) PROVE \E k \in {i, i + 1} : /\ k \in 1 .. Len(a) /\ b[i] = a[k]
                                           /\ (k = i + 1 <=> i > Len(s))
  <2>1. CASE i <= Len(s)
    BY <1>0, <1>2, <1>3, <2>1
  <2>2. CASE i > Len(s)
    <3>1. i - Len(s) \in 1 .. Len(t) /\ Len(s) + 1 + (i - Len(s)) = i + 1 /\ i + 1 \in 1 .. Len(a)
      BY <1>0, <1>2, <1>3, <2>2
    <3>2. b[i] = t[i - Len(s)] /\ a[i + 1] = t[i - Len(s)]
      BY <1>0, <1>2, <1>3, <2>2, <3>1
    <3>3. QED BY <2>2, <3>1, <3>2
  <2>3. QED BY <1>0, <1>3, <2>1, <2>2
<1>7. ASSUME NEW i \in 1 .. Len(b), NEW j \in 1 .. Len(b), i < j PROVE b[i] < b[j]
  <2>1. PICK k \in {i, i + 1} : k \in 1 .. Len(a) /\ b[i] = a[k] /\ (k = i + 1 <=> i > Len(s))
    BY <1>6
  <2>2. PICK l \in {j, j + 1} : l \in 1 .. Len(a) /\ b[j] = a[l] /\ (l = j + 1 <=> j > Len(s))
    BY <1>6
  <2>3. k < l
    BY <1>0, <1>3, <1>7, <2>1, <2>2
  <2>4. QED BY <1>4, <2>1, <2>2, <2>3 DEF Rising
<1>8. QED BY <1>5, <1>7 DEF Rising, b

-----------------------------------------------------------------------------
(* What the types say of messages and replies. *)
LEMMA AnswerTypes ==
  ASSUME TypeOK, InTurn
  PROVE  LET U == 1 .. Len(Updates) IN
         /\ U \in SUBSET Nat /\ arrived \in 0 .. Len(Updates) /\ last \in 0 .. arrived
         /\ accepted \in Seq(U) /\ answered \in Seq(U) /\ delivered \in Seq(U)
         /\ inbound \in Seq(Queued) /\ outbound \in Seq(Queued)
         /\ Numbers(inbound) \in Seq(U) /\ Numbers(outbound) \in Seq(U)
         /\ agent \in {"working", "logUser", "logAssistant"} => turn.n \in U
         /\ disp = "sending" => reply.n \in U
         /\ InHand \in Seq(U) /\ InReply \in Seq(U)
<1> DEFINE U == 1 .. Len(Updates)
<1>1. /\ accepted \in Seq(U) /\ answered \in Seq(U) /\ delivered \in Seq(U)
      /\ inbound \in Seq(Queued) /\ outbound \in Seq(Queued)
  BY DEF TypeOK
<1>2. Numbers(inbound) \in Seq(U) /\ Numbers(outbound) \in Seq(U)
  BY <1>1, NumbersOfQueue
<1>3. /\ agent \in {"working", "logUser", "logAssistant"} => turn.n \in U
      /\ disp = "sending" => reply.n \in U
  BY DEF InTurn, Queued
<1>4. InHand \in Seq(U) /\ InReply \in Seq(U)
  <2> HIDE DEF U
  <2>1. <<>> \in Seq(U) /\ \A x \in U : <<x>> \in Seq(U)
    OBVIOUS
  <2>2. QED BY <1>3, <2>1 DEF InHand, InReply
<1>5. U \in SUBSET Nat /\ arrived \in 0 .. Len(Updates) /\ last \in 0 .. arrived
  BY DEF TypeOK
<1>6. QED BY <1>1, <1>2, <1>3, <1>4, <1>5

(* Nothing was asked in the beginning. *)
LEMMA AnswersInitially == ASSUME Init PROVE Asked /\ Told
<1>1. /\ accepted = <<>> /\ answered = <<>> /\ delivered = <<>> /\ inbound = <<>> /\ outbound = <<>>
      /\ agent = "none" /\ disp = "none"
  BY DEF Init
<1>2. Numbers(inbound) = <<>> /\ Numbers(outbound) = <<>> /\ InHand = <<>> /\ InReply = <<>>
  BY <1>1 DEF Numbers, InHand, InReply
<1>3. Replies = <<>>
  BY <1>1, <1>2 DEF Replies
<1>4. QED BY <1>1, <1>2, <1>3 DEF Asked, Told, EachAnsweredOnce, Rising, Range

(* What was asked changes when an update is handled, when the agent takes   *)
(* or answers one, and when the process is lost.                           *)
LEMMA AskedChanges ==
  ASSUME InTurn, [Next]_vars
  PROVE  \/ HandleUpdate \/ AgentConsume \/ AgentRefuses \/ AgentAnswers \/ Forget
         \/ UNCHANGED <<accepted, answered, inbound, last, InHand>>
<1> USE DEF mainVars, pollVars, agentVars, dispVars, lifeVars, InHand
<1>1. CASE MainStep
  <2>1. CASE Exit
    BY <2>1 DEF Exit
  <2>2. CASE StartChannel \/ LaunchThreads
    BY <2>2 DEF StartChannel, LaunchThreads, InTurn
  <2>3. CASE StopAll \/ DestroyBus \/ JoinThreads \/ FreeChannel
    BY <2>3 DEF StopAll, DestroyBus, JoinThreads, FreeChannel
  <2>4. QED BY <1>1, <2>1, <2>2, <2>3 DEF MainStep
<1>2. CASE PollStep
  BY <1>2 DEF PollStep, PollThreadRuns, Fetch, PollThreadEnds, PollThreadStale, Die
<1>3. CASE AgentStep
  BY <1>3 DEF AgentStep, AgentLoop, AgentGetsNothing, LogUser, LogAssistant, AgentReadsNull, AgentStale, Die
<1>4. CASE DispStep
  BY <1>4 DEF DispStep, DispLoop, DispTake, DispDrop, DispSend, DispReadsNull, DispStale, Die
<1>5. CASE FetchFails \/ Signal \/ Kill \/ Restart \/ Arrive \/ UNCHANGED vars
  BY <1>5 DEF FetchFails, Signal, Kill, Die, Restart, Arrive, vars
<1>6. QED BY <1>1, <1>2, <1>3, <1>4, <1>5 DEF Next

(* What was told changes when the agent answers, with every step of the    *)
(* dispatcher, and when the process is lost.                               *)
LEMMA ToldChanges ==
  ASSUME InTurn, [Next]_vars
  PROVE  \/ AgentRefuses \/ AgentAnswers \/ DispTake \/ DispDrop \/ DispSend \/ Forget
         \/ UNCHANGED <<answered, delivered, outbound, InReply>>
<1> USE DEF mainVars, pollVars, agentVars, dispVars, lifeVars, InReply
<1>1. CASE MainStep
  <2>1. CASE Exit
    BY <2>1 DEF Exit
  <2>2. CASE StartChannel \/ LaunchThreads
    BY <2>2 DEF StartChannel, LaunchThreads, InTurn
  <2>3. CASE StopAll \/ DestroyBus \/ JoinThreads \/ FreeChannel
    BY <2>3 DEF StopAll, DestroyBus, JoinThreads, FreeChannel
  <2>4. QED BY <1>1, <2>1, <2>2, <2>3 DEF MainStep
<1>2. CASE PollStep
  BY <1>2 DEF PollStep, PollThreadRuns, Fetch, HandleUpdate, PollThreadEnds, PollThreadStale, Die
<1>3. CASE AgentStep
  BY <1>3 DEF AgentStep, AgentLoop, AgentConsume, AgentGetsNothing, LogUser, LogAssistant,
              AgentReadsNull, AgentStale, Die
<1>4. CASE DispStep
  BY <1>4 DEF DispStep, DispLoop, DispReadsNull, DispStale, Die
<1>5. CASE FetchFails \/ Signal \/ Kill \/ Restart \/ Arrive \/ UNCHANGED vars
  BY <1>5 DEF FetchFails, Signal, Kill, Die, Restart, Arrive, vars
<1>6. QED BY <1>1, <1>2, <1>3, <1>4, <1>5 DEF Next

(* A message that is accepted is later than all accepted before it. *)
LEMMA HandleKeepsAsked ==
  ASSUME TypeOK, InTurn, UpdatesFollow, Asked, HandleUpdate
  PROVE  Asked'
<1> DEFINE U == 1 .. Len(Updates)
           u == Head(batch)
           m == [n |-> u, strings |-> Strings]
<1>1. u \in 1 .. arrived /\ u > last /\ last' = u /\ last \in Nat
  <2>1. batch # <<>> /\ last' = MaxOf(last, u)
    BY DEF HandleUpdate
  <2>2. u = batch[1] /\ u \in 1 .. arrived /\ Len(batch) >= 1
    BY <2>1, UpdateTypes
  <2>3. u = Reached + 1 /\ last <= Reached /\ Reached \in Nat
    BY <2>2, UpdateTypes DEF UpdatesFollow, Reached, MaxOf
  <2>4. QED BY <2>1, <2>2, <2>3, UpdateTypes DEF MaxOf
<1>2. u \in U /\ m \in Queued
  BY <1>1, AnswerTypes DEF Queued, Strings
<1>3. UNCHANGED <<answered, InHand>>
  BY DEF HandleUpdate, agentVars, InHand
<1> HIDE DEF u
<1>4. CASE UNCHANGED <<inbound, accepted>>
  <2>1. EachAnsweredOnce'
    BY <1>3, <1>4 DEF Asked, EachAnsweredOnce, Numbers
  <2>2. \A i \in 1 .. Len(accepted) : accepted[i] <= last'
    <3>1. \A i \in 1 .. Len(accepted) : accepted[i] \in Nat /\ accepted[i] <= last
      BY AnswerTypes DEF Asked
    <3>2. QED BY <1>1, <3>1
  <2>3. QED BY <1>4, <2>1, <2>2 DEF Asked, Rising
<1>5. CASE inbound' = Append(inbound, m) /\ accepted' = Append(accepted, u)
  <2> HIDE DEF U, m
  <2>0. /\ U \in SUBSET Nat /\ accepted \in Seq(U) /\ answered \in Seq(U) /\ InHand \in Seq(U)
        /\ inbound \in Seq(Queued) /\ Numbers(inbound) \in Seq(U)
    BY AnswerTypes DEF U
  <2>1. Numbers(inbound') = Append(Numbers(inbound), u)
    <3>1. m.n = u
      BY DEF m
    <3>2. QED BY <1>2, <1>5, <2>0, <3>1, NumbersOfQueue
  <2>2. accepted = (answered \o InHand) \o Numbers(inbound) /\ answered \o InHand \in Seq(U)
    BY <2>0, ConcatProperties DEF Asked, EachAnsweredOnce
  <2>3. accepted' = (answered \o InHand) \o Numbers(inbound')
    <3>1. (answered \o InHand) \o Append(Numbers(inbound), u)
            = Append((answered \o InHand) \o Numbers(inbound), u)
      BY <1>2, <2>0, <2>2, AppendToConcat
    <3>2. QED BY <1>5, <2>1, <2>2, <3>1
  <2>4. EachAnsweredOnce'
    BY <1>3, <2>3 DEF EachAnsweredOnce
  <2>5. \A i \in 1 .. Len(accepted) : accepted[i] < u
    <3>1. \A i \in 1 .. Len(accepted) : accepted[i] \in Nat /\ accepted[i] <= last
      <4>1. \A i \in 1 .. Len(accepted) : accepted[i] \in U
        BY <2>0, ElementOfSeq
      <4>2. QED BY <2>0, <4>1 DEF Asked
    <3>2. QED BY <1>1, <3>1
  <2>6. Rising(accepted')
    BY <1>2, <1>5, <2>0, <2>5, RisingAppend DEF Asked
  <2>7. \A i \in 1 .. Len(accepted') : accepted'[i] <= last'
    <3>1. /\ Len(accepted') = Len(accepted) + 1 /\ Len(accepted) \in Nat
          /\ \A i \in 1 .. Len(accepted) : accepted'[i] = accepted[i]
          /\ accepted'[Len(accepted) + 1] = u
      BY <1>2, <1>5, <2>0, AppendProperties
    <3>2. \A i \in 1 .. Len(accepted) : accepted[i] \in U
      BY <2>0, ElementOfSeq
    <3>3. \A i \in 1 .. Len(accepted) : accepted[i] <= u
      <4>1. u \in Nat /\ \A i \in 1 .. Len(accepted) : accepted[i] \in Nat
        BY <1>2, <2>0, <3>2
      <4>2. QED BY <2>5, <4>1
    <3>4. u \in Nat
      BY <1>2, <2>0
    <3>5. QED BY <1>1, <3>1, <3>3, <3>4
  <2>8. QED BY <2>4, <2>6, <2>7 DEF Asked
<1>6. QED BY <1>4, <1>5 DEF HandleUpdate, m, u

(* What the agent takes goes from the queue into its hands. *)
LEMMA ConsumeKeepsAsked ==
  ASSUME TypeOK, InTurn, Asked, AgentConsume
  PROVE  Asked'
<1> DEFINE U == 1 .. Len(Updates)
<1>1. /\ inbound # <<>> /\ inbound' = Tail(inbound) /\ turn' = Head(inbound)
      /\ InHand = <<>> /\ InHand' = <<Head(inbound).n>>
      /\ UNCHANGED <<accepted, answered, last>>
  BY DEF AgentConsume, InHand
<1>2. /\ answered \in Seq(U) /\ inbound \in Seq(Queued)
  BY AnswerTypes
<1>3. /\ Numbers(inbound) = <<Head(inbound).n>> \o Numbers(Tail(inbound))
      /\ Head(inbound) \in Queued /\ Tail(inbound) \in Seq(Queued)
  BY <1>1, <1>2, NumbersOfQueue
<1>4. <<Head(inbound).n>> \in Seq(U) /\ Numbers(Tail(inbound)) \in Seq(U)
  <2>1. Head(inbound).n \in U
    BY <1>3 DEF Queued
  <2>2. Numbers(Tail(inbound)) \in Seq(U)
    BY <1>3, NumbersOfQueue
  <2> HIDE DEF U
  <2>3. QED BY <2>1, <2>2
<1> HIDE DEF U
<1>5. accepted = answered \o Numbers(inbound)
  BY <1>1, <1>2, ConcatEmptySeq DEF Asked, EachAnsweredOnce
<1>6. answered \o (<<Head(inbound).n>> \o Numbers(Tail(inbound)))
        = (answered \o <<Head(inbound).n>>) \o Numbers(Tail(inbound))
  BY <1>2, <1>4, ConcatAssociative
<1>7. EachAnsweredOnce'
  BY <1>1, <1>3, <1>5, <1>6 DEF EachAnsweredOnce
<1>8. QED BY <1>1, <1>7 DEF Asked, Rising

(* A reply goes for the message in the agent's hands, which comes after    *)
(* everything it has answered, and before everything that is queued.       *)
LEMMA PublishKeepsAnswers ==
  ASSUME TypeOK, InTurn, Asked, Told, AgentRefuses \/ AgentAnswers
  PROVE  Asked' /\ Told'
<1> DEFINE U == 1 .. Len(Updates)
           x == turn.n
           m == [n |-> x, strings |-> Strings]
<1>1. /\ PublishReply /\ agent = "working" /\ agent' \in {"loop", "logUser"}
      /\ UNCHANGED <<accepted, inbound, last, delivered, disp, reply>>
  BY DEF AgentRefuses, AgentAnswers, pollVars, dispVars
<1>2. InHand = <<x>> /\ InHand' = <<>> /\ InReply' = InReply /\ answered' = Append(answered, x)
  BY <1>1 DEF InHand, InReply, PublishReply
<1>3. /\ U \in SUBSET Nat /\ accepted \in Seq(U) /\ answered \in Seq(U) /\ delivered \in Seq(U)
      /\ InReply \in Seq(U) /\ x \in U
      /\ inbound \in Seq(Queued) /\ outbound \in Seq(Queued)
      /\ Numbers(inbound) \in Seq(U) /\ Numbers(outbound) \in Seq(U)
  BY <1>1, AnswerTypes
<1>4. m \in Queued
  BY <1>3 DEF Queued, Strings
<1>5. m.n = x
  OBVIOUS
<1> HIDE DEF U, x, m
<1>6. accepted = answered \o <<x>> \o Numbers(inbound)
  BY <1>2 DEF Asked, EachAnsweredOnce
<1>7. Asked'
  <2>1. answered' = answered \o <<x>> /\ answered' \in Seq(U)
    BY <1>2, <1>3, AppendIsConcat, AppendProperties
  <2>2. accepted = answered' \o Numbers(inbound)
    BY <1>6, <2>1
  <2>3. answered' \o <<>> = answered'
    BY <2>1, ConcatEmptySeq
  <2>4. accepted' = answered' \o InHand' \o Numbers(inbound')
    BY <1>1, <1>2, <2>2, <2>3
  <2>5. QED BY <1>1, <2>4 DEF Asked, EachAnsweredOnce, Rising
<1>8. \A i \in 1 .. Len(answered) : answered[i] < x
  BY <1>3, <1>6, RisingMiddle DEF Asked
<1>9. Range(answered') = Range(answered) \union {x}
  BY <1>2, <1>3, RangeOfAppend
<1>10. Replies = (delivered \o InReply) \o Numbers(outbound) /\ delivered \o InReply \in Seq(U) /\ Replies \in Seq(U)
  BY <1>3, ConcatProperties DEF Replies
<1>11. Replies' \in {Replies, Append(Replies, x)}
  <2>1. CASE outbound' = outbound
    BY <1>1, <1>2, <2>1 DEF Replies, Numbers
  <2>2. CASE outbound' = Append(outbound, m)
    <3>1. Numbers(outbound') = Append(Numbers(outbound), x)
      BY <1>3, <1>4, <1>5, <2>2, NumbersOfQueue
    <3>2. Replies' = (delivered \o InReply) \o Append(Numbers(outbound), x)
      BY <1>1, <1>2, <3>1 DEF Replies
    <3>3. (delivered \o InReply) \o Append(Numbers(outbound), x)
            = Append((delivered \o InReply) \o Numbers(outbound), x)
      <4> DEFINE s == delivered \o InReply
                 t == Numbers(outbound)
      <4>1. s \in Seq(U) /\ t \in Seq(U) /\ x \in U
        BY <1>3, <1>10
      <4> HIDE DEF s, t
      <4>2. s \o Append(t, x) = Append(s \o t, x)
        BY <4>1, AppendToConcat
      <4>3. QED BY <4>2 DEF s, t
    <3>4. QED BY <1>10, <3>2, <3>3
  <2>3. QED BY <1>1, <2>1, <2>2 DEF PublishReply, m, x
<1>12. \A i \in 1 .. Len(Replies) : Replies[i] < x
  <2>1. ASSUME NEW i \in 1 .. Len(Replies) PROVE Replies[i] < x
    <3>1. Replies[i] \in Range(Replies)
      BY <1>10, RangeEquality
    <3>2. PICK j \in 1 .. Len(answered) : Replies[i] = answered[j]
      BY <1>3, <3>1, RangeEquality DEF Told
    <3>3. QED BY <1>8, <3>2
  <2>2. QED BY <2>1
<1>13. Rising(Append(Replies, x)) /\ Range(Append(Replies, x)) = Range(Replies) \union {x}
  <2>0. Replies \in Seq(U) /\ x \in U /\ U \in SUBSET Nat
    BY <1>3, <1>10
  <2>1. Rising(Append(Replies, x))
    BY <1>12, <2>0, RisingAppend DEF Told
  <2>2. Range(Append(Replies, x)) = Range(Replies) \union {x}
    BY <2>0, RangeOfAppend
  <2>3. QED BY <2>1, <2>2
<1>14. Told'
  <2>1. CASE Replies' = Replies
    <3>1. Rising(Replies') /\ Range(Replies') = Range(Replies)
      BY <2>1 DEF Told, Rising, Range
    <3>2. QED BY <1>9, <3>1 DEF Told
  <2>2. CASE Replies' = Append(Replies, x)
    <3>1. Rising(Replies') /\ Range(Replies') = Range(Replies) \union {x}
      BY <1>13, <2>2 DEF Rising, Range
    <3>2. QED BY <1>9, <3>1 DEF Told
  <2>3. QED BY <1>11, <2>1, <2>2
<1>15. QED BY <1>7, <1>14

(* The dispatcher passes the replies on, or drops one, and keeps their order. *)
LEMMA DispKeepsTold ==
  ASSUME TypeOK, InTurn, Told, DispTake \/ DispDrop \/ DispSend
  PROVE  Told'
<1> DEFINE U == 1 .. Len(Updates)
           x == reply.n
           N == Numbers(outbound)
<1>1. answered' = answered
  BY DEF DispTake, DispDrop, DispSend, agentVars
<1>2. /\ U \in SUBSET Nat /\ delivered \in Seq(U) /\ outbound \in Seq(Queued) /\ N \in Seq(U)
      /\ disp = "sending" => x \in U
  BY AnswerTypes
<1>3. CASE DispTake
  <2>1. /\ outbound # <<>> /\ outbound' = Tail(outbound) /\ delivered' = delivered
        /\ InReply = <<>> /\ InReply' = <<Head(outbound).n>>
    BY <1>3 DEF DispTake, InReply
  <2>2. /\ N = <<Head(outbound).n>> \o Numbers(Tail(outbound))
        /\ Head(outbound) \in Queued /\ Tail(outbound) \in Seq(Queued)
    BY <1>2, <2>1, NumbersOfQueue
  <2>3. <<Head(outbound).n>> \in Seq(U) /\ Numbers(Tail(outbound)) \in Seq(U)
    <3>1. Head(outbound).n \in U
      BY <2>2 DEF Queued
    <3>2. Numbers(Tail(outbound)) \in Seq(U)
      BY <2>2, NumbersOfQueue
    <3> HIDE DEF U
    <3>3. QED BY <3>1, <3>2
  <2> HIDE DEF U
  <2>4. Replies = delivered \o N
    BY <1>2, <2>1, ConcatEmptySeq DEF Replies
  <2>5. Replies' = (delivered \o <<Head(outbound).n>>) \o Numbers(Tail(outbound))
    BY <2>1 DEF Replies
  <2>6. Replies' = Replies
    BY <1>2, <2>2, <2>3, <2>4, <2>5, ConcatAssociative
  <2>7. QED BY <1>1, <2>6 DEF Told, Rising, Range
<1>4. CASE DispDrop
  <2>1. disp = "sending" /\ InReply = <<x>> /\ InReply' = <<>> /\ UNCHANGED <<delivered, outbound>>
    BY <1>4 DEF DispDrop, InReply
  <2> HIDE DEF U, x, N
  <2>2. Replies = delivered \o <<x>> \o N /\ x \in U
    BY <1>2, <2>1 DEF Replies, N
  <2>3. Replies' = delivered \o N
    BY <1>2, <2>1, ConcatEmptySeq DEF Replies, N, Numbers
  <2>4. Rising(delivered \o N)
    BY <1>2, <2>2, RisingMiddle DEF Told
  <2>5. <<x>> \in Seq(U) /\ delivered \o <<x>> \in Seq(U)
    BY <1>2, <2>2, ConcatProperties
  <2>6. Range(delivered \o N) \subseteq Range(Replies)
    <3>1. Range(delivered \o N) = Range(delivered) \union Range(N)
      BY <1>2, RangeConcatenation
    <3>2. Range(delivered \o <<x>>) = Range(delivered) \union Range(<<x>>)
      BY <1>2, <2>5, RangeConcatenation
    <3>3. Range((delivered \o <<x>>) \o N) = Range(delivered \o <<x>>) \union Range(N)
      <4> DEFINE c == delivered \o <<x>>
      <4>1. c \in Seq(U) /\ N \in Seq(U)
        BY <1>2, <2>5
      <4> HIDE DEF c
      <4>2. Range(c \o N) = Range(c) \union Range(N)
        BY <4>1, RangeConcatenation
      <4>3. QED BY <4>2 DEF c
    <3>4. QED BY <2>2, <3>1, <3>2, <3>3
  <2>7. Rising(Replies') /\ Range(Replies') \subseteq Range(Replies)
    BY <2>3, <2>4, <2>6 DEF Rising, Range
  <2>8. QED BY <1>1, <2>7 DEF Told
<1>5. CASE DispSend
  <2>1. /\ disp = "sending" /\ InReply = <<x>> /\ InReply' = <<>> /\ delivered' = Append(delivered, x)
        /\ outbound' = outbound
    BY <1>5 DEF DispSend, InReply
  <2> HIDE DEF U, x, N
  <2>2. delivered' = delivered \o <<x>> /\ delivered' \in Seq(U)
    BY <1>2, <2>1, AppendIsConcat, AppendProperties
  <2>3. Replies' = delivered' \o <<>> \o N /\ Replies = (delivered \o <<x>>) \o N
    BY <2>1 DEF Replies, N, Numbers
  <2>4. Replies' = Replies
    BY <2>2, <2>3, ConcatEmptySeq
  <2>5. QED BY <1>1, <2>4 DEF Told, Rising, Range
<1>6. QED BY <1>3, <1>4, <1>5

(* Every step keeps both. *)
LEMMA AnswersKept ==
  ASSUME TypeOK, InTurn, UpdatesFollow, Asked, Told, [Next]_vars
  PROVE  Asked' /\ Told'
<1>1. CASE Forget
  <2>1. /\ accepted' = <<>> /\ answered' = <<>> /\ delivered' = <<>> /\ inbound' = <<>> /\ outbound' = <<>>
        /\ agent' = "none" /\ disp' = "none"
    BY <1>1 DEF Forget
  <2>2. Numbers(inbound') = <<>> /\ Numbers(outbound') = <<>> /\ InHand' = <<>> /\ InReply' = <<>>
    BY <2>1 DEF Numbers, InHand, InReply
  <2>3. Replies' = <<>>
    BY <2>1, <2>2 DEF Replies
  <2>4. QED BY <2>1, <2>2, <2>3 DEF Asked, Told, EachAnsweredOnce, Rising, Range
<1>2. Asked'
  <2>1. CASE UNCHANGED <<accepted, answered, inbound, last, InHand>>
    <3>1. Numbers(inbound') = Numbers(inbound)
      BY <2>1
    <3>2. EachAnsweredOnce'
      BY <2>1, <3>1 DEF Asked, EachAnsweredOnce
    <3>3. QED BY <2>1, <3>2 DEF Asked, Rising
  <2>2. QED
    BY <1>1, <2>1, AskedChanges, HandleKeepsAsked, ConsumeKeepsAsked, PublishKeepsAnswers
<1>3. Told'
  <2>1. CASE UNCHANGED <<answered, delivered, outbound, InReply>>
    <3>1. Replies' = Replies /\ Range(answered') = Range(answered)
      BY <2>1 DEF Replies
    <3>2. QED BY <3>1 DEF Told, Rising
  <2>2. QED
    BY <1>1, <2>1, ToldChanges, PublishKeepsAnswers, DispKeepsTold
<1>4. QED BY <1>2, <1>3

(* From the invariant to the property of the run. *)
LEMMA AskedAndToldFollow == ASSUME TypeOK, InTurn, Asked, Told PROVE AnswersFollow
<1> DEFINE U == 1 .. Len(Updates)
           R == InReply \o Numbers(outbound)
<1>1. /\ U \in SUBSET Nat /\ delivered \in Seq(U) /\ InReply \in Seq(U) /\ Numbers(outbound) \in Seq(U)
  BY AnswerTypes
<1> HIDE DEF U
<1>2. Replies = delivered \o R /\ R \in Seq(U)
  BY <1>1, ConcatAssociative, ConcatProperties DEF Replies
<1> HIDE DEF R
<1>3. /\ Len(Replies) = Len(delivered) + Len(R) /\ Len(delivered) \in Nat /\ Len(R) \in Nat
      /\ \A i \in 1 .. Len(delivered) : Replies[i] = delivered[i]
  BY <1>1, <1>2, ConcatProperties
<1>4. ASSUME NEW i \in 1 .. Len(delivered), NEW j \in 1 .. Len(delivered), i < j
      PROVE  delivered[i] < delivered[j]
  <2>1. i \in 1 .. Len(Replies) /\ j \in 1 .. Len(Replies)
    BY <1>3
  <2>2. QED BY <1>3, <1>4, <2>1 DEF Told, Rising
<1>5. Range(delivered) \subseteq Range(answered)
  BY <1>1, <1>2, RangeConcatenation DEF Told
<1>6. QED BY <1>4, <1>5 DEF AnswersFollow, RepliesInOrder, Asked

(* Between the question in the inbound queue and the reply in the chat     *)
(* nothing is repeated and nothing overtakes.                              *)
THEOREM RepliesFollowQuestions == Spec => []AnswersFollow
<1> DEFINE I == TypeOK /\ InTurn /\ UpdatesFollow /\ Asked /\ Told
<1>1. Init => I
  BY TypesInitially, UpdatesInitially, AnswersInitially
<1>2. I /\ [Next]_vars => I'
  BY TypesKept, UpdatesKept, AnswersKept
<1>3. I => AnswersFollow
  BY AskedAndToldFollow
<1>4. QED BY <1>1, <1>2, <1>3, PTL DEF Spec

-----------------------------------------------------------------------------
(* What the types say of the history. *)
LEMMA HistoryTypes ==
  ASSUME TypeOK
  PROVE  /\ lives \in Nat /\ lostRows \in Nat /\ lives >= 1 - lostRows
         /\ chatLog \in Seq(Rows) /\ Len(chatLog) \in Nat /\ DOMAIN chatLog = 1 .. Len(chatLog)
         /\ IsFiniteSet(Unpaired) /\ Cardinality(Unpaired) \in Nat
<1>1. chatLog \in Seq(Rows) /\ Len(chatLog) \in Nat /\ DOMAIN chatLog = 1 .. Len(chatLog)
  BY DEF TypeOK
<1>2. Unpaired \in SUBSET (1 .. Len(chatLog))
  BY <1>1 DEF Unpaired
<1>3. IsFiniteSet(Unpaired) /\ Cardinality(Unpaired) \in Nat
  <2>1. IsFiniteSet(1 .. Len(chatLog))
    BY <1>1, FS_Interval
  <2>2. IsFiniteSet(Unpaired)
    BY <1>2, <2>1, FS_Subset
  <2>3. QED BY <2>2, FS_CardinalityType
<1>4. lives \in Nat /\ lostRows \in Nat /\ lives >= 1 - lostRows
  BY DEF TypeOK
<1>5. QED BY <1>1, <1>3, <1>4

(* One more row leaves at most itself without its other half; an answer    *)
(* that follows its question leaves one row less.                          *)
LEMMA OneMoreRow ==
  ASSUME TypeOK, NEW row \in Rows, chatLog' = Append(chatLog, row)
  PROVE  /\ Cardinality(Unpaired') \in Nat
         /\ Cardinality(Unpaired') <= Cardinality(Unpaired) + 1
         /\ (/\ row.role = "assistant"
             /\ chatLog # <<>> /\ chatLog[Len(chatLog)] = [role |-> "user", n |-> row.n])
            => Cardinality(Unpaired') <= Cardinality(Unpaired) - 1
<1> DEFINE L == Len(chatLog)
<1>1. /\ L \in Nat /\ DOMAIN chatLog = 1 .. L /\ DOMAIN chatLog' = 1 .. L + 1
      /\ (\A i \in 1 .. L : chatLog'[i] = chatLog[i]) /\ chatLog'[L + 1] = row
  BY HistoryTypes
<1>2. IsFiniteSet(Unpaired) /\ Cardinality(Unpaired) \in Nat
  BY HistoryTypes
<1> HIDE DEF L
<1>3. Unpaired' \subseteq Unpaired \union {L + 1}
  <2>1. ASSUME NEW i \in 1 .. L, i \notin Unpaired PROVE i \notin Unpaired'
    <3>1. CASE Question(i) /\ Answer(i + 1) /\ chatLog[i].n = chatLog[i + 1].n
      <4>1. i \in 1 .. L /\ i + 1 \in 1 .. L
        BY <1>1, <3>1 DEF Answer
      <4>2. Question(i)' /\ Answer(i + 1)' /\ chatLog'[i].n = chatLog'[i + 1].n
        BY <1>1, <3>1, <4>1 DEF Question, Answer
      <4>3. QED BY <4>2 DEF Unpaired
    <3>2. CASE Answer(i) /\ Question(i - 1) /\ chatLog[i].n = chatLog[i - 1].n
      <4>1. i \in 1 .. L /\ i - 1 \in 1 .. L
        BY <1>1, <3>2 DEF Question
      <4>2. Answer(i)' /\ Question(i - 1)' /\ chatLog'[i].n = chatLog'[i - 1].n
        BY <1>1, <3>2, <4>1 DEF Question, Answer
      <4>3. QED BY <4>2 DEF Unpaired
    <3>3. QED BY <1>1, <2>1, <3>1, <3>2 DEF Unpaired
  <2>2. Unpaired' \subseteq 1 .. L + 1
    BY <1>1 DEF Unpaired
  <2>3. \A i \in 1 .. L + 1 : i \in 1 .. L \/ i = L + 1
    BY <1>1
  <2>4. QED BY <2>1, <2>2, <2>3
<1>4. /\ IsFiniteSet(Unpaired \union {L + 1})
      /\ Cardinality(Unpaired \union {L + 1}) <= Cardinality(Unpaired) + 1
  <2>1. /\ IsFiniteSet(Unpaired \union {L + 1})
        /\ Cardinality(Unpaired \union {L + 1}) =
             IF L + 1 \in Unpaired THEN Cardinality(Unpaired) ELSE Cardinality(Unpaired) + 1
    BY <1>2, FS_AddElement
  <2>2. QED BY <1>2, <2>1
<1>5. Cardinality(Unpaired') \in Nat /\ Cardinality(Unpaired') <= Cardinality(Unpaired) + 1
  <2>1. Cardinality(Unpaired') <= Cardinality(Unpaired \union {L + 1}) /\ IsFiniteSet(Unpaired')
    BY <1>3, <1>4, FS_Subset
  <2>2. Cardinality(Unpaired') \in Nat /\ Cardinality(Unpaired \union {L + 1}) \in Nat
    BY <1>4, <2>1, FS_CardinalityType
  <2>3. QED BY <1>2, <1>4, <2>1, <2>2
<1>6. ASSUME row.role = "assistant", chatLog # <<>>, chatLog[L] = [role |-> "user", n |-> row.n]
      PROVE  Cardinality(Unpaired') <= Cardinality(Unpaired) - 1
  <2>1. L \in 1 .. L /\ L + 1 \notin 1 .. L
    BY <1>1, <1>6, HistoryTypes DEF L
  <2>2. L \in Unpaired
    BY <1>1, <1>6, <2>1 DEF Unpaired, Question, Answer
  <2>3. L \notin Unpaired' /\ L + 1 \notin Unpaired'
    <3>1. L \in DOMAIN chatLog' /\ L + 1 \in DOMAIN chatLog' /\ (L + 1) - 1 = L
      BY <1>1, <2>1
    <3>2. chatLog'[L] = [role |-> "user", n |-> row.n] /\ chatLog'[L + 1] = row
      BY <1>1, <1>6, <2>1, Zenon
    <3>3. /\ chatLog'[L].role = "user" /\ chatLog'[L + 1].role = "assistant"
          /\ chatLog'[L].n = chatLog'[L + 1].n
      BY <1>6, <3>2
    <3>4. QED BY <3>1, <3>3 DEF Unpaired, Question, Answer
  <2>4. Unpaired' \subseteq Unpaired \ {L}
    BY <1>3, <2>3
  <2>5. IsFiniteSet(Unpaired \ {L}) /\ Cardinality(Unpaired \ {L}) = Cardinality(Unpaired) - 1
    BY <1>2, <2>2, FS_RemoveElement
  <2>6. QED BY <2>4, <2>5, FS_Subset
<1>7. QED BY <1>5, <1>6 DEF L

(* No row was written in the beginning. *)
LEMMA HistoryInitially == ASSUME Init PROVE HistoryInv
<1>1. Unpaired = {}
  BY DEF Init, Unpaired
<1>2. Cardinality(Unpaired) = 0
  BY <1>1, FS_EmptySet
<1>3. QED BY <1>2 DEF Init, HistoryInv, HistoryPaired

(* The history, and what it allows for, changes when a row is written or    *)
(* lost, and when a process ends or starts.                                *)
LEMMA HistoryChanges ==
  ASSUME InTurn, [Next]_vars
  PROVE  \/ LogUser \/ LogAssistant \/ Die("null") \/ Die("stale") \/ Die("kill") \/ Exit \/ Restart
         \/ /\ UNCHANGED <<chatLog, lostRows, lives>>
            /\ (agent = "logAssistant") <=> (agent' = "logAssistant")
            /\ agent = "logAssistant" => turn' = turn
            /\ (main = "dead") <=> (main' = "dead")
<1> USE DEF mainVars, pollVars, agentVars, dispVars, lifeVars, Alive, InTurn
<1>1. CASE MainStep
  <2>1. CASE StartChannel \/ LaunchThreads
    BY <2>1 DEF StartChannel, LaunchThreads
  <2>2. CASE StopAll \/ DestroyBus \/ JoinThreads \/ FreeChannel
    BY <2>2 DEF StopAll, DestroyBus, JoinThreads, FreeChannel
  <2>3. QED BY <1>1, <2>1, <2>2 DEF MainStep
<1>2. CASE PollStep
  BY <1>2 DEF PollStep, PollThreadRuns, Fetch, HandleUpdate, PollThreadEnds, PollThreadStale
<1>3. CASE AgentStep
  <2>1. CASE AgentLoop \/ AgentConsume \/ AgentGetsNothing
    BY <2>1 DEF AgentLoop, AgentConsume, AgentGetsNothing
  <2>2. CASE AgentRefuses \/ AgentAnswers
    BY <2>2 DEF AgentRefuses, AgentAnswers
  <2>3. CASE AgentReadsNull \/ AgentStale
    BY <2>3 DEF AgentReadsNull, AgentStale
  <2>4. QED BY <1>3, <2>1, <2>2, <2>3 DEF AgentStep
<1>4. CASE DispStep
  BY <1>4 DEF DispStep, DispLoop, DispTake, DispDrop, DispSend, DispReadsNull, DispStale
<1>5. CASE FetchFails \/ Signal \/ Kill \/ Arrive \/ UNCHANGED vars
  BY <1>5 DEF FetchFails, Signal, Kill, Arrive, vars
<1>6. QED BY <1>1, <1>2, <1>3, <1>4, <1>5 DEF Next

(* Every step keeps the rows paired but for those it allows for. *)
LEMMA HistoryKept ==
  ASSUME TypeOK, InTurn, HistoryInv, [Next]_vars
  PROVE  HistoryInv'
<1> DEFINE C == Cardinality(Unpaired)
<1>1. lives \in Nat /\ lostRows \in Nat /\ C \in Nat
  BY HistoryTypes
<1>2. /\ agent = "logAssistant" \/ main = "dead" => C <= lostRows + lives
      /\ ~(agent = "logAssistant" \/ main = "dead") => C <= lostRows + lives - 1
  BY <1>1 DEF HistoryInv, HistoryPaired
<1>3. chatLog' = chatLog => Unpaired' = Unpaired
  BY DEF Unpaired, Question, Answer
<1> DEFINE D == Cardinality(Unpaired')
<1>4. chatLog' = chatLog => D = C
  BY <1>3
<1> HIDE DEF C, D
<1>5. CASE LogUser
  <2>1. /\ agent = "logUser" /\ agent' = "logAssistant" /\ main # "dead" /\ turn' = turn /\ turn \in Queued
        /\ lives' = lives
    BY <1>5 DEF LogUser, Alive, lifeVars, InTurn
  <2> DEFINE row == [role |-> "user", n |-> turn.n]
  <2>2. row \in Rows /\ row = [role |-> "user", n |-> turn'.n]
    BY <2>1 DEF Rows, Queued
  <2>3. CASE chatLog' = Append(chatLog, row) /\ lostRows' = lostRows
    <3>1. D \in Nat /\ D <= C + 1
      BY <2>2, <2>3, OneMoreRow DEF C, D
    <3>2. AskedLast'
      <4> HIDE DEF row
      <4>1. chatLog' # <<>> /\ chatLog'[Len(chatLog')] = row
        BY <2>2, <2>3, HistoryTypes, AppendProperties
      <4>2. QED BY <2>2, <4>1 DEF AskedLast
    <3>3. D <= lostRows' + lives'
      BY <1>1, <1>2, <2>1, <2>3, <3>1
    <3>4. QED BY <2>1, <3>2, <3>3 DEF HistoryInv, HistoryPaired, D
  <2>4. CASE chatLog' = chatLog /\ lostRows' = lostRows + 1
    <3>1. D + 2 <= lostRows' + lives' /\ D <= lostRows' + lives'
      BY <1>1, <1>2, <1>4, <2>1, <2>4
    <3>2. QED BY <2>1, <3>1 DEF HistoryInv, HistoryPaired, D
  <2>5. QED BY <1>5, <2>3, <2>4 DEF LogUser, WriteRow
<1>6. CASE LogAssistant
  <2>1. /\ agent = "logAssistant" /\ agent' = "loop" /\ main' # "dead" /\ turn \in Queued /\ lives' = lives
    BY <1>6 DEF LogAssistant, Alive, mainVars, lifeVars, InTurn
  <2> DEFINE row == [role |-> "assistant", n |-> turn.n]
  <2>2. row \in Rows
    BY <2>1 DEF Rows, Queued
  <2>3. CASE chatLog' = Append(chatLog, row) /\ lostRows' = lostRows
    <3>1. D \in Nat /\ D <= C + 1
      BY <2>2, <2>3, OneMoreRow DEF C, D
    <3>2. AskedLast => D <= C - 1
      BY <2>2, <2>3, OneMoreRow DEF C, D, AskedLast
    <3>3. AskedLast \/ C + 2 <= lostRows + lives
      BY <2>1 DEF HistoryInv, C
    <3>5. D <= lostRows' + lives' - 1
      BY <1>1, <1>2, <2>1, <2>3, <3>1, <3>2, <3>3
    <3>6. QED BY <1>1, <2>1, <2>3, <3>5 DEF HistoryInv, HistoryPaired, D
  <2>4. CASE chatLog' = chatLog /\ lostRows' = lostRows + 1
    <3>1. D <= lostRows' + lives' - 1
      BY <1>1, <1>2, <1>4, <2>1, <2>4
    <3>2. QED BY <1>1, <2>1, <2>4, <3>1 DEF HistoryInv, HistoryPaired, D
  <2>5. QED BY <1>6, <2>3, <2>4 DEF LogAssistant, WriteRow
<1>7. CASE Die("null") \/ Die("stale") \/ Die("kill")
  <2>1. agent' = "none" /\ main' = "dead" /\ UNCHANGED <<chatLog, lostRows, lives>>
    BY <1>7 DEF Die, Forget
  <2>2. D <= lostRows' + lives'
    BY <1>1, <1>2, <1>4, <2>1
  <2>3. QED BY <2>1, <2>2 DEF HistoryInv, HistoryPaired, D
<1>8. CASE Exit
  <2>1. agent = "ended" /\ main = "exit" /\ agent' = "none" /\ main' = "done" /\ UNCHANGED <<chatLog, lostRows, lives>>
    BY <1>8 DEF Exit, Forget, InTurn
  <2>2. D <= lostRows' + lives' - 1
    BY <1>1, <1>2, <1>4, <2>1
  <2>3. QED BY <1>1, <2>1, <2>2 DEF HistoryInv, HistoryPaired, D
<1>9. CASE Restart
  <2>1. agent' = "none" /\ main' = "start" /\ lives' = lives + 1 /\ UNCHANGED <<chatLog, lostRows>>
    BY <1>9 DEF Restart, Alive, InTurn, agentVars
  <2>2. D <= lostRows' + lives' - 1
    BY <1>1, <1>2, <1>4, <2>1
  <2>3. QED BY <1>1, <2>1, <2>2 DEF HistoryInv, HistoryPaired, D
<1>10. CASE /\ UNCHANGED <<chatLog, lostRows, lives>>
            /\ (agent = "logAssistant") <=> (agent' = "logAssistant")
            /\ agent = "logAssistant" => turn' = turn
            /\ (main = "dead") <=> (main' = "dead")
  <2>1. Unpaired' = Unpaired
    BY <1>3, <1>10
  <2>2. HistoryPaired'
    BY <1>10, <2>1 DEF HistoryInv, HistoryPaired
  <2>3. agent' = "logAssistant" => AskedLast' \/ Cardinality(Unpaired') + 2 <= lostRows' + lives'
    BY <1>10, <2>1 DEF HistoryInv, AskedLast
  <2>4. QED BY <2>2, <2>3 DEF HistoryInv
<1>11. QED BY <1>5, <1>6, <1>7, <1>8, <1>9, <1>10, HistoryChanges

(* A row of the history without its other half is explained by a write     *)
(* that failed, by a process that was lost, or by a turn in progress.      *)
THEOREM HistoryStaysPaired == Spec => []HistoryPaired
<1> DEFINE I == TypeOK /\ InTurn /\ HistoryInv
<1>1. Init => I
  BY TypesInitially, HistoryInitially
<1>2. I /\ [Next]_vars => I'
  BY TypesKept, HistoryKept
<1>3. I => HistoryPaired
  BY DEF HistoryInv
<1>4. QED BY <1>1, <1>2, <1>3, PTL DEF Spec
=============================================================================

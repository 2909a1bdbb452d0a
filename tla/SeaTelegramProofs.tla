-------------------------- MODULE SeaTelegramProofs --------------------------
(***************************************************************************)
(* Proofs about the Telegram client, for every size of the arena, of       *)
(* updates, of responses and of what commands need: what lies in the arena *)
(* of a poll keeps its place as long as windows are nested, in the direct  *)
(* mode they always are, and the arena is given back.                      *)
(***************************************************************************)
EXTENDS SeaTelegram, SequenceTheorems, WellFoundedInduction, TLAPS

Phases == {"idle", "asking", "received", "handling"}
Received == [n : Nat, size : Nat]
Update == [n : Nat, at : Nat, size : Nat, nodes : Nat]
Sending == [phase : {"none", "asked", "answered"}, saved : 0..Room]

Types ==
  /\ direct \in BOOLEAN /\ arrived \in Seq(Sizes) /\ last \in Nat
  /\ phase \in Phases /\ batch \in Seq(Update)
  /\ body \in [at : Nat, updates : Seq(Received)]
  /\ saved \in 0..Room /\ offset \in 0..Room /\ mem \in [0..Room - 1 -> Int]
  /\ send \in [Threads -> Sending]
  /\ model \in [at : Nat, n : Nat, fresh : BOOLEAN]
  /\ open \in Seq(Windows) /\ crossed \in BOOLEAN

(* A window is open, and one was opened inside another. *)
OpenIn(s, w) == \E i \in 1..Len(s) : s[i] = w
Within(s, u, w) == \E i, j \in 1..Len(s) : i < j /\ s[i] = u /\ s[j] = w
Once(s) == \A i, j \in 1..Len(s) : s[i] = s[j] => i = j

(* The windows that are open are those of the calls in progress. *)
WindowsInv ==
  /\ Once(open)
  /\ OpenIn(open, "batch") <=> phase # "idle"
  /\ OpenIn(open, "reply") <=> send["poll"].phase # "none"
  /\ OpenIn(open, "dispatch") <=> send["dispatch"].phase # "none"
  /\ send["poll"].phase # "none" => phase = "handling" /\ Within(open, "batch", "reply")
  /\ phase # "handling" => Len(batch) = 0
  /\ phase = "idle" => saved = 0

(* In the direct mode nobody else sends. *)
DirectInv == direct => ~crossed /\ send["dispatch"].phase = "none" /\ saved = 0

(* What was received lies below a place in the arena. *)
Below(x) ==
  /\ \A i \in 1..Len(batch) : batch[i].at + batch[i].size <= x /\ batch[i].nodes < x
  /\ phase = "received" => body.at + Total(body.updates) <= x

(* While windows are nested, what was received is its own, lies below the  *)
(* offset, and below every offset that may be restored before it is gone.  *)
NestedInv ==
  ~crossed =>
    /\ \A i \in 1..Len(batch) : Intact(batch[i])
    /\ phase = "received" => BodyIntact
    /\ Below(offset)
    /\ Within(open, "batch", "dispatch") => Below(send["dispatch"].saved)
    /\ OpenIn(open, "reply") => Below(send["poll"].saved)
    /\ Len(open) = 0 => offset = 0
    /\ Len(open) > 0 /\ open[1] = "dispatch" => send["dispatch"].saved = 0

(* So does the name of the model, until the next response. *)
NameInv ==
  model.fresh =>
    /\ direct /\ phase # "received" /\ model.at < Room /\ mem[model.at] = model.n
    /\ phase = "handling" =>
         model.at < offset /\ (send["poll"].phase # "none" => model.at < send["poll"].saved)

IInv == Types /\ WindowsInv /\ DirectInv /\ NestedInv /\ NameInv

-----------------------------------------------------------------------------
(* The sizes the constants are assumed to have. *)
LEMMA TelegramSizes ==
  /\ Room \in Nat /\ Room >= 1 /\ Limit \in Nat /\ Limit >= 1
  /\ \A x \in Sizes : x \in Nat
  /\ \A x \in Costs : x \in Nat
BY TelegramAssumption

(* A set of numbers that is not empty has a least one. *)
LEMMA LeastExists ==
  ASSUME NEW S \in SUBSET Nat, S # {}
  PROVE  \E x \in S : \A y \in S : x <= y
<1>1. \E x \in S : \A y \in S : <<y, x>> \notin OpToRel(<, Nat)
  BY NatLessThanWellFounded, WFMin
<1>2. PICK x \in S : \A y \in S : <<y, x>> \notin OpToRel(<, Nat)
  BY <1>1
<1>3. \A y \in S : ~(y < x)
  BY <1>2 DEF OpToRel
<1>4. QED BY <1>3

-----------------------------------------------------------------------------
(* Sums of sizes.                                                          *)

Adds(s, g, n) == \A i \in 0..n : g[i] = IF i = 0 THEN 0 ELSE g[i - 1] + s[i].size

(* There are the sums of every sequence, *)
LEMMA SumsExist ==
  ASSUME NEW s \in Seq(Received)
  PROVE  \E g \in [0..Len(s) -> Nat] : Adds(s, g, Len(s))
<1> DEFINE Missing == {n \in 0..Len(s) : ~ \E g \in [0..n -> Nat] : Adds(s, g, n)}
<1>1. Len(s) \in Nat /\ \A i \in 1..Len(s) : s[i] \in Received
  BY ElementOfSeq, LenProperties
<1>2. Missing \in SUBSET Nat
  BY <1>1
<1>3. SUFFICES ASSUME Missing # {} PROVE FALSE
  BY <1>1
<1>4. PICK n \in Missing : \A m \in Missing : n <= m
  BY <1>2, <1>3, LeastExists
<1>5. n \in 0..Len(s) /\ ~ \E g \in [0..n -> Nat] : Adds(s, g, n)
  BY <1>4
<1>6. CASE n = 0
  <2>1. [i \in 0..0 |-> 0] \in [0..n -> Nat] /\ Adds(s, [i \in 0..0 |-> 0], n)
    BY <1>6 DEF Adds
  <2>2. QED BY <2>1, <1>5
<1>7. CASE n # 0
  <2>1. n - 1 \in 0..Len(s) /\ n - 1 \notin Missing
    <3> HIDE DEF Missing
    <3>1. n \in 0..Len(s)
      BY <1>5
    <3>2. n - 1 \in 0..Len(s) /\ ~(n <= n - 1)
      BY <3>1, <1>1, <1>7
    <3>3. QED BY <3>2, <1>4
  <2>2. PICK g \in [0..n - 1 -> Nat] : Adds(s, g, n - 1)
    BY <2>1
  <2>3. g[n - 1] \in Nat /\ s[n].size \in Nat
    BY <1>1, <1>5, <1>7, <2>2 DEF Received
  <2> DEFINE h == [i \in 0..n |-> IF i = n THEN g[n - 1] + s[n].size ELSE g[i]]
  <2>4. h \in [0..n -> Nat]
    BY <1>1, <1>5, <1>7, <2>2, <2>3
  <2>5. Adds(s, h, n)
    <3> SUFFICES ASSUME NEW i \in 0..n
                 PROVE  h[i] = IF i = 0 THEN 0 ELSE h[i - 1] + s[i].size
      BY DEF Adds
    <3>1. CASE i = n
      BY <3>1, <1>1, <1>5, <1>7
    <3>2. CASE i # n
      <4>1. i \in 0..n - 1 /\ h[i] = g[i] /\ (i # 0 => h[i - 1] = g[i - 1])
        BY <3>2, <1>1, <1>5
      <4>2. QED BY <4>1, <2>2 DEF Adds
    <3>3. QED BY <3>1, <3>2
  <2>6. QED BY <2>4, <2>5, <1>5
<1>8. QED BY <1>6, <1>7

(* and sums of the same sizes are the same. *)
LEMMA SumsAgree ==
  ASSUME NEW n \in Nat, NEW s, NEW t, NEW g, NEW h, Adds(s, g, n), Adds(t, h, n),
         \A i \in 1..n : s[i].size = t[i].size
  PROVE  \A i \in 0..n : g[i] = h[i]
<1> DEFINE Other == {i \in 0..n : g[i] # h[i]}
<1>1. SUFFICES ASSUME Other # {} PROVE FALSE
  OBVIOUS
<1>2. Other \in SUBSET Nat
  OBVIOUS
<1>3. PICK i \in Other : \A j \in Other : i <= j
  BY <1>1, <1>2, LeastExists
<1>4. i \in 0..n /\ g[i] # h[i]
  BY <1>3
<1>5. CASE i = 0
  BY <1>4, <1>5 DEF Adds
<1>6. CASE i # 0
  <2>1. i - 1 \in 0..n /\ i - 1 \notin Other
    BY <1>3, <1>4, <1>6
  <2>2. g[i - 1] = h[i - 1] /\ s[i].size = t[i].size
    BY <2>1, <1>4, <1>6
  <2>3. g[i] = g[i - 1] + s[i].size /\ h[i] = h[i - 1] + t[i].size
    BY <1>4, <1>6 DEF Adds
  <2>4. QED BY <2>2, <2>3, <1>4
<1>7. QED BY <1>5, <1>6

(* Total is the last of the sums. *)
LEMMA TotalIsLast ==
  ASSUME NEW s, Len(s) \in Nat, NEW g, Adds(s, g, Len(s))
  PROVE  Total(s) = g[Len(s)]
<1> DEFINE Is(f) == f = [i \in 0..Len(s) |-> IF i = 0 THEN 0 ELSE f[i - 1] + s[i].size]
           g0 == [i \in 0..Len(s) |-> g[i]]
           c == CHOOSE f : Is(f)
<1>1. Is(g0)
  <2>1. \A i \in 0..Len(s) : g0[i] = IF i = 0 THEN 0 ELSE g0[i - 1] + s[i].size
    BY DEF Adds
  <2>2. QED BY <2>1
<1>2. \E f : Is(f)
  BY <1>1
<1>3. Is(c)
  <2> HIDE DEF Is
  <2>1. QED BY <1>2
<1>4. Adds(s, c, Len(s))
  <2> HIDE DEF c
  <2>1. QED BY <1>3 DEF Adds
<1>5. c[Len(s)] = g[Len(s)]
  <2> HIDE DEF c
  <2>1. QED BY <1>4, SumsAgree
<1>6. Total(s) = c[Len(s)]
  BY DEF Total
<1>7. QED BY <1>5, <1>6

(* So the text of an update ends where that of the next begins, and the    *)
(* last one ends with the body.                                            *)
LEMMA TextsInBody ==
  ASSUME NEW s \in Seq(Received)
  PROVE  /\ Total(s) \in Nat
         /\ \A i \in 1..Len(s) :
              /\ Total(SubSeq(s, 1, i - 1)) \in Nat
              /\ Total(SubSeq(s, 1, i - 1)) + s[i].size <= Total(s)
<1>1. Len(s) \in Nat /\ \A i \in 1..Len(s) : s[i].size \in Nat
  <2>1. Len(s) \in Nat /\ \A i \in 1..Len(s) : s[i] \in Received
    BY ElementOfSeq, LenProperties
  <2>2. QED BY <2>1 DEF Received
<1>2. PICK g \in [0..Len(s) -> Nat] : Adds(s, g, Len(s))
  BY SumsExist
<1>3. Total(s) = g[Len(s)] /\ g[Len(s)] \in Nat
  BY <1>1, <1>2, TotalIsLast
<1>4. \A i \in 0..Len(s) : g[i] <= g[Len(s)]
  <2> DEFINE More == {k \in 0..Len(s) : ~(g[Len(s) - k] <= g[Len(s)])}
  <2>1. SUFFICES ASSUME More # {} PROVE FALSE
    <3>1. ASSUME More = {}, NEW i \in 0..Len(s) PROVE g[i] <= g[Len(s)]
      <4>1. Len(s) - i \in 0..Len(s) /\ Len(s) - (Len(s) - i) = i
        BY <1>1
      <4>2. Len(s) - i \notin More
        BY <3>1
      <4>3. QED BY <4>1, <4>2
    <3>2. QED BY <3>1
  <2>2. More \in SUBSET Nat
    BY <1>1
  <2>3. PICK k \in More : \A j \in More : k <= j
    BY <2>1, <2>2, LeastExists
  <2>4. k \in 0..Len(s) /\ ~(g[Len(s) - k] <= g[Len(s)])
    BY <2>3
  <2>5. k # 0
    BY <2>4, <1>1, <1>3
  <2>6. k - 1 \in 0..Len(s) /\ k - 1 \notin More
    <3> HIDE DEF More
    <3>1. k \in 0..Len(s)
      BY <2>4
    <3>2. k - 1 \in 0..Len(s) /\ ~(k <= k - 1)
      BY <3>1, <2>5, <1>1
    <3>3. QED BY <3>2, <2>3
  <2> DEFINE a == Len(s) - k
             b == Len(s) - (k - 1)
  <2>7. a \in 0..Len(s) /\ b \in 1..Len(s) /\ b - 1 = a /\ b # 0 /\ b \in 0..Len(s)
    BY <2>4, <2>5, <1>1
  <2>8. g[b] <= g[Len(s)]
    BY <2>6
  <2>9. ~(g[a] <= g[Len(s)])
    BY <2>4
  <2>10. g[a] \in Nat /\ g[b] \in Nat /\ s[b].size \in Nat
    BY <2>7, <1>1, <1>2
  <2> HIDE DEF a, b
  <2>11. g[b] = g[b - 1] + s[b].size
    BY <2>7, <1>2 DEF Adds
  <2>12. QED BY <2>7, <2>8, <2>9, <2>10, <2>11, <1>3
<1>5. ASSUME NEW i \in 1..Len(s)
      PROVE  /\ Total(SubSeq(s, 1, i - 1)) \in Nat
             /\ Total(SubSeq(s, 1, i - 1)) + s[i].size <= Total(s)
  <2> DEFINE t == SubSeq(s, 1, i - 1)
  <2>1. Len(t) = i - 1 /\ \A j \in 1..i - 1 : t[j] = s[j]
    BY <1>1
  <2> HIDE DEF t
  <2>2. Adds(t, g, Len(t))
    BY <2>1, <1>1, <1>2 DEF Adds
  <2>3. Total(t) = g[i - 1]
    BY <2>1, <2>2, <1>1, TotalIsLast
  <2>4. g[i] = g[i - 1] + s[i].size /\ g[i] <= g[Len(s)] /\ g[i - 1] \in Nat
    BY <1>1, <1>2, <1>4 DEF Adds
  <2>5. Total(t) \in Nat /\ Total(t) + s[i].size <= Total(s)
    BY <2>3, <2>4, <1>3
  <2>6. QED BY <2>5 DEF t
<1>6. QED BY <1>3, <1>5

-----------------------------------------------------------------------------
(* The sizes of buffers.                                                   *)

Doubles(g, n) == \A k \in 0..n : g[k] = IF k = 0 THEN 1 ELSE 2 * g[k - 1]

(* There are the powers of two, each greater than its exponent, *)
LEMMA PowersExist ==
  ASSUME NEW n \in Nat
  PROVE  \E g \in [0..n -> Nat] : Doubles(g, n) /\ \A k \in 0..n : g[k] >= k + 1
<1> DEFINE Good(m, g) == Doubles(g, m) /\ \A k \in 0..m : g[k] >= k + 1
           Missing == {m \in Nat : ~ \E g \in [0..m -> Nat] : Good(m, g)}
<1>1. SUFFICES ASSUME Missing # {} PROVE FALSE
  OBVIOUS
<1>2. Missing \in SUBSET Nat
  OBVIOUS
<1>3. PICK m \in Missing : \A l \in Missing : m <= l
  BY <1>1, <1>2, LeastExists
<1>4. m \in Nat /\ ~ \E g \in [0..m -> Nat] : Good(m, g)
  BY <1>3
<1>5. CASE m = 0
  <2>1. [k \in 0..0 |-> 1] \in [0..m -> Nat] /\ Good(m, [k \in 0..0 |-> 1])
    BY <1>5 DEF Doubles
  <2>2. QED BY <2>1, <1>4
<1>6. CASE m # 0
  <2>1. m - 1 \in Nat /\ m - 1 \notin Missing
    <3> HIDE DEF Missing
    <3>1. m - 1 \in Nat /\ ~(m <= m - 1)
      BY <1>4, <1>6
    <3>2. QED BY <3>1, <1>3
  <2>2. PICK g \in [0..m - 1 -> Nat] : Good(m - 1, g)
    BY <2>1
  <2>3. g[m - 1] \in Nat /\ g[m - 1] >= m
    BY <2>1, <2>2
  <2> DEFINE h == [k \in 0..m |-> IF k = m THEN 2 * g[m - 1] ELSE g[k]]
  <2>4. h \in [0..m -> Nat]
    BY <1>4, <1>6, <2>2, <2>3
  <2>5. ASSUME NEW k \in 0..m
        PROVE  h[k] = (IF k = 0 THEN 1 ELSE 2 * h[k - 1]) /\ h[k] >= k + 1
    <3>1. CASE k = m
      BY <3>1, <1>4, <1>6, <2>3
    <3>2. CASE k # m
      <4>1. k \in 0..m - 1 /\ h[k] = g[k] /\ (k # 0 => h[k - 1] = g[k - 1])
        BY <3>2, <1>4
      <4>2. QED BY <4>1, <2>2 DEF Doubles
    <3>3. QED BY <3>1, <3>2
  <2>6. Good(m, h)
    BY <2>5 DEF Doubles
  <2>7. QED BY <2>4, <2>6, <1>4
<1>7. QED BY <1>5, <1>6

(* and there is one way only to double. *)
LEMMA DoublesAgree ==
  ASSUME NEW n \in Nat, NEW g, NEW h, Doubles(g, n), Doubles(h, n)
  PROVE  \A k \in 0..n : g[k] = h[k]
<1> DEFINE Other == {k \in 0..n : g[k] # h[k]}
<1>1. SUFFICES ASSUME Other # {} PROVE FALSE
  OBVIOUS
<1>2. Other \in SUBSET Nat
  OBVIOUS
<1>3. PICK k \in Other : \A j \in Other : k <= j
  BY <1>1, <1>2, LeastExists
<1>4. k \in 0..n /\ g[k] # h[k]
  BY <1>3
<1>5. CASE k = 0
  BY <1>4, <1>5 DEF Doubles
<1>6. CASE k # 0
  <2>1. k - 1 \in 0..n /\ k - 1 \notin Other
    BY <1>3, <1>4, <1>6
  <2>2. g[k - 1] = h[k - 1]
    BY <2>1
  <2>3. g[k] = 2 * g[k - 1] /\ h[k] = 2 * h[k - 1]
    BY <1>4, <1>6 DEF Doubles
  <2>4. QED BY <2>2, <2>3, <1>4
<1>7. QED BY <1>5, <1>6

(* A text finds a buffer that is large enough. *)
LEMMA CapHolds ==
  ASSUME NEW n \in Nat
  PROVE  Cap(n) \in Nat /\ Cap(n) >= 1 /\ Cap(n) >= n
<1> DEFINE Is(f) == f = [k \in 0..n |-> IF k = 0 THEN 1 ELSE 2 * f[k - 1]]
           c == CHOOSE f : Is(f)
<1>1. PICK g \in [0..n -> Nat] : Doubles(g, n) /\ \A k \in 0..n : g[k] >= k + 1
  BY PowersExist
<1>2. Is(g)
  <2>1. \A k \in 0..n : g[k] = IF k = 0 THEN 1 ELSE 2 * g[k - 1]
    BY <1>1 DEF Doubles
  <2>2. QED BY <2>1
<1>3. Is(c)
  <2>1. \E f : Is(f)
    BY <1>2
  <2> HIDE DEF Is
  <2>2. QED BY <2>1
<1>4. Doubles(c, n)
  <2> HIDE DEF c
  <2>1. QED BY <1>3 DEF Doubles
<1>5. \A k \in 0..n : c[k] = g[k]
  <2> HIDE DEF c
  <2>1. QED BY <1>1, <1>4, DoublesAgree
<1>6. Caps(n) = {c[k] : k \in 0..n}
  BY DEF Caps
<1> HIDE DEF c
<1>7. Caps(n) \in SUBSET Nat /\ \A p \in Caps(n) : p >= 1
  BY <1>1, <1>5, <1>6
<1>8. g[n] \in Caps(n) /\ g[n] >= n
  <2>1. n \in 0..n
    OBVIOUS
  <2>2. g[n] >= n + 1 /\ g[n] \in Nat
    BY <2>1, <1>1
  <2>3. c[n] \in Caps(n)
    BY <2>1, <1>6
  <2>4. c[n] = g[n]
    BY <2>1, <1>5
  <2>5. QED BY <2>2, <2>3, <2>4
<1> DEFINE Large == {q \in Caps(n) : q >= n}
<1>9. PICK p \in Large : \A q \in Large : p <= q
  <2>1. Large \in SUBSET Nat /\ Large # {}
    BY <1>7, <1>8
  <2>2. QED BY <2>1, LeastExists
<1>10. \E r \in Caps(n) : r >= n /\ \A q \in Caps(n) : q >= n => r <= q
  BY <1>9
<1>11. Cap(n) \in Caps(n) /\ Cap(n) >= n
  BY <1>10 DEF Cap
<1>12. QED BY <1>7, <1>11

-----------------------------------------------------------------------------
(* Windows.                                                                *)

(* A window that is opened is the last, and all others are outside of it. *)
LEMMA OpensLast ==
  ASSUME NEW s \in Seq(Windows), NEW w \in Windows, Once(s), ~OpenIn(s, w)
  PROVE  LET t == Append(s, w) IN
         /\ t \in Seq(Windows) /\ Once(t) /\ Len(t) > 0
         /\ \A v \in Windows : OpenIn(t, v) <=> OpenIn(s, v) \/ v = w
         /\ \A u, v \in Windows : Within(t, u, v) <=> Within(s, u, v) \/ (v = w /\ OpenIn(s, u))
         /\ IF Len(s) = 0 THEN t[1] = w ELSE t[1] = s[1]
<1> DEFINE t == Append(s, w)
<1>1. /\ t \in Seq(Windows) /\ Len(s) \in Nat /\ Len(t) = Len(s) + 1
      /\ \A i \in 1..Len(s) : t[i] = s[i] /\ s[i] \in Windows
      /\ t[Len(t)] = w
  BY AppendProperties, LenProperties, ElementOfSeq
<1> HIDE DEF t
<1>2. \A i \in 1..Len(t) : i \in 1..Len(s) \/ i = Len(t)
  BY <1>1
<1>3. \A i \in 1..Len(s) : i \in 1..Len(t) /\ i < Len(t) /\ s[i] # w
  BY <1>1 DEF OpenIn
<1>4. Len(t) \in 1..Len(t)
  BY <1>1
<1>5. Once(t)
  BY <1>1, <1>2, <1>3 DEF Once
<1>6. ASSUME NEW v \in Windows PROVE OpenIn(t, v) <=> OpenIn(s, v) \/ v = w
  BY <1>1, <1>2, <1>3, <1>4 DEF OpenIn
<1>7. ASSUME NEW u \in Windows, NEW v \in Windows
      PROVE  Within(t, u, v) <=> Within(s, u, v) \/ (v = w /\ OpenIn(s, u))
  <2>1. ASSUME Within(t, u, v) PROVE Within(s, u, v) \/ (v = w /\ OpenIn(s, u))
    <3>1. PICK i, j \in 1..Len(t) : i < j /\ t[i] = u /\ t[j] = v
      BY <2>1 DEF Within
    <3>2. i \in 1..Len(s)
      BY <3>1, <1>1, <1>2
    <3>3. CASE j = Len(t)
      BY <3>1, <3>2, <3>3, <1>1 DEF OpenIn
    <3>4. CASE j # Len(t)
      BY <3>1, <3>2, <3>4, <1>1, <1>2 DEF Within
    <3>5. QED BY <3>3, <3>4
  <2>2. ASSUME Within(s, u, v) PROVE Within(t, u, v)
    <3>1. PICK i, j \in 1..Len(s) : i < j /\ s[i] = u /\ s[j] = v
      BY <2>2 DEF Within
    <3>2. QED BY <3>1, <1>1, <1>3 DEF Within
  <2>3. ASSUME v = w, OpenIn(s, u) PROVE Within(t, u, v)
    <3>1. PICK i \in 1..Len(s) : s[i] = u
      BY <2>3 DEF OpenIn
    <3>2. QED BY <3>1, <2>3, <1>1, <1>3, <1>4 DEF Within
  <2>4. QED BY <2>1, <2>2, <2>3
<1>8. IF Len(s) = 0 THEN t[1] = w ELSE t[1] = s[1]
  BY <1>1
<1>9. QED BY <1>1, <1>5, <1>6, <1>7, <1>8 DEF t

(* Closing a window leaves the others as they are. *)
LEMMA ClosesOne ==
  ASSUME NEW s \in Seq(Windows), NEW w \in Windows, Once(s),
         NEW k \in 1..Len(s), s[k] = w
  PROVE  LET t == RemoveAt(s, k) IN
         /\ t \in Seq(Windows) /\ Once(t)
         /\ \A v \in Windows : OpenIn(t, v) <=> OpenIn(s, v) /\ v # w
         /\ \A u, v \in Windows : Within(t, u, v) <=> Within(s, u, v) /\ u # w /\ v # w
         /\ Len(t) > 0 => t[1] = s[1] \/ s[1] = w
         /\ Len(t) = Len(s) - 1
<1> DEFINE t == RemoveAt(s, k)
           a == SubSeq(s, 1, k - 1)
           b == SubSeq(s, k + 1, Len(s))
<1>1. Len(s) \in Nat /\ k \in Int /\ 1 <= k /\ k <= Len(s)
      /\ \A i \in 1..Len(s) : s[i] \in Windows
  BY LenProperties, ElementOfSeq
<1>2. a \in Seq(Windows) /\ Len(a) = k - 1 /\ \A i \in 1..k - 1 : a[i] = s[i]
  <2>1. \A i \in 1..k - 1 : s[i] \in Windows
    BY <1>1
  <2>2. QED BY <1>1, <2>1
<1>3. b \in Seq(Windows) /\ Len(b) = Len(s) - k /\ \A i \in 1..Len(s) - k : b[i] = s[k + i]
  <2>1. \A i \in k + 1..Len(s) : s[i] \in Windows
    BY <1>1
  <2>2. Len(b) = Len(s) - k /\ \A i \in 1..Len(s) - k : b[i] = s[k + i]
    BY <1>1
  <2>3. QED BY <1>1, <2>1, <2>2
<1>4. t = a \o b
  BY DEF RemoveAt
<1> HIDE DEF a, b, t
<1>5. /\ t \in Seq(Windows) /\ Len(t) = Len(s) - 1
      /\ \A i \in 1..Len(t) : t[i] = IF i < k THEN s[i] ELSE s[i + 1]
  <2>1. /\ t \in Seq(Windows) /\ Len(t) = Len(a) + Len(b)
        /\ \A i \in 1..Len(a) + Len(b) : t[i] = IF i <= Len(a) THEN a[i] ELSE b[i - Len(a)]
    BY <1>2, <1>3, <1>4, ConcatProperties
  <2>2. Len(t) = Len(s) - 1
    BY <2>1, <1>1, <1>2, <1>3
  <2>3. ASSUME NEW i \in 1..Len(t) PROVE t[i] = IF i < k THEN s[i] ELSE s[i + 1]
    <3>1. CASE i < k
      BY <3>1, <2>1, <2>2, <1>1, <1>2
    <3>2. CASE i >= k
      <4>1. t[i] = b[i - (k - 1)] /\ i - (k - 1) \in 1..Len(s) - k
        BY <3>2, <2>1, <2>2, <1>1, <1>2
      <4>2. b[i - (k - 1)] = s[k + (i - (k - 1))] /\ k + (i - (k - 1)) = i + 1
        BY <4>1, <1>1, <1>3
      <4>3. QED BY <4>1, <4>2, <3>2, <1>1
    <3>3. QED BY <3>1, <3>2, <1>1
  <2>4. QED BY <2>1, <2>2, <2>3
(* Where an element came from, and where it goes to. *)
<1> DEFINE old(i) == IF i < k THEN i ELSE i + 1
           new(i) == IF i < k THEN i ELSE i - 1
<1>6. ASSUME NEW i \in 1..Len(t)
      PROVE  old(i) \in 1..Len(s) /\ old(i) # k /\ t[i] = s[old(i)] /\ t[i] # w
  <2>1. old(i) \in 1..Len(s) /\ old(i) # k /\ t[i] = s[old(i)]
    BY <1>1, <1>5
  <2> HIDE DEF old
  <2>2. QED BY <2>1 DEF Once
<1>7. ASSUME NEW i \in 1..Len(s), i # k
      PROVE  new(i) \in 1..Len(t) /\ t[new(i)] = s[i]
  <2>1. CASE i < k
    BY <2>1, <1>1, <1>5
  <2>2. CASE i > k
    BY <2>2, <1>1, <1>5
  <2>3. QED BY <2>1, <2>2, <1>1, <1>7
<1>8. \A i, j \in 1..Len(t) : (i < j <=> old(i) < old(j)) /\ (old(i) = old(j) => i = j)
  BY <1>1, <1>5
<1>9. \A i, j \in 1..Len(s) : i # k /\ j # k /\ i < j => new(i) < new(j)
  BY <1>1
<1> HIDE DEF old, new
<1>10. Once(t)
  <2>1. SUFFICES ASSUME NEW i \in 1..Len(t), NEW j \in 1..Len(t), t[i] = t[j] PROVE i = j
    BY DEF Once
  <2>2. s[old(i)] = s[old(j)] /\ old(i) \in 1..Len(s) /\ old(j) \in 1..Len(s)
    BY <2>1, <1>6
  <2>3. old(i) = old(j)
    BY <2>2 DEF Once
  <2>4. QED BY <2>3, <1>8
<1>11. ASSUME NEW v \in Windows PROVE OpenIn(t, v) <=> OpenIn(s, v) /\ v # w
  <2>1. ASSUME OpenIn(t, v) PROVE OpenIn(s, v) /\ v # w
    BY <2>1, <1>6 DEF OpenIn
  <2>2. ASSUME OpenIn(s, v), v # w PROVE OpenIn(t, v)
    BY <2>2, <1>7 DEF OpenIn
  <2>3. QED BY <2>1, <2>2
<1>12. ASSUME NEW u \in Windows, NEW v \in Windows
       PROVE  Within(t, u, v) <=> Within(s, u, v) /\ u # w /\ v # w
  <2>1. ASSUME Within(t, u, v) PROVE Within(s, u, v) /\ u # w /\ v # w
    <3>1. PICK i, j \in 1..Len(t) : i < j /\ t[i] = u /\ t[j] = v
      BY <2>1 DEF Within
    <3>2. old(i) < old(j) /\ s[old(i)] = u /\ s[old(j)] = v /\ u # w /\ v # w
      BY <3>1, <1>6, <1>8
    <3>3. old(i) \in 1..Len(s) /\ old(j) \in 1..Len(s)
      BY <1>6
    <3>4. QED BY <3>2, <3>3 DEF Within
  <2>2. ASSUME Within(s, u, v), u # w, v # w PROVE Within(t, u, v)
    <3>1. PICK i, j \in 1..Len(s) : i < j /\ s[i] = u /\ s[j] = v
      BY <2>2 DEF Within
    <3>2. i # k /\ j # k
      BY <3>1, <2>2
    <3>3. /\ new(i) \in 1..Len(t) /\ t[new(i)] = u /\ new(j) \in 1..Len(t) /\ t[new(j)] = v
          /\ new(i) < new(j)
      BY <3>1, <3>2, <1>7, <1>9
    <3>4. QED BY <3>3 DEF Within
  <2>3. QED BY <2>1, <2>2
<1>13. Len(t) > 0 => t[1] = s[1] \/ s[1] = w
  <2>1. CASE k = 1
    BY <2>1
  <2>2. CASE k # 1
    BY <2>2, <1>1, <1>5
  <2>3. QED BY <2>1, <2>2
<1>14. QED BY <1>5, <1>10, <1>11, <1>12, <1>13 DEF t

(* The last window is inside all others. *)
LEMMA LastIsInnermost ==
  ASSUME NEW s \in Seq(Windows), Once(s), Len(s) > 0
  PROVE  /\ Last(s) \in Windows /\ OpenIn(s, Last(s)) /\ s[1] \in Windows /\ OpenIn(s, s[1])
         /\ \A v \in Windows : ~Within(s, Last(s), v)
         /\ \A v \in Windows : OpenIn(s, v) /\ v # Last(s) => Within(s, v, Last(s))
         /\ s[1] = Last(s) => Len(s) = 1
<1>1. Len(s) \in Nat /\ Len(s) \in 1..Len(s) /\ 1 \in 1..Len(s) /\ Last(s) = s[Len(s)]
      /\ \A i \in 1..Len(s) : s[i] \in Windows
  BY LenProperties, ElementOfSeq DEF Last
<1>2. Last(s) \in Windows /\ OpenIn(s, Last(s)) /\ s[1] \in Windows /\ OpenIn(s, s[1])
  BY <1>1 DEF OpenIn
<1>3. ASSUME NEW v \in Windows PROVE ~Within(s, Last(s), v)
  <2>1. SUFFICES ASSUME NEW i \in 1..Len(s), NEW j \in 1..Len(s), i < j, s[i] = Last(s)
                 PROVE FALSE
    BY DEF Within
  <2>2. i = Len(s)
    BY <2>1, <1>1 DEF Once
  <2>3. QED BY <2>1, <2>2, <1>1
<1>4. ASSUME NEW v \in Windows, OpenIn(s, v), v # Last(s) PROVE Within(s, v, Last(s))
  <2>1. PICK i \in 1..Len(s) : s[i] = v
    BY <1>4 DEF OpenIn
  <2>2. i < Len(s)
    BY <2>1, <1>1, <1>4
  <2>3. QED BY <2>1, <2>2, <1>1 DEF Within
<1>5. s[1] = Last(s) => Len(s) = 1
  BY <1>1 DEF Once
<1>6. QED BY <1>2, <1>3, <1>4, <1>5

(* One window is not inside and outside of another. *)
LEMMA NotBoth ==
  ASSUME NEW s \in Seq(Windows), NEW u, NEW v, Once(s), Within(s, u, v)
  PROVE  OpenIn(s, u) /\ OpenIn(s, v) /\ s[1] # v
<1>1. Len(s) \in Nat
  BY LenProperties
<1>2. PICK i, j \in 1..Len(s) : i < j /\ s[i] = u /\ s[j] = v
  BY DEF Within
<1>3. 1 \in 1..Len(s) /\ j # 1
  BY <1>1, <1>2
<1>4. QED BY <1>2, <1>3 DEF OpenIn, Once

-----------------------------------------------------------------------------
(* Memory.                                                                 *)

(* Writing at the offset leaves what is below it. *)
LEMMA WritesAbove ==
  ASSUME Types, NEW n \in Nat, NEW what \in Int
  PROVE  LET m == Written(offset, n, what) IN
         /\ m \in [0..Room - 1 -> Int]
         /\ \A c \in 0..offset - 1 : m[c] = mem[c]
         /\ \A c \in offset..offset + n - 1 : c < Room => m[c] = what
<1>1. mem \in [0..Room - 1 -> Int] /\ DOMAIN mem = 0..Room - 1 /\ offset \in 0..Room /\ Room \in Nat
  BY TelegramSizes DEF Types
<1>2. QED BY <1>1 DEF Written

(* An update that is below the offset survives. *)
LEMMA IntactBelow ==
  ASSUME Types, NEW u \in Update, Intact(u), u.at + u.size <= offset, u.nodes < offset,
         NEW m, \A c \in 0..offset - 1 : m[c] = mem[c]
  PROVE  (\A c \in u.at..u.at + u.size - 1 : m[c] = Body) /\ m[u.nodes] = Nodes
<1>1. u.at \in Nat /\ u.size \in Nat /\ u.nodes \in Nat /\ offset \in Nat
  BY TelegramSizes DEF Types, Update
<1>2. QED BY <1>1 DEF Intact, Holds

(* The windows that are open, for each direct mode and each phase. *)
LEMMA DirectWindows ==
  ASSUME Types, WindowsInv, DirectInv, direct
  PROVE  /\ phase = "idle" => Len(open) = 0
         /\ send["poll"].phase = "none" /\ phase # "idle" => Len(open) > 0 /\ Last(open) = "batch"
         /\ send["poll"].phase # "none" => Len(open) > 0 /\ Last(open) = "reply"
<1>1. open \in Seq(Windows) /\ Once(open) /\ Len(open) \in Nat
  BY LenProperties DEF Types, WindowsInv
<1>2. ~OpenIn(open, "dispatch")
  BY DEF WindowsInv, DirectInv
<1>3. CASE Len(open) = 0
  <2>1. \A w : ~OpenIn(open, w)
    BY <1>3 DEF OpenIn
  <2>2. QED BY <2>1, <1>3 DEF WindowsInv
<1>4. CASE Len(open) > 0
  <2>1. /\ Last(open) \in Windows /\ OpenIn(open, Last(open))
        /\ \A v \in Windows : ~Within(open, Last(open), v)
    BY <1>1, <1>4, LastIsInnermost
  <2>2. Last(open) \in {"batch", "reply"}
    BY <2>1, <1>2 DEF Windows
  <2>3. Last(open) = "batch" => ~Within(open, "batch", "reply")
    BY <2>1 DEF Windows
  <2>4. QED BY <2>1, <2>2, <2>3, <1>4 DEF WindowsInv
<1>5. QED BY <1>1, <1>3, <1>4

(* The parts of the types that are used often. *)
LEMMA TypesOf ==
  ASSUME Types
  PROVE  /\ Room \in Nat /\ offset \in Nat /\ offset <= Room /\ saved \in Nat /\ saved <= Room
         /\ Len(batch) \in Nat /\ Len(open) \in Nat
         /\ \A i \in 1..Len(batch) : batch[i] \in Update
         /\ \A t \in Threads : send[t] \in Sending /\ send[t].saved \in 0..Room
<1>1. Len(batch) \in Nat /\ Len(open) \in Nat /\ \A i \in 1..Len(batch) : batch[i] \in Update
  BY LenProperties, ElementOfSeq DEF Types
<1>2. QED BY <1>1, TelegramSizes DEF Types, Sending

-----------------------------------------------------------------------------
(* The actions of the poll.                                                *)

LEMMA InitHolds == Init => IInv
<1> SUFFICES ASSUME Init PROVE IInv
  OBVIOUS
<1>1. /\ arrived = <<>> /\ batch = <<>> /\ open = <<>> /\ Len(batch) = 0 /\ Len(open) = 0
      /\ phase = "idle" /\ saved = 0 /\ offset = 0 /\ last = 0 /\ crossed = FALSE
      /\ direct \in BOOLEAN /\ model = [at |-> 0, n |-> 0, fresh |-> FALSE]
      /\ send = [t \in Threads |-> [phase |-> "none", saved |-> 0]]
      /\ mem = [c \in 0..Room - 1 |-> 0] /\ body = [at |-> 0, updates |-> <<>>]
  BY EmptySeq DEF Init, NoModel, AtRest, NoBody, Blank
<1>2. arrived \in Seq(Sizes) /\ batch \in Seq(Update) /\ open \in Seq(Windows)
      /\ body \in [at : Nat, updates : Seq(Received)]
  <2>1. <<>> \in Seq(Sizes) /\ <<>> \in Seq(Update) /\ <<>> \in Seq(Windows) /\ <<>> \in Seq(Received)
    BY EmptySeq
  <2>2. QED BY <2>1, <1>1
<1>3. Types
  <2>1. send \in [Threads -> Sending] /\ mem \in [0..Room - 1 -> Int]
    BY <1>1, TelegramSizes DEF Sending
  <2>2. model \in [at : Nat, n : Nat, fresh : BOOLEAN] /\ saved \in 0..Room /\ offset \in 0..Room
    BY <1>1, TelegramSizes
  <2>3. QED BY <1>1, <1>2, <2>1, <2>2 DEF Types, Phases
<1>4. WindowsInv
  <2>1. \A w : ~OpenIn(open, w)
    BY <1>1 DEF OpenIn
  <2>2. Once(open)
    BY <1>1 DEF Once
  <2>3. send["poll"].phase = "none" /\ send["dispatch"].phase = "none"
    BY <1>1 DEF Threads
  <2>4. QED BY <1>1, <2>1, <2>2, <2>3 DEF WindowsInv
<1>5. DirectInv
  BY <1>1 DEF DirectInv, Threads
<1>6. NestedInv
  <2>1. \A w : ~OpenIn(open, w)
    BY <1>1 DEF OpenIn
  <2>2. \A u, w : ~Within(open, u, w)
    BY <1>1 DEF Within
  <2>3. \A x : Below(x)
    BY <1>1 DEF Below
  <2>4. QED BY <1>1, <2>1, <2>2, <2>3 DEF NestedInv
<1>7. NameInv
  BY <1>1 DEF NameInv
<1>8. QED BY <1>3, <1>4, <1>5, <1>6, <1>7 DEF IInv

(* Another update on the server. *)
LEMMA ArriveKeeps == ASSUME IInv, Arrive PROVE IInv'
<1>1. UNCHANGED <<direct, last, phase, batch, body, saved, offset, mem, send, model, open, crossed>>
  BY DEF Arrive, pollVars, memVars, historyVars
<1>2. arrived' \in Seq(Sizes)
  <2>1. PICK size \in Sizes : arrived' = Append(arrived, size)
    BY DEF Arrive
  <2>2. QED BY <2>1, AppendProperties DEF IInv, Types
<1>3. Types'
  BY <1>1, <1>2 DEF IInv, Types
<1>4. WindowsInv' /\ DirectInv'
  BY <1>1 DEF IInv, WindowsInv, DirectInv
<1>5. NestedInv'
  BY <1>1 DEF IInv, NestedInv, Below, Intact, BodyIntact, Holds
<1>6. NameInv'
  BY <1>1 DEF IInv, NameInv
<1>7. QED BY <1>3, <1>4, <1>5, <1>6 DEF IInv

(* The poll begins. *)
LEMMA AskKeeps == ASSUME IInv, Ask PROVE IInv'
<1>1. /\ phase = "idle" /\ phase' = "asking" /\ saved' = offset
      /\ open' = Append(open, "batch") /\ crossed' = (open # <<>> /\ crossed)
      /\ UNCHANGED <<direct, arrived, last, batch, body, offset, mem, send, model>>
  BY DEF Ask, Opens, memVars
<1>2. Types /\ WindowsInv /\ DirectInv /\ NestedInv /\ NameInv
  BY DEF IInv
<1>3. open \in Seq(Windows) /\ Once(open) /\ ~OpenIn(open, "batch") /\ "batch" \in Windows
      /\ "reply" \in Windows /\ "dispatch" \in Windows
  BY <1>1, <1>2 DEF Types, WindowsInv, Windows
<1>4. /\ open' \in Seq(Windows) /\ Once(open') /\ Len(open') > 0
      /\ \A v \in Windows : OpenIn(open', v) <=> OpenIn(open, v) \/ v = "batch"
      /\ \A u, v \in Windows :
           Within(open', u, v) <=> Within(open, u, v) \/ (v = "batch" /\ OpenIn(open, u))
      /\ IF Len(open) = 0 THEN open'[1] = "batch" ELSE open'[1] = open[1]
  BY <1>1, <1>3, OpensLast
<1>5. Types'
  BY <1>1, <1>2, <1>4 DEF Types, Phases
<1>6. WindowsInv'
  BY <1>1, <1>2, <1>3, <1>4 DEF WindowsInv
<1>7. DirectInv'
  <2>1. SUFFICES ASSUME direct PROVE ~crossed' /\ send'["dispatch"].phase = "none" /\ saved' = 0
    BY <1>1 DEF DirectInv
  <2>2. Len(open) = 0
    BY <1>1, <1>2, <2>1, DirectWindows
  <2>3. ~crossed /\ offset = 0
    BY <1>2, <2>1, <2>2 DEF DirectInv, NestedInv
  <2>4. QED BY <1>1, <1>2, <2>1, <2>3 DEF DirectInv
<1>8. NestedInv'
  <2>1. Len(batch') = 0 /\ phase' = "asking"
    BY <1>1, <1>2 DEF WindowsInv
  <2>2. \A x : Below(x)'
    BY <2>1 DEF Below
  <2>3. open = <<>> \/ ~crossed'  => Len(open) = 0 \/ ~crossed
    BY <1>1, EmptySeq
  <2>4. ~crossed' /\ open'[1] = "dispatch" => send'["dispatch"].saved = 0
    <3>1. SUFFICES ASSUME ~crossed', open'[1] = "dispatch" PROVE send["dispatch"].saved = 0
      BY <1>1
    <3>2. Len(open) # 0 /\ open[1] = "dispatch"
      BY <3>1, <1>4
    <3>3. ~crossed /\ Len(open) > 0
      BY <3>1, <3>2, <2>3, <1>2, TypesOf
    <3>4. QED BY <3>2, <3>3, <1>2 DEF NestedInv
  <2>5. Within(open', "batch", "dispatch") => FALSE
    <3>1. Within(open, "batch", "dispatch") => OpenIn(open, "batch")
      BY <1>3, NotBoth
    <3>2. QED BY <3>1, <1>3, <1>4
  <2>6. Len(open') # 0
    BY <1>4
  <2>7. \A i \in 1..Len(batch') : FALSE
    BY <2>1
  <2>8. QED BY <2>1, <2>2, <2>4, <2>6, <2>7 DEF NestedInv
<1>9. NameInv'
  BY <1>1, <1>2 DEF NameInv
<1>10. QED BY <1>5, <1>6, <1>7, <1>8, <1>9 DEF IInv

(* A poll ends, well or badly, whatever was written on the way. *)
LEMMA LeaveKeeps ==
  ASSUME IInv, Leave, phase # "idle", send["poll"].phase = "none",
         UNCHANGED <<direct, arrived, last, send>>,
         mem' \in [0..Room - 1 -> Int], model' \in [at : Nat, n : Nat, fresh : BOOLEAN],
         model'.fresh => UNCHANGED <<mem, model>>
  PROVE  IInv'
<1>1. Types /\ WindowsInv /\ DirectInv /\ NestedInv /\ NameInv
  BY DEF IInv
<1>2. /\ phase' = "idle" /\ batch' = <<>> /\ body' = NoBody /\ saved' = 0
      /\ offset' = IF direct THEN saved ELSE 0
      /\ crossed' = (crossed \/ (open # <<>> /\ Last(open) # "batch"))
  BY DEF Leave, Closes
<1>3. PICK k \in DOMAIN open : open[k] = "batch" /\ open' = RemoveAt(open, k)
  BY DEF Leave, Closes
<1>4. /\ open \in Seq(Windows) /\ Once(open) /\ Len(open) \in Nat /\ k \in 1..Len(open)
      /\ "batch" \in Windows /\ "reply" \in Windows /\ "dispatch" \in Windows
  BY <1>1, <1>3, TypesOf, LenProperties DEF Types, WindowsInv, Windows
<1>5. Len(open) > 0 /\ open # <<>>
  BY <1>4, EmptySeq
<1>6. /\ open' \in Seq(Windows) /\ Once(open')
      /\ \A v \in Windows : OpenIn(open', v) <=> OpenIn(open, v) /\ v # "batch"
      /\ \A u, v \in Windows : Within(open', u, v) <=> Within(open, u, v) /\ u # "batch" /\ v # "batch"
      /\ Len(open') > 0 => open'[1] = open[1] \/ open[1] = "batch"
      /\ Len(open') = Len(open) - 1
  BY <1>3, <1>4, ClosesOne
<1>7. Len(batch') = 0
  BY <1>2, EmptySeq
<1>8. Types'
  <2>1. batch' \in Seq(Update) /\ body' \in [at : Nat, updates : Seq(Received)]
    BY <1>2, EmptySeq DEF NoBody
  <2>2. saved' \in 0..Room /\ offset' \in 0..Room /\ crossed' \in BOOLEAN
    BY <1>1, <1>2, TelegramSizes DEF Types
  <2>3. QED BY <1>1, <1>2, <1>6, <2>1, <2>2 DEF Types, Phases
<1>9. WindowsInv'
  BY <1>1, <1>2, <1>4, <1>6, <1>7 DEF WindowsInv
<1>10. DirectInv'
  <2>1. SUFFICES ASSUME direct PROVE ~crossed' /\ send["dispatch"].phase = "none"
    BY <1>2 DEF DirectInv
  <2>2. Last(open) = "batch"
    BY <1>1, <2>1, DirectWindows
  <2>3. QED BY <1>1, <1>2, <2>1, <2>2 DEF DirectInv
<1>11. NestedInv'
  <2>1. SUFFICES ASSUME ~crossed'
                 PROVE  /\ Len(open') = 0 => offset' = 0
                        /\ Len(open') > 0 /\ open'[1] = "dispatch" => send["dispatch"].saved = 0
    <3>1. \A x : Below(x)'
      BY <1>2, <1>7 DEF Below
    <3>2. ~OpenIn(open', "reply") /\ ~Within(open', "batch", "dispatch")
      BY <1>1, <1>4, <1>6 DEF WindowsInv
    <3>3. \A i \in 1..Len(batch') : FALSE
      BY <1>7
    <3>4. QED BY <2>1, <3>1, <3>2, <3>3, <1>2 DEF NestedInv
  <2>2. ~crossed /\ Last(open) = "batch"
    BY <2>1, <1>2, <1>5
  <2>3. offset' = 0
    BY <1>1, <1>2 DEF DirectInv
  <2>4. ASSUME Len(open') > 0, open'[1] = "dispatch" PROVE send["dispatch"].saved = 0
    <3>1. open[1] # "batch"
      <4>1. open[1] = Last(open) => Len(open) = 1
        BY <1>4, <1>5, LastIsInnermost
      <4>2. QED BY <4>1, <2>2, <2>4, <1>4, <1>6
    <3>2. open[1] = "dispatch"
      BY <3>1, <2>4, <1>6
    <3>3. QED BY <3>2, <2>2, <1>1, <1>5 DEF NestedInv
  <2>5. QED BY <2>3, <2>4
<1>12. NameInv'
  BY <1>1, <1>2 DEF NameInv
<1>13. QED BY <1>8, <1>9, <1>10, <1>11, <1>12 DEF IInv

(* What the server answers is a sequence of updates. *)
LEMMA ResponseIs ==
  ASSUME Types
  PROVE  Response \in Seq(Received) /\ Total(Response) \in Nat
<1> DEFINE n == IF Len(arrived) - last < Limit THEN Len(arrived) - last ELSE Limit
<1>1. Len(arrived) \in Nat /\ last \in Nat /\ Limit \in Nat /\ n \in Int
      /\ \A i \in 1..Len(arrived) : arrived[i] \in Nat
  BY TelegramSizes, LenProperties, ElementOfSeq DEF Types
<1>2. Response = [i \in 1..n |-> [n |-> last + i, size |-> arrived[last + i]]]
  BY DEF Response
<1>3. \A i \in 1..n : [n |-> last + i, size |-> arrived[last + i]] \in Received
  <2>1. SUFFICES ASSUME NEW i \in 1..n PROVE last + i \in Nat /\ arrived[last + i] \in Nat
    BY DEF Received
  <2>2. last + i \in 1..Len(arrived)
    BY <1>1
  <2>3. QED BY <2>2, <1>1
<1> HIDE DEF n
<1>4. Response \in Seq(Received)
  <2>1. CASE n \in Nat
    BY <2>1, <1>2, <1>3, SeqDef
  <2>2. CASE n \notin Nat
    <3>1. 1..n = 1..0
      BY <2>2, <1>1
    <3>2. Response = [i \in 1..0 |-> [n |-> last + i, size |-> arrived[last + i]]]
      BY <3>1, <1>2
    <3>3. QED BY <3>2
  <2>3. QED BY <2>1, <2>2
<1>5. QED BY <1>4, TextsInBody

(* The response fails to arrive, or is too large. *)
LEMMA AskFailsKeeps == ASSUME IInv, AskFails \/ ReceiveOverflows PROVE IInv'
<1>1. Types /\ WindowsInv
  BY DEF IInv
<1>2. phase = "asking" /\ send["poll"].phase = "none"
  BY <1>1 DEF AskFails, ReceiveOverflows, WindowsInv
<1>3. CASE AskFails
  <2>1. Leave /\ UNCHANGED <<direct, arrived, last, mem, send, model>>
    BY <1>3 DEF AskFails
  <2>2. QED BY <2>1, <1>1, <1>2, LeaveKeeps DEF Types
<1>4. CASE ReceiveOverflows
  <2>1. /\ Leave /\ UNCHANGED <<direct, arrived, last, send>>
        /\ mem' = Written(offset, Reached(Total(Response)), Body)
        /\ model' = [model EXCEPT !.fresh = FALSE]
    BY <1>4 DEF ReceiveOverflows
  <2>2. mem' \in [0..Room - 1 -> Int]
    BY <2>1, <1>1 DEF Written, Body, Types
  <2>3. model' \in [at : Nat, n : Nat, fresh : BOOLEAN] /\ ~model'.fresh
    BY <2>1, <1>1 DEF Types
  <2>4. QED BY <2>1, <2>2, <2>3, <1>2, LeaveKeeps
<1>5. QED BY <1>3, <1>4

(* Only the poll allocates in the innermost window of a poll. *)
LEMMA PollUses ==
  ASSUME Types, WindowsInv, DirectInv, phase # "idle", send["poll"].phase = "none", Uses("poll")
  PROVE  /\ UNCHANGED open /\ crossed' \in BOOLEAN /\ (crossed => crossed') /\ (direct => ~crossed')
         /\ ~crossed' => ~Within(open, "batch", "dispatch")
         /\ Len(open) > 0 /\ ~OpenIn(open, "reply")
<1>1. /\ open \in Seq(Windows) /\ Once(open) /\ Len(open) \in Nat
      /\ "batch" \in Windows /\ "reply" \in Windows /\ "dispatch" \in Windows
      /\ OpenIn(open, "batch") /\ ~OpenIn(open, "reply")
  BY TypesOf DEF Types, WindowsInv, Windows
<1>2. Len(open) > 0 /\ open # <<>>
  BY <1>1, EmptySeq DEF OpenIn
<1>3. UNCHANGED open /\ crossed' = (crossed \/ Owner(Last(open)) # "poll")
  BY <1>2 DEF Uses
<1>4. direct => ~crossed'
  <2>1. direct => Last(open) = "batch" /\ ~crossed
    BY DirectWindows DEF DirectInv
  <2>2. QED BY <2>1, <1>3 DEF Owner
<1>5. ~crossed' => ~Within(open, "batch", "dispatch")
  <2>1. SUFFICES ASSUME ~crossed', Within(open, "batch", "dispatch") PROVE FALSE
    OBVIOUS
  <2>2. Last(open) \in Windows /\ OpenIn(open, Last(open)) /\ \A v \in Windows : ~Within(open, Last(open), v)
    BY <1>1, <1>2, LastIsInnermost
  <2>3. Last(open) # "dispatch"
    BY <2>1, <1>3 DEF Owner
  <2>4. Last(open) = "batch"
    BY <2>2, <2>3, <1>1 DEF Windows
  <2>5. QED BY <2>1, <2>2, <2>4, <1>1
<1>6. QED BY <1>1, <1>2, <1>3, <1>4, <1>5 DEF Types

(* The response arrives. *)
LEMMA ReceiveKeeps == ASSUME IInv, Receive PROVE IInv'
<1> DEFINE n == Total(Response)
           c == Cap(n)
<1>1. Types /\ WindowsInv /\ DirectInv /\ NestedInv /\ NameInv
  BY DEF IInv
<1>2. /\ phase = "asking" /\ phase' = "received" /\ Fits(2 * c - 1)
      /\ body' = [at |-> offset + c - 1, updates |-> Response]
      /\ mem' = Written(offset, 2 * c - 1, Body) /\ offset' = offset + (2 * c - 1)
      /\ model' = [model EXCEPT !.fresh = FALSE] /\ Uses("poll")
      /\ UNCHANGED <<direct, arrived, last, batch, saved, send>>
  BY DEF Receive, Alloc, Buffers
<1>3. Response \in Seq(Received) /\ n \in Nat /\ c \in Nat /\ c >= 1 /\ c >= n
  BY <1>1, ResponseIs, CapHolds
<1>4. send["poll"].phase = "none" /\ Len(batch) = 0
  BY <1>1, <1>2 DEF WindowsInv
<1>5. /\ UNCHANGED open /\ crossed' \in BOOLEAN /\ (crossed => crossed') /\ (direct => ~crossed')
      /\ ~crossed' => ~Within(open, "batch", "dispatch")
      /\ Len(open) > 0 /\ ~OpenIn(open, "reply")
  BY <1>1, <1>2, <1>4, PollUses
<1>6. n = Total(Response)
  OBVIOUS
<1> HIDE DEF n, c
<1>7. offset \in Nat /\ offset <= Room /\ Room \in Nat /\ offset + (2 * c - 1) <= Room /\ 2 * c - 1 \in Nat
  BY <1>1, <1>2, <1>3, TypesOf DEF Fits
<1>8. /\ mem' \in [0..Room - 1 -> Int]
      /\ \A x \in offset..offset + (2 * c - 1) - 1 : x < Room => mem'[x] = Body
  <2> DEFINE k == 2 * c - 1
  <2>1. k \in Nat /\ Body \in Int /\ mem' = Written(offset, k, Body)
    BY <1>2, <1>7 DEF Body
  <2> HIDE DEF k
  <2>2. /\ mem' \in [0..Room - 1 -> Int]
        /\ \A x \in offset..offset + k - 1 : x < Room => mem'[x] = Body
    BY <2>1, <1>1, WritesAbove
  <2>3. QED BY <2>2 DEF k
<1>9. Types'
  <2>1. body' \in [at : Nat, updates : Seq(Received)] /\ offset' \in 0..Room
    BY <1>2, <1>3, <1>7
  <2>2. model' \in [at : Nat, n : Nat, fresh : BOOLEAN]
    BY <1>1, <1>2 DEF Types
  <2>3. QED BY <1>1, <1>2, <1>5, <1>8, <2>1, <2>2 DEF Types, Phases
<1>10. WindowsInv'
  BY <1>1, <1>2, <1>4, <1>5 DEF WindowsInv
<1>11. DirectInv'
  BY <1>1, <1>2, <1>5 DEF DirectInv
<1>12. NestedInv'
  <2>1. SUFFICES ASSUME ~crossed'
                 PROVE  /\ BodyIntact' /\ Below(offset)'
                        /\ open[1] = "dispatch" => send["dispatch"].saved = 0
    <3>1. \A i \in 1..Len(batch') : FALSE
      BY <1>2, <1>4
    <3>2. QED BY <2>1, <3>1, <1>2, <1>5 DEF NestedInv
  <2>2. BodyIntact'
    <3>1. SUFFICES ASSUME NEW x \in offset + c - 1..offset + c - 1 + n - 1 PROVE mem'[x] = Body
      BY <1>2, <1>6 DEF BodyIntact, Holds
    <3>2. x \in offset..offset + (2 * c - 1) - 1 /\ x < Room
      BY <1>3, <1>7
    <3>3. QED BY <3>2, <1>8
  <2>3. Below(offset)'
    <3>1. offset + c - 1 + n <= offset + (2 * c - 1)
      BY <1>3, <1>7
    <3>2. \A i \in 1..Len(batch') : FALSE
      BY <1>2, <1>4
    <3>3. body'.at + Total(body'.updates) <= offset'
      BY <3>1, <1>2, <1>6
    <3>4. QED BY <3>2, <3>3 DEF Below
  <2>4. open[1] = "dispatch" => send["dispatch"].saved = 0
    BY <2>1, <1>1, <1>5 DEF NestedInv
  <2>5. QED BY <2>2, <2>3, <2>4
<1>13. NameInv'
  BY <1>1, <1>2 DEF NameInv, Types
<1>14. QED BY <1>9, <1>10, <1>11, <1>12, <1>13 DEF IInv

(* The response is parsed: every update has its text in the body and its   *)
(* nodes behind it.                                                        *)
LEMMA ParsedIs ==
  ASSUME Types, NEW i \in 1..Len(body.updates)
  PROVE  LET u == Parsed(i) IN
         /\ u \in Update /\ u.at >= body.at /\ u.at + u.size <= body.at + Total(body.updates)
         /\ u.nodes = offset + i - 1
<1> DEFINE s == body.updates
           before == Total(SubSeq(s, 1, i - 1))
           size == s[i].size
<1>1. s \in Seq(Received) /\ body.at \in Nat /\ offset \in Nat /\ i \in Nat /\ i >= 1
  BY TypesOf, LenProperties DEF Types
<1>2. before \in Nat /\ before + size <= Total(s) /\ Total(s) \in Nat
  BY <1>1, TextsInBody
<1>3. s[i].n \in Nat /\ size \in Nat
  <2>1. s[i] \in Received
    BY <1>1, ElementOfSeq
  <2>2. QED BY <2>1 DEF Received
<1>4. Parsed(i) = [n |-> s[i].n, at |-> body.at + before, size |-> size, nodes |-> offset + i - 1]
  BY DEF Parsed
<1> HIDE DEF before, size
<1>5. body.at + before \in Nat /\ body.at + before >= body.at
      /\ body.at + before + size <= body.at + Total(s) /\ offset + i - 1 \in Nat
  BY <1>1, <1>2, <1>3
<1>6. QED BY <1>3, <1>4, <1>5 DEF Update

LEMMA ParseKeeps == ASSUME IInv, Parse PROVE IInv'
<1> DEFINE n == Len(body.updates)
<1>1. Types /\ WindowsInv /\ DirectInv /\ NestedInv /\ NameInv
  BY DEF IInv
<1>2. phase = "received" /\ UNCHANGED <<direct, arrived, last, send, model, sends>>
  BY DEF Parse
<1>3. send["poll"].phase = "none" /\ ~model.fresh
  BY <1>1, <1>2 DEF WindowsInv, NameInv
<1>4. body.updates \in Seq(Received) /\ n \in Nat /\ offset \in Nat /\ offset <= Room /\ Room \in Nat
  BY <1>1, TypesOf, LenProperties DEF Types
<1>5. \/ Leave /\ mem' = Written(offset, IF Fits(n) THEN n ELSE Room - offset, Nodes)
      \/ /\ Fits(n) /\ phase' = "handling" /\ batch' = [i \in 1..n |-> Parsed(i)] /\ body' = NoBody
         /\ mem' = Written(offset, n, Nodes) /\ offset' = offset + n /\ Uses("poll")
         /\ UNCHANGED saved
  BY DEF Parse, Alloc
<1>6. CASE Leave /\ mem' = Written(offset, IF Fits(n) THEN n ELSE Room - offset, Nodes)
  <2>1. mem' \in [0..Room - 1 -> Int]
    BY <1>1, <1>6 DEF Written, Nodes, Types
  <2>2. model' \in [at : Nat, n : Nat, fresh : BOOLEAN] /\ ~model'.fresh
    BY <1>1, <1>2, <1>3 DEF Types
  <2>3. phase # "idle" /\ UNCHANGED <<direct, arrived, last, send>>
    BY <1>2
  <2>4. QED BY <1>3, <1>6, <2>1, <2>2, <2>3, LeaveKeeps
<1>7. CASE /\ Fits(n) /\ phase' = "handling" /\ batch' = [i \in 1..n |-> Parsed(i)] /\ body' = NoBody
           /\ mem' = Written(offset, n, Nodes) /\ offset' = offset + n /\ Uses("poll")
           /\ UNCHANGED saved
  <2>1. /\ UNCHANGED open /\ crossed' \in BOOLEAN /\ (crossed => crossed') /\ (direct => ~crossed')
        /\ ~crossed' => ~Within(open, "batch", "dispatch")
        /\ Len(open) > 0 /\ ~OpenIn(open, "reply")
    BY <1>1, <1>2, <1>3, <1>7, PollUses
  <2>2. \A i \in 1..n : LET u == Parsed(i) IN
          /\ u \in Update /\ u.at >= body.at /\ u.at + u.size <= body.at + Total(body.updates)
          /\ u.nodes = offset + i - 1
    BY <1>1, ParsedIs
  <2>3. /\ mem' \in [0..Room - 1 -> Int]
        /\ \A c \in 0..offset - 1 : mem'[c] = mem[c]
        /\ \A c \in offset..offset + n - 1 : c < Room => mem'[c] = Nodes
    <3> HIDE DEF n
    <3>1. Nodes \in Int
      BY DEF Nodes
    <3>2. QED BY <1>1, <1>4, <1>7, <3>1, WritesAbove
  <2>4. batch' \in Seq(Update) /\ Len(batch') = n /\ \A i \in 1..n : batch'[i] = Parsed(i)
    <3> HIDE DEF n
    <3>1. batch' \in [1..n -> Update]
      BY <2>2, <1>7
    <3>2. batch' \in Seq(Update)
      BY <3>1, <1>4, SeqDef
    <3>3. Len(batch') = n
      BY <3>1, <3>2, <1>4, LenProperties
    <3>4. QED BY <3>2, <3>3, <1>7
  <2> HIDE DEF n
  <2>5. offset + n <= Room /\ offset' \in 0..Room
    BY <1>4, <1>7 DEF Fits
  <2>6. Types'
    <3>1. body' \in [at : Nat, updates : Seq(Received)]
      BY <1>7, EmptySeq DEF NoBody
    <3>2. QED BY <1>1, <1>2, <1>7, <2>1, <2>3, <2>4, <2>5, <3>1 DEF Types, Phases
  <2>7. WindowsInv'
    BY <1>1, <1>2, <1>3, <1>7, <2>1 DEF WindowsInv
  <2>8. DirectInv'
    BY <1>1, <1>2, <1>7, <2>1 DEF DirectInv
  <2>9. NestedInv'
    <3>1. SUFFICES ASSUME ~crossed'
                   PROVE  /\ \A i \in 1..Len(batch') : Intact(batch[i])'
                          /\ Below(offset)'
                          /\ open[1] = "dispatch" => send["dispatch"].saved = 0
      <4>1. /\ phase' = "handling" /\ open' = open /\ Len(open') > 0 /\ send' = send
            /\ ~crossed' => ~Within(open', "batch", "dispatch")
            /\ ~OpenIn(open', "reply")
        BY <1>2, <1>7, <2>1
      <4>2. QED BY <4>1 DEF NestedInv
    <3>2. /\ BodyIntact /\ body.at + Total(body.updates) <= offset
          /\ open[1] = "dispatch" => send["dispatch"].saved = 0
      BY <3>1, <1>1, <1>2, <2>1 DEF NestedInv, Below
    <3>3. body.at \in Nat /\ Total(body.updates) \in Nat
      BY <1>1, <1>4, TextsInBody DEF Types
    <3>4. ASSUME NEW i \in 1..n
          PROVE  /\ Holds(batch[i].at, batch[i].size, Body)' /\ mem'[batch'[i].nodes] = Nodes
                 /\ batch'[i].at + batch'[i].size <= offset' /\ batch'[i].nodes < offset'
      <4> DEFINE u == Parsed(i)
      <4>1. /\ u \in Update /\ u.at >= body.at /\ u.at + u.size <= body.at + Total(body.updates)
            /\ u.nodes = offset + i - 1 /\ batch'[i] = u
        BY <2>2, <2>4
      <4> HIDE DEF u
      <4>2. u.at \in Nat /\ u.size \in Nat /\ i \in Nat /\ i >= 1 /\ i <= n
        BY <4>1, <1>4 DEF Update
      <4>3. \A c \in u.at..u.at + u.size - 1 : mem'[c] = Body
        <5>1. SUFFICES ASSUME NEW c \in u.at..u.at + u.size - 1 PROVE mem'[c] = Body
          OBVIOUS
        <5>2. c \in body.at..body.at + Total(body.updates) - 1 /\ c \in 0..offset - 1
          BY <5>1, <4>1, <4>2, <3>2, <3>3, <1>4
        <5>3. mem[c] = Body
          BY <5>2, <3>2 DEF BodyIntact, Holds
        <5>4. QED BY <5>2, <5>3, <2>3
      <4>4. mem'[u.nodes] = Nodes
        <5>1. u.nodes \in offset..offset + n - 1 /\ u.nodes < Room
          BY <4>1, <4>2, <2>5, <1>4
        <5>2. QED BY <5>1, <2>3
      <4>5. u.at + u.size <= offset + n /\ u.nodes < offset + n
        <5>1. u.at + u.size <= offset
          BY <4>1, <4>2, <3>2, <3>3, <1>4
        <5>2. u.nodes < offset + n
          BY <4>1, <4>2, <1>4
        <5>3. QED BY <5>1, <5>2, <4>2, <1>4
      <4>6. QED BY <4>1, <4>3, <4>4, <4>5, <1>7 DEF Holds
    <3>5. Below(offset)'
      BY <3>4, <2>4, <1>7 DEF Below
    <3>6. \A i \in 1..Len(batch') : Intact(batch[i])'
      BY <3>4, <2>4 DEF Intact
    <3>7. QED BY <3>2, <3>5, <3>6
  <2>10. NameInv'
    BY <1>2, <1>3 DEF NameInv
  <2>11. QED BY <2>6, <2>7, <2>8, <2>9, <2>10 DEF IInv
<1>8. QED BY <1>5, <1>6, <1>7

(* The last update of a response has been handled. *)
LEMMA EndBatchKeeps == ASSUME IInv, EndBatch PROVE IInv'
<1>1. /\ phase # "idle" /\ send["poll"].phase = "none" /\ Leave
      /\ UNCHANGED <<direct, arrived, last, mem, send, model>>
  BY DEF EndBatch
<1>2. QED BY <1>1, LeaveKeeps DEF IInv, Types

-----------------------------------------------------------------------------
(* The handling of updates.                                                *)

(* What every handler does: the update is taken from the batch, memory is  *)
(* written at the offset only, and a reply may begin.                      *)
LEMMA HandleKeeps ==
  ASSUME IInv, Handling, batch' = Tail(batch), last' \in Nat,
         UNCHANGED <<direct, arrived, phase, body, saved>>,
         mem' \in [0..Room - 1 -> Int], \A c \in 0..offset - 1 : mem'[c] = mem[c],
         offset' \in 0..Room, offset <= offset',
         UNCHANGED <<send, open, crossed>> \/ SendBegins("poll", "reply"),
         \/ UNCHANGED model
         \/ /\ direct /\ offset < offset' /\ model'.at = offset /\ mem'[offset] = model'.n
            /\ model' \in [at : Nat, n : Nat, fresh : BOOLEAN]
  PROVE  IInv'
<1>1. Types /\ WindowsInv /\ DirectInv /\ NestedInv /\ NameInv
  BY DEF IInv
<1>2. phase = "handling" /\ batch # <<>> /\ send["poll"].phase = "none"
  BY DEF Handling
<1>3. /\ Room \in Nat /\ offset \in Nat /\ offset <= Room /\ offset' \in Nat /\ Len(batch) \in Nat
      /\ \A i \in 1..Len(batch) : batch[i] \in Update
      /\ send["dispatch"] \in Sending /\ send["dispatch"].saved \in 0..Room
      /\ send["poll"].saved \in 0..Room /\ send \in [Threads -> Sending]
  BY <1>1, TypesOf DEF Types, Threads
<1>4. /\ batch' \in Seq(Update) /\ Len(batch') = Len(batch) - 1
      /\ \A i \in 1..Len(batch') : batch'[i] = batch[i + 1] /\ i + 1 \in 1..Len(batch)
  <2>1. batch \in Seq(Update) /\ Len(batch) # 0
    BY <1>1, <1>2, EmptySeq DEF Types
  <2>2. /\ batch' \in Seq(Update) /\ Len(batch') = Len(batch) - 1
        /\ \A i \in 1..Len(batch') : batch'[i] = batch[i + 1]
    BY <2>1, <1>2, HeadTailProperties
  <2>3. QED BY <2>2, <1>3
<1>5. ASSUME NEW x \in 0..Room, Below(x), NEW y \in 0..Room, x <= y
      PROVE  \A i \in 1..Len(batch') : batch'[i].at + batch'[i].size <= y /\ batch'[i].nodes < y
  <2>1. SUFFICES ASSUME NEW i \in 1..Len(batch')
                 PROVE batch'[i].at + batch'[i].size <= y /\ batch'[i].nodes < y
    OBVIOUS
  <2>2. batch'[i] = batch[i + 1] /\ i + 1 \in 1..Len(batch)
    BY <1>4
  <2>3. batch[i + 1].at + batch[i + 1].size <= x /\ batch[i + 1].nodes < x
    BY <2>2, <1>5 DEF Below
  <2>4. batch[i + 1].at \in Nat /\ batch[i + 1].size \in Nat /\ batch[i + 1].nodes \in Nat
    BY <2>2, <1>3 DEF Update
  <2>5. QED BY <2>2, <2>3, <2>4, <1>5
<1>6. \/ UNCHANGED <<send, open, crossed>>
      \/ /\ send' = [send EXCEPT !["poll"] = [phase |-> "asked", saved |-> offset']]
         /\ open' = Append(open, "reply") /\ UNCHANGED crossed
  BY DEF SendBegins, Opens
<1>7. /\ open \in Seq(Windows) /\ Once(open) /\ OpenIn(open, "batch") /\ ~OpenIn(open, "reply")
      /\ "batch" \in Windows /\ "reply" \in Windows /\ "dispatch" \in Windows /\ UNCHANGED crossed
  BY <1>1, <1>2, <1>6 DEF Types, WindowsInv, Windows
(* What is known of windows and sends afterwards. *)
<1>8. /\ open' \in Seq(Windows) /\ Once(open')
      /\ \A v \in Windows : v # "reply" => (OpenIn(open', v) <=> OpenIn(open, v))
      /\ \A u, v \in Windows : v # "reply" => (Within(open', u, v) <=> Within(open, u, v))
      /\ Len(open) > 0 /\ Len(open') > 0 /\ open'[1] = open[1]
      /\ send' \in [Threads -> Sending] /\ send'["dispatch"] = send["dispatch"]
      /\ OpenIn(open', "reply") <=> send'["poll"].phase # "none"
      /\ send'["poll"].phase # "none" =>
           Within(open', "batch", "reply") /\ send'["poll"].saved = offset'
  <2>1. Len(open) \in Nat /\ Len(open) > 0
    BY <1>7, LenProperties DEF OpenIn
  <2>2. CASE UNCHANGED <<send, open, crossed>>
    BY <2>1, <2>2, <1>2, <1>3, <1>7
  <2>3. CASE /\ send' = [send EXCEPT !["poll"] = [phase |-> "asked", saved |-> offset']]
             /\ open' = Append(open, "reply") /\ UNCHANGED crossed
    <3>1. /\ open' \in Seq(Windows) /\ Once(open') /\ Len(open') > 0
          /\ \A v \in Windows : OpenIn(open', v) <=> OpenIn(open, v) \/ v = "reply"
          /\ \A u, v \in Windows :
               Within(open', u, v) <=> Within(open, u, v) \/ (v = "reply" /\ OpenIn(open, u))
          /\ IF Len(open) = 0 THEN open'[1] = "reply" ELSE open'[1] = open[1]
      BY <1>7, <2>3, OpensLast
    <3>2. [phase |-> "asked", saved |-> offset'] \in Sending
      BY DEF Sending
    <3>3. /\ send' \in [Threads -> Sending] /\ send'["dispatch"] = send["dispatch"]
          /\ send'["poll"] = [phase |-> "asked", saved |-> offset']
      BY <3>2, <2>3, <1>3 DEF Threads
    <3>4. QED BY <3>1, <3>3, <2>1, <1>7
  <2>4. QED BY <2>2, <2>3, <1>6
<1>9. Types'
  <2>1. model' \in [at : Nat, n : Nat, fresh : BOOLEAN] /\ crossed' \in BOOLEAN
    BY <1>1, <1>7 DEF Types
  <2>2. QED BY <1>1, <1>4, <1>8, <2>1 DEF Types
<1>10. WindowsInv'
  <2>1. phase' = "handling" /\ OpenIn(open', "batch")
    BY <1>2, <1>7, <1>8
  <2>2. OpenIn(open', "dispatch") <=> send'["dispatch"].phase # "none"
    BY <1>1, <1>7, <1>8 DEF WindowsInv
  <2>3. QED BY <1>8, <2>1, <2>2 DEF WindowsInv
<1>11. DirectInv'
  BY <1>1, <1>7, <1>8 DEF DirectInv
<1>12. NestedInv'
  <2>1. SUFFICES ASSUME ~crossed
                 PROVE  /\ \A i \in 1..Len(batch') : Intact(batch[i])'
                        /\ Below(offset)'
                        /\ Within(open', "batch", "dispatch") => Below(send["dispatch"].saved)'
                        /\ send'["poll"].phase # "none" => Below(send["poll"].saved)'
                        /\ open'[1] = "dispatch" => send'["dispatch"].saved = 0
    BY <1>2, <1>7, <1>8 DEF NestedInv
  <2>2. /\ \A i \in 1..Len(batch) : Intact(batch[i])
        /\ Below(offset) /\ (Within(open, "batch", "dispatch") => Below(send["dispatch"].saved))
        /\ (Len(open) > 0 /\ open[1] = "dispatch" => send["dispatch"].saved = 0)
    BY <2>1, <1>1 DEF NestedInv
  <2>3. ASSUME NEW i \in 1..Len(batch') PROVE Intact(batch[i])'
    <3>1. batch'[i] = batch[i + 1] /\ i + 1 \in 1..Len(batch)
      BY <1>4
    <3>2. /\ batch[i + 1] \in Update /\ Intact(batch[i + 1])
          /\ batch[i + 1].at + batch[i + 1].size <= offset /\ batch[i + 1].nodes < offset
      BY <3>1, <2>2, <1>3 DEF Below
    <3> DEFINE u == batch[i + 1]
    <3>3. (\A c \in u.at..u.at + u.size - 1 : mem'[c] = Body) /\ mem'[u.nodes] = Nodes
      <4> HIDE DEF u
      <4>1. u \in Update /\ Intact(u) /\ u.at + u.size <= offset /\ u.nodes < offset
        BY <3>2 DEF u
      <4>2. QED BY <4>1, <1>1, IntactBelow
    <3>4. QED BY <3>1, <3>3 DEF Intact, Holds
  <2>4. Below(offset)'
    <3>1. \A i \in 1..Len(batch') : batch'[i].at + batch'[i].size <= offset' /\ batch'[i].nodes < offset'
      BY <2>2, <1>3, <1>5
    <3>2. QED BY <3>1, <1>2 DEF Below
  <2>5. Within(open', "batch", "dispatch") => Below(send["dispatch"].saved)'
    <3>1. SUFFICES ASSUME Within(open', "batch", "dispatch") PROVE Below(send["dispatch"].saved)'
      OBVIOUS
    <3>2. Below(send["dispatch"].saved)
      BY <3>1, <2>2, <1>7, <1>8
    <3> DEFINE x == send["dispatch"].saved
    <3>3. x \in 0..Room /\ Below(x) /\ x <= x /\ x = send'["dispatch"].saved
      BY <3>2, <1>3, <1>8
    <3> HIDE DEF x
    <3>4. \A i \in 1..Len(batch') : batch'[i].at + batch'[i].size <= x /\ batch'[i].nodes < x
      BY <3>3, <1>5
    <3>5. QED BY <3>3, <3>4, <1>2 DEF Below
  <2>6. send'["poll"].phase # "none" => Below(send["poll"].saved)'
    BY <2>4, <1>8 DEF Below
  <2>7. QED BY <2>2, <2>3, <2>4, <2>5, <2>6, <1>8
<1>13. NameInv'
  <2>1. SUFFICES ASSUME model'.fresh
                 PROVE  direct /\ model'.at < Room /\ mem'[model'.at] = model'.n /\ model'.at < offset'
    BY <1>2, <1>8 DEF NameInv
  <2>2. CASE UNCHANGED model
    <3>1. /\ direct /\ model.at < Room /\ mem[model.at] = model.n /\ model.at < offset
          /\ model.at \in Nat
      BY <2>1, <2>2, <1>1, <1>2 DEF NameInv, Types
    <3>2. QED BY <3>1, <2>2, <1>3
  <2>3. CASE direct /\ offset < offset' /\ model'.at = offset /\ mem'[offset] = model'.n
    BY <2>3, <1>3
  <2>4. QED BY <2>2, <2>3
<1>14. QED BY <1>9, <1>10, <1>11, <1>12, <1>13 DEF IInv

(* The first update of the batch, and the greater of two numbers. *)
LEMMA NextUpdate ==
  ASSUME Types, Handling
  PROVE  /\ Head(batch) \in Update /\ Head(batch).n \in Nat
         /\ \A a, b \in Nat : MaxOf(a, b) \in Nat
<1>1. Head(batch) \in Update
  BY HeadTailProperties DEF Types, Handling
<1>2. QED BY <1>1 DEF Update, MaxOf

(* Those that leave memory as it is. *)
LEMMA PassOverKeeps == ASSUME IInv, PassOver \/ AnswerPlainly \/ Misread PROVE IInv'
<1>1. Types
  BY DEF IInv
<1>2. /\ Handling /\ batch' = Tail(batch)
      /\ UNCHANGED <<direct, arrived, phase, body, saved, offset, mem, model>>
      /\ UNCHANGED <<send, open, crossed>> \/ SendBegins("poll", "reply")
  BY DEF PassOver, AnswerPlainly, Misread, Sees, Replies, memVars, historyVars
<1>3. last' \in {last, MaxOf(last, Head(batch).n), Len(arrived)}
  BY DEF PassOver, AnswerPlainly, Misread, Sees
<1>4. last' \in Nat
  <2>1. last \in Nat /\ Len(arrived) \in Nat
    BY <1>1, LenProperties DEF Types
  <2>2. MaxOf(last, Head(batch).n) \in Nat
    BY <2>1, <1>1, <1>2, NextUpdate
  <2>3. QED BY <2>1, <2>2, <1>3
<1>5. mem' \in [0..Room - 1 -> Int] /\ offset' \in 0..Room /\ offset <= offset'
  BY <1>1, <1>2, TypesOf DEF Types
<1>6. QED BY <1>2, <1>4, <1>5, HandleKeeps

(* Those that allocate. *)
LEMMA WorkKeeps == ASSUME IInv, Work \/ Show PROVE IInv'
<1>1. Types
  BY DEF IInv
<1>3. /\ UNCHANGED <<direct, arrived, phase, body, saved, model>>
      /\ UNCHANGED <<send, open, crossed>> \/ SendBegins("poll", "reply")
  BY DEF Work, Show, Replies
<1>4. Handling /\ batch' = Tail(batch) /\ last' \in Nat
  <2>1. Handling /\ batch' = Tail(batch) /\ last' = MaxOf(last, Head(batch).n)
    BY DEF Work, Show, Sees
  <2>2. QED BY <2>1, <1>1, NextUpdate DEF Types
<1>5. UNCHANGED <<offset, mem>> \/ \E n \in Nat : Fits(n) /\ Alloc(n, Scratch)
  <2>1. \A n \in Costs : n \in Nat
    BY TelegramSizes
  <2>2. QED BY <2>1 DEF Work, Show, memVars
<1>6. /\ mem' \in [0..Room - 1 -> Int] /\ offset' \in 0..Room /\ offset <= offset'
      /\ \A c \in 0..offset - 1 : mem'[c] = mem[c]
  <2>1. CASE UNCHANGED <<offset, mem>>
    BY <2>1, <1>1, TypesOf DEF Types
  <2>2. CASE \E n \in Nat : Fits(n) /\ Alloc(n, Scratch)
    <3>1. PICK n \in Nat : Fits(n) /\ Alloc(n, Scratch)
      BY <2>2
    <3>2. mem' = Written(offset, n, Scratch) /\ offset' = offset + n /\ offset + n <= Room
          /\ Scratch \in Int
      BY <3>1 DEF Fits, Alloc, Scratch
    <3>3. mem' \in [0..Room - 1 -> Int] /\ \A c \in 0..offset - 1 : mem'[c] = mem[c]
      BY <3>2, <1>1, WritesAbove
    <3>4. QED BY <3>2, <3>3, <1>1, TypesOf
  <2>3. QED BY <1>5, <2>1, <2>2
<1>7. QED BY <1>3, <1>4, <1>6, HandleKeeps

(* The name of the model is left in the arena. *)
LEMMA SwapModelKeeps == ASSUME IInv, SwapModel PROVE IInv'
<1> DEFINE n == Head(batch).n
           noted == Written(offset, 1, n)
<1>1. Types
  BY DEF IInv
<1>2. /\ Handling /\ direct /\ Fits(1) /\ batch' = Tail(batch) /\ last' = MaxOf(last, n)
      /\ model' = [at |-> offset, n |-> n, fresh |-> TRUE]
      /\ mem' = IF Fits(2) THEN [noted EXCEPT ![offset + 1] = Scratch] ELSE noted
      /\ offset' = offset + (IF Fits(2) THEN 2 ELSE 1)
      /\ UNCHANGED <<direct, arrived, phase, body, saved>>
      /\ UNCHANGED <<send, open, crossed>> \/ SendBegins("poll", "reply")
  BY DEF SwapModel, Sees, Replies
<1>3. n \in Nat /\ last' \in Nat
  BY <1>1, <1>2, NextUpdate DEF Types
<1>4. offset \in Nat /\ Room \in Nat /\ offset + 1 <= Room /\ (Fits(2) => offset + 2 <= Room)
  BY <1>1, <1>2, TypesOf DEF Fits
<1>5. /\ noted \in [0..Room - 1 -> Int] /\ \A c \in 0..offset - 1 : noted[c] = mem[c]
      /\ \A c \in offset..offset + 1 - 1 : c < Room => noted[c] = n
  <2> HIDE DEF n
  <2>1. n \in Int
    BY <1>3
  <2>2. QED BY <2>1, <1>1, WritesAbove
<1> HIDE DEF n, noted
<1>6. /\ mem' \in [0..Room - 1 -> Int] /\ \A c \in 0..offset - 1 : mem'[c] = mem[c]
      /\ mem'[offset] = n
  <2>1. noted[offset] = n
    BY <1>4, <1>5
  <2>2. CASE Fits(2)
    <3>1. mem' = [noted EXCEPT ![offset + 1] = Scratch] /\ Scratch \in Int
      BY <2>2, <1>2 DEF Scratch
    <3>2. offset + 1 # offset /\ \A c \in 0..offset - 1 : c # offset + 1 /\ c \in 0..Room - 1
      BY <1>4
    <3>3. mem' \in [0..Room - 1 -> Int]
      BY <3>1, <1>5
    <3>4. \A c \in 0..Room - 1 : c # offset + 1 => mem'[c] = noted[c]
      BY <3>1, <1>5
    <3>5. offset \in 0..Room - 1
      BY <1>4
    <3>6. QED BY <3>2, <3>3, <3>4, <3>5, <2>1, <1>5
  <2>3. CASE ~Fits(2)
    BY <2>1, <2>3, <1>2, <1>5
  <2>4. QED BY <2>2, <2>3
<1>7. offset' \in 0..Room /\ offset < offset' /\ offset <= offset'
  BY <1>2, <1>4
<1>8. model' \in [at : Nat, n : Nat, fresh : BOOLEAN] /\ model'.at = offset /\ mem'[offset] = model'.n
  BY <1>2, <1>3, <1>4, <1>6
<1>9. QED BY <1>2, <1>3, <1>6, <1>7, <1>8, HandleKeeps

-----------------------------------------------------------------------------
(* The sending of replies.                                                 *)

(* A reply from the bus. *)
LEMMA DispatchSendsKeeps == ASSUME IInv, DispatchSends PROVE IInv'
<1>1. Types /\ WindowsInv /\ DirectInv /\ NestedInv /\ NameInv
  BY DEF IInv
<1>2. /\ ~direct /\ send["dispatch"].phase = "none"
      /\ send' = [send EXCEPT !["dispatch"] = [phase |-> "asked", saved |-> offset]]
      /\ open' = Append(open, "dispatch")
      /\ UNCHANGED <<direct, arrived, last, phase, batch, body, saved, offset, mem, model, crossed>>
  BY DEF DispatchSends, SendBegins, Opens, pollVars, memVars
<1>3. /\ open \in Seq(Windows) /\ Once(open) /\ ~OpenIn(open, "dispatch") /\ Len(open) \in Nat
      /\ "batch" \in Windows /\ "reply" \in Windows /\ "dispatch" \in Windows
  BY <1>1, <1>2, TypesOf DEF Types, WindowsInv, Windows
<1>4. /\ open' \in Seq(Windows) /\ Once(open') /\ Len(open') > 0
      /\ \A v \in Windows : OpenIn(open', v) <=> OpenIn(open, v) \/ v = "dispatch"
      /\ \A u, v \in Windows :
           Within(open', u, v) <=> Within(open, u, v) \/ (v = "dispatch" /\ OpenIn(open, u))
      /\ IF Len(open) = 0 THEN open'[1] = "dispatch" ELSE open'[1] = open[1]
  BY <1>2, <1>3, OpensLast
<1>5. /\ send' \in [Threads -> Sending] /\ send'["poll"] = send["poll"]
      /\ send'["dispatch"] = [phase |-> "asked", saved |-> offset]
  <2>1. [phase |-> "asked", saved |-> offset] \in Sending /\ send \in [Threads -> Sending]
    BY <1>1 DEF Types, Sending
  <2>2. QED BY <2>1, <1>2 DEF Threads
<1>6. Types'
  BY <1>1, <1>2, <1>4, <1>5 DEF Types
<1>7. WindowsInv'
  BY <1>1, <1>2, <1>3, <1>4, <1>5 DEF WindowsInv
<1>8. DirectInv' /\ NameInv'
  BY <1>1, <1>2 DEF DirectInv, NameInv
<1>9. NestedInv'
  <2>1. SUFFICES ASSUME ~crossed
                 PROVE  /\ \A i \in 1..Len(batch) : Intact(batch[i])
                        /\ phase = "received" => BodyIntact
                        /\ Below(offset)
                        /\ OpenIn(open, "reply") => Below(send["poll"].saved)
                        /\ open'[1] = "dispatch" => offset = 0
    <3>1. /\ \A i \in 1..Len(batch) : Intact(batch[i])' <=> Intact(batch[i])
          /\ BodyIntact' <=> BodyIntact
      BY <1>2 DEF Intact, BodyIntact, Holds
    <3>2. \A x : Below(x) <=> (/\ \A i \in 1..Len(batch') : batch'[i].at + batch'[i].size <= x /\ batch'[i].nodes < x
                               /\ phase' = "received" => body'.at + Total(body'.updates) <= x)
      BY <1>2 DEF Below
    <3>3. Below(offset) => Below(offset)' /\ Below(send["dispatch"].saved)'
      BY <3>2, <1>2, <1>5 DEF Below
    <3>4. Below(send["poll"].saved) => Below(send["poll"].saved)'
      BY <3>2, <1>5 DEF Below
    <3>5. OpenIn(open', "reply") <=> OpenIn(open, "reply")
      BY <1>3, <1>4
    <3>6. Len(open') # 0 /\ send'["dispatch"].saved = offset
      BY <1>4, <1>5
    <3>7. QED BY <2>1, <3>1, <3>3, <3>4, <3>5, <3>6, <1>2 DEF NestedInv
  <2>2. open'[1] = "dispatch" => offset = 0
    <3>1. Len(open) # 0 => OpenIn(open, open[1])
      BY <1>3 DEF OpenIn
    <3>2. Len(open) # 0 => open'[1] # "dispatch"
      BY <3>1, <1>3, <1>4
    <3>3. QED BY <3>2, <2>1, <1>1 DEF NestedInv
  <2>3. QED BY <2>1, <2>2, <1>1 DEF NestedInv
<1>10. QED BY <1>6, <1>7, <1>8, <1>9 DEF IInv

(* The server answers a reply. *)
LEMMA SendAnsweredKeeps == ASSUME IInv, NEW t \in Threads, SendAnswered(t) PROVE IInv'
<1>1. Types /\ WindowsInv /\ DirectInv /\ NestedInv /\ NameInv
  BY DEF IInv
<1>2. /\ send[t].phase = "asked" /\ send' = [send EXCEPT ![t].phase = "answered"]
      /\ \/ Fits(1) /\ Alloc(1, Scratch) /\ Uses(t)
         \/ UNCHANGED <<offset, mem, open, crossed>>
      /\ UNCHANGED <<direct, arrived, last, phase, batch, body, saved, model>>
  BY DEF SendAnswered, memVars, pollVars
<1>3. /\ send' \in [Threads -> Sending] /\ "poll" \in Threads /\ "dispatch" \in Threads
      /\ \A x \in Threads : /\ send'[x].saved = send[x].saved
                            /\ send'[x].phase = "none" <=> send[x].phase = "none"
  <2>1. send \in [Threads -> Sending]
    BY <1>1 DEF Types
  <2>2. QED BY <2>1, <1>2 DEF Threads, Sending
<1>4. OpenIn(open, t) \/ (t = "poll" /\ OpenIn(open, "reply"))
  BY <1>1, <1>2 DEF WindowsInv, Threads
<1>5. Len(open) > 0 /\ open # <<>> /\ Len(open) \in Nat /\ open \in Seq(Windows)
  BY <1>1, <1>4, TypesOf, EmptySeq DEF OpenIn, Types
<1>6. Room \in Nat /\ offset \in Nat /\ offset <= Room
      /\ \A i \in 1..Len(batch) : batch[i] \in Update
  BY <1>1, TypesOf
<1>7. /\ mem' \in [0..Room - 1 -> Int] /\ offset' \in 0..Room /\ offset <= offset'
      /\ \A c \in 0..offset - 1 : mem'[c] = mem[c]
      /\ UNCHANGED open /\ crossed' \in BOOLEAN /\ (crossed => crossed')
      /\ crossed' => crossed \/ Owner(Last(open)) # t
  <2>1. CASE Fits(1) /\ Alloc(1, Scratch) /\ Uses(t)
    <3>1. mem' = Written(offset, 1, Scratch) /\ offset' = offset + 1 /\ offset + 1 <= Room
          /\ Scratch \in Int /\ 1 \in Nat
      BY <2>1 DEF Fits, Alloc, Scratch
    <3>2. mem' \in [0..Room - 1 -> Int] /\ \A c \in 0..offset - 1 : mem'[c] = mem[c]
      BY <3>1, <1>1, WritesAbove
    <3>3. UNCHANGED open /\ crossed' = (crossed \/ Owner(Last(open)) # t)
      BY <2>1, <1>5 DEF Uses
    <3>4. QED BY <3>1, <3>2, <3>3, <1>1, <1>6 DEF Types
  <2>2. CASE UNCHANGED <<offset, mem, open, crossed>>
    BY <2>2, <1>1, <1>6 DEF Types
  <2>3. QED BY <1>2, <2>1, <2>2
<1>8. Types'
  BY <1>1, <1>2, <1>3, <1>7 DEF Types
<1>9. WindowsInv'
  BY <1>1, <1>2, <1>3, <1>7 DEF WindowsInv
<1>10. DirectInv'
  <2>1. SUFFICES ASSUME direct PROVE ~crossed'
    BY <1>1, <1>2, <1>3 DEF DirectInv
  <2>2. t = "poll" /\ send["poll"].phase # "none" /\ ~crossed
    BY <2>1, <1>1, <1>2 DEF DirectInv, Threads
  <2>3. Last(open) = "reply"
    BY <2>1, <2>2, <1>1, DirectWindows
  <2>4. Owner(Last(open)) = t
    BY <2>2, <2>3 DEF Owner
  <2>5. QED BY <2>2, <2>4, <1>7
<1>11. NestedInv'
  <2>1. SUFFICES ASSUME ~crossed
                 PROVE  /\ \A i \in 1..Len(batch) : Intact(batch[i])'
                        /\ (phase = "received" => BodyIntact)'
                        /\ Below(offset)'
                        /\ Within(open, "batch", "dispatch") => Below(send["dispatch"].saved)'
                        /\ OpenIn(open, "reply") => Below(send["poll"].saved)'
                        /\ open[1] = "dispatch" => send'["dispatch"].saved = 0
    BY <1>2, <1>5, <1>7 DEF NestedInv
  <2>2. /\ \A i \in 1..Len(batch) : Intact(batch[i])
        /\ phase = "received" => BodyIntact
        /\ Below(offset)
        /\ Within(open, "batch", "dispatch") => Below(send["dispatch"].saved)
        /\ OpenIn(open, "reply") => Below(send["poll"].saved)
        /\ open[1] = "dispatch" => send["dispatch"].saved = 0
    BY <2>1, <1>1, <1>5 DEF NestedInv
  <2>3. ASSUME NEW i \in 1..Len(batch) PROVE Intact(batch[i])'
    <3> DEFINE u == batch[i]
    <3>1. u \in Update /\ Intact(u) /\ u.at + u.size <= offset /\ u.nodes < offset
      BY <2>2, <1>6 DEF Below
    <3>2. batch'[i] = u
      BY <1>2
    <3> HIDE DEF u
    <3>3. (\A c \in u.at..u.at + u.size - 1 : mem'[c] = Body) /\ mem'[u.nodes] = Nodes
      BY <3>1, <1>1, <1>7, IntactBelow
    <3>4. QED BY <3>2, <3>3 DEF Intact, Holds
  <2>4. (phase = "received" => BodyIntact)'
    <3>1. SUFFICES ASSUME phase = "received",
                          NEW c \in body.at..body.at + Total(body.updates) - 1
                   PROVE  mem'[c] = Body
      BY <1>2 DEF BodyIntact, Holds
    <3>2. BodyIntact /\ body.at + Total(body.updates) <= offset
      BY <3>1, <2>2 DEF Below
    <3>3. body.at \in Nat /\ Total(body.updates) \in Nat
      BY <1>1, TextsInBody DEF Types
    <3>4. mem[c] = Body /\ c \in 0..offset - 1
      BY <3>1, <3>2, <3>3, <1>6 DEF BodyIntact, Holds
    <3>5. QED BY <3>4, <1>7
  <2>5. Below(offset)'
    <3>1. \A i \in 1..Len(batch) : batch[i].at + batch[i].size <= offset' /\ batch[i].nodes < offset'
      <4>1. SUFFICES ASSUME NEW i \in 1..Len(batch)
                     PROVE batch[i].at + batch[i].size <= offset' /\ batch[i].nodes < offset'
        OBVIOUS
      <4>2. batch[i].at \in Nat /\ batch[i].size \in Nat /\ batch[i].nodes \in Nat
        BY <1>6 DEF Update
      <4>3. batch[i].at + batch[i].size <= offset /\ batch[i].nodes < offset
        BY <2>2 DEF Below
      <4>4. QED BY <4>2, <4>3, <1>6, <1>7
    <3>2. phase = "received" => body.at + Total(body.updates) <= offset'
      <4>1. body.at \in Nat /\ Total(body.updates) \in Nat
        BY <1>1, TextsInBody DEF Types
      <4>2. QED BY <4>1, <2>2, <1>6, <1>7 DEF Below
    <3>3. QED BY <3>1, <3>2, <1>2 DEF Below
  <2>6. /\ Below(send["dispatch"].saved) => Below(send["dispatch"].saved)'
        /\ Below(send["poll"].saved) => Below(send["poll"].saved)'
    BY <1>2, <1>3 DEF Below
  <2>7. QED BY <2>2, <2>3, <2>4, <2>5, <2>6, <1>3
<1>12. NameInv'
  <2>1. SUFFICES ASSUME model.fresh
                 PROVE  /\ direct /\ phase # "received" /\ model.at < Room /\ mem'[model.at] = model.n
                        /\ model.at < offset'
                        /\ send["poll"].phase # "none" => model.at < send["poll"].saved
    BY <1>2, <1>3 DEF NameInv
  <2>2. direct /\ phase # "received" /\ model.at < Room /\ mem[model.at] = model.n
    BY <2>1, <1>1 DEF NameInv
  <2>3. phase = "handling"
    <3>1. t = "poll"
      BY <2>2, <1>1, <1>2 DEF DirectInv, Threads
    <3>2. QED BY <3>1, <1>1, <1>2 DEF WindowsInv
  <2>4. model.at < offset /\ (send["poll"].phase # "none" => model.at < send["poll"].saved)
        /\ model.at \in Nat
    BY <2>1, <2>3, <1>1 DEF NameInv, Types
  <2>5. QED BY <2>2, <2>4, <1>6, <1>7
<1>13. QED BY <1>8, <1>9, <1>10, <1>11, <1>12 DEF IInv

(* A reply is sent, and the offset goes back. *)
LEMMA SendEndsKeeps == ASSUME IInv, NEW t \in Threads, SendEnds(t) PROVE IInv'
<1> DEFINE w == WindowOf(t)
<1>1. Types /\ WindowsInv /\ DirectInv /\ NestedInv /\ NameInv
  BY DEF IInv
<1>2. /\ send[t].phase = "answered" /\ offset' = send[t].saved
      /\ send' = [send EXCEPT ![t] = [phase |-> "none", saved |-> 0]]
      /\ \E i \in DOMAIN open : open[i] = w /\ open' = RemoveAt(open, i)
      /\ crossed' = (crossed \/ (open # <<>> /\ Last(open) # w))
      /\ UNCHANGED <<direct, arrived, last, phase, batch, body, saved, mem, model>>
  BY DEF SendEnds, Closes, AtRest, pollVars
<1>3. /\ (t = "poll" /\ w = "reply") \/ (t = "dispatch" /\ w = "dispatch")
      /\ w \in Windows /\ "batch" \in Windows /\ "reply" \in Windows /\ "dispatch" \in Windows
  BY DEF Threads, Windows, WindowOf
<1>4. /\ open \in Seq(Windows) /\ Once(open) /\ Len(open) \in Nat /\ DOMAIN open = 1..Len(open)
  BY <1>1, LenProperties DEF Types, WindowsInv
<1>5. PICK k \in 1..Len(open) : open[k] = w /\ open' = RemoveAt(open, k)
  BY <1>2, <1>4
<1> HIDE DEF w
<1>6. /\ open' \in Seq(Windows) /\ Once(open')
      /\ \A v \in Windows : OpenIn(open', v) <=> OpenIn(open, v) /\ v # w
      /\ \A u, v \in Windows : Within(open', u, v) <=> Within(open, u, v) /\ u # w /\ v # w
      /\ Len(open') > 0 => open'[1] = open[1] \/ open[1] = w
      /\ Len(open') = Len(open) - 1
  BY <1>3, <1>4, <1>5, ClosesOne
<1>7. /\ OpenIn(open, w) /\ Len(open) > 0 /\ open # <<>>
  BY <1>4, <1>5, EmptySeq DEF OpenIn
<1>8. /\ send' \in [Threads -> Sending] /\ send'[t] = [phase |-> "none", saved |-> 0]
      /\ \A x \in Threads : x # t => send'[x] = send[x]
      /\ "poll" \in Threads /\ "dispatch" \in Threads
  <2>1. send \in [Threads -> Sending] /\ [phase |-> "none", saved |-> 0] \in Sending
    BY <1>1, TypesOf DEF Types, Sending
  <2>2. QED BY <2>1, <1>2 DEF Threads
<1>9. Room \in Nat /\ offset' \in 0..Room
  BY <1>1, <1>2, TypesOf
<1>10. Types'
  BY <1>1, <1>2, <1>6, <1>8, <1>9 DEF Types
<1>11. WindowsInv'
  BY <1>1, <1>2, <1>3, <1>6, <1>8 DEF WindowsInv
<1>12. DirectInv'
  <2>1. SUFFICES ASSUME direct PROVE ~crossed' /\ send'["dispatch"].phase = "none"
    BY <1>1, <1>2 DEF DirectInv
  <2>2. t = "poll" /\ send["poll"].phase # "none" /\ ~crossed /\ send["dispatch"].phase = "none"
    BY <2>1, <1>1, <1>2 DEF DirectInv, Threads
  <2>3. Last(open) = "reply"
    BY <2>1, <2>2, <1>1, DirectWindows
  <2>4. QED BY <2>2, <2>3, <1>2, <1>3, <1>8
<1>13. NestedInv'
  <2>1. SUFFICES ASSUME ~crossed'
                 PROVE  /\ \A i \in 1..Len(batch) : Intact(batch[i])
                        /\ phase = "received" => BodyIntact
                        /\ Below(send[t].saved)
                        /\ Within(open', "batch", "dispatch") => Below(send'["dispatch"].saved)
                        /\ OpenIn(open', "reply") => Below(send'["poll"].saved)
                        /\ Len(open') = 0 => send[t].saved = 0
                        /\ Len(open') > 0 /\ open'[1] = "dispatch" => send'["dispatch"].saved = 0
    <3>1. /\ \A i \in 1..Len(batch) : Intact(batch[i])' <=> Intact(batch[i])
          /\ BodyIntact' <=> BodyIntact
      BY <1>2 DEF Intact, BodyIntact, Holds
    <3>2. Below(send[t].saved) => Below(offset)'
      BY <1>2 DEF Below
    <3>3. /\ Below(send'["dispatch"].saved) => Below(send["dispatch"].saved)'
          /\ Below(send'["poll"].saved) => Below(send["poll"].saved)'
      BY <1>2 DEF Below
    <3>4. QED BY <2>1, <3>1, <3>2, <3>3, <1>2 DEF NestedInv
  <2>2. ~crossed /\ Last(open) = w
    BY <2>1, <1>2, <1>7
  <2>3. /\ \A i \in 1..Len(batch) : Intact(batch[i])
        /\ phase = "received" => BodyIntact
        /\ Within(open, "batch", "dispatch") => Below(send["dispatch"].saved)
        /\ OpenIn(open, "reply") => Below(send["poll"].saved)
        /\ open[1] = "dispatch" => send["dispatch"].saved = 0
    BY <2>2, <1>1, <1>7 DEF NestedInv
  <2>4. /\ \A v \in Windows : OpenIn(open, v) /\ v # w => Within(open, v, w)
        /\ open[1] \in Windows /\ (open[1] = w => Len(open) = 1)
    BY <2>2, <1>4, <1>7, LastIsInnermost
  <2>5. CASE t = "poll"
    <3>1. w = "reply" /\ Within(open, "batch", "reply")
      BY <2>5, <1>1, <1>2, <1>3 DEF WindowsInv
    <3>2. open[1] # "reply" /\ OpenIn(open, "batch")
      BY <3>1, <1>4, NotBoth
    <3>3. OpenIn(open', "batch") /\ ~OpenIn(open', "reply")
      BY <3>1, <3>2, <1>3, <1>6
    <3>4. Len(open') # 0
      BY <3>3 DEF OpenIn
    <3>5. Within(open', "batch", "dispatch") => Within(open, "batch", "dispatch")
      BY <1>3, <1>6
    <3>6. send'["dispatch"] = send["dispatch"]
      BY <2>5, <1>8
    <3>7. Below(send[t].saved)
      BY <2>3, <2>5, <3>1, <1>7
    <3>8. Len(open') > 0 => open'[1] = open[1]
      BY <3>1, <3>2, <1>6
    <3>9. QED BY <2>3, <3>3, <3>4, <3>5, <3>6, <3>7, <3>8
  <2>6. CASE t = "dispatch"
    <3>1. w = "dispatch"
      BY <2>6, <1>3
    <3>2. ~Within(open', "batch", "dispatch") /\ ~OpenIn(open', "dispatch")
      BY <3>1, <1>3, <1>6
    <3>3. ~(Len(open') > 0 /\ open'[1] = "dispatch")
      BY <3>2 DEF OpenIn
    <3>4. send'["poll"] = send["poll"] /\ (OpenIn(open', "reply") => OpenIn(open, "reply"))
      BY <2>6, <1>3, <1>6, <1>8
    <3>5. Below(send["dispatch"].saved)
      <4>1. CASE phase = "idle"
        BY <4>1, <1>1 DEF WindowsInv, Below
      <4>2. CASE phase # "idle"
        <5>1. OpenIn(open, "batch")
          BY <4>2, <1>1 DEF WindowsInv
        <5>2. Within(open, "batch", "dispatch")
          BY <5>1, <3>1, <2>4, <1>3
        <5>3. QED BY <5>2, <2>3
      <4>3. QED BY <4>1, <4>2
    <3>6. Len(open') = 0 => send["dispatch"].saved = 0
      <4>1. SUFFICES ASSUME Len(open') = 0 PROVE open[1] = "dispatch"
        BY <2>3
      <4>2. Len(open) = 1
        <5>1. Len(open') = Len(open) - 1
          BY <1>6
        <5>2. Len(open) \in Nat /\ Len(open') = 0
          BY <1>4, <4>1
        <5>3. QED BY <5>1, <5>2
      <4>3. k = 1
        BY <4>2
      <4>4. open[k] = w
        BY <1>5
      <4>5. QED BY <4>3, <4>4, <3>1
    <3>7. QED BY <2>3, <2>6, <3>2, <3>3, <3>4, <3>5, <3>6
  <2>7. QED BY <2>5, <2>6 DEF Threads
<1>14. NameInv'
  <2>1. SUFFICES ASSUME model.fresh
                 PROVE  /\ direct /\ phase # "received" /\ model.at < Room /\ mem[model.at] = model.n
                        /\ model.at < offset' /\ send'["poll"].phase = "none"
    BY <1>2 DEF NameInv
  <2>2. direct /\ phase # "received" /\ model.at < Room /\ mem[model.at] = model.n
    BY <2>1, <1>1 DEF NameInv
  <2>3. t = "poll" /\ send["poll"].phase # "none"
    BY <2>2, <1>1, <1>2 DEF DirectInv, Threads
  <2>4. phase = "handling"
    BY <2>3, <1>1 DEF WindowsInv
  <2>5. model.at < send["poll"].saved
    BY <2>1, <2>3, <2>4, <1>1 DEF NameInv
  <2>6. QED BY <2>2, <2>3, <2>5, <1>2, <1>8
<1>15. QED BY <1>10, <1>11, <1>12, <1>13, <1>14 DEF IInv

-----------------------------------------------------------------------------
(* Every step keeps the invariant. *)
LEMMA NextKeeps == IInv /\ [Next]_vars => IInv'
<1> SUFFICES ASSUME IInv, [Next]_vars PROVE IInv'
  OBVIOUS
<1>1. CASE Arrive \/ Ask \/ AskFails \/ ReceiveOverflows \/ Receive \/ Parse \/ EndBatch
  BY <1>1, ArriveKeeps, AskKeeps, AskFailsKeeps, ReceiveKeeps, ParseKeeps, EndBatchKeeps
<1>2. CASE Handle
  BY <1>2, PassOverKeeps, WorkKeeps, SwapModelKeeps DEF Handle
<1>3. CASE DispatchSends
  BY <1>3, DispatchSendsKeeps
<1>4. ASSUME NEW t \in Threads, SendAnswered(t) \/ SendEnds(t) PROVE IInv'
  BY <1>4, SendAnsweredKeeps, SendEndsKeeps
<1>5. CASE UNCHANGED vars
  <2>1. UNCHANGED <<direct, arrived, last, phase, batch, body, saved, offset, mem, send, model,
                    open, crossed>>
    BY <1>5 DEF vars, pollVars, memVars, historyVars
  <2>2. Types' /\ WindowsInv' /\ DirectInv' /\ NameInv'
    BY <2>1 DEF IInv, Types, WindowsInv, DirectInv, NameInv
  <2>3. NestedInv'
    BY <2>1 DEF IInv, NestedInv, Below, Intact, BodyIntact, Holds
  <2>4. QED BY <2>2, <2>3 DEF IInv
<1>6. QED BY <1>1, <1>2, <1>3, <1>4, <1>5 DEF Next

(* The windows are those of the calls in progress, what was received lies  *)
(* below every offset that may be restored before it is gone, and so does  *)
(* the name of the model (sea_telegram_poll, sea_telegram_send, tg_poll    *)
(* and tg_send of the channel).                                            *)
THEOREM TelegramInvariance == Spec => []IInv
<1>1. Init => IInv
  BY InitHolds
<1>2. IInv /\ [Next]_vars => IInv'
  BY NextKeeps
<1>3. QED BY <1>1, <1>2, PTL DEF Spec

(* For every size of the arena and of what is received: while each offset  *)
(* is restored in the reverse order of its saving (in the direct mode of   *)
(* main.c always), an update and the body of a response keep their memory, *)
(* the arena is given back, and the name left by /model set stays until    *)
(* the next response.                                                      *)
THEOREM ArenaKeepsItsWindows == Spec => []PollArenaHolds
<1>1. IInv => PollArenaHolds
  <2> SUFFICES ASSUME IInv PROVE PollArenaHolds
    OBVIOUS
  <2>1. DOMAIN batch = 1..Len(batch)
    BY LenProperties DEF IInv, Types
  <2>2. open = <<>> => Len(open) = 0
    BY EmptySeq
  <2>3. IntactWhenNested
    BY <2>1 DEF IInv, DirectInv, NestedInv, IntactWhenNested
  <2>4. NothingLeaks
    BY <2>2 DEF IInv, NestedInv, NothingLeaks
  <2>5. NamedUntilNextResponse
    BY DEF IInv, NameInv, NamedUntilNextResponse
  <2>6. QED BY <2>3, <2>4, <2>5 DEF PollArenaHolds
<1>2. QED BY <1>1, TelegramInvariance, PTL
=============================================================================

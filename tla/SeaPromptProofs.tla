-------------------------- MODULE SeaPromptProofs ---------------------------
(***************************************************************************)
(* Proofs about what is sent to the model and what is read of its answer:  *)
(* the answers of Agent Zero, with what the shield and the redaction leave *)
(* of them, the facts a question finds, the skills, and the JSON parser,   *)
(* whose proof is the second half.  They share no state.  Matches and      *)
(* facts are sorted by the same insertion sort, which comes first.         *)
(***************************************************************************)
EXTENDS SeaZero, SeaRecall, SeaSkill, SeaJson,
        SequenceTheorems, FiniteSetTheorems, FunctionTheorems, WellFoundedInduction, TLAPS

(* A set of numbers that is not empty has a least one. *)
LEMMA LeastExists ==
  ASSUME NEW S \in SUBSET Nat, S # {}
  PROVE  \E x \in S : \A y \in S : x <= y
<1>1. \E x \in S : \A y \in S : <<y, x>> \notin OpToRel(<, Nat)
  BY NatLessThanWellFounded, WFMin
<1>2. PICK x \in S : \A y \in S : <<y, x>> \notin OpToRel(<, Nat)
  BY <1>1
<1>3. \A y \in S : ~(y < x)
  BY <1>2 DEF OpToRel
<1>4. QED BY <1>3

-----------------------------------------------------------------------------
(***************************************************************************)
(* The insertion sort, of any number of ranks.                             *)
(***************************************************************************)

(* An order of the numbers up to i in which nothing ranks lower than what  *)
(* is before it.                                                           *)
InOrder(order, ranks, i) ==
  /\ order \in [1..i -> 1..i]
  /\ \A j, k \in 1..i : order[j] = order[k] => j = k
  /\ \A e \in 1..i : \E k \in 1..i : order[k] = e
  /\ \A j, k \in 1..i : j <= k => ranks[order[j]] <= ranks[order[k]]

(* The search from the end finds its place. *)
LEMMA PlaceFound ==
  ASSUME NEW ranks \in Seq(Int), NEW i \in 1..Len(ranks), NEW order, InOrder(order, ranks, i - 1)
  PROVE  /\ Place(order, ranks, i) \in 0..i - 1
         /\ Place(order, ranks, i) # 0 => ranks[order[Place(order, ranks, i)]] <= ranks[i]
         /\ \A k \in Place(order, ranks, i) + 1..i - 1 : ranks[order[k]] > ranks[i]
<1> DEFINE Behind(p) == \A k \in p + 1..i - 1 : ranks[order[k]] > ranks[i]
           Ends(p) == (p = 0 \/ ranks[order[p]] <= ranks[i]) /\ Behind(p)
           S == {p \in 0..i - 1 : Behind(p)}
<1>1. i \in Nat /\ i >= 1 /\ i <= Len(ranks) /\ Len(ranks) \in Nat /\ ranks \in [1..Len(ranks) -> Int]
  BY LenProperties
<1>2. \A k \in 1..i - 1 : order[k] \in 1..i - 1 /\ ranks[order[k]] \in Int
  <2>1. \A k \in 1..i - 1 : order[k] \in 1..i - 1
    BY DEF InOrder
  <2>2. \A e \in 1..i - 1 : e \in 1..Len(ranks)
    BY <1>1
  <2>3. \A e \in 1..Len(ranks) : ranks[e] \in Int
    BY <1>1
  <2>4. QED BY <2>1, <2>2, <2>3
<1>3. i - 1 \in S /\ S \in SUBSET Nat
  BY <1>1
<1>4. PICK p \in S : \A q \in S : p <= q
  <2> HIDE DEF S
  <2>1. QED BY <1>3, LeastExists
<1>5. p \in 0..i - 1 /\ Behind(p)
  BY <1>4
<1>6. Ends(p)
  <2>1. SUFFICES ASSUME p # 0, ~(ranks[order[p]] <= ranks[i]) PROVE FALSE
    BY <1>5
  <2>2. p - 1 \in 0..i - 1 /\ p \in 1..i - 1
    BY <1>1, <1>5, <2>1
  <2>3. ranks[order[p]] > ranks[i]
    BY <1>1, <1>2, <2>1, <2>2
  <2>4. \A k \in p - 1 + 1..i - 1 : k = p \/ k \in p + 1..i - 1
    BY <2>2
  <2>5. Behind(p - 1)
    BY <1>5, <2>3, <2>4
  <2>6. p - 1 \in S
    BY <2>2, <2>5
  <2> HIDE DEF S
  <2>7. QED BY <1>4, <1>5, <2>6
<1>7. Place(order, ranks, i) = CHOOSE q \in 0..i - 1 : Ends(q)
  BY DEF Place
<1>8. Place(order, ranks, i) \in 0..i - 1 /\ Ends(Place(order, ranks, i))
  <2> HIDE DEF Ends
  <2>1. QED BY <1>5, <1>6, <1>7
<1>9. QED BY <1>8

(* A round keeps the order. *)
LEMMA RoundOrders ==
  ASSUME NEW ranks \in Seq(Int), NEW i \in 1..Len(ranks), NEW order, InOrder(order, ranks, i - 1)
  PROVE  InOrder(Placed(order, ranks, i), ranks, i)
<1> DEFINE p == Place(order, ranks, i)
           o == [k \in 1..i |-> IF k <= p THEN order[k] ELSE IF k = p + 1 THEN i ELSE order[k - 1]]
<1>1. Placed(order, ranks, i) = o
  BY DEF Placed
<1>2. /\ p \in 0..i - 1
      /\ p # 0 => ranks[order[p]] <= ranks[i]
      /\ \A k \in p + 1..i - 1 : ranks[order[k]] > ranks[i]
  BY PlaceFound
<1>3. i \in Nat /\ i >= 1 /\ ranks \in [1..Len(ranks) -> Int] /\ i <= Len(ranks) /\ Len(ranks) \in Nat
  BY LenProperties
<1>4. \A k \in 1..i - 1 : order[k] \in 1..i - 1 /\ order[k] \in 1..i /\ order[k] # i /\ ranks[order[k]] \in Int
  <2>1. \A k \in 1..i - 1 : order[k] \in 1..i - 1
    BY DEF InOrder
  <2>2. \A e \in 1..i - 1 : e \in 1..Len(ranks) /\ e \in 1..i /\ e # i
    BY <1>3
  <2>3. \A e \in 1..Len(ranks) : ranks[e] \in Int
    BY <1>3
  <2>4. QED BY <2>1, <2>2, <2>3
<1> HIDE DEF p
<1>5. /\ p \in Int /\ p + 1 \in 1..i
      /\ \A k \in 1..i : k <= p => k \in 1..i - 1 /\ o[k] = order[k]
      /\ o[p + 1] = i
      /\ \A k \in 1..i : k > p + 1 => k - 1 \in 1..i - 1 /\ k - 1 \in p + 1..i - 1 /\ o[k] = order[k - 1]
  <2>1. p \in Int /\ p >= 0 /\ p <= i - 1 /\ p + 1 \in 1..i
    BY <1>2, <1>3
  <2>2. \A k \in 1..i : k <= p => k \in 1..i - 1 /\ o[k] = order[k]
    BY <1>3, <2>1
  <2>3. o[p + 1] = i
    BY <2>1
  <2>4. \A k \in 1..i : k > p + 1 => k - 1 \in 1..i - 1 /\ k - 1 \in p + 1..i - 1
    BY <1>3, <2>1
  <2>5. \A k \in 1..i : k > p + 1 => ~(k <= p) /\ k # p + 1
    BY <2>1
  <2>6. \A k \in 1..i : k > p + 1 => o[k] = order[k - 1]
    BY <2>5
  <2> HIDE DEF o
  <2>7. QED BY <2>1, <2>2, <2>3, <2>4, <2>6
<1>6. \A k \in 1..i : k <= p \/ k = p + 1 \/ k > p + 1
  BY <1>5
<1>7. o \in [1..i -> 1..i]
  <2>1. \A k \in 1..i : o[k] \in 1..i
    BY <1>3, <1>4, <1>5, <1>6
  <2>2. QED BY <2>1
<1> HIDE DEF o
<1>8. \A j, k \in 1..i : o[j] = o[k] => j = k
  <2>1. SUFFICES ASSUME NEW j \in 1..i, NEW k \in 1..i, o[j] = o[k] PROVE j = k
    OBVIOUS
  <2>2. \A a, b \in 1..i - 1 : order[a] = order[b] => a = b
    BY DEF InOrder
  <2>3. CASE j <= p
    <3>1. o[j] = order[j] /\ j \in 1..i - 1 /\ o[j] # i
      BY <1>4, <1>5, <2>3
    <3>2. CASE k <= p
      BY <1>5, <2>1, <2>2, <3>1, <3>2
    <3>3. CASE k > p + 1
      <4>1. order[j] = order[k - 1] /\ k - 1 \in 1..i - 1
        BY <1>5, <2>1, <3>1, <3>3
      <4>2. j = k - 1
        BY <2>2, <3>1, <4>1
      <4>3. QED BY <1>5, <2>3, <3>3, <4>2
    <3>4. QED BY <1>5, <1>6, <2>1, <3>1, <3>2, <3>3
  <2>4. CASE j = p + 1
    <3>1. o[k] = i
      BY <1>5, <2>1, <2>4
    <3>2. QED BY <1>4, <1>5, <1>6, <2>4, <3>1
  <2>5. CASE j > p + 1
    <3>1. o[j] = order[j - 1] /\ j - 1 \in 1..i - 1 /\ o[j] # i
      BY <1>4, <1>5, <2>5
    <3>2. CASE k <= p
      <4>1. order[j - 1] = order[k] /\ k \in 1..i - 1
        BY <1>5, <2>1, <3>1, <3>2
      <4>2. j - 1 = k
        BY <2>2, <3>1, <4>1
      <4>3. QED BY <1>5, <2>5, <3>2, <4>2
    <3>3. CASE k > p + 1
      <4>1. order[j - 1] = order[k - 1] /\ k - 1 \in 1..i - 1
        BY <1>5, <2>1, <3>1, <3>3
      <4>2. j - 1 = k - 1
        BY <2>2, <3>1, <4>1
      <4>3. QED BY <4>2
    <3>4. QED BY <1>5, <1>6, <2>1, <3>1, <3>2, <3>3
  <2>6. QED BY <1>6, <2>3, <2>4, <2>5
<1>9. \A e \in 1..i : \E k \in 1..i : o[k] = e
  <2>1. TAKE e \in 1..i
  <2>2. CASE e = i
    BY <1>5, <2>2
  <2>3. CASE e # i
    <3>1. e \in 1..i - 1
      BY <1>3, <2>3
    <3>2. PICK k \in 1..i - 1 : order[k] = e
      BY <3>1 DEF InOrder
    <3>3. CASE k <= p
      <4>1. k \in 1..i
        BY <1>3
      <4>2. o[k] = order[k]
        BY <1>5, <3>3, <4>1
      <4>3. QED BY <3>2, <4>1, <4>2
    <3>4. CASE ~(k <= p)
      <4>1. k + 1 \in 1..i /\ k + 1 > p + 1 /\ k + 1 - 1 = k
        BY <1>3, <1>5, <3>4
      <4>2. o[k + 1] = order[k]
        BY <1>5, <4>1
      <4>3. QED BY <3>2, <4>1, <4>2
    <3>5. QED BY <3>3, <3>4
  <2>4. QED BY <2>2, <2>3
<1>10. \A j, k \in 1..i : j <= k => ranks[o[j]] <= ranks[o[k]]
  <2>1. SUFFICES ASSUME NEW j \in 1..i, NEW k \in 1..i, j <= k PROVE ranks[o[j]] <= ranks[o[k]]
    OBVIOUS
  <2>2. \A a, b \in 1..i - 1 : a <= b => ranks[order[a]] <= ranks[order[b]]
    BY DEF InOrder
  <2>3. ranks[i] \in Int
    BY <1>3
  <2>4. CASE k <= p
    <3>1. j \in 1..i - 1 /\ k \in 1..i - 1 /\ o[j] = order[j] /\ o[k] = order[k]
      BY <1>5, <2>1, <2>4
    <3>2. QED BY <2>1, <2>2, <3>1
  <2>5. CASE k = p + 1
    <3>1. o[k] = i
      BY <1>5, <2>5
    <3>2. CASE j = k
      BY <2>3, <3>1, <3>2
    <3>3. CASE j # k
      <4>1. j <= p /\ j \in 1..i - 1 /\ o[j] = order[j]
        BY <1>5, <2>1, <2>5, <3>3
      <4>2. p # 0 /\ p \in 1..i - 1
        <5>1. p \in 0..i - 1 /\ j >= 1 /\ j \in Int /\ p >= j
          BY <1>2, <1>5, <4>1
        <5>2. QED BY <5>1
      <4>3. ranks[order[j]] <= ranks[order[p]] /\ ranks[order[p]] <= ranks[i]
        BY <1>2, <2>2, <4>1, <4>2
      <4>4. ranks[order[j]] \in Int /\ ranks[order[p]] \in Int
        BY <1>4, <4>1, <4>2
      <4>5. ranks[order[j]] <= ranks[i]
        BY <2>3, <4>3, <4>4
      <4>6. QED BY <3>1, <4>1, <4>5
    <3>4. QED BY <3>2, <3>3
  <2>6. CASE k > p + 1
    <3>1. o[k] = order[k - 1] /\ k - 1 \in 1..i - 1 /\ k - 1 \in p + 1..i - 1
      BY <1>5, <2>6
    <3>2. ranks[order[k - 1]] > ranks[i] /\ ranks[order[k - 1]] \in Int
      BY <1>2, <1>4, <3>1
    <3>3. CASE j <= p
      <4>1. j \in 1..i - 1 /\ o[j] = order[j] /\ j <= k - 1
        BY <1>5, <2>6, <3>3
      <4>2. QED BY <2>2, <3>1, <4>1
    <3>4. CASE j = p + 1
      <4>1. o[j] = i
        BY <1>5, <3>4
      <4>2. ranks[i] <= ranks[order[k - 1]]
        BY <2>3, <3>2
      <4>3. QED BY <3>1, <4>1, <4>2
    <3>5. CASE j > p + 1
      <4>1. o[j] = order[j - 1] /\ j - 1 \in 1..i - 1
        BY <1>5, <3>5
      <4>2. j - 1 <= k - 1
        BY <2>1
      <4>3. QED BY <2>2, <3>1, <4>1, <4>2
    <3>6. QED BY <1>6, <3>3, <3>4, <3>5
  <2>7. QED BY <1>6, <2>4, <2>5, <2>6
<1>11. InOrder(o, ranks, i)
  BY <1>7, <1>8, <1>9, <1>10 DEF InOrder
<1>12. QED BY <1>1, <1>11

(* The rounds, up to m. *)
Rounds(f, ranks, m) ==
  /\ DOMAIN f = 0..m
  /\ \A i \in 0..m : f[i] = IF i = 0 THEN <<>> ELSE Placed(f[i - 1], ranks, i)

LEMMA RoundsExist ==
  ASSUME NEW ranks, NEW n \in Nat
  PROVE  \E f : f = [i \in 0..n |-> IF i = 0 THEN <<>> ELSE Placed(f[i - 1], ranks, i)]
<1> DEFINE Wanting == {m \in 0..n : ~ \E f : Rounds(f, ranks, m)}
<1>1. Wanting = {}
  <2>1. SUFFICES ASSUME Wanting # {} PROVE FALSE
    OBVIOUS
  <2>2. Wanting \in SUBSET Nat
    OBVIOUS
  <2>3. PICK m \in Wanting : \A l \in Wanting : m <= l
    <3> HIDE DEF Wanting
    <3>1. QED BY <2>1, <2>2, LeastExists
  <2>4. m \in 0..n /\ ~ \E f : Rounds(f, ranks, m)
    OBVIOUS
  <2>5. CASE m = 0
    <3> DEFINE f == [i \in 0..0 |-> <<>>]
    <3>1. DOMAIN f = 0..m /\ \A i \in 0..m : i = 0 /\ f[i] = <<>>
      BY <2>5
    <3> HIDE DEF f
    <3>2. Rounds(f, ranks, m)
      BY <3>1 DEF Rounds
    <3>3. QED BY <2>4, <3>2
  <2>6. CASE m # 0
    <3>1. m - 1 \in 0..n /\ m - 1 \notin Wanting
      <4> HIDE DEF Wanting
      <4>1. QED BY <2>2, <2>3, <2>4, <2>6
    <3>2. PICK f : Rounds(f, ranks, m - 1)
      BY <3>1
    <3> DEFINE g == [i \in 0..m |-> IF i < m THEN f[i] ELSE Placed(f[m - 1], ranks, m)]
    <3>3. /\ DOMAIN g = 0..m
          /\ \A i \in 0..m - 1 : g[i] = f[i]
          /\ g[m] = Placed(f[m - 1], ranks, m)
      BY <2>4, <2>6
    <3> HIDE DEF g
    <3>4. ASSUME NEW i \in 0..m PROVE g[i] = IF i = 0 THEN <<>> ELSE Placed(g[i - 1], ranks, i)
      <4>1. CASE i = m
        <5>1. m - 1 \in 0..m - 1
          BY <2>4, <2>6
        <5>2. g[m - 1] = f[m - 1]
          BY <3>3, <5>1
        <5>3. QED BY <2>6, <3>3, <4>1, <5>2
      <4>2. CASE i # m
        <5>1. i \in 0..m - 1 /\ (i # 0 => i - 1 \in 0..m - 1)
          BY <2>4, <4>2
        <5>2. g[i] = f[i] /\ (i # 0 => g[i - 1] = f[i - 1])
          BY <3>3, <5>1
        <5>3. f[i] = IF i = 0 THEN <<>> ELSE Placed(f[i - 1], ranks, i)
          BY <3>2, <5>1 DEF Rounds
        <5>4. QED BY <5>2, <5>3
      <4>3. QED BY <4>1, <4>2
    <3>5. Rounds(g, ranks, m)
      BY <3>3, <3>4 DEF Rounds
    <3>6. QED BY <2>4, <3>5
  <2>7. QED BY <2>5, <2>6
<1>2. n \in 0..n
  OBVIOUS
<1>3. PICK f : Rounds(f, ranks, n)
  BY <1>1, <1>2
<1> DEFINE g == [i \in 0..n |-> f[i]]
<1>4. DOMAIN g = 0..n /\ \A i \in 0..n : g[i] = f[i]
  OBVIOUS
<1>5. \A i \in 0..n : i # 0 => i - 1 \in 0..n
  OBVIOUS
<1>6. \A i \in 0..n : g[i] = IF i = 0 THEN <<>> ELSE Placed(g[i - 1], ranks, i)
  <2> HIDE DEF g
  <2>1. QED BY <1>3, <1>4, <1>5 DEF Rounds
<1>7. g = [i \in 0..n |-> g[i]]
  OBVIOUS
<1> HIDE DEF g
<1>8. [i \in 0..n |-> g[i]] = [i \in 0..n |-> IF i = 0 THEN <<>> ELSE Placed(g[i - 1], ranks, i)]
  BY <1>6
<1>9. g = [i \in 0..n |-> IF i = 0 THEN <<>> ELSE Placed(g[i - 1], ranks, i)]
  BY <1>7, <1>8
<1>10. QED BY <1>9

(* The sort puts every element in order. *)
LEMMA OrderSorts ==
  ASSUME NEW ranks \in Seq(Int)
  PROVE  InOrder(Order(ranks), ranks, Len(ranks))
<1> DEFINE n == Len(ranks)
           Is(f) == f = [i \in 0..n |-> IF i = 0 THEN <<>> ELSE Placed(f[i - 1], ranks, i)]
           rounds == CHOOSE f : Is(f)
           Failing == {i \in 0..n : ~InOrder(rounds[i], ranks, i)}
<1>1. n \in Nat
  BY LenProperties
<1>2. \E f : Is(f)
  BY <1>1, RoundsExist
<1>3. Is(rounds)
  <2> HIDE DEF Is
  <2>1. QED BY <1>2
<1>4. Order(ranks) = rounds[n]
  BY DEF Order
<1> HIDE DEF rounds
<1>5. \A i \in 0..n : rounds[i] = IF i = 0 THEN <<>> ELSE Placed(rounds[i - 1], ranks, i)
  BY <1>3
<1> HIDE DEF Is
<1>6. Failing = {}
  <2>1. SUFFICES ASSUME Failing # {} PROVE FALSE
    OBVIOUS
  <2>2. Failing \in SUBSET Nat
    BY <1>1
  <2>3. PICK i \in Failing : \A l \in Failing : i <= l
    <3> HIDE DEF Failing
    <3>1. QED BY <2>1, <2>2, LeastExists
  <2>4. i \in 0..n /\ ~InOrder(rounds[i], ranks, i)
    OBVIOUS
  <2>5. i # 0
    <3>1. SUFFICES ASSUME i = 0 PROVE FALSE
      OBVIOUS
    <3>2. rounds[i] = <<>>
      BY <1>5, <2>4, <3>1
    <3>3. <<>> \in [1..0 -> 1..0]
      OBVIOUS
    <3>4. InOrder(<<>>, ranks, 0)
      BY <3>3 DEF InOrder
    <3>5. QED BY <2>4, <3>1, <3>2, <3>4
  <2>6. i - 1 \in 0..n /\ i \in 1..n /\ i - 1 \notin Failing
    <3> HIDE DEF Failing
    <3>1. QED BY <1>1, <2>2, <2>3, <2>4, <2>5
  <2>7. InOrder(rounds[i - 1], ranks, i - 1)
    BY <2>6
  <2>8. InOrder(Placed(rounds[i - 1], ranks, i), ranks, i)
    BY <2>6, <2>7, RoundOrders
  <2>9. rounds[i] = Placed(rounds[i - 1], ranks, i)
    BY <1>5, <2>4, <2>5
  <2>10. QED BY <2>4, <2>8, <2>9
<1>7. n \in 0..n
  BY <1>1
<1>8. QED BY <1>4, <1>6, <1>7

-----------------------------------------------------------------------------
(***************************************************************************)
(* Redaction, of any text with any number of matches.                      *)
(***************************************************************************)

Matches == [at : Nat \ {0}, length : Nat \ {0}]
PartOf(m) == m.at..m.at + m.length - 1

(* The sort loses no match, and adds none. *)
LEMMA MatchesSorted ==
  ASSUME NEW matches \in Seq(Matches)
  PROVE  /\ DOMAIN Sorted(matches) = 1..Len(matches) /\ Len(Sorted(matches)) = Len(matches)
         /\ \A k \in 1..Len(matches) : Sorted(matches)[k] \in Matches
         /\ \A k \in 1..Len(matches) : \E i \in 1..Len(matches) : Sorted(matches)[k] = matches[i]
         /\ \A i \in 1..Len(matches) : \E k \in 1..Len(matches) : Sorted(matches)[k] = matches[i]
         /\ \A j, k \in 1..Len(matches) : j <= k => Sorted(matches)[j].at <= Sorted(matches)[k].at
<1> DEFINE n == Len(matches)
           ranks == [i \in DOMAIN matches |-> matches[i].at]
           order == Order(ranks)
<1>1. n \in Nat /\ DOMAIN matches = 1..n /\ \A i \in 1..n : matches[i] \in Matches
  BY LenProperties, ElementOfSeq
<1>2. \A i \in 1..n : matches[i].at \in Int
  BY <1>1 DEF Matches
<1>3. ranks \in Seq(Int) /\ Len(ranks) = n /\ \A i \in 1..n : ranks[i] = matches[i].at
  <2>1. ranks \in [1..n -> Int] /\ \A i \in 1..n : ranks[i] = matches[i].at
    BY <1>1, <1>2
  <2> HIDE DEF ranks, n
  <2>2. QED BY <1>1, <2>1, SeqDef, LenProperties
<1>4. Sorted(matches) = [k \in DOMAIN matches |-> matches[order[k]]]
  BY DEF Sorted
<1> HIDE DEF ranks
<1>5. InOrder(order, ranks, n)
  BY <1>3, OrderSorts
<1> HIDE DEF order, n
<1>6. /\ \A k \in 1..n : order[k] \in 1..n
      /\ \A e \in 1..n : \E k \in 1..n : order[k] = e
      /\ \A j, k \in 1..n : j <= k => ranks[order[j]] <= ranks[order[k]]
  BY <1>5 DEF InOrder
<1> DEFINE s == Sorted(matches)
<1>7. DOMAIN s = 1..n /\ \A k \in 1..n : s[k] = matches[order[k]]
  BY <1>1, <1>4
<1> HIDE DEF s
<1>8. Len(s) = n
  <2>1. s \in Seq(Matches)
    <3>1. s = [k \in 1..n |-> matches[order[k]]]
      BY <1>1, <1>4 DEF s
    <3>2. s \in [1..n -> Matches]
      BY <1>1, <1>6, <3>1
    <3>3. QED BY <1>1, <3>2, SeqDef
  <2>2. Len(s) \in Nat /\ 1..Len(s) = 1..n
    BY <1>7, <2>1, LenProperties
  <2>3. \A a, b \in Nat : 1..a = 1..b => a = b
    <3>1. SUFFICES ASSUME NEW a \in Nat, NEW b \in Nat, 1..a = 1..b, a < b PROVE FALSE
      OBVIOUS
    <3>2. b \in 1..b /\ b \notin 1..a
      BY <3>1
    <3>3. QED BY <3>1, <3>2
  <2>4. n \in Nat
    BY <1>1
  <2>5. QED BY <2>2, <2>3, <2>4, Zenon
<1>9. \A j, k \in 1..n : j <= k => s[j].at <= s[k].at
  <2>1. \A k \in 1..n : s[k].at = ranks[order[k]]
    BY <1>3, <1>6, <1>7
  <2>2. QED BY <1>6, <2>1
<1>10. \A k \in 1..n : s[k] \in Matches /\ \E i \in 1..n : s[k] = matches[i]
  BY <1>1, <1>6, <1>7
<1>11. \A i \in 1..n : \E k \in 1..n : s[k] = matches[i]
  <2>1. TAKE i \in 1..n
  <2>2. PICK k \in 1..n : order[k] = i
    BY <1>6
  <2>3. QED BY <1>7, <2>2
<1>12. QED BY <1>7, <1>8, <1>9, <1>10, <1>11 DEF s, n

(* What is hidden once k matches were passed. *)
HiddenUpTo(made, s, k) ==
  /\ made.src \in Nat /\ made.src >= 1 /\ made.markers \in Nat /\ made.markers <= k
  /\ \/ made.src = 1
     \/ \E j \in 1..k : s[j].at + s[j].length = made.src /\ PartOf(s[j]) \subseteq made.hidden
  /\ \A x \in made.hidden : \E j \in 1..k : x \in PartOf(s[j])
  /\ \A j \in 1..k :
       /\ s[j].at \in made.hidden
       /\ \/ PartOf(s[j]) \subseteq made.hidden
          \/ \E l \in 1..k : /\ s[l].at <= s[j].at /\ s[j].at \in PartOf(s[l])
                             /\ PartOf(s[l]) \subseteq made.hidden

LEMMA PassedHides ==
  ASSUME NEW n \in Nat, NEW s, \A k \in 1..n : s[k] \in Matches,
         \A j, k \in 1..n : j <= k => s[j].at <= s[k].at,
         NEW k \in 1..n, NEW made, HiddenUpTo(made, s, k - 1)
  PROVE  HiddenUpTo(Passed(made, s[k]), s, k)
<1> DEFINE m == s[k]
<1>1. /\ k \in Nat /\ k >= 1 /\ k - 1 \in Nat
      /\ \A j \in 1..k - 1 : j \in 1..k /\ j \in 1..n /\ j <= k
      /\ \A j \in 1..k : j = k \/ j \in 1..k - 1
  OBVIOUS
<1>2. m.at \in Nat /\ m.at >= 1 /\ m.length \in Nat /\ m.length >= 1 /\ m.at \in PartOf(m)
  BY DEF Matches, PartOf
<1>3. \A j \in 1..k - 1 : s[j] \in Matches /\ s[j].at <= m.at
  BY <1>1
<1>4. CASE m.at < made.src
  <2>1. Passed(made, m) = made
    BY <1>4 DEF Passed
  <2>2. PICK j \in 1..k - 1 : s[j].at + s[j].length = made.src /\ PartOf(s[j]) \subseteq made.hidden
    BY <1>2, <1>4 DEF HiddenUpTo
  <2>3. s[j].at \in Nat /\ s[j].length \in Nat /\ s[j].at <= m.at
    BY <1>3 DEF Matches
  <2>4. m.at \in PartOf(s[j])
    BY <1>2, <1>4, <2>2, <2>3 DEF PartOf
  <2>5. m.at \in made.hidden
    BY <2>2, <2>4
  <2> HIDE DEF m
  <2>6. /\ made.src \in Nat /\ made.src >= 1 /\ made.markers \in Nat /\ made.markers <= k
        /\ \A x \in made.hidden : \E i \in 1..k : x \in PartOf(s[i])
    <3>1. made.src \in Nat /\ made.src >= 1 /\ made.markers \in Nat /\ made.markers <= k - 1
      BY DEF HiddenUpTo
    <3>2. \A x \in made.hidden : \E i \in 1..k - 1 : x \in PartOf(s[i])
      BY DEF HiddenUpTo
    <3>3. QED BY <1>1, <3>1, <3>2
  <2>7. ASSUME NEW i \in 1..k
        PROVE  /\ s[i].at \in made.hidden
               /\ \/ PartOf(s[i]) \subseteq made.hidden
                  \/ \E l \in 1..k : /\ s[l].at <= s[i].at /\ s[i].at \in PartOf(s[l])
                                     /\ PartOf(s[l]) \subseteq made.hidden
    <3>1. CASE i = k
      BY <1>1, <2>2, <2>3, <2>4, <2>5, <3>1 DEF m
    <3>2. CASE i \in 1..k - 1
      BY <1>1, <3>2 DEF HiddenUpTo
    <3>3. QED BY <1>1, <3>1, <3>2
  <2>8. HiddenUpTo(made, s, k)
    BY <1>1, <2>2, <2>6, <2>7 DEF HiddenUpTo
  <2>9. QED BY <2>1, <2>8 DEF m
<1>5. CASE ~(m.at < made.src)
  <2> DEFINE after == [src |-> m.at + m.length, markers |-> made.markers + 1,
                       hidden |-> made.hidden \union PartOf(m)]
  <2>1. Passed(made, m) = after
    BY <1>5 DEF Passed, PartOf
  <2>2. after.src = m.at + m.length /\ after.markers = made.markers + 1
        /\ after.hidden = made.hidden \union PartOf(m)
    OBVIOUS
  <2> HIDE DEF after, m
  <2>3. made.markers \in Nat /\ made.markers <= k - 1
    BY DEF HiddenUpTo
  <2>4. /\ after.src \in Nat /\ after.src >= 1 /\ after.markers \in Nat /\ after.markers <= k
        /\ m.at + m.length = after.src /\ PartOf(m) \subseteq after.hidden
    BY <1>1, <1>2, <2>2, <2>3
  <2>5. \A x \in after.hidden : \E j \in 1..k : x \in PartOf(s[j])
    <3>1. \A x \in made.hidden : \E j \in 1..k - 1 : x \in PartOf(s[j])
      BY DEF HiddenUpTo
    <3>2. QED BY <1>1, <2>2, <3>1 DEF m
  <2>6. ASSUME NEW i \in 1..k
        PROVE  /\ s[i].at \in after.hidden
               /\ \/ PartOf(s[i]) \subseteq after.hidden
                  \/ \E l \in 1..k : /\ s[l].at <= s[i].at /\ s[i].at \in PartOf(s[l])
                                     /\ PartOf(s[l]) \subseteq after.hidden
    <3>1. CASE i = k
      BY <1>2, <2>2, <3>1 DEF m
    <3>2. CASE i \in 1..k - 1
      BY <1>1, <2>2, <3>2 DEF HiddenUpTo
    <3>3. QED BY <1>1, <3>1, <3>2
  <2>7. HiddenUpTo(after, s, k)
    BY <1>1, <2>4, <2>5, <2>6 DEF HiddenUpTo, m
  <2>8. QED BY <2>1, <2>7 DEF m
<1>6. QED BY <1>4, <1>5

(* The copy, match by match. *)
Passes(f, s, m) ==
  /\ DOMAIN f = 0..m
  /\ \A k \in 0..m : f[k] = IF k = 0 THEN [src |-> 1, markers |-> 0, hidden |-> {}]
                            ELSE Passed(f[k - 1], s[k])

LEMMA PassesExist ==
  ASSUME NEW s, NEW n \in Nat
  PROVE  \E f : f = [k \in 0..n |-> IF k = 0 THEN [src |-> 1, markers |-> 0, hidden |-> {}]
                                   ELSE Passed(f[k - 1], s[k])]
<1> DEFINE Start == [src |-> 1, markers |-> 0, hidden |-> {}]
           Wanting == {m \in 0..n : ~ \E f : Passes(f, s, m)}
<1>1. Wanting = {}
  <2>1. SUFFICES ASSUME Wanting # {} PROVE FALSE
    OBVIOUS
  <2>2. Wanting \in SUBSET Nat
    OBVIOUS
  <2>3. PICK m \in Wanting : \A l \in Wanting : m <= l
    <3> HIDE DEF Wanting
    <3>1. QED BY <2>1, <2>2, LeastExists
  <2>4. m \in 0..n /\ ~ \E f : Passes(f, s, m)
    OBVIOUS
  <2>5. CASE m = 0
    <3> DEFINE f == [i \in 0..0 |-> Start]
    <3>1. DOMAIN f = 0..m /\ \A i \in 0..m : i = 0 /\ f[i] = Start
      BY <2>5
    <3> HIDE DEF f
    <3>2. Passes(f, s, m)
      BY <3>1 DEF Passes
    <3>3. QED BY <2>4, <3>2
  <2>6. CASE m # 0
    <3>1. m - 1 \in 0..n /\ m - 1 \notin Wanting
      <4> HIDE DEF Wanting
      <4>1. QED BY <2>2, <2>3, <2>4, <2>6
    <3>2. PICK f : Passes(f, s, m - 1)
      BY <3>1
    <3> DEFINE g == [i \in 0..m |-> IF i < m THEN f[i] ELSE Passed(f[m - 1], s[m])]
    <3>3. /\ DOMAIN g = 0..m
          /\ \A i \in 0..m - 1 : g[i] = f[i]
          /\ g[m] = Passed(f[m - 1], s[m])
      BY <2>4, <2>6
    <3> HIDE DEF g, Start
    <3>4. ASSUME NEW i \in 0..m PROVE g[i] = IF i = 0 THEN Start ELSE Passed(g[i - 1], s[i])
      <4>1. CASE i = m
        <5>1. m - 1 \in 0..m - 1
          BY <2>4, <2>6
        <5>2. g[m - 1] = f[m - 1]
          BY <3>3, <5>1
        <5>3. QED BY <2>6, <3>3, <4>1, <5>2
      <4>2. CASE i # m
        <5>1. i \in 0..m - 1 /\ (i # 0 => i - 1 \in 0..m - 1)
          BY <2>4, <4>2
        <5>2. g[i] = f[i] /\ (i # 0 => g[i - 1] = f[i - 1])
          BY <3>3, <5>1
        <5>3. f[i] = IF i = 0 THEN Start ELSE Passed(f[i - 1], s[i])
          BY <3>2, <5>1 DEF Passes, Start
        <5>4. QED BY <5>2, <5>3
      <4>3. QED BY <4>1, <4>2
    <3>5. Passes(g, s, m)
      BY <3>3, <3>4 DEF Passes, Start
    <3>6. QED BY <2>4, <3>5
  <2>7. QED BY <2>5, <2>6
<1>2. n \in 0..n
  OBVIOUS
<1>3. PICK f : Passes(f, s, n)
  BY <1>1, <1>2
<1> DEFINE g == [i \in 0..n |-> f[i]]
<1>4. DOMAIN g = 0..n /\ \A i \in 0..n : g[i] = f[i]
  OBVIOUS
<1>5. \A i \in 0..n : i # 0 => i - 1 \in 0..n
  OBVIOUS
<1> HIDE DEF Start
<1>6. \A i \in 0..n : g[i] = IF i = 0 THEN Start ELSE Passed(g[i - 1], s[i])
  <2> HIDE DEF g
  <2>1. QED BY <1>3, <1>4, <1>5 DEF Passes, Start
<1>7. g = [i \in 0..n |-> g[i]]
  OBVIOUS
<1> HIDE DEF g
<1>8. [i \in 0..n |-> g[i]] = [i \in 0..n |-> IF i = 0 THEN Start ELSE Passed(g[i - 1], s[i])]
  BY <1>6
<1>9. g = [i \in 0..n |-> IF i = 0 THEN Start ELSE Passed(g[i - 1], s[i])]
  BY <1>7, <1>8
<1>10. QED BY <1>9 DEF Start

LEMMA ScanTakes ==
  ASSUME NEW seen \in Seq(Matches)
  PROVE  Scan(seen) \in Seq(Matches)
BY SubSeqProperties, LenProperties, PiiAssumption DEF Scan

(* All of the matches there was room for are hidden. *)
LEMMA RedactionHides ==
  ASSUME NEW seen \in Seq(Matches)
  PROVE  HiddenUpTo(Redaction(seen), Sorted(Scan(seen)), Len(Scan(seen)))
<1> DEFINE s == Sorted(Scan(seen))
           n == Len(Scan(seen))
           Start == [src |-> 1, markers |-> 0, hidden |-> {}]
           Is(f) == f = [k \in 0..Len(s) |-> IF k = 0 THEN Start ELSE Passed(f[k - 1], s[k])]
           after == CHOOSE f : Is(f)
           Failing == {k \in 0..n : ~HiddenUpTo(after[k], s, k)}
<1>1. Scan(seen) \in Seq(Matches) /\ n \in Nat
  BY ScanTakes, LenProperties
<1>2. /\ Len(s) = n /\ \A k \in 1..n : s[k] \in Matches
      /\ \A j, k \in 1..n : j <= k => s[j].at <= s[k].at
  BY <1>1, MatchesSorted
<1>3. Redaction(seen) = after[Len(s)]
  BY DEF Redaction
<1> HIDE DEF s, n
<1>4. \E f : Is(f)
  BY <1>1, <1>2, PassesExist
<1>5. Is(after)
  <2> HIDE DEF Is
  <2>1. QED BY <1>4
<1> HIDE DEF after
<1>6. \A k \in 0..n : after[k] = IF k = 0 THEN Start ELSE Passed(after[k - 1], s[k])
  BY <1>2, <1>5
<1> HIDE DEF Is
<1>7. Failing = {}
  <2>1. SUFFICES ASSUME Failing # {} PROVE FALSE
    OBVIOUS
  <2>2. Failing \in SUBSET Nat
    BY <1>1
  <2>3. PICK k \in Failing : \A l \in Failing : k <= l
    <3> HIDE DEF Failing
    <3>1. QED BY <2>1, <2>2, LeastExists
  <2>4. k \in 0..n /\ ~HiddenUpTo(after[k], s, k)
    OBVIOUS
  <2>5. k # 0
    <3>1. SUFFICES ASSUME k = 0 PROVE FALSE
      OBVIOUS
    <3>2. after[k] = Start
      BY <1>6, <2>4, <3>1
    <3>3. HiddenUpTo(Start, s, 0)
      BY DEF HiddenUpTo
    <3>4. QED BY <2>4, <3>1, <3>2, <3>3
  <2>6. k - 1 \in 0..n /\ k \in 1..n /\ k - 1 \notin Failing
    <3> HIDE DEF Failing
    <3>1. QED BY <1>1, <2>2, <2>3, <2>4, <2>5
  <2>7. HiddenUpTo(after[k - 1], s, k - 1)
    BY <2>6
  <2>8. HiddenUpTo(Passed(after[k - 1], s[k]), s, k)
    BY <1>1, <1>2, <2>6, <2>7, PassedHides
  <2>9. after[k] = Passed(after[k - 1], s[k])
    BY <1>6, <2>4, <2>5
  <2>10. QED BY <2>4, <2>8, <2>9
<1>8. n \in 0..n
  BY <1>1
<1>9. HiddenUpTo(after[n], s, n)
  BY <1>7, <1>8
<1>10. QED BY <1>2, <1>3, <1>9 DEF s, n

LEMMA Times == ASSUME NEW a \in Nat, NEW b \in Nat, NEW c \in Nat, a <= b PROVE c * a <= c * b /\ c * a \in Nat
<1>1. b - a \in Nat /\ b = a + (b - a)
  OBVIOUS
<1>2. c * b = c * a + c * (b - a)
  BY <1>1
<1>3. \A d \in Nat : c * d \in Nat
  OBVIOUS
<1>4. c * (b - a) \in Nat /\ c * a \in Nat
  BY <1>1, <1>3
<1>5. QED BY <1>2, <1>4

(* What redaction makes of a text is as it should be. *)
LEMMA RedactedRight ==
  ASSUME NEW length \in Nat, NEW seen \in Seq(Matches)
  PROVE  RedactionRight(length, seen, Redaction(seen).hidden, RedactedLength(length, Redaction(seen)))
<1> DEFINE matches == Scan(seen)
           n == Len(matches)
           s == Sorted(matches)
           r == Redaction(seen)
           covered == r.hidden \intersect 1..length
<1>1. matches \in Seq(Matches) /\ n \in Nat /\ DOMAIN matches = 1..n
  BY ScanTakes, LenProperties
<1>2. /\ \A k \in 1..n : s[k] \in Matches
      /\ \A k \in 1..n : \E i \in 1..n : s[k] = matches[i]
      /\ \A i \in 1..n : \E k \in 1..n : s[k] = matches[i]
  BY <1>1, MatchesSorted
<1>3. HiddenUpTo(r, s, n)
  BY RedactionHides
<1>4. RedactedLength(length, r) <= RedactionRoom(length, seen)
  <2>1. RedactedLength(length, r) = length - Cardinality(covered) + MarkerUnits * r.markers
    BY DEF RedactedLength
  <2>2. RedactionRoom(length, seen) = length + MarkerUnits * n
    BY DEF RedactionRoom
  <2>3. Cardinality(covered) \in Nat
    <3>1. IsFiniteSet(1..length)
      BY FS_Interval
    <3>2. QED BY <3>1, FS_Subset, FS_CardinalityType
  <2>4. r.markers \in Nat /\ r.markers <= n
    BY <1>3 DEF HiddenUpTo
  <2> HIDE DEF n, r, covered
  <2>5. MarkerUnits * r.markers <= MarkerUnits * n /\ MarkerUnits * r.markers \in Nat /\ MarkerUnits * n \in Nat
    BY <1>1, <2>4, Times, PiiAssumption
  <2>6. QED BY <2>1, <2>2, <2>3, <2>5
<1> HIDE DEF matches, n, s, r, covered
<1>5. r.hidden \subseteq UNION {PartOf(matches[i]) : i \in 1..n}
  <2>1. \A x \in r.hidden : \E i \in 1..n : x \in PartOf(matches[i])
    BY <1>2, <1>3 DEF HiddenUpTo
  <2>2. QED BY <2>1
<1>6. ASSUME NEW i \in 1..n
      PROVE  /\ matches[i].at \in r.hidden
             /\ \/ PartOf(matches[i]) \subseteq r.hidden
                \/ \E k \in 1..n \ {i} : /\ matches[k].at <= matches[i].at
                                         /\ matches[i].at \in PartOf(matches[k])
  <2>1. PICK j \in 1..n : s[j] = matches[i]
    BY <1>2
  <2>2. /\ s[j].at \in r.hidden
        /\ \/ PartOf(s[j]) \subseteq r.hidden
           \/ \E l \in 1..n : /\ s[l].at <= s[j].at /\ s[j].at \in PartOf(s[l])
                              /\ PartOf(s[l]) \subseteq r.hidden
    BY <1>3 DEF HiddenUpTo
  <2>3. CASE PartOf(s[j]) \subseteq r.hidden
    BY <2>1, <2>2, <2>3
  <2>4. CASE ~(PartOf(s[j]) \subseteq r.hidden)
    <3>1. PICK l \in 1..n : /\ s[l].at <= s[j].at /\ s[j].at \in PartOf(s[l])
                            /\ PartOf(s[l]) \subseteq r.hidden
      BY <2>2, <2>4
    <3>2. PICK k \in 1..n : s[l] = matches[k]
      BY <1>2
    <3>3. k # i
      BY <2>1, <2>4, <3>1, <3>2
    <3>4. QED BY <2>1, <2>2, <3>1, <3>2, <3>3
  <2>5. QED BY <2>3, <2>4
<1>7. QED
  <2>1. /\ \A i \in 1..n :
             /\ matches[i].at \in r.hidden
             /\ \/ PartOf(matches[i]) \subseteq r.hidden
                \/ \E k \in 1..n \ {i} :
                     matches[k].at <= matches[i].at /\ matches[i].at \in PartOf(matches[k])
        /\ r.hidden \subseteq UNION {PartOf(matches[i]) : i \in 1..n}
        /\ RedactedLength(length, r) <= RedactionRoom(length, seen)
    BY <1>4, <1>5, <1>6
  <2>2. QED BY <1>1, <2>1 DEF RedactionRight, PartOf, matches, r

(* Where there is nothing to redact, the text is as it should be. *)
LEMMA PlainRight ==
  ASSUME NEW length \in Nat
  PROVE  RedactionRight(length, <<>>, {}, length)
<1>1. Scan(<<>>) = <<>>
  <2>1. Len(<<>>) = 0
    OBVIOUS
  <2>2. SubSeq(<<>>, 1, 0) = <<>>
    OBVIOUS
  <2>3. QED BY <2>1, <2>2, PiiAssumption DEF Scan
<1>2. MarkerUnits * 0 = 0
  BY PiiAssumption
<1>3. QED BY <1>1, <1>2 DEF RedactionRight, RedactionRoom

-----------------------------------------------------------------------------
(***************************************************************************)
(* The bridge to Agent Zero, for any limits, any arena, any answers and    *)
(* any number of tasks.                                                    *)
(***************************************************************************)

ZeroStages == {"none", "sent", "worked", "judged", "told"}
Task == [stage : ZeroStages, length : Nat, number : Nat]

(* What a success says of its answer. *)
VerdictFit ==
  verdict.success =>
    /\ task.stage \in {"judged", "told"} /\ task.number \in done
    /\ ~verdict.text.dirty /\ reply.result.length <= MaxOutputLen /\ reply.error.length = 0
    /\ verdict.text.from # "overrun"
    /\ ~tight => RedactionRight(reply.result.length, verdict.text.found, verdict.text.hidden,
                                verdict.text.length)

(* A failure is one of ours or an error of Agent Zero in its own words. *)
FailureTrue ==
  ~verdict.success =>
    verdict.text \in {NoText, Ours(1)} \/ (verdict.text = reply.error /\ reply.error.length > 0)

OutputTrue ==
  output.from \in {"peer", "overrun"} =>
    /\ task.stage = "told"
    /\ IF verdict.success THEN output = verdict.text ELSE output = Told(verdict.text)

ZeroInv ==
  /\ task \in Task /\ taskCount \in Nat /\ reply \in Replies
  /\ task.stage = "worked" => task.number \in done
  /\ task.stage \in {"none", "sent", "worked"} => verdict = NoVerdict
  /\ OutputTrue /\ FailureTrue /\ VerdictFit

LEMMA TextTypes ==
  /\ NoText.from = "none" /\ NoText.length = 0 /\ NoText.found = <<>> /\ NoText.hidden = {}
  /\ \A length : Ours(length).from = "ours"
  /\ NoReply \in Replies /\ NoVerdict.success = FALSE /\ Failed.success = FALSE
  /\ Failed.text = Ours(1) /\ NoVerdict.text = NoText /\ NoTask \in Task /\ NoTask.stage = "none"
BY DEF NoText, Ours, NoReply, Replies, NoVerdict, Failed, NoTask, Task, ZeroStages

(* What an answer is. *)
LEMMA ReplyTypes ==
  ASSUME NEW r \in Replies
  PROVE  /\ r.result.length \in Nat /\ r.error.length \in Nat
         /\ r.result.hidden = {}
         /\ r.result.found \in Seq(Matches)
         /\ r.error.length > 0 => \E l, d, f :
              r.error = [from |-> "peer", length |-> l, dirty |-> d, found |-> f, hidden |-> {}]
         /\ r.result.from # "overrun"
<1>1. <<>> \in Seq(Matches)
  OBVIOUS
<1>2. Lengths \subseteq Nat /\ Findings \subseteq Seq(Matches)
  <2>1. Lengths \subseteq Nat
    BY ZeroAssumption
  <2>2. Findings \subseteq Seq(Matches)
    BY ZeroAssumption, Zenon DEF Matches
  <2>3. QED BY <2>1, <2>2
<1>3. \A t \in PeerTexts :
        /\ t.length \in Nat /\ t.hidden = {} /\ t.found \in Seq(Matches) /\ t.from # "overrun"
        /\ t.length > 0 => \E l, d, f :
             t = [from |-> "peer", length |-> l, dirty |-> d, found |-> f, hidden |-> {}]
  <2>1. TAKE t \in PeerTexts
  <2>2. CASE t = NoText
    BY <1>1, <2>2, TextTypes
  <2>3. CASE t # NoText
    <3>1. t \in [from : {"peer"}, length : Lengths \ {0}, dirty : BOOLEAN, found : Findings, hidden : {{}}]
      BY <2>3 DEF PeerTexts
    <3>2. t.length \in Lengths /\ t.found \in Findings /\ t.hidden = {} /\ t.from = "peer"
      BY <3>1
    <3>3. t = [from |-> t.from, length |-> t.length, dirty |-> t.dirty, found |-> t.found, hidden |-> t.hidden]
      BY <3>1
    <3>4. QED BY <1>2, <3>2, <3>3
  <2>4. QED BY <2>2, <2>3
<1>4. CASE r = NoReply
  <2>1. r.result = NoText /\ r.error = NoText
    BY <1>4 DEF NoReply
  <2>2. /\ r.result.length = 0 /\ r.error.length = 0 /\ r.result.hidden = {} /\ r.result.found = <<>>
        /\ r.result.from = "none"
    BY <2>1, TextTypes
  <2>3. QED BY <1>1, <2>2
<1>5. CASE r # NoReply
  <2>1. r.result \in PeerTexts
    BY <1>5 DEF Replies
  <2>2. r.error \in PeerTexts
    BY <1>5 DEF Replies
  <2>3. QED BY <1>3, <2>1, <2>2
<1>6. QED BY <1>4, <1>5

(* A copy that is called a success is fit. *)
LEMMA CopyFit ==
  ASSUME NEW r \in Replies, NEW left, ~Refused(r.result), Copied(r.result, left).success
  PROVE  LET t == Copied(r.result, left).text IN
         /\ ~t.dirty /\ r.result.length <= MaxOutputLen /\ t.from # "overrun"
         /\ FitsRedacted(r.result, left) =>
              RedactionRight(r.result.length, t.found, t.hidden, t.length)
<1> DEFINE text == r.result
<1>1. text.length \in Nat /\ text.found \in Seq(Matches) /\ text.hidden = {}
  BY ReplyTypes
<1>2. /\ text.length # 0 /\ ~(text.length > MaxOutputLen) /\ ~text.dirty
      /\ text.length <= MaxOutputLen
  <2>1. text.length # 0 /\ ~(text.length > MaxOutputLen) /\ ~text.dirty
    BY DEF Refused
  <2>2. QED BY <1>1, <2>1, ZeroAssumption
<1>3. text \in [from : {"peer"}, length : Lengths \ {0}, dirty : BOOLEAN, found : Findings, hidden : {{}}]
  <2>1. r # NoReply
    BY <1>2, TextTypes DEF NoReply
  <2>2. text \in PeerTexts
    BY <2>1 DEF Replies
  <2>3. text # NoText
    BY <1>2, TextTypes
  <2>4. QED BY <2>2, <2>3 DEF PeerTexts
<1>4. CASE text.found # <<>> /\ FitsRedacted(text, left)
  <2> DEFINE redaction == Redaction(text.found)
             copy == [text EXCEPT !.hidden = redaction.hidden,
                                  !.length = RedactedLength(text.length, redaction)]
  <2>1. Copied(text, left).text = copy
    BY <1>4 DEF Copied, Redacted
  <2> HIDE DEF redaction
  <2>2. /\ copy.dirty = text.dirty /\ copy.from = "peer" /\ copy.found = text.found /\ copy.hidden = redaction.hidden
        /\ copy.length = RedactedLength(text.length, redaction)
    BY <1>3
  <2> HIDE DEF copy
  <2>3. RedactionRight(text.length, text.found, redaction.hidden, RedactedLength(text.length, redaction))
    BY <1>1, RedactedRight DEF redaction
  <2>4. QED BY <1>2, <2>1, <2>2, <2>3
<1>5. CASE ~(text.found # <<>> /\ FitsRedacted(text, left))
  <2>1. Copied(text, left).text = text
    BY <1>5, TextTypes DEF Copied
  <2>2. FitsRedacted(text, left) => RedactionRight(text.length, text.found, text.hidden, text.length)
    BY <1>1, <1>5, PlainRight
  <2>3. QED BY <1>2, <1>3, <2>1, <2>2
<1>6. QED BY <1>4, <1>5

(* Agent Zero's answer is judged. *)
LEMMA JudgesKeeps ==
  ASSUME ZeroInv, Judges
  PROVE  ZeroInv'
<1> DEFINE left == units - Size(reply)
<1>1. /\ task.stage = "worked" /\ verdict' = Judge(left) /\ tight' = ~FitsRedacted(reply.result, left)
      /\ task' = [task EXCEPT !.stage = "judged"] /\ UNCHANGED <<enabled, reply, output, done, taskCount>>
  BY DEF Judges
<1>2. task' \in Task /\ task'.stage = "judged" /\ task'.number = task.number /\ task.number \in done
  BY <1>1 DEF ZeroInv, Task, ZeroStages
<1>3. verdict = NoVerdict /\ output.from \notin {"peer", "overrun"}
  BY <1>1 DEF ZeroInv, OutputTrue
<1> HIDE DEF left
<1>4. VerdictFit'
  <2>1. SUFFICES ASSUME verdict'.success PROVE VerdictFit'
    BY DEF VerdictFit
  <2>2. reply.parses /\ ~(reply.error.length > 0) /\ ~Refused(reply.result)
        /\ verdict' = Copied(reply.result, left)
    <3>1. reply.parses
      BY <1>1, <2>1, TextTypes DEF Judge
    <3>2. ~(reply.error.length > 0)
      <4>1. \A t, n : [Failed EXCEPT !.text = t, !.room = n].success = FALSE
        BY DEF Failed
      <4>2. QED BY <1>1, <2>1, <3>1, <4>1, TextTypes DEF Judge
    <3>3. ~Refused(reply.result)
      BY <1>1, <2>1, <3>1, <3>2, TextTypes DEF Judge
    <3>4. QED BY <1>1, <3>1, <3>2, <3>3 DEF Judge
  <2>3. reply \in Replies /\ reply.error.length \in Nat
    BY ReplyTypes DEF ZeroInv
  <2>4. reply.error.length = 0
    BY <2>2, <2>3
  <2>5. /\ ~verdict'.text.dirty /\ reply.result.length <= MaxOutputLen /\ verdict'.text.from # "overrun"
        /\ FitsRedacted(reply.result, left) =>
             RedactionRight(reply.result.length, verdict'.text.found, verdict'.text.hidden,
                            verdict'.text.length)
    <3> DEFINE c == Copied(reply.result, left)
    <3>1. c.success /\ verdict' = c
      BY <2>1, <2>2
    <3>2. /\ ~c.text.dirty /\ reply.result.length <= MaxOutputLen /\ c.text.from # "overrun"
          /\ FitsRedacted(reply.result, left) =>
               RedactionRight(reply.result.length, c.text.found, c.text.hidden, c.text.length)
      BY <2>2, <2>3, <3>1, CopyFit
    <3> HIDE DEF c
    <3>3. QED BY <3>1, <3>2
  <2>6. reply' = reply /\ done' = done /\ tight' = ~FitsRedacted(reply.result, left)
    BY <1>1
  <2>7. /\ task'.stage \in {"judged", "told"} /\ task'.number \in done'
        /\ ~verdict'.text.dirty /\ reply'.result.length <= MaxOutputLen /\ reply'.error.length = 0
        /\ verdict'.text.from # "overrun"
    BY <1>2, <2>4, <2>5, <2>6
  <2>8. ~tight' => RedactionRight(reply'.result.length, verdict'.text.found, verdict'.text.hidden,
                                  verdict'.text.length)
    BY <2>5, <2>6, Zenon
  <2>9. QED BY <2>7, <2>8, Zenon DEF VerdictFit
<1>5. FailureTrue'
  <2>1. SUFFICES ASSUME ~verdict'.success
                 PROVE  \/ verdict'.text = Ours(1)
                        \/ verdict'.text = reply.error /\ reply.error.length > 0
    BY <1>1 DEF FailureTrue
  <2>2. CASE Judge(left) = Failed
    BY <1>1, <2>2, TextTypes
  <2>3. CASE reply.error.length > 0 /\ Judge(left) # Failed
    <3>1. verdict' = [Failed EXCEPT !.text = reply.error, !.room = reply.error.length + 1]
      BY <1>1, <2>3 DEF Judge
    <3>2. \A t, n : [Failed EXCEPT !.text = t, !.room = n].text = t
      BY DEF Failed
    <3>3. QED BY <2>3, <3>1, <3>2
  <2>4. CASE ~(reply.error.length > 0) /\ Judge(left) # Failed
    <3>1. verdict' = Copied(reply.result, left)
      BY <1>1, <2>4 DEF Judge
    <3>2. Copied(reply.result, left).success \/ Copied(reply.result, left) = Failed
      BY DEF Copied
    <3>3. QED BY <1>1, <2>1, <2>4, <3>1, <3>2
  <2>5. QED BY <2>2, <2>3, <2>4
<1>6. OutputTrue'
  BY <1>1, <1>3 DEF OutputTrue
<1>7. QED BY <1>1, <1>2, <1>4, <1>5, <1>6 DEF ZeroInv

LEMMA ZeroInitially == ZeroInit => ZeroInv
BY TextTypes DEF ZeroInit, ZeroInv, VerdictFit, FailureTrue, OutputTrue

LEMMA ZeroKeeps ==
  ASSUME ZeroInv, [ZeroNext]_zeroVars
  PROVE  ZeroInv'
<1>1. CASE Configure \/ AsksHealth
  BY <1>1 DEF Configure, AsksHealth, ZeroInv, VerdictFit, FailureTrue, OutputTrue
<1>2. CASE NextCall
  <2>1. /\ task' = NoTask /\ reply' = NoReply /\ verdict' = NoVerdict /\ output' = NoText
        /\ UNCHANGED <<tight, done, taskCount>>
    BY <1>2 DEF NextCall
  <2>2. QED BY <2>1, TextTypes DEF ZeroInv, VerdictFit, FailureTrue, OutputTrue
<1>3. ASSUME NEW length \in Lengths, ToolCalled(length) PROVE ZeroInv'
  <2>1. /\ task.stage = "none" /\ taskCount' = taskCount + 1 /\ UNCHANGED <<reply, tight, done>>
        /\ verdict' = IF task'.stage = "judged" THEN Failed ELSE verdict
    BY <1>3 DEF ToolCalled
  <2>2. verdict = NoVerdict /\ length \in Nat /\ taskCount + 1 \in Nat
    BY <2>1, ZeroAssumption DEF ZeroInv
  <2>3. verdict' \in {NoVerdict, Failed}
    BY <2>1, <2>2
  <2>4. task' \in Task /\ task'.stage \in {"sent", "judged", "told"}
        /\ output'.from \notin {"peer", "overrun"}
    <3>1. output.from \notin {"peer", "overrun"}
      BY <2>1 DEF ZeroInv, OutputTrue
    <3>2. CASE ~enabled \/ length = 0
      <4>1. output' = Ours(1) /\ task' = [stage |-> "told", length |-> 0, number |-> taskCount + 1]
        BY <1>3, <3>2 DEF ToolCalled
      <4>2. QED BY <2>2, <4>1, TextTypes DEF Task, ZeroStages
    <3>3. CASE ~(~enabled \/ length = 0)
      <4>1. /\ output' = output
            /\ task' = Delegated(IF length < MaxTaskLen THEN length ELSE MaxTaskLen)
        BY <1>3, <3>3 DEF ToolCalled
      <4>2. QED BY <2>2, <3>1, <4>1, ZeroAssumption DEF Delegated, Task, ZeroStages
    <3>4. QED BY <3>2, <3>3
  <2>5. task'.stage = "sent" => verdict' = NoVerdict
    BY <2>1, <2>2
  <2>6. ~verdict'.success
    BY <2>3, TextTypes
  <2>7. FailureTrue' /\ OutputTrue'
    <3>1. verdict'.text \in {NoText, Ours(1)}
      BY <2>3, TextTypes
    <3>2. QED BY <2>4, <3>1 DEF FailureTrue, OutputTrue
  <2>8. QED BY <2>1, <2>2, <2>4, <2>5, <2>6, <2>7 DEF ZeroInv, VerdictFit
<1>4. CASE Works
  <2>1. /\ task.stage = "sent" /\ task' = [task EXCEPT !.stage = "worked"]
        /\ done' = done \union {task.number} /\ reply' \in Replies
        /\ UNCHANGED <<verdict, output, tight, taskCount>>
    BY <1>4 DEF Works
  <2>2. task' \in Task /\ task'.stage = "worked" /\ task'.number = task.number
    BY <2>1 DEF ZeroInv, Task, ZeroStages
  <2>3. verdict = NoVerdict /\ output.from \notin {"peer", "overrun"}
    BY <2>1 DEF ZeroInv, OutputTrue
  <2>4. FailureTrue' /\ OutputTrue'
    BY <2>1, <2>3, TextTypes DEF FailureTrue, OutputTrue
  <2>5. QED BY <2>1, <2>2, <2>3, <2>4, TextTypes DEF ZeroInv, VerdictFit
<1>5. CASE Fails
  <2>1. /\ task.stage \in {"sent", "worked"} /\ task' = [task EXCEPT !.stage = "judged"]
        /\ reply' = NoReply /\ verdict' = Failed /\ UNCHANGED <<output, tight, done, taskCount>>
    BY <1>5 DEF Fails
  <2>2. task' \in Task /\ task'.stage = "judged"
    BY <2>1 DEF ZeroInv, Task, ZeroStages
  <2>3. output.from \notin {"peer", "overrun"}
    BY <2>1 DEF ZeroInv, OutputTrue
  <2>4. FailureTrue' /\ OutputTrue'
    BY <2>1, <2>3, TextTypes DEF FailureTrue, OutputTrue
  <2>5. QED BY <2>1, <2>2, <2>4, TextTypes DEF ZeroInv, VerdictFit
<1>6. CASE Judges
  BY <1>6, JudgesKeeps
<1>7. CASE Tells
  <2>1. /\ task.stage = "judged" /\ task' = [task EXCEPT !.stage = "told"]
        /\ output' = (IF verdict.text.length > units THEN Ours(0)
                      ELSE IF verdict.success THEN verdict.text ELSE Told(verdict.text))
        /\ UNCHANGED <<reply, verdict, tight, done, taskCount>>
    BY <1>7 DEF Tells
  <2>2. task' \in Task /\ task'.stage = "told" /\ task'.number = task.number
    BY <2>1 DEF ZeroInv, Task, ZeroStages
  <2>3. OutputTrue'
    <3>1. Ours(0).from \notin {"peer", "overrun"}
      BY TextTypes
    <3>2. Told(verdict.text)' = Told(verdict.text)
      BY <2>1 DEF Told
    <3>3. QED BY <2>1, <2>2, <3>1, <3>2 DEF OutputTrue
  <2>4. VerdictFit' /\ FailureTrue'
    BY <2>1, <2>2 DEF ZeroInv, VerdictFit, FailureTrue
  <2>5. QED BY <2>1, <2>2, <2>3, <2>4 DEF ZeroInv
<1>8. CASE UNCHANGED zeroVars
  BY <1>8 DEF zeroVars, ZeroInv, VerdictFit, FailureTrue, OutputTrue
<1>9. QED BY <1>1, <1>2, <1>3, <1>4, <1>5, <1>6, <1>7, <1>8 DEF ZeroNext

(* For any answers, limits and findings and any number of tasks: no result *)
(* reaches the model that the shield would have stopped, that is too long  *)
(* or that came with an error, and what the scanners found in it is hidden *)
(* unless the redacted copy found no room; and what else there is of Agent *)
(* Zero's words, unchecked, is an error that is told as one.               *)
THEOREM WhatIsDeliveredIsFit == ZeroSpec => []DeliveredIsFit
<1>1. ZeroInv => DeliveredIsFit
  <2>1. SUFFICES ASSUME ZeroInv PROVE DeliveredIsFit
    OBVIOUS
  <2>2. output.from = "peer" /\ verdict.success => output = verdict.text
    BY <2>1 DEF ZeroInv, OutputTrue
  <2>3. ASSUME output.from \in {"peer", "overrun"}, ~verdict.success
        PROVE  /\ reply.error.length > 0 /\ [output EXCEPT !.from = "peer"] = reply.error
               /\ output.from = "overrun" => reply.error.length > NoticeMax
    <3>1. /\ output = Told(verdict.text)
          /\ verdict.text \in {NoText, Ours(1)} \/ (verdict.text = reply.error /\ reply.error.length > 0)
      BY <2>1, <2>3 DEF ZeroInv, OutputTrue, FailureTrue
    <3>2. Told(NoText).from = "none" /\ Told(Ours(1)).from = "ours"
      <4>1. NoText.length <= NoticeMax /\ Ours(1).length <= NoticeMax
        <5>1. NoText.length = 0 /\ Ours(1).length = 1
          BY DEF NoText, Ours
        <5>2. NoticeMax \in Nat \ {0}
          BY ZeroAssumption
        <5>3. QED BY <5>1, <5>2
      <4>2. Told(NoText) = NoText /\ Told(Ours(1)) = Ours(1)
        BY <4>1 DEF Told
      <4>3. QED BY <4>2, TextTypes
    <3>3. verdict.text = reply.error /\ reply.error.length > 0
      BY <2>3, <3>1, <3>2
    <3>4. PICK l, d, f : reply.error =
            [from |-> "peer", length |-> l, dirty |-> d, found |-> f, hidden |-> {}]
      <4>1. reply \in Replies
        BY <2>1 DEF ZeroInv
      <4>2. QED BY <3>3, <4>1, ReplyTypes
    <3>5. output = reply.error \/ output = [reply.error EXCEPT !.from = "overrun"]
      BY <3>1, <3>3 DEF Told
    <3>6. [output EXCEPT !.from = "peer"] = reply.error
      BY <3>4, <3>5
    <3>7. output.from = "overrun" => reply.error.length > NoticeMax
      <4>1. reply.error.from = "peer" /\ reply.error.length \in Nat /\ NoticeMax \in Nat
        <5>1. reply \in Replies
          BY <2>1 DEF ZeroInv
        <5>2. QED BY <3>4, <5>1, ReplyTypes, ZeroAssumption
      <4>2. HAVE output.from = "overrun"
      <4>3. ~(reply.error.length <= NoticeMax)
        BY <3>1, <3>3, <4>1, <4>2 DEF Told
      <4>4. QED BY <4>1, <4>3
    <3>8. QED BY <3>3, <3>6, <3>7
  <2>4. output.from = "overrun" => ~verdict.success
    <3>1. SUFFICES ASSUME output.from = "overrun", verdict.success PROVE FALSE
      OBVIOUS
    <3>2. output = verdict.text
      BY <2>1, <3>1 DEF ZeroInv, OutputTrue
    <3>3. verdict.text.from # "overrun"
      BY <2>1, <3>1 DEF ZeroInv, VerdictFit
    <3>4. QED BY <3>1, <3>2, <3>3
  <2>5. VerdictFit
    BY <2>1 DEF ZeroInv
  <2>6. /\ output.from = "peer" /\ verdict.success =>
             /\ ~output.dirty /\ reply.result.length <= MaxOutputLen /\ reply.error.length = 0
             /\ ~tight => RedactionRight(reply.result.length, output.found, output.hidden, output.length)
        /\ verdict.success => task.number \in done
    BY <2>2, <2>5 DEF VerdictFit
  <2> HIDE DEF RedactionRight
  <2>7. QED BY <2>3, <2>4, <2>6 DEF DeliveredIsFit
<1>2. QED BY <1>1, ZeroInitially, ZeroKeeps, PTL DEF ZeroSpec

-----------------------------------------------------------------------------
(***************************************************************************)
(* The index of facts, for any texts, categories, importances, questions   *)
(* and limits, whatever look-ups and updates fail and strings are lost.    *)
(***************************************************************************)

Fact == [id : Nat, content : Contents, category : Categories, importance : 1..10, accessed : Int]

RecallInv ==
  /\ facts \subseteq Fact /\ nextId \in Nat /\ today \in Int
  /\ missed \in [Contents -> Nat]
  /\ FactsKept

(* What FactsKept says of the table, without what it remembers. *)
Given(f) == [id |-> f.id, content |-> f.content, category |-> f.category]
InRange == \A f \in facts : f.id < nextId /\ f.importance \in 1..10
Distinct == \A f, g \in facts : f.id = g.id => f = g
Rarely == \A c \in Contents : Cardinality(Twins(c)) <= 1 + missed[c]

LEMMA KeptIs == FactsKept <=> {Given(f) : f \in facts} = remembered /\ Distinct /\ Rarely /\ InRange
BY DEF FactsKept, Given, Distinct, Rarely, InRange

-----------------------------------------------------------------------------
(* The numbers of the facts are different and below the next: there are    *)
(* finitely many.                                                          *)
LEMMA FactsFinite ==
  ASSUME RecallInv
  PROVE  IsFiniteSet(facts) /\ Cardinality(facts) \in Nat
<1> DEFINE number == [f \in facts |-> f.id]
<1>1. nextId \in Nat /\ IsFiniteSet(0..nextId)
  <2>1. nextId \in Nat
    BY DEF RecallInv
  <2>2. QED BY <2>1, FS_Interval
<1>2. number \in Injection(facts, 0..nextId)
  <2>1. \A f \in facts : f.id \in 0..nextId
    <3>1. \A f \in facts : f.id \in Nat /\ f.id < nextId
      BY DEF RecallInv, FactsKept, Fact
    <3>2. QED BY <1>1, <3>1
  <2>2. number \in [facts -> 0..nextId]
    BY <2>1
  <2>3. \A f, g \in facts : number[f] = number[g] => f = g
    BY DEF RecallInv, FactsKept
  <2>4. QED BY <2>2, <2>3 DEF Injection, IsInjective
<1>3. IsFiniteSet(facts)
  BY <1>1, <1>2, FS_Injection
<1>4. QED BY <1>3, FS_CardinalityType

(* The facts of a content are finitely many. *)
LEMMA TwinsFinite ==
  ASSUME RecallInv, NEW c
  PROVE  IsFiniteSet(Twins(c)) /\ Cardinality(Twins(c)) \in Nat
<1>1. IsFiniteSet(facts) /\ Twins(c) \subseteq facts
  BY FactsFinite DEF Twins
<1>2. IsFiniteSet(Twins(c))
  BY <1>1, FS_Subset
<1>3. QED BY <1>2, FS_CardinalityType

(* Making facts newer leaves the rest of them as it is. *)
LEMMA RefreshKeeps ==
  ASSUME RecallInv, NEW ids, facts' \in {facts, Refresh(ids)}, UNCHANGED <<today, nextId, remembered, missed>>
  PROVE  RecallInv'
<1> DEFINE made(f) == IF f \in facts /\ f.id \in ids THEN [f EXCEPT !.accessed = today] ELSE f
<1>1. ASSUME NEW f \in facts
      PROVE  /\ made(f) \in Fact /\ made(f).id = f.id /\ made(f).content = f.content
             /\ made(f).category = f.category /\ made(f).importance = f.importance
  BY DEF RecallInv, Fact
<1>2. Refresh(ids) = {made(f) : f \in facts}
  BY DEF Refresh
<1> HIDE DEF made
<1>3. CASE facts' = facts
  BY <1>3 DEF RecallInv, FactsKept, Twins
<1>4. CASE facts' = {made(f) : f \in facts}
  <2>1. facts' \subseteq Fact
    BY <1>1, <1>4
  <2>2. {Given(f) : f \in facts'} = {Given(f) : f \in facts}
    <3>1. \A f \in facts : made(f) \in facts' /\ Given(made(f)) = Given(f)
      BY <1>1, <1>4 DEF Given
    <3>2. \A g \in facts' : \E f \in facts : g = made(f)
      BY <1>4
    <3>3. \A g \in facts' : \E f \in facts : Given(g) = Given(f)
      BY <3>1, <3>2
    <3>4. QED BY <3>1, <3>3
  <2>3. Distinct'
    <3>1. \A f, g \in facts : f.id = g.id => f = g
      BY KeptIs DEF RecallInv, Distinct
    <3>2. QED BY <1>1, <1>4, <3>1 DEF Distinct
  <2>4. InRange'
    <3>1. \A f \in facts : f.id < nextId /\ f.importance \in 1..10
      BY KeptIs DEF RecallInv, InRange
    <3>2. QED BY <1>1, <1>4, <3>1 DEF InRange
  <2>5. Rarely'
    <3>1. SUFFICES ASSUME NEW c \in Contents PROVE Cardinality(Twins(c)') <= 1 + missed[c]
      BY DEF Rarely
    <3> DEFINE newer == [f \in Twins(c) |-> made(f)]
    <3>2. newer \in Surjection(Twins(c), Twins(c)')
      <4>1. \A f \in Twins(c) : made(f) \in Twins(c)'
        BY <1>1, <1>4 DEF Twins
      <4>2. \A g \in Twins(c)' : \E f \in Twins(c) : g = made(f)
        BY <1>1, <1>4 DEF Twins
      <4>3. newer \in [Twins(c) -> Twins(c)']
        BY <4>1
      <4>4. QED BY <4>2, <4>3 DEF Surjection
    <3>3. IsFiniteSet(Twins(c)) /\ Cardinality(Twins(c)) \in Nat
      BY TwinsFinite
    <3> HIDE DEF newer
    <3>4. IsFiniteSet(Twins(c)') /\ Cardinality(Twins(c)') <= Cardinality(Twins(c))
      BY <3>2, <3>3, FS_Surjection
    <3>5. Cardinality(Twins(c)') \in Nat
      BY <3>4, FS_CardinalityType
    <3>6. Cardinality(Twins(c)) <= 1 + missed[c] /\ missed[c] \in Nat
      BY KeptIs DEF RecallInv, Rarely
    <3>7. QED BY <3>3, <3>4, <3>5, <3>6
  <2>6. {Given(f) : f \in facts} = remembered
    BY KeptIs DEF RecallInv
  <2>7. {Given(f) : f \in facts'} = remembered'
    BY <2>2, <2>6
  <2>8. FactsKept'
    <3>1. FactsKept' <=> {Given(f) : f \in facts'} = remembered' /\ Distinct' /\ Rarely' /\ InRange'
      BY DEF FactsKept, Given, Distinct, Rarely, InRange
    <3>2. QED BY <2>3, <2>4, <2>5, <2>7, <3>1
  <2>9. QED BY <2>1, <2>8 DEF RecallInv
<1>5. QED BY <1>2, <1>3, <1>4

LEMMA QueryKeeps ==
  ASSUME RecallInv, NEW words, NEW max, Query(words, max)
  PROVE  RecallInv'
<1>1. PICK ids : facts' = Refresh(ids)
  BY DEF Query
<1>2. UNCHANGED <<today, nextId, remembered, missed>>
  BY DEF Query, storedVars
<1>3. QED BY <1>1, <1>2, RefreshKeeps

(* A content that is inserted has a number of its own, and is there more   *)
(* than once only after a look-up that failed.                             *)
LEMMA InsertKeeps ==
  ASSUME RecallInv, NEW content \in Contents, NEW label \in Labels, Insert(content, label),
         missed' = IF Twins(content) = {} THEN missed ELSE [missed EXCEPT ![content] = @ + 1],
         UNCHANGED today
  PROVE  RecallInv'
<1> DEFINE new == [id |-> nextId, content |-> content, category |-> label.category,
                   importance |-> Clamp(label.importance), accessed |-> today]
<1>1. /\ facts' = facts \union {new} /\ nextId' = nextId + 1
      /\ remembered' =
           remembered \union {[id |-> nextId, content |-> content, category |-> label.category]}
  BY DEF Insert
<1>2. label.category \in Categories /\ label.importance \in Int
  BY RecallAssumption
<1>3. Clamp(label.importance) \in 1..10
  BY <1>2 DEF Clamp
<1>4. new \in Fact /\ new.id = nextId /\ new.content = content /\ new.importance \in 1..10
  BY <1>2, <1>3 DEF RecallInv, Fact
<1>5. Given(new) = [id |-> nextId, content |-> content, category |-> label.category]
  BY DEF Given
<1> HIDE DEF new
<1>6. /\ nextId \in Nat /\ facts \subseteq Fact /\ missed \in [Contents -> Nat]
      /\ {Given(f) : f \in facts} = remembered /\ Distinct /\ Rarely /\ InRange
  BY KeptIs DEF RecallInv
<1>7. \A f \in facts : f.id \in Nat /\ f.id < nextId /\ f.importance \in 1..10
  BY <1>6 DEF InRange, Fact
<1>8. {Given(f) : f \in facts'} = remembered'
  BY <1>1, <1>5, <1>6
<1>9. Distinct'
  <2>1. \A f, g \in facts : f.id = g.id => f = g
    BY <1>6 DEF Distinct
  <2>2. \A f \in facts : f.id # new.id
    BY <1>4, <1>6, <1>7
  <2>3. QED BY <1>1, <2>1, <2>2 DEF Distinct
<1>10. InRange'
  BY <1>1, <1>4, <1>6, <1>7 DEF InRange
<1>11. missed' \in [Contents -> Nat]
  BY <1>6
<1>12. Rarely'
  <2>1. SUFFICES ASSUME NEW c \in Contents PROVE Cardinality(Twins(c)') <= 1 + missed'[c]
    BY DEF Rarely
  <2>2. /\ IsFiniteSet(Twins(c)) /\ Cardinality(Twins(c)) \in Nat
        /\ Cardinality(Twins(c)) <= 1 + missed[c] /\ missed[c] \in Nat
    BY <1>6, TwinsFinite DEF Rarely
  <2>3. CASE c # content
    <3>1. Twins(c)' = Twins(c)
      BY <1>1, <1>4, <2>3 DEF Twins
    <3>2. missed'[c] = missed[c]
      BY <1>6, <2>3
    <3>3. QED BY <2>2, <3>1, <3>2
  <2>4. CASE c = content
    <3>1. Twins(c)' = Twins(c) \union {new}
      BY <1>1, <1>4, <2>4 DEF Twins
    <3>2. Cardinality(Twins(c)') <= Cardinality(Twins(c)) + 1
      <4>1. Cardinality(Twins(c) \union {new}) \in {Cardinality(Twins(c)), Cardinality(Twins(c)) + 1}
        <5>1. IsFiniteSet(Twins(c))
          BY <2>2
        <5>2. QED BY <5>1, FS_AddElement
      <4>2. QED BY <2>2, <3>1, <4>1
    <3>3. CASE Twins(c) = {}
      <4>1. Cardinality(Twins(c)) = 0
        BY <3>3, FS_EmptySet
      <4>2. missed'[c] = missed[c] /\ Cardinality(Twins(c)') \in Nat
        <5>1. IsFiniteSet(Twins(c)')
          BY <2>2, <3>1, FS_AddElement
        <5>2. QED BY <2>4, <3>3, <5>1, FS_CardinalityType
      <4>3. QED BY <2>2, <3>2, <4>1, <4>2
    <3>4. CASE Twins(c) # {}
      <4>1. missed'[c] = missed[c] + 1
        BY <1>6, <2>4, <3>4
      <4>2. Cardinality(Twins(c)') \in Nat
        <5>1. IsFiniteSet(Twins(c)')
          BY <2>2, <3>1, FS_AddElement
        <5>2. QED BY <5>1, FS_CardinalityType
      <4>3. QED BY <2>2, <3>2, <4>1, <4>2
    <3>5. QED BY <3>3, <3>4
  <2>5. QED BY <2>3, <2>4
<1>13. FactsKept'
  <2>1. FactsKept' <=> {Given(f) : f \in facts'} = remembered' /\ Distinct' /\ Rarely' /\ InRange'
    BY DEF FactsKept, Given, Distinct, Rarely, InRange
  <2>2. QED BY <1>8, <1>9, <1>10, <1>12, <2>1
<1>14. facts' \subseteq Fact /\ nextId' \in Nat /\ today' \in Int
  BY <1>1, <1>4, <1>6 DEF RecallInv
<1>15. QED BY <1>11, <1>13, <1>14 DEF RecallInv

(* Storing keeps what is stored. *)
LEMMA StoreKeeps ==
  ASSUME RecallInv, NEW content \in Contents, NEW label \in Labels, Store(content, label)
  PROVE  RecallInv'
<1>1. UNCHANGED today
  BY DEF Store
<1>2. CASE \E twin \in Twins(content) :
             facts' \in {facts, Refresh({twin.id})} /\ UNCHANGED storedVars
  BY <1>1, <1>2, RefreshKeeps DEF storedVars
<1>3. CASE /\ Insert(content, label)
           /\ missed' = IF Twins(content) = {} THEN missed ELSE [missed EXCEPT ![content] = @ + 1]
  BY <1>1, <1>3, InsertKeeps
<1>4. CASE UNCHANGED <<facts, storedVars>>
  BY <1>1, <1>4, RefreshKeeps DEF storedVars
<1>5. QED BY <1>2, <1>3, <1>4 DEF Store

(* Forgetting takes the facts it is about, and no other. *)
LEMMA ForgetKeeps ==
  ASSUME RecallInv, NEW gone \in SUBSET facts, ForgetAll(gone)
  PROVE  RecallInv'
<1>1. /\ UNCHANGED <<today, nextId>>
      /\ missed' = [c \in Contents |-> IF \E f \in facts' : f.content = c THEN missed[c] ELSE 0]
  BY DEF ForgetAll
<1>2. /\ facts \subseteq Fact /\ missed \in [Contents -> Nat]
      /\ {Given(f) : f \in facts} = remembered /\ Distinct /\ Rarely /\ InRange
  BY KeptIs DEF RecallInv
<1>3. facts' \subseteq facts
  BY DEF ForgetAll
<1>4. {Given(f) : f \in facts'} = remembered'
  <2>1. CASE UNCHANGED <<facts, remembered>>
    BY <1>2, <2>1
  <2>2. CASE /\ facts' = facts \ gone
             /\ remembered' = {r \in remembered : \A f \in gone : f.id # r.id}
    <3>1. \A f \in facts : Given(f).id = f.id
      BY DEF Given
    <3>2. \A f \in facts : f \in gone <=> \E g \in gone : g.id = f.id
      BY <1>2 DEF Distinct
    <3>3. QED BY <1>2, <2>2, <3>1, <3>2
  <2>3. QED BY <2>1, <2>2 DEF ForgetAll
<1>5. Distinct' /\ InRange'
  BY <1>1, <1>2, <1>3 DEF Distinct, InRange
<1>6. missed' \in [Contents -> Nat]
  BY <1>1, <1>2
<1>7. Rarely'
  <2>1. SUFFICES ASSUME NEW c \in Contents PROVE Cardinality(Twins(c)') <= 1 + missed'[c]
    BY DEF Rarely
  <2>2. /\ IsFiniteSet(Twins(c)) /\ Cardinality(Twins(c)) \in Nat
        /\ Cardinality(Twins(c)) <= 1 + missed[c] /\ missed[c] \in Nat
    BY <1>2, TwinsFinite DEF Rarely
  <2>3. Twins(c)' \subseteq Twins(c)
    BY <1>3 DEF Twins
  <2>4. IsFiniteSet(Twins(c)') /\ Cardinality(Twins(c)') <= Cardinality(Twins(c))
    BY <2>2, <2>3, FS_Subset
  <2>5. Cardinality(Twins(c)') \in Nat
    BY <2>4, FS_CardinalityType
  <2>6. CASE Twins(c)' = {}
    <3>1. Cardinality(Twins(c)') = 0
      BY <2>6, FS_EmptySet
    <3>2. missed'[c] \in Nat
      BY <1>6
    <3>3. QED BY <3>1, <3>2
  <2>7. CASE Twins(c)' # {}
    <3>1. \E f \in facts' : f.content = c
      BY <2>7 DEF Twins
    <3>2. missed'[c] = missed[c]
      BY <1>1, <3>1
    <3>3. QED BY <2>2, <2>4, <2>5, <3>2
  <2>8. QED BY <2>6, <2>7
<1>8. FactsKept'
  <2>1. FactsKept' <=> {Given(f) : f \in facts'} = remembered' /\ Distinct' /\ Rarely' /\ InRange'
    BY DEF FactsKept, Given, Distinct, Rarely, InRange
  <2>2. QED BY <1>4, <1>5, <1>7, <2>1
<1>9. QED BY <1>1, <1>2, <1>3, <1>6, <1>8 DEF RecallInv

-----------------------------------------------------------------------------
LEMMA RecallInvariant == RecallSpec => []RecallInv
<1>1. RecallInit => RecallInv
  <2>1. SUFFICES ASSUME RecallInit PROVE RecallInv
    OBVIOUS
  <2>2. \A c : Twins(c) = {}
    BY <2>1 DEF RecallInit, Twins
  <2>3. Cardinality({}) = 0
    BY FS_EmptySet
  <2>4. missed = [c \in Contents |-> 0] /\ facts = {} /\ remembered = {} /\ nextId = 1 /\ today = 0
    BY <2>1 DEF RecallInit
  <2>5. FactsKept
    BY <2>2, <2>3, <2>4 DEF FactsKept
  <2>6. QED BY <2>4, <2>5 DEF RecallInv
<1>2. RecallInv /\ [RecallNext]_recallVars => RecallInv'
  <2> SUFFICES ASSUME RecallInv, [RecallNext]_recallVars PROVE RecallInv'
    OBVIOUS
  <2>1. CASE NewDay
    <3>1. today' \in Int /\ UNCHANGED <<facts, nextId, remembered, missed>>
      BY <2>1 DEF NewDay, RecallInv, storedVars
    <3>2. QED BY <3>1 DEF RecallInv, FactsKept, Twins
  <2>2. CASE \E content \in Contents, label \in Labels : Store(content, label)
    BY <2>2, StoreKeeps
  <2>3. CASE \E words \in Questions : Recall(words) \/ BuildContext(words)
    BY <2>3, QueryKeeps DEF Recall, BuildContext
  <2>4. CASE List
    BY <2>4, QueryKeeps DEF List
  <2>5. CASE \E id \in 1..nextId : Forget(id)
    BY <2>5, ForgetKeeps DEF Forget
  <2>6. CASE \E category \in Categories : ForgetCategory(category)
    BY <2>6, ForgetKeeps DEF ForgetCategory
  <2>7. CASE RequestEnds \/ QueryCrashes \/ RecallRestarts \/ UNCHANGED recallVars
    <3>1. UNCHANGED <<today, facts, nextId, remembered, missed>>
      BY <2>7 DEF RequestEnds, QueryCrashes, RecallRestarts, recallVars, storedVars
    <3>2. QED BY <3>1 DEF RecallInv, FactsKept, Twins
  <2>8. QED
    BY <2>1, <2>2, <2>3, <2>4, <2>5, <2>6, <2>7 DEF RecallNext, RecallTool
<1>3. QED
  BY <1>1, <1>2, PTL DEF RecallSpec

(* What was stored is in the index under its number and category until one *)
(* of the two is forgotten, and a content in no more rows than one and     *)
(* those that failed look-ups added; no number is given twice, for any     *)
(* texts and questions, whatever look-ups, updates and deletions fail.     *)
THEOREM FactsAreKept == RecallSpec => []FactsKept
<1>1. RecallInv => FactsKept
  BY DEF RecallInv
<1>2. QED
  BY <1>1, RecallInvariant, PTL

-----------------------------------------------------------------------------
(***************************************************************************)
(* The rows of the query, newest first: how many are ahead of a fact is    *)
(* its place among them, and no two facts share a place.                   *)
(***************************************************************************)

(* The dates of the facts are of the past. *)
InTime == today \in 0..MaxDay /\ \A f \in facts : f.accessed \in 0..today

(* Of two facts one is ahead of the other, and so are those ahead of it. *)
LEMMA AheadOrdered ==
  ASSUME RecallInv
  PROVE  /\ \A f \in facts : Ahead(f) \subseteq facts \ {f}
         /\ \A f, g \in facts : f # g => f \in Ahead(g) \/ g \in Ahead(f)
         /\ \A f, g \in facts : f \in Ahead(g) => Ahead(f) \subseteq Ahead(g) \ {f}
<1>1. \A f \in facts : f.accessed \in Int /\ f.id \in Int
  BY DEF RecallInv, Fact
<1>2. \A f, g \in facts : f.id = g.id => f = g
  BY DEF RecallInv, FactsKept
<1>3. \A f \in facts : Ahead(f) \subseteq facts \ {f}
  BY <1>1 DEF Ahead
<1>4. \A f, g \in facts : f # g => f \in Ahead(g) \/ g \in Ahead(f)
  BY <1>1, <1>2 DEF Ahead
<1>5. \A f, g \in facts : f \in Ahead(g) => Ahead(f) \subseteq Ahead(g) \ {f}
  BY <1>1 DEF Ahead
<1>6. QED BY <1>3, <1>4, <1>5

(* The places of the facts are the numbers below how many there are. *)
LEMMA PlacesOfFacts ==
  ASSUME RecallInv
  PROVE  /\ \A f \in facts : Cardinality(Ahead(f)) \in 0..Cardinality(facts) - 1
         /\ \A f, g \in facts : Cardinality(Ahead(f)) = Cardinality(Ahead(g)) => f = g
         /\ \A n \in 0..Cardinality(facts) - 1 : \E f \in facts : Cardinality(Ahead(f)) = n
<1> DEFINE total == Cardinality(facts)
           place == [f \in facts |-> Cardinality(Ahead(f))]
<1>1. IsFiniteSet(facts) /\ total \in Nat
  BY FactsFinite
<1>2. \A f \in facts : IsFiniteSet(Ahead(f)) /\ Cardinality(Ahead(f)) \in Nat
  <2>1. TAKE f \in facts
  <2>2. Ahead(f) \subseteq facts
    BY AheadOrdered
  <2>3. IsFiniteSet(Ahead(f))
    BY <1>1, <2>2, FS_Subset
  <2>4. QED BY <2>3, FS_CardinalityType
<1>3. \A f \in facts : Cardinality(Ahead(f)) \in 0..total - 1
  <2>1. TAKE f \in facts
  <2>2. IsFiniteSet(facts \ {f}) /\ Cardinality(facts \ {f}) = total - 1
    BY <1>1, FS_RemoveElement
  <2>3. Ahead(f) \subseteq facts \ {f}
    BY AheadOrdered
  <2>4. Cardinality(Ahead(f)) <= total - 1
    BY <2>2, <2>3, FS_Subset
  <2>5. QED BY <1>1, <1>2, <2>4
<1>4. \A f, g \in facts : f \in Ahead(g) => Cardinality(Ahead(f)) < Cardinality(Ahead(g))
  <2>1. TAKE f, g \in facts
  <2>2. HAVE f \in Ahead(g)
  <2>3. Ahead(f) \subseteq Ahead(g) \ {f}
    BY <2>2, AheadOrdered
  <2>4. IsFiniteSet(Ahead(g) \ {f}) /\ Cardinality(Ahead(g) \ {f}) = Cardinality(Ahead(g)) - 1
    BY <1>2, <2>2, FS_RemoveElement
  <2>5. Cardinality(Ahead(f)) <= Cardinality(Ahead(g)) - 1
    BY <2>3, <2>4, FS_Subset
  <2>6. QED BY <1>2, <2>5
<1>5. \A f, g \in facts : Cardinality(Ahead(f)) = Cardinality(Ahead(g)) => f = g
  <2>1. TAKE f, g \in facts
  <2>2. f # g => f \in Ahead(g) \/ g \in Ahead(f)
    BY AheadOrdered
  <2>3. Cardinality(Ahead(f)) \in Nat /\ Cardinality(Ahead(g)) \in Nat
    BY <1>2
  <2>4. /\ f \in Ahead(g) => Cardinality(Ahead(f)) < Cardinality(Ahead(g))
        /\ g \in Ahead(f) => Cardinality(Ahead(g)) < Cardinality(Ahead(f))
    BY <1>4
  <2>5. QED BY <2>2, <2>3, <2>4
<1>6. \A n \in 0..total - 1 : \E f \in facts : Cardinality(Ahead(f)) = n
  <2>1. place \in Injection(facts, 0..total - 1)
    <3>1. place \in [facts -> 0..total - 1]
      BY <1>3
    <3>2. \A f, g \in facts : place[f] = place[g] => f = g
      BY <1>5
    <3>3. QED BY <3>1, <3>2 DEF Injection, IsInjective
  <2>2. IsFiniteSet(0..total - 1) /\ Cardinality(0..total - 1) = total
    BY <1>1, FS_Interval
  <2> HIDE DEF place, total
  <2>3. place \in Surjection(facts, 0..total - 1)
    BY <2>1, <2>2, FS_Injection DEF total
  <2>4. \A n \in 0..total - 1 : \E f \in facts : place[f] = n
    BY <2>3 DEF Surjection
  <2>5. QED BY <2>4 DEF place
<1>7. QED BY <1>3, <1>5, <1>6

(* A fact is in the row after those ahead of it. *)
LEMMA RowOfFact ==
  ASSUME RecallInv
  PROVE  /\ \A n \in 1..Cardinality(facts) : RowOf(n) \in facts
         /\ \A f \in facts : RowOf(Cardinality(Ahead(f)) + 1) = f
<1>1. Cardinality(facts) \in Nat
  BY FactsFinite
<1>2. \A n \in 1..Cardinality(facts) : RowOf(n) \in facts
  <2>1. TAKE n \in 1..Cardinality(facts)
  <2>2. n - 1 \in 0..Cardinality(facts) - 1
    BY <1>1
  <2>3. \E f \in facts : Cardinality(Ahead(f)) = n - 1
    BY <2>2, PlacesOfFacts
  <2>4. QED BY <2>3 DEF RowOf
<1>3. \A f \in facts : RowOf(Cardinality(Ahead(f)) + 1) = f
  <2>1. TAKE f \in facts
  <2> DEFINE n == Cardinality(Ahead(f)) + 1
  <2>2. Cardinality(Ahead(f)) = n - 1
    <3>1. Cardinality(Ahead(f)) \in Int
      BY PlacesOfFacts
    <3>2. QED BY <3>1
  <2> HIDE DEF n
  <2>3. RowOf(n) \in facts /\ Cardinality(Ahead(RowOf(n))) = n - 1
    BY <2>2 DEF RowOf
  <2>4. RowOf(n) = f
    BY <2>2, <2>3, PlacesOfFacts
  <2>5. QED BY <2>4 DEF n
<1>4. QED BY <1>2, <1>3

(* A score is a number. *)
LEMMA ScoresAreNumbers ==
  ASSUME RecallInv, InTime, NEW f \in facts, NEW words, NEW lost
  PROVE  Score(f, words, lost) \in Int
<1>1. Overlap(f, words) \in Int
  <2>1. f.content \in Contents
    BY DEF RecallInv, Fact
  <2>2. IsFiniteSet(WordsOf[f.content])
    BY <2>1, RecallAssumption
  <2>3. IsFiniteSet(words \intersect WordsOf[f.content])
    BY <2>2, FS_Subset
  <2>4. QED BY <2>3, FS_CardinalityType DEF Overlap
<1>2. Recency(f) \in Int
  <2>1. today \in 0..MaxDay /\ f.accessed \in 0..today /\ MaxDay \in Nat
    BY RecallAssumption DEF InTime
  <2>2. today - f.accessed + 1 \in 1..MaxDay + 1
    BY <2>1
  <2>3. Decay[today - f.accessed + 1] \in 1..100
    BY <2>2, RecallAssumption
  <2>4. QED BY <2>3 DEF Recency
<1>3. f.importance \in Int
  BY DEF RecallInv, Fact
<1> DEFINE overlap == IF "keywords" \in lost THEN 0 ELSE Overlap(f, words)
           recency == IF "accessed" \in lost THEN 50 ELSE Recency(f)
           more == IF f.category \in {"user", "identity"} THEN 100 ELSE 0
<1>4. Score(f, words, lost) = (IF overlap = 0 /\ f.importance >= 8 THEN 2 * recency
                         ELSE overlap * (5 + f.importance) * recency) + more
  BY DEF Score
<1>5. more \in Int
  OBVIOUS
<1>6. overlap \in Int /\ recency \in Int
  BY <1>1, <1>2
<1> HIDE DEF more, overlap, recency
<1>7. overlap * (5 + f.importance) \in Int
  BY <1>3, <1>6
<1>8. overlap * (5 + f.importance) * recency \in Int
  BY <1>6, <1>7
<1>9. QED BY <1>4, <1>5, <1>6, <1>8

-----------------------------------------------------------------------------
(***************************************************************************)
(* What a question gets.                                                   *)
(***************************************************************************)

Row == [fact : Fact, score : Int, blank : BOOLEAN]
Looked(limit) == IF limit < Cardinality(facts) THEN limit ELSE Cardinality(facts)

(* The beginning of a list. *)
LEMMA UptoIs ==
  ASSUME NEW S, NEW s \in Seq(S), NEW n \in Nat
  PROVE  LET u == Upto(n, s)
             m == IF n < Len(s) THEN n ELSE Len(s)
         IN  /\ u \in Seq(S) /\ Len(u) = m /\ m \in Nat /\ m <= Len(s) /\ m <= n
             /\ \A i \in 1..m : u[i] = s[i]
<1> DEFINE m == IF n < Len(s) THEN n ELSE Len(s)
<1>1. Len(s) \in Nat
  OBVIOUS
<1>2. m \in Nat /\ m <= Len(s) /\ m <= n
  BY <1>1
<1>3. Upto(n, s) = SubSeq(s, 1, m)
  BY DEF Upto
<1> HIDE DEF m
<1>4. \A i \in 1..m : s[i] \in S
  BY <1>1, <1>2
<1>5. SubSeq(s, 1, m) = [i \in 1..m |-> s[i]]
  BY <1>1, <1>2
<1>6. /\ SubSeq(s, 1, m) \in Seq(S) /\ Len(SubSeq(s, 1, m)) = m
      /\ \A i \in 1..m : SubSeq(s, 1, m)[i] = s[i]
  BY <1>2, <1>4, <1>5
<1>7. QED BY <1>2, <1>3, <1>6 DEF m

(* A fact that is not among the newest has as many newer ones. *)
LEMMA OldFacts ==
  ASSUME RecallInv, NEW f \in facts, NEW limit \in Nat, limit <= Cardinality(Ahead(f))
  PROVE  Cardinality({g \in facts : g.accessed >= f.accessed /\ g # f}) >= limit
<1> DEFINE newer == {g \in facts : g.accessed >= f.accessed /\ g # f}
<1>1. Ahead(f) \subseteq newer
  <2>1. \A g \in facts : g.accessed \in Int
    BY DEF RecallInv, Fact
  <2>2. Ahead(f) \subseteq facts \ {f}
    BY AheadOrdered
  <2>3. QED BY <2>1, <2>2 DEF Ahead
<1>2. IsFiniteSet(newer)
  BY FactsFinite, FS_Subset
<1>3. Cardinality(newer) \in Nat /\ Cardinality(Ahead(f)) <= Cardinality(newer)
  BY <1>1, <1>2, FS_Subset, FS_CardinalityType
<1>4. Cardinality(Ahead(f)) \in Int /\ limit \in Nat
  BY PlacesOfFacts
<1>5. QED BY <1>3, <1>4

(* The rows that are looked at. *)
LEMMA CandidatesAre ==
  ASSUME RecallInv, InTime, NEW words, NEW limit \in Nat, NEW lost
  PROVE  /\ Looked(limit) \in Nat /\ Looked(limit) <= Cardinality(facts)
         /\ Candidates(words, limit, lost) \in Seq(Row) /\ Len(Candidates(words, limit, lost)) = Looked(limit)
         /\ \A f \in facts :
              \/ Cardinality({g \in facts : g.accessed >= f.accessed /\ g # f}) >= limit
              \/ \E n \in 1..Looked(limit) : Candidates(words, limit, lost)[n] = ReadRow(f, words, lost[f])
<1>1. Cardinality(facts) \in Nat /\ limit \in Nat
  BY FactsFinite
<1>2. Looked(limit) \in Nat /\ Looked(limit) <= Cardinality(facts)
  BY <1>1 DEF Looked
<1>3. Candidates(words, limit, lost) = [n \in 1..Looked(limit) |-> ReadRow(RowOf(n), words, lost[RowOf(n)])]
  BY DEF Candidates, Looked, Least
<1>4. \A n \in 1..Looked(limit) : RowOf(n) \in facts
  <2>1. TAKE n \in 1..Looked(limit)
  <2>2. n \in 1..Cardinality(facts)
    BY <1>1, <1>2
  <2>3. QED BY <2>2, RowOfFact
<1>5. \A n \in 1..Looked(limit) : ReadRow(RowOf(n), words, lost[RowOf(n)]) \in Row
  <2>1. TAKE n \in 1..Looked(limit)
  <2>2. RowOf(n) \in facts
    BY <1>4
  <2>3. RowOf(n) \in Fact
    BY <2>2 DEF RecallInv
  <2>4. Score(RowOf(n), words, lost[RowOf(n)]) \in Int
    BY <2>2, ScoresAreNumbers
  <2>5. QED BY <2>3, <2>4 DEF Row, ReadRow
<1>6. Candidates(words, limit, lost) \in Seq(Row) /\ Len(Candidates(words, limit, lost)) = Looked(limit)
  BY <1>2, <1>3, <1>5
<1>7. ASSUME NEW f \in facts
      PROVE  \/ Cardinality({g \in facts : g.accessed >= f.accessed /\ g # f}) >= limit
             \/ \E n \in 1..Looked(limit) : Candidates(words, limit, lost)[n] = ReadRow(f, words, lost[f])
  <2> DEFINE n == Cardinality(Ahead(f)) + 1
  <2>1. Cardinality(Ahead(f)) \in 0..Cardinality(facts) - 1
    BY PlacesOfFacts
  <2>2. CASE limit <= Cardinality(Ahead(f))
    BY <2>2, OldFacts
  <2>3. CASE ~(limit <= Cardinality(Ahead(f)))
    <3>1. n \in 1..Looked(limit)
      BY <1>1, <2>1, <2>3 DEF Looked
    <3>2. RowOf(n) = f
      BY RowOfFact
    <3> HIDE DEF n
    <3>3. Candidates(words, limit, lost)[n] = ReadRow(f, words, lost[f])
      BY <1>3, <3>1, <3>2
    <3>4. QED BY <3>1, <3>3
  <2>4. QED BY <2>2, <2>3
<1>8. QED BY <1>2, <1>6, <1>7

(* The sort keeps every row, highest scores first. *)
LEMMA RankedRight ==
  ASSUME NEW rows \in Seq(Row)
  PROVE  /\ Ranked(rows) \in Seq(Row) /\ Len(Ranked(rows)) = Len(rows)
         /\ \A i, k \in 1..Len(rows) : i <= k => Ranked(rows)[i].score >= Ranked(rows)[k].score
         /\ \A n \in 1..Len(rows) : \E k \in 1..Len(rows) : Ranked(rows)[k] = rows[n]
<1> DEFINE total == Len(rows)
           ranks == [i \in DOMAIN rows |-> 0 - rows[i].score]
           order == Order(ranks)
<1>1. total \in Nat /\ DOMAIN rows = 1..total
  OBVIOUS
<1>2. \A i \in 1..total : rows[i] \in Row /\ rows[i].score \in Int
  <2>1. \A i \in 1..Len(rows) : rows[i] \in Row
    BY ElementOfSeq
  <2>2. \A r \in Row : r.score \in Int
    BY DEF Row
  <2>3. QED BY <2>1, <2>2
<1>3. /\ ranks \in Seq(Int) /\ Len(ranks) = total
      /\ \A i \in 1..total : ranks[i] = 0 - rows[i].score
  BY <1>1, <1>2
<1>4. Ranked(rows) = [k \in 1..total |-> rows[order[k]]]
  BY <1>1 DEF Ranked
<1> HIDE DEF ranks
<1>5. InOrder(order, ranks, total)
  BY <1>3, OrderSorts
<1> HIDE DEF order, total
<1>6. /\ \A k \in 1..total : order[k] \in 1..total
      /\ \A e \in 1..total : \E k \in 1..total : order[k] = e
      /\ \A j, k \in 1..total : j <= k => ranks[order[j]] <= ranks[order[k]]
  BY <1>5 DEF InOrder
<1>7. Ranked(rows) \in Seq(Row) /\ Len(Ranked(rows)) = total
  <2>1. \A k \in 1..total : rows[order[k]] \in Row
    BY <1>2, <1>6
  <2>2. QED BY <1>1, <1>4, <2>1
<1>8. \A k \in 1..total : Ranked(rows)[k] = rows[order[k]]
  BY <1>4
<1>9. \A i, k \in 1..total : i <= k => Ranked(rows)[i].score >= Ranked(rows)[k].score
  <2>1. TAKE i, k \in 1..total
  <2>2. HAVE i <= k
  <2>3. /\ rows[order[i]].score \in Int /\ rows[order[k]].score \in Int
        /\ ranks[order[i]] = 0 - rows[order[i]].score /\ ranks[order[k]] = 0 - rows[order[k]].score
    BY <1>2, <1>3, <1>6
  <2>4. ranks[order[i]] <= ranks[order[k]]
    BY <1>6, <2>2
  <2>5. rows[order[i]].score >= rows[order[k]].score
    BY <2>3, <2>4
  <2>6. QED BY <1>8, <2>5
<1>10. \A n \in 1..total : \E k \in 1..total : Ranked(rows)[k] = rows[n]
  BY <1>6, <1>8
<1>11. QED BY <1>7, <1>9, <1>10 DEF total

(* The best rows of a question, and what is missing from them. *)
LEMMA BestRight ==
  ASSUME RecallInv, InTime, NEW words, NEW max \in Nat, NEW limit \in Nat, NEW lost
  PROVE  LET best == Best(words, max, limit, lost) IN
         /\ best \in Seq(Row)
         /\ \A i, k \in 1..Len(best) : i <= k => best[i].score >= best[k].score
         /\ \A f \in facts :
              \/ Cardinality({g \in facts : g.accessed >= f.accessed /\ g # f}) >= limit
              \/ \E i \in 1..Len(best) : best[i].fact = f
              \/ Len(best) = max /\ \A i \in 1..Len(best) : best[i].score >= Score(f, words, lost[f])
<1> DEFINE rows == Candidates(words, limit, lost)
           ranked == Ranked(rows)
           best == Best(words, max, limit, lost)
<1>1. rows \in Seq(Row) /\ Len(rows) = Looked(limit) /\ Looked(limit) \in Nat
  BY CandidatesAre
<1>2. /\ ranked \in Seq(Row) /\ Len(ranked) = Looked(limit)
      /\ \A i, k \in 1..Looked(limit) : i <= k => ranked[i].score >= ranked[k].score
      /\ \A n \in 1..Looked(limit) : \E k \in 1..Looked(limit) : ranked[k] = rows[n]
  <2> HIDE DEF rows
  <2>1. QED BY <1>1, RankedRight
<1>3. best = Upto(max, ranked)
  BY DEF Best
<1>4. \A f \in facts :
        \/ Cardinality({g \in facts : g.accessed >= f.accessed /\ g # f}) >= limit
        \/ \E n \in 1..Looked(limit) : rows[n] = ReadRow(f, words, lost[f])
  BY CandidatesAre
<1> HIDE DEF rows, ranked, best
<1> DEFINE shown == IF max < Looked(limit) THEN max ELSE Looked(limit)
<1>5. /\ best \in Seq(Row) /\ Len(best) = shown /\ shown \in Nat /\ shown <= Looked(limit)
      /\ \A i \in 1..shown : best[i] = ranked[i]
  BY <1>2, <1>3, UptoIs
<1>6. max < Looked(limit) => shown = max
  OBVIOUS
<1>7. ~(max < Looked(limit)) => shown = Looked(limit)
  OBVIOUS
<1> HIDE DEF shown
<1>8. \A i, k \in 1..shown : i <= k => best[i].score >= best[k].score
  <2>1. TAKE i, k \in 1..shown
  <2>2. HAVE i <= k
  <2>3. i \in 1..Looked(limit) /\ k \in 1..Looked(limit)
    BY <1>1, <1>5
  <2>4. ranked[i].score >= ranked[k].score
    BY <1>2, <2>2, <2>3
  <2>5. best[i] = ranked[i] /\ best[k] = ranked[k]
    BY <1>5
  <2>6. QED BY <2>4, <2>5
<1>9. ASSUME NEW f \in facts
      PROVE  \/ Cardinality({g \in facts : g.accessed >= f.accessed /\ g # f}) >= limit
             \/ \E i \in 1..shown : best[i].fact = f
             \/ shown = max /\ \A i \in 1..shown : best[i].score >= Score(f, words, lost[f])
  <2>1. SUFFICES ASSUME ~(Cardinality({g \in facts : g.accessed >= f.accessed /\ g # f}) >= limit)
                 PROVE  \/ \E i \in 1..shown : best[i].fact = f
                        \/ shown = max /\ \A i \in 1..shown : best[i].score >= Score(f, words, lost[f])
    OBVIOUS
  <2>2. PICK n \in 1..Looked(limit) : rows[n] = ReadRow(f, words, lost[f])
    BY <1>4, <2>1
  <2>3. PICK k \in 1..Looked(limit) : ranked[k] = rows[n]
    BY <1>2
  <2>4. ranked[k].fact = f /\ ranked[k].score = Score(f, words, lost[f])
    BY <2>2, <2>3 DEF ReadRow
  <2>5. CASE k <= shown
    <3>1. k \in 1..shown
      BY <1>1, <1>5, <2>5
    <3>2. QED BY <1>5, <2>4, <3>1
  <2>6. CASE ~(k <= shown)
    <3>1. max < Looked(limit)
      BY <1>1, <1>7, <2>6
    <3>2. ASSUME NEW i \in 1..shown PROVE best[i].score >= Score(f, words, lost[f])
      <4>1. i \in 1..Looked(limit) /\ i <= k
        BY <1>1, <1>5, <2>6
      <4>2. ranked[i].score >= ranked[k].score
        BY <1>2, <4>1
      <4>3. QED BY <1>5, <2>4, <4>2
    <3>3. QED BY <1>6, <3>1, <3>2
  <2>7. QED BY <2>5, <2>6
<1>10. /\ \A i, k \in 1..Len(best) : i <= k => best[i].score >= best[k].score
       /\ \A f \in facts :
              \/ Cardinality({g \in facts : g.accessed >= f.accessed /\ g # f}) >= limit
              \/ \E i \in 1..Len(best) : best[i].fact = f
              \/ Len(best) = max /\ \A i \in 1..Len(best) : best[i].score >= Score(f, words, lost[f])
  BY <1>5, <1>8, <1>9
<1>11. QED BY <1>5, <1>10 DEF best

(* The smaller of two numbers. *)
LEMMA SmallerIs == \A u, l \in Nat : u <= l => (IF u < l THEN u ELSE l) = u
OBVIOUS

(* The prompt shows a beginning of them, as far as they have a score and   *)
(* the budget lasts.                                                       *)
LEMMA ShownRight ==
  ASSUME NEW results \in Seq(Row),
         \A i, k \in 1..Len(results) : i <= k => results[i].score >= results[k].score
  PROVE  /\ IsPrefix(Shown(results), results)
         /\ \A i \in 1..Len(results) :
              results[i].score > 0 => i <= Len(Shown(results)) \/ Len(Shown(results)) = PromptLines
<1> DEFINE cut == {i \in DOMAIN results : i > ZeroLines /\ results[i].score <= 0}
           first == CHOOSE i \in cut : \A k \in cut : i <= k
           upto == IF cut = {} THEN Len(results) ELSE first - 1
           head == Upto(upto, results)
           shown == Shown(results)
<1>1. DOMAIN results = 1..Len(results) /\ Len(results) \in Nat /\ PromptLines \in Nat
  BY RecallAssumption
<1>2. \A i \in 1..Len(results) : results[i].score \in Int
  <2>1. \A i \in 1..Len(results) : results[i] \in Row
    BY ElementOfSeq
  <2>2. \A r \in Row : r.score \in Int
    BY DEF Row
  <2>3. QED BY <2>1, <2>2
<1>3. shown = Upto(PromptLines, head)
  BY DEF Shown
<1>4. cut # {} => first \in cut
  <2>1. cut \in SUBSET Nat
    BY <1>1
  <2>2. cut # {} => \E i \in cut : \A k \in cut : i <= k
    BY <2>1, LeastExists
  <2>3. QED BY <2>2
<1>5. upto \in Nat /\ upto <= Len(results)
  BY <1>1, <1>4
<1>6. \A i \in 1..Len(results) : results[i].score > 0 => i <= upto
  <2>1. TAKE i \in 1..Len(results)
  <2>2. HAVE results[i].score > 0
  <2>3. CASE cut = {}
    BY <1>1, <2>3
  <2>4. CASE cut # {}
    <3>1. first \in 1..Len(results) /\ results[first].score <= 0
      BY <1>1, <1>4, <2>4
    <3> HIDE DEF first
    <3>2. ~(first <= i)
      <4>1. SUFFICES ASSUME first <= i PROVE FALSE
        OBVIOUS
      <4>2. results[first].score >= results[i].score
        BY <3>1, <4>1
      <4>3. results[first].score \in Int /\ results[i].score \in Int
        BY <1>2, <3>1
      <4>4. QED BY <2>2, <3>1, <4>2, <4>3
    <3>3. upto = first - 1
      BY <2>4
    <3>4. QED BY <1>1, <3>1, <3>2, <3>3
  <2>5. QED BY <2>3, <2>4
<1> HIDE DEF first, cut, upto
<1>7. head \in Seq(Row) /\ Len(head) = upto /\ \A i \in 1..upto : head[i] = results[i]
  <2>1. /\ head \in Seq(Row) /\ Len(head) = IF upto < Len(results) THEN upto ELSE Len(results)
        /\ \A i \in 1..(IF upto < Len(results) THEN upto ELSE Len(results)) : head[i] = results[i]
    BY <1>5, UptoIs
  <2>2. Len(results) \in Nat
    OBVIOUS
  <2>3. (IF upto < Len(results) THEN upto ELSE Len(results)) = upto
    BY <1>5, <2>2, SmallerIs, Zenon
  <2>4. QED BY <2>1, <2>3
<1> HIDE DEF head
<1> DEFINE m == IF PromptLines < upto THEN PromptLines ELSE upto
<1>8. /\ shown \in Seq(Row) /\ Len(shown) = m /\ m \in Nat /\ m <= upto
      /\ \A i \in 1..m : shown[i] = head[i]
  BY <1>1, <1>3, <1>7, UptoIs
<1>9. \A i \in 1..Len(results) : results[i].score > 0 => i <= m \/ m = PromptLines
  BY <1>1, <1>5, <1>6
<1> HIDE DEF m, shown
<1>10. IsPrefix(shown, results)
  <2>1. m <= Len(results) /\ \A i \in 1..m : shown[i] = results[i]
    BY <1>1, <1>5, <1>7, <1>8
  <2>2. SubSeq(shown, 1, m) = [i \in 1..m |-> shown[i]] /\ SubSeq(results, 1, m) = [i \in 1..m |-> results[i]]
    BY <1>1, <1>8, <2>1
  <2>3. [i \in 1..m |-> shown[i]] = [i \in 1..m |-> results[i]]
    BY <2>1
  <2>4. SubSeq(shown, 1, m) = SubSeq(results, 1, m)
    BY <2>2, <2>3
  <2>5. QED BY <1>8, <2>1, <2>4 DEF IsPrefix
<1>11. QED BY <1>8, <1>9, <1>10 DEF shown

-----------------------------------------------------------------------------
(* The dates stay in the past. *)
LEMMA TimePasses ==
  ASSUME RecallInv, InTime, [RecallNext]_recallVars
  PROVE  InTime'
<1>1. today \in 0..MaxDay /\ MaxDay \in Nat /\ \A f \in facts : f.accessed \in 0..today
  BY RecallAssumption DEF InTime
<1>2. CASE NewDay
  <2>1. today < MaxDay /\ today' = today + 1 /\ facts' = facts
    BY <1>2 DEF NewDay
  <2>2. today' \in 0..MaxDay
    BY <1>1, <2>1
  <2>3. \A f \in facts : f.accessed \in 0..today'
    BY <1>1, <2>1
  <2>4. QED BY <2>1, <2>2, <2>3 DEF InTime
<1>3. ASSUME NEW ids, facts' = Refresh(ids), today' = today PROVE InTime'
  <2>1. \A f \in facts : [f EXCEPT !.accessed = today].accessed = today
    BY DEF RecallInv, Fact
  <2>2. \A g \in Refresh(ids) : g.accessed \in 0..today
    <3>1. today \in 0..today
      BY <1>1
    <3>2. TAKE g \in Refresh(ids)
    <3>3. PICK f \in facts : g = IF f.id \in ids THEN [f EXCEPT !.accessed = today] ELSE f
      BY DEF Refresh
    <3>4. g.accessed = today \/ g.accessed = f.accessed
      BY <2>1, <3>3
    <3>5. QED BY <1>1, <3>1, <3>4
  <2>3. QED BY <1>1, <1>3, <2>2 DEF InTime
<1>4. ASSUME facts' \subseteq facts, today' = today PROVE InTime'
  BY <1>1, <1>4 DEF InTime
<1>5. ASSUME NEW content, NEW label, Store(content, label)
      PROVE  InTime'
  <2>1. today' = today
    BY <1>5 DEF Store
  <2>2. CASE \E twin \in Twins(content) : facts' \in {facts, Refresh({twin.id})}
    BY <1>3, <1>4, <2>1, <2>2
  <2>3. CASE Insert(content, label)
    <3> DEFINE new == [id |-> nextId, content |-> content, category |-> label.category,
                       importance |-> Clamp(label.importance), accessed |-> today]
    <3>1. facts' = facts \union {new}
      BY <2>3 DEF Insert
    <3>2. new.accessed = today
      OBVIOUS
    <3> HIDE DEF new
    <3>3. QED BY <1>1, <2>1, <3>1, <3>2 DEF InTime
  <2>4. CASE facts' = facts
    BY <1>4, <2>1, <2>4
  <2>5. QED BY <1>5, <2>2, <2>3, <2>4 DEF Store
<1>6. ASSUME NEW words, NEW max, Query(words, max) PROVE InTime'
  <2>1. today' = today /\ \E ids : facts' = Refresh(ids)
    BY <1>6 DEF Query
  <2>2. QED BY <1>3, <2>1
<1>7. ASSUME NEW gone, ForgetAll(gone) PROVE InTime'
  <2>1. facts' \subseteq facts /\ today' = today
    BY <1>7 DEF ForgetAll
  <2>2. QED BY <1>4, <2>1
<1>8. CASE RequestEnds \/ QueryCrashes \/ RecallRestarts \/ UNCHANGED recallVars
  BY <1>4, <1>8 DEF recallVars, RequestEnds, QueryCrashes, RecallRestarts
<1>9. QED
  BY <1>2, <1>5, <1>6, <1>7, <1>8 DEF RecallNext, RecallTool, Recall, List, BuildContext, Forget, ForgetCategory

(* What a query returns is what it should. *)
LEMMA QueryFindsBest ==
  ASSUME RecallInv, InTime, NEW words, NEW max \in Nat, Query(words, max),
         prompt' \in {<<>>, Shown(found')}
  PROVE  BestFirst'
<1>0. PICK limit \in Limits, lost \in Losses :
        /\ found' = Best(words, max, limit, lost)
        /\ asked' = [words |-> words, max |-> max, table |-> facts, limit |-> limit, lost |-> lost]
  BY DEF Query
<1> DEFINE best == Best(words, max, limit, lost)
           ids == {best[i].fact.id : i \in DOMAIN best}
           old(f) == Cardinality({g \in facts : g.accessed >= f.accessed /\ g # f}) >= limit
           score(f) == Score(f, words, lost[f])
<1>1. found' = best /\ today' = today /\ limit \in Nat
  BY <1>0, RecallAssumption DEF Query, Limits
<1>2. /\ best \in Seq(Row)
      /\ \A i, k \in 1..Len(best) : i <= k => best[i].score >= best[k].score
      /\ \A f \in facts :
              \/ old(f)
              \/ \E i \in 1..Len(best) : best[i].fact = f
              \/ Len(best) = max /\ \A i \in 1..Len(best) : best[i].score >= score(f)
  BY <1>1, BestRight
<1> HIDE DEF best
<1>3. DOMAIN best = 1..Len(best) /\ Len(best) \in Nat
  BY <1>2
<1>4. \A i, k \in DOMAIN best : i < k => best[i].score >= best[k].score
  <2>1. \A i, k \in 1..Len(best) : i < k => i <= k
    OBVIOUS
  <2>2. QED BY <1>2, <1>3, <2>1
<1>5. \A f \in facts : f.id \notin ids =>
        old(f) \/ (Len(best) = max /\ \A i \in DOMAIN best : best[i].score >= score(f))
  BY <1>2, <1>3
<1>6. prompt' # <<>> =>
        /\ IsPrefix(prompt', best)
        /\ \A i \in DOMAIN best : best[i].score > 0 => i <= Len(prompt') \/ Len(prompt') = PromptLines
  <2>1. HAVE prompt' # <<>>
  <2>2. prompt' = Shown(best)
    BY <1>1, <2>1
  <2>3. QED BY <1>2, <1>3, <2>2, ShownRight
<1>7. /\ asked'.table = facts /\ asked'.max = max /\ asked'.words = words
      /\ asked'.limit = limit /\ asked'.lost = lost
  BY <1>0
<1>8. \A f : Score(f, asked.words, asked.lost[f])' = score(f)
  BY <1>1, <1>7 DEF Score, Recency, Overlap
<1> HIDE DEF score
<1>9. /\ \A i, k \in DOMAIN found' : i < k => found'[i].score >= found'[k].score
      /\ \A f \in asked'.table : f.id \notin {found'[i].fact.id : i \in DOMAIN found'} =>
           \/ Cardinality({g \in asked'.table : g.accessed >= f.accessed /\ g # f}) >= asked'.limit
           \/ /\ Len(found') = asked'.max
              /\ \A i \in DOMAIN found' : found'[i].score >= score(f)
  BY <1>1, <1>4, <1>5, <1>7
<1>10. /\ prompt' # <<>> => IsPrefix(prompt', found')
       /\ \A i \in DOMAIN found' :
           prompt' # <<>> /\ found'[i].score > 0 => i <= Len(prompt') \/ Len(prompt') = PromptLines
  BY <1>1, <1>6
<1> HIDE DEF ids, old
<1>11. QED BY <1>8, <1>9, <1>10, Zenon DEF BestFirst

(* Nothing was asked and nothing is shown. *)
LEMMA NothingIsFound ==
  /\ found = <<>> /\ prompt = <<>> /\ asked = NothingAsked => BestFirst
  /\ ArenaGone => BestFirst'
  /\ BestFirst /\ Unasked /\ UNCHANGED answerVars => BestFirst'
BY DEF NothingAsked, BestFirst, ArenaGone, Unasked, answerVars

LEMMA BestKeeps ==
  ASSUME RecallInv, InTime, BestFirst, [RecallNext]_recallVars
  PROVE  BestFirst'
<1>1. CASE ArenaGone \/ (Unasked /\ UNCHANGED answerVars)
  BY <1>1, NothingIsFound
<1>2. ToolFacts \in Nat /\ ListFacts \in Nat /\ PromptFacts \in Nat
  BY RecallAssumption
<1>3. ASSUME NEW words, Recall(words) \/ BuildContext(words) PROVE BestFirst'
  BY <1>2, <1>3, QueryFindsBest DEF Recall, BuildContext
<1>4. CASE List
  BY <1>2, <1>4, QueryFindsBest DEF List
<1>5. CASE RecallRestarts \/ UNCHANGED recallVars
  <2>1. UNCHANGED <<today, found, prompt, asked>>
    BY <1>5 DEF RecallRestarts, recallVars, answerVars
  <2>2. \A f, words, lost : Score(f, words, lost)' = Score(f, words, lost)
    BY <2>1 DEF Score, Recency, Overlap
  <2>3. \A f : Score(f, asked.words, asked.lost[f])' = Score(f, asked.words, asked.lost[f])
    BY <2>1, <2>2
  <2>4. QED BY <2>1, <2>3, Zenon DEF BestFirst
<1>6. CASE RequestEnds
  BY <1>1, <1>6 DEF RequestEnds
<1>7. CASE NewDay \/ QueryCrashes
  BY <1>1, <1>7 DEF NewDay, QueryCrashes, answerVars
<1>8. ASSUME NEW content, NEW label, Store(content, label) PROVE BestFirst'
  BY <1>1, <1>8 DEF Store
<1>9. ASSUME NEW gone, ForgetAll(gone) PROVE BestFirst'
  BY <1>1, <1>9 DEF ForgetAll
<1>10. QED
  BY <1>3, <1>4, <1>5, <1>6, <1>7, <1>8, <1>9
  DEF RecallNext, RecallTool, Forget, ForgetCategory

(* For any texts, words, importances, decay and limits: a question gets    *)
(* the facts that score best, best first, of as many of the newest as were *)
(* read, by what was left of their strings, and none with a score is       *)
(* missing from the prompt because of one without.                         *)
THEOREM TheBestAreFirst == RecallSpec => []BestFirst
<1>1. RecallInit => InTime /\ BestFirst
  <2>1. SUFFICES ASSUME RecallInit PROVE InTime /\ BestFirst
    OBVIOUS
  <2>2. today = 0 /\ facts = {} /\ MaxDay \in Nat
    BY <2>1, RecallAssumption DEF RecallInit
  <2>3. QED BY <2>1, <2>2, NothingIsFound DEF RecallInit, InTime
<1>2. RecallInv /\ InTime /\ BestFirst /\ [RecallNext]_recallVars => InTime' /\ BestFirst'
  BY TimePasses, BestKeeps
<1>3. QED
  BY <1>1, <1>2, RecallInvariant, PTL DEF RecallSpec

-----------------------------------------------------------------------------
(***************************************************************************)
(* The skills, for any files, any size of the table and of the arena, and  *)
(* any number of calls.                                                    *)
(***************************************************************************)

Skill == [name : SkillNames, trigger : Triggers \union {NoValue}, body : Nat, enabled : BOOLEAN]
Bare(s) == [s EXCEPT !.enabled = TRUE]

(* Which of n offerings the skills of a table are, and why others are not. *)
Filed(offer, n, list, used) ==
  \E choice \in [1..Len(list) -> 1..n] :
    /\ \A i, k \in 1..Len(list) : i < k => choice[i] < choice[k]
    /\ \A i \in 1..Len(list) : offer[choice[i]].fit /\ Bare(list[i]) = offer[choice[i]].skill
    /\ \A i \in 1..n :
         (\A k \in 1..Len(list) : choice[k] # i) =>
           (offer[i].fit => Len(list) = MaxSkills \/ used + offer[i].units > SkillRoom)

(* An offering that is turned down when it comes stays out, and one that   *)
(* is taken is the last.                                                   *)
LEMMA TurnedDown ==
  ASSUME NEW offer, NEW n \in Nat, NEW list \in Seq(Skill), NEW used \in Nat, NEW used2 \in Nat,
         used <= used2, Filed(offer, n, list, used),
         \A i \in 1..n + 1 : offer[i].units \in Nat,
         offer[n + 1].fit => Len(list) = MaxSkills \/ used2 + offer[n + 1].units > SkillRoom
  PROVE  Filed(offer, n + 1, list, used2)
<1>1. PICK choice \in [1..Len(list) -> 1..n] :
        /\ \A i, k \in 1..Len(list) : i < k => choice[i] < choice[k]
        /\ \A i \in 1..Len(list) : offer[choice[i]].fit /\ Bare(list[i]) = offer[choice[i]].skill
        /\ \A i \in 1..n :
             (\A k \in 1..Len(list) : choice[k] # i) =>
               (offer[i].fit => Len(list) = MaxSkills \/ used + offer[i].units > SkillRoom)
  BY DEF Filed
<1>2. choice \in [1..Len(list) -> 1..n + 1]
  BY <1>1
<1>3. ASSUME NEW i \in 1..n + 1, \A k \in 1..Len(list) : choice[k] # i, offer[i].fit
      PROVE  Len(list) = MaxSkills \/ used2 + offer[i].units > SkillRoom
  <2>1. CASE i = n + 1
    BY <1>3, <2>1
  <2>2. CASE i # n + 1
    <3>1. i \in 1..n
      BY <2>2
    <3>2. Len(list) = MaxSkills \/ used + offer[i].units > SkillRoom
      BY <1>1, <1>3, <3>1
    <3>3. offer[i].units \in Nat /\ SkillRoom \in Nat
      BY SkillAssumption
    <3>4. QED BY <3>2, <3>3
  <2>3. QED BY <2>1, <2>2
<1>4. QED BY <1>1, <1>2, <1>3 DEF Filed

LEMMA TakenLast ==
  ASSUME NEW offer, NEW n \in Nat, NEW list \in Seq(Skill), NEW used \in Nat, NEW used2 \in Nat,
         used <= used2, Filed(offer, n, list, used), NEW s \in Skill, Len(list) < MaxSkills,
         \A i \in 1..n + 1 : offer[i].units \in Nat,
         offer[n + 1].fit, Bare(s) = offer[n + 1].skill
  PROVE  Filed(offer, n + 1, Append(list, s), used2)
<1> DEFINE m == Len(list)
           list2 == Append(list, s)
<1>1. PICK choice \in [1..m -> 1..n] :
        /\ \A i, k \in 1..m : i < k => choice[i] < choice[k]
        /\ \A i \in 1..m : offer[choice[i]].fit /\ Bare(list[i]) = offer[choice[i]].skill
        /\ \A i \in 1..n :
             (\A k \in 1..m : choice[k] # i) =>
               (offer[i].fit => m = MaxSkills \/ used + offer[i].units > SkillRoom)
  BY DEF Filed
<1>2. m \in Nat /\ m < MaxSkills /\ MaxSkills \in Nat /\ SkillRoom \in Nat
  BY SkillAssumption
<1>3. Len(list2) = m + 1 /\ (\A i \in 1..m : list2[i] = list[i]) /\ list2[m + 1] = s
  BY AppendProperties
<1> HIDE DEF m, list2
<1> DEFINE choice2 == [i \in 1..m + 1 |-> IF i = m + 1 THEN n + 1 ELSE choice[i]]
<1>4. /\ choice2 \in [1..m + 1 -> 1..n + 1] /\ choice2[m + 1] = n + 1
      /\ \A i \in 1..m : choice2[i] = choice[i] /\ choice2[i] \in 1..n
  <2>1. \A i \in 1..m + 1 : i # m + 1 => i \in 1..m
    BY <1>2
  <2>2. \A i \in 1..m : i \in 1..m + 1 /\ i # m + 1
    BY <1>2
  <2>3. m + 1 \in 1..m + 1 /\ n + 1 \in 1..n + 1 /\ 1..n \subseteq 1..n + 1
    BY <1>2
  <2>4. QED BY <1>1, <2>1, <2>2, <2>3
<1> HIDE DEF choice2
<1>5. \A i, k \in 1..m + 1 : i < k => choice2[i] < choice2[k]
  <2>1. TAKE i, k \in 1..m + 1
  <2>2. HAVE i < k
  <2>3. i \in 1..m
    BY <1>2, <2>2
  <2>4. CASE k = m + 1
    BY <1>4, <2>3, <2>4
  <2>5. CASE k # m + 1
    <3>1. k \in 1..m
      BY <1>2, <2>5
    <3>2. QED BY <1>1, <1>4, <2>2, <2>3, <3>1
  <2>6. QED BY <2>4, <2>5
<1>6. \A i \in 1..m + 1 : offer[choice2[i]].fit /\ Bare(list2[i]) = offer[choice2[i]].skill
  <2>1. TAKE i \in 1..m + 1
  <2>2. CASE i = m + 1
    BY <1>3, <1>4, <2>2
  <2>3. CASE i # m + 1
    <3>1. i \in 1..m
      BY <1>2, <2>3
    <3>2. choice2[i] = choice[i] /\ list2[i] = list[i]
      BY <1>3, <1>4, <3>1
    <3>3. QED BY <1>1, <3>1, <3>2
  <2>4. QED BY <2>2, <2>3
<1>7. ASSUME NEW i \in 1..n + 1, \A k \in 1..m + 1 : choice2[k] # i, offer[i].fit
      PROVE  m + 1 = MaxSkills \/ used2 + offer[i].units > SkillRoom
  <2>1. i # n + 1
    BY <1>2, <1>4, <1>7
  <2>2. i \in 1..n
    BY <2>1
  <2>3. \A k \in 1..m : choice[k] # i
    <3>1. \A k \in 1..m : k \in 1..m + 1
      BY <1>2
    <3>2. QED BY <1>4, <1>7, <3>1
  <2>4. m = MaxSkills \/ used + offer[i].units > SkillRoom
    BY <1>1, <1>7, <2>2, <2>3
  <2>5. offer[i].units \in Nat
    OBVIOUS
  <2>6. QED BY <1>2, <2>4, <2>5
<1>8. Filed(offer, n + 1, list2, used2)
  <2>1. \A i \in 1..n + 1 :
          (\A k \in 1..m + 1 : choice2[k] # i) =>
            (offer[i].fit => m + 1 = MaxSkills \/ used2 + offer[i].units > SkillRoom)
    BY <1>7
  <2>2. /\ choice2 \in [1..Len(list2) -> 1..n + 1]
        /\ \A i, k \in 1..Len(list2) : i < k => choice2[i] < choice2[k]
        /\ \A i \in 1..Len(list2) : offer[choice2[i]].fit /\ Bare(list2[i]) = offer[choice2[i]].skill
        /\ \A i \in 1..n + 1 :
             (\A k \in 1..Len(list2) : choice2[k] # i) =>
               (offer[i].fit => Len(list2) = MaxSkills \/ used2 + offer[i].units > SkillRoom)
    BY <1>3, <1>4, <1>5, <1>6, <2>1, Zenon
  <2>3. QED BY <2>2, Zenon DEF Filed
<1>9. QED BY <1>8 DEF list2

(* Only the list of offerings so far matters, and of the skills that are   *)
(* taken not whether they are enabled.                                     *)
LEMMA FiledSame ==
  ASSUME NEW offer, NEW offer2, NEW n \in Nat, NEW list, NEW list2, NEW used,
         Filed(offer, n, list, used), \A i \in 1..n : offer2[i] = offer[i],
         Len(list2) = Len(list), \A i \in 1..Len(list) : Bare(list2[i]) = Bare(list[i])
  PROVE  Filed(offer2, n, list2, used)
<1>1. PICK choice \in [1..Len(list) -> 1..n] :
        /\ \A i, k \in 1..Len(list) : i < k => choice[i] < choice[k]
        /\ \A i \in 1..Len(list) : offer[choice[i]].fit /\ Bare(list[i]) = offer[choice[i]].skill
        /\ \A i \in 1..n :
             (\A k \in 1..Len(list) : choice[k] # i) =>
               (offer[i].fit => Len(list) = MaxSkills \/ used + offer[i].units > SkillRoom)
  BY DEF Filed
<1>2. \A i \in 1..Len(list) : choice[i] \in 1..n /\ offer2[choice[i]] = offer[choice[i]]
  BY <1>1
<1>3. \A i \in 1..Len(list) : offer2[choice[i]].fit /\ Bare(list2[i]) = offer2[choice[i]].skill
  BY <1>1, <1>2
<1>4. \A i \in 1..n :
        (\A k \in 1..Len(list) : choice[k] # i) =>
          (offer2[i].fit => Len(list) = MaxSkills \/ used + offer2[i].units > SkillRoom)
  BY <1>1
<1>5. /\ choice \in [1..Len(list2) -> 1..n]
      /\ \A i, k \in 1..Len(list2) : i < k => choice[i] < choice[k]
      /\ \A i \in 1..Len(list2) : offer2[choice[i]].fit /\ Bare(list2[i]) = offer2[choice[i]].skill
      /\ \A i \in 1..n :
           (\A k \in 1..Len(list2) : choice[k] # i) =>
             (offer2[i].fit => Len(list2) = MaxSkills \/ used + offer2[i].units > SkillRoom)
  BY <1>1, <1>3, <1>4, Zenon
<1>6. QED BY <1>5, Zenon DEF Filed

-----------------------------------------------------------------------------
(* Whether the first skill of each name is as enabled as was set last.     *)
AsSet(list, set) ==
  \A name \in SkillNames :
    /\ \A i \in 1..Len(list) :
         list[i].name = name /\ (\A k \in 1..i - 1 : list[k].name # name) =>
           list[i].enabled = set[name]
    /\ (\A i \in 1..Len(list) : list[i].name # name) => set[name] = TRUE

(* A new skill is enabled, and hides none that was there.                  *)
LEMMA AsSetAppend ==
  ASSUME NEW list \in Seq(Skill), NEW set, AsSet(list, set), NEW s \in Skill, s.enabled = TRUE
  PROVE  AsSet(Append(list, s), set)
<1> DEFINE m == Len(list)
           list2 == Append(list, s)
<1>1. m \in Nat /\ Len(list2) = m + 1 /\ (\A i \in 1..m : list2[i] = list[i]) /\ list2[m + 1] = s
  BY AppendProperties
<1>2. \A name \in SkillNames :
        /\ \A i \in 1..m :
             list[i].name = name /\ (\A k \in 1..i - 1 : list[k].name # name) =>
               list[i].enabled = set[name]
        /\ (\A i \in 1..m : list[i].name # name) => set[name] = TRUE
  BY DEF AsSet
<1> HIDE DEF m, list2
<1>3. ASSUME NEW name \in SkillNames, NEW i \in 1..m + 1, list2[i].name = name,
             \A k \in 1..i - 1 : list2[k].name # name
      PROVE  list2[i].enabled = set[name]
  <2>1. CASE i = m + 1
    <3>1. \A k \in 1..m : list[k].name # name
      BY <1>1, <1>3, <2>1
    <3>2. QED BY <1>1, <1>2, <2>1, <3>1
  <2>2. CASE i # m + 1
    <3>1. i \in 1..m /\ \A k \in 1..i - 1 : k \in 1..m
      BY <1>1, <2>2
    <3>2. list[i].name = name /\ \A k \in 1..i - 1 : list[k].name # name
      BY <1>1, <1>3, <3>1
    <3>3. QED BY <1>1, <1>2, <3>1, <3>2
  <2>3. QED BY <2>1, <2>2
<1>4. ASSUME NEW name \in SkillNames, \A i \in 1..m + 1 : list2[i].name # name
      PROVE  set[name] = TRUE
  <2>1. \A i \in 1..m : list[i].name # name
    BY <1>1, <1>4
  <2>2. QED BY <1>2, <2>1
<1>5. AsSet(list2, set)
  <2>1. Len(list2) = m + 1
    BY <1>1
  <2>2. ASSUME NEW name \in SkillNames
        PROVE  /\ \A i \in 1..m + 1 :
                    list2[i].name = name /\ (\A k \in 1..i - 1 : list2[k].name # name) =>
                      list2[i].enabled = set[name]
               /\ (\A i \in 1..m + 1 : list2[i].name # name) => set[name] = TRUE
    BY <1>3, <1>4
  <2>3. QED BY <2>1, <2>2 DEF AsSet
<1>6. QED BY <1>5 DEF list2

(* What the searches for a name and for a trigger find. *)
NamedFirst(list, name) ==
  LET I == {i \in 1..Len(list) : list[i].name = name} IN IF I # {} THEN Min(I) ELSE 0

TriggeredFirst(list, trigger) ==
  LET I == {i \in 1..Len(list) : list[i].trigger # NoValue /\ list[i].trigger = trigger /\ list[i].enabled}
  IN IF I # {} THEN Min(I) ELSE 0

LEMMA FirstNamed ==
  ASSUME NEW list \in Seq(Skill), NEW name
  PROVE  LET i == NamedFirst(list, name) IN
         /\ i = 0 => \A k \in 1..Len(list) : list[k].name # name
         /\ i # 0 => i \in 1..Len(list) /\ list[i].name = name /\ \A k \in 1..i - 1 : list[k].name # name
<1> DEFINE I == {i \in 1..Len(list) : list[i].name = name}
           first == NamedFirst(list, name)
<1>1. first = IF I # {} THEN Min(I) ELSE 0
  BY DEF NamedFirst
<1>2. I # {} => Min(I) \in I /\ \A k \in I : Min(I) <= k
  <2>1. I \in SUBSET Nat
    OBVIOUS
  <2>2. I # {} => \E i \in I : \A k \in I : i <= k
    BY <2>1, LeastExists
  <2> HIDE DEF I
  <2>3. QED BY <2>2 DEF Min
<1> HIDE DEF first
<1>3. first = 0 => I = {}
  BY <1>1, <1>2
<1>4. first # 0 => first \in I /\ \A k \in I : first <= k
  <2> HIDE DEF I
  <2>1. QED BY <1>1, <1>2
<1>5. first # 0 => \A k \in 1..first - 1 : list[k].name # name
  <2>1. SUFFICES ASSUME first # 0, NEW k \in 1..first - 1, list[k].name = name PROVE FALSE
    OBVIOUS
  <2>2. first \in 1..Len(list) /\ k \in 1..Len(list)
    BY <1>4, <2>1
  <2>3. first <= k
    BY <1>4, <2>1, <2>2
  <2>4. QED BY <2>2, <2>3
<1>6. QED BY <1>3, <1>4, <1>5 DEF first

LEMMA FirstTriggered ==
  ASSUME NEW list \in Seq(Skill), NEW trigger
  PROVE  LET i == TriggeredFirst(list, trigger) IN
         i # 0 => i \in 1..Len(list) /\ list[i].enabled
<1> DEFINE I == {i \in 1..Len(list) : list[i].trigger # NoValue /\ list[i].trigger = trigger /\ list[i].enabled}
           first == TriggeredFirst(list, trigger)
<1>1. first = IF I # {} THEN Min(I) ELSE 0
  BY DEF TriggeredFirst
<1>2. I # {} => Min(I) \in I /\ \A k \in I : Min(I) <= k
  <2>1. I \in SUBSET Nat
    OBVIOUS
  <2>2. I # {} => \E i \in I : \A k \in I : i <= k
    BY <2>1, LeastExists
  <2> HIDE DEF I
  <2>3. QED BY <2>2 DEF Min
<1> HIDE DEF first
<1>3. first # 0 => first \in I
  <2> HIDE DEF I
  <2>1. QED BY <1>1, <1>2
<1>4. QED BY <1>3 DEF first

-----------------------------------------------------------------------------
(* Types; nothing is registered before all is loaded. *)
SkillTypes ==
  /\ folder \in Seq(SkillFiles) /\ fileAt \in 1..Len(folder) + 1
  /\ skills \in Seq(Skill) /\ Len(skills) <= MaxSkills /\ taken \in Nat
  /\ registered \in Seq(Skill) /\ flags \in [SkillNames -> BOOLEAN]
  /\ fileAt <= Len(folder) => registered = <<>>

(* The offerings as a list: the files before the next, then what was       *)
(* registered.                                                             *)
Listed(files, next, more) ==
  [i \in 1..next - 1 + Len(more) |->
     IF i < next
     THEN [fit |-> Parses(files[i]) /\ files[i].units \in 1..LargestFile,
           skill |-> ParsedSkill(files[i]), units |-> files[i].units]
     ELSE [fit |-> TRUE, skill |-> more[i - next + 1], units |-> 0]]

Count == fileAt - 1 + Len(registered)
Offer == Listed(folder, fileAt, registered)

SkillInv ==
  /\ SkillTypes /\ Filed(Offer, Count, skills, taken) /\ AsSet(skills, flags) /\ PromptWhole

(* What a file says is a skill. *)
LEMMA ParsedIsSkill ==
  ASSUME NEW file \in SkillFiles, Parses(file)
  PROVE  ParsedSkill(file) \in Skill /\ ParsedSkill(file).enabled = TRUE
<1>1. file.front \in Seq(Lines) /\ file.body \in Nat
  BY SkillAssumption
<1>2. ASSUME NEW key, NEW Values, NoValue \in Values,
             \A line \in Lines : line.key = key => line.value \in Values
      PROVE  Set(file, key) \in Values
  <2> DEFINE I == {i \in 1..Len(file.front) : file.front[i].key = key /\ file.front[i].fits}
             last == SelectLastInSeq(file.front, LAMBDA line : line.key = key /\ line.fits)
  <2>1. last = IF I # {} THEN Max(I) ELSE 0
    BY DEF SelectLastInSeq
  <2>2. Set(file, key) = IF last = 0 THEN NoValue ELSE file.front[last].value
    BY DEF Set
  <2>3. I # {} => Max(I) \in I
    <3>1. I \subseteq 0..Len(file.front) /\ Len(file.front) \in Nat
      BY <1>1
    <3>2. I # {} => \E x \in I : \A y \in I : x >= y
      <4> DEFINE J == {Len(file.front) - i : i \in I}
      <4>1. HAVE I # {}
      <4>2. J \in SUBSET Nat /\ J # {}
        <5>1. \A i \in I : Len(file.front) - i \in Nat /\ Len(file.front) - i \in J
          BY <3>1
        <5> HIDE DEF I
        <5>2. PICK i \in I : TRUE
          BY <4>1
        <5>3. QED BY <5>1, <5>2
      <4>3. PICK j \in J : \A k \in J : j <= k
        BY <4>2, LeastExists
      <4>4. PICK x \in I : j = Len(file.front) - x
        BY <4>3
      <4>5. \A y \in I : Len(file.front) - y \in J
        OBVIOUS
      <4>6. \A y \in I : Len(file.front) - x <= Len(file.front) - y
        BY <4>3, <4>4, <4>5
      <4> HIDE DEF I, J
      <4>7. \A y \in I : x >= y
        BY <3>1, <4>6
      <4>8. QED BY <4>7
    <3> HIDE DEF I
    <3>3. QED BY <3>2 DEF Max
  <2> HIDE DEF last
  <2>4. CASE last = 0
    BY <1>2, <2>2, <2>4
  <2>5. CASE last # 0
    <3>1. last \in I
      BY <2>1, <2>3, <2>5
    <3>2. last \in 1..Len(file.front) /\ file.front[last].key = key
      BY <3>1
    <3>3. file.front[last] \in Lines
      BY <1>1, <3>2, ElementOfSeq
    <3>4. QED BY <1>2, <2>2, <2>5, <3>2, <3>3
  <2>6. QED BY <2>4, <2>5
<1>3. Set(file, "name") \in SkillNames
  <2>1. \A line \in Lines : line.key = "name" => line.value \in SkillNames \union {NoValue}
    BY DEF Lines
  <2>2. Set(file, "name") \in SkillNames \union {NoValue}
    BY <1>2, <2>1
  <2>3. QED BY <2>2 DEF Parses
<1>4. Set(file, "trigger") \in Triggers \union {NoValue}
  <2>1. \A line \in Lines : line.key = "trigger" => line.value \in Triggers \union {NoValue}
    BY DEF Lines
  <2>2. QED BY <1>2, <2>1
<1>5. Smaller(file.body, BodyMax - 1) \in Nat
  BY <1>1, SkillAssumption DEF Smaller
<1>6. QED BY <1>3, <1>4, <1>5 DEF ParsedSkill, Skill

LEMMA FindIs ==
  ASSUME SkillTypes, NEW name
  PROVE  /\ Find(name) = 0 => \A k \in 1..Len(skills) : skills[k].name # name
         /\ Find(name) # 0 => /\ Find(name) \in 1..Len(skills) /\ skills[Find(name)].name = name
                              /\ \A k \in 1..Find(name) - 1 : skills[k].name # name
<1>1. skills \in Seq(Skill)
  BY DEF SkillTypes
<1>2. Find(name) = NamedFirst(skills, name)
  BY DEF Find, SelectInSeq, NamedFirst
<1>3. QED BY <1>1, <1>2, FirstNamed

LEMMA FindByTriggerIs ==
  ASSUME SkillTypes, NEW trigger, FindByTrigger(trigger) # 0
  PROVE  FindByTrigger(trigger) \in 1..Len(skills) /\ skills[FindByTrigger(trigger)].enabled
<1>1. skills \in Seq(Skill)
  BY DEF SkillTypes
<1>2. FindByTrigger(trigger) = TriggeredFirst(skills, trigger)
  BY DEF FindByTrigger, SelectInSeq, TriggeredFirst
<1>3. QED BY <1>1, <1>2, FirstTriggered

LEMMA OfferingsCounted ==
  ASSUME SkillTypes
  PROVE  Count \in Nat /\ Offerings = 1..Count /\ \A i \in 1..Count : Offer[i] = Offered(i)
<1>1. fileAt \in 1..Len(folder) + 1 /\ Len(folder) \in Nat /\ Len(registered) \in Nat
  BY DEF SkillTypes
<1>2. Count \in Nat /\ Offerings = 1..Count
  BY <1>1 DEF Count, Offerings
<1>3. \A i \in 1..Count : Offer[i] = Offered(i)
  BY DEF Offer, Listed, Offered, Count
<1>4. QED BY <1>2, <1>3

LEMMA ListedUnits ==
  ASSUME NEW files \in Seq(SkillFiles), NEW next \in 1..Len(files) + 1, NEW more, Len(more) \in Nat
  PROVE  \A i \in 1..next - 1 + Len(more) : Listed(files, next, more)[i].units \in Nat
<1>1. TAKE i \in 1..next - 1 + Len(more)
<1>2. CASE i < next
  <2>1. i \in 1..Len(files)
    BY <1>2
  <2>2. files[i] \in SkillFiles
    BY <2>1, ElementOfSeq
  <2>3. files[i].units \in Nat
    BY <2>2, SkillAssumption
  <2>4. QED BY <1>2, <2>3 DEF Listed
<1>3. CASE ~(i < next)
  BY <1>3 DEF Listed
<1>4. QED BY <1>2, <1>3

(* One more file, and one more that was registered. *)
LEMMA ListedLoaded ==
  ASSUME NEW files \in Seq(SkillFiles), NEW next \in 1..Len(files)
  PROVE  /\ \A i \in 1..next - 1 : Listed(files, next + 1, <<>>)[i] = Listed(files, next, <<>>)[i]
         /\ Listed(files, next + 1, <<>>)[next] =
              [fit |-> Parses(files[next]) /\ files[next].units \in 1..LargestFile,
               skill |-> ParsedSkill(files[next]), units |-> files[next].units]
<1>1. Len(<<>>) = 0 /\ next \in Nat
  OBVIOUS
<1>2. 1..next - 1 + 0 = 1..next - 1 /\ 1..next + 1 - 1 + 0 = 1..next /\ next \in 1..next
  BY <1>1
<1>3. \A i \in 1..next - 1 : i < next /\ i < next + 1 /\ i \in 1..next
  BY <1>1
<1>4. next < next + 1
  BY <1>1
<1>5. QED BY <1>1, <1>2, <1>3, <1>4 DEF Listed

LEMMA ListedRegistered ==
  ASSUME NEW files, NEW next \in Nat \ {0}, NEW more \in Seq(Skill), NEW s \in Skill
  PROVE  /\ \A i \in 1..next - 1 + Len(more) : Listed(files, next, Append(more, s))[i] = Listed(files, next, more)[i]
         /\ Listed(files, next, Append(more, s))[next + Len(more)] = [fit |-> TRUE, skill |-> s, units |-> 0]
<1> DEFINE more2 == Append(more, s)
           k == next + Len(more)
<1>1. /\ Len(more) \in Nat /\ Len(more2) = Len(more) + 1 /\ more2[Len(more) + 1] = s
      /\ \A i \in 1..Len(more) : more2[i] = more[i]
  BY AppendProperties
<1> HIDE DEF more2
<1>2. k \in 1..next - 1 + Len(more2) /\ ~(k < next) /\ k - next + 1 = Len(more) + 1
  BY <1>1
<1>3. ASSUME NEW i \in 1..next - 1 + Len(more) PROVE Listed(files, next, more2)[i] = Listed(files, next, more)[i]
  <2>1. i \in 1..next - 1 + Len(more2)
    BY <1>1
  <2>2. CASE i < next
    BY <2>1, <2>2 DEF Listed
  <2>3. CASE ~(i < next)
    <3>1. i - next + 1 \in 1..Len(more)
      BY <1>1, <2>3
    <3>2. more2[i - next + 1] = more[i - next + 1]
      BY <1>1, <3>1
    <3>3. QED BY <2>1, <2>3, <3>2 DEF Listed
  <2>4. QED BY <2>2, <2>3
<1> HIDE DEF k
<1>4. Listed(files, next, more2)[k] = [fit |-> TRUE, skill |-> s, units |-> 0]
  BY <1>1, <1>2 DEF Listed
<1>5. QED BY <1>3, <1>4 DEF k, more2

(* A skill that is enabled is bare. *)
LEMMA EnabledIsBare == \A s \in Skill : s.enabled = TRUE => Bare(s) = s
BY DEF Skill, Bare

LEMMA SkillTypesKept ==
  ASSUME SkillTypes, [SkillNext]_skillVars
  PROVE  SkillTypes'
<1>1. Len(skills) \in Nat /\ MaxSkills \in Nat /\ Len(folder) \in Nat
  BY SkillAssumption DEF SkillTypes
<1>2. CASE LoadNext
  <2> DEFINE file == folder[fileAt]
  <2>1. /\ fileAt <= Len(folder) /\ fileAt' = fileAt + 1
        /\ taken' = IF IsRead(file) THEN taken + file.units ELSE taken
        /\ skills' = IF IsRead(file) /\ Parses(file) THEN Append(skills, ParsedSkill(file)) ELSE skills
        /\ UNCHANGED <<folder, registered, flags>>
    BY <1>2 DEF LoadNext
  <2>2. fileAt \in 1..Len(folder) /\ fileAt' \in 1..Len(folder) + 1
    BY <1>1, <2>1 DEF SkillTypes
  <2>3. file \in SkillFiles
    BY <2>2, ElementOfSeq DEF SkillTypes
  <2>4. file.units \in Nat
    BY <2>3, SkillAssumption
  <2> HIDE DEF file
  <2>5. taken' \in Nat
    BY <2>1, <2>4 DEF SkillTypes
  <2>6. skills' \in Seq(Skill) /\ Len(skills') <= MaxSkills
    <3>1. CASE IsRead(file) /\ Parses(file)
      <4>1. ParsedSkill(file) \in Skill
        BY <2>3, <3>1, ParsedIsSkill
      <4>2. skills' = Append(skills, ParsedSkill(file)) /\ ~(Len(skills) >= MaxSkills)
        BY <2>1, <3>1 DEF IsRead, Full
      <4>3. skills' \in Seq(Skill) /\ Len(skills') = Len(skills) + 1
        BY <4>1, <4>2, AppendProperties DEF SkillTypes
      <4>4. QED BY <1>1, <4>2, <4>3
    <3>2. CASE ~(IsRead(file) /\ Parses(file))
      BY <2>1, <3>2 DEF SkillTypes
    <3>3. QED BY <3>1, <3>2
  <2>7. QED BY <2>1, <2>2, <2>5, <2>6 DEF SkillTypes
<1>3. ASSUME NEW name \in SkillNames, NEW trigger \in Triggers \union {NoValue}, RegisterSkill(name, trigger)
      PROVE  SkillTypes'
  <2> DEFINE skill == [name |-> name, trigger |-> trigger, body |-> 1, enabled |-> TRUE]
  <2>1. /\ fileAt > Len(folder) /\ skills' = IF Full THEN skills ELSE Append(skills, skill)
        /\ registered' = Append(registered, skill) /\ UNCHANGED <<folder, fileAt, taken, flags>>
    BY <1>3 DEF RegisterSkill, AllLoaded
  <2>2. skill \in Skill
    BY DEF Skill
  <2> HIDE DEF skill
  <2>3. registered' \in Seq(Skill)
    BY <2>1, <2>2, AppendProperties DEF SkillTypes
  <2>4. skills' \in Seq(Skill) /\ Len(skills') <= MaxSkills
    <3>1. CASE Full
      BY <2>1, <3>1 DEF SkillTypes
    <3>2. CASE ~Full
      <4>1. Len(skills) < MaxSkills
        BY <1>1, <3>2 DEF Full
      <4>2. skills' \in Seq(Skill) /\ Len(skills') = Len(skills) + 1
        BY <2>1, <2>2, <3>2, AppendProperties DEF SkillTypes
      <4>3. QED BY <1>1, <4>1, <4>2
    <3>3. QED BY <3>1, <3>2
  <2>5. ~(fileAt' <= Len(folder'))
    BY <1>1, <2>1 DEF SkillTypes
  <2>6. QED BY <2>1, <2>3, <2>4, <2>5 DEF SkillTypes
<1>4. ASSUME NEW name \in SkillNames, NEW setting \in BOOLEAN, Enable(name, setting)
      PROVE  SkillTypes'
  <2> DEFINE at == Find(name)
  <2>1. /\ at # 0 /\ skills' = [skills EXCEPT ![at].enabled = setting]
        /\ flags' = [flags EXCEPT ![name] = setting] /\ UNCHANGED <<folder, fileAt, taken, registered>>
    BY <1>4 DEF Enable
  <2>2. at \in 1..Len(skills)
    BY <2>1, FindIs
  <2> HIDE DEF at
  <2>3. skills[at] \in Skill
    BY <2>2, ElementOfSeq DEF SkillTypes
  <2>4. [skills[at] EXCEPT !.enabled = setting] \in Skill
    BY <2>3 DEF Skill
  <2>5. skills' = [skills EXCEPT ![at] = [skills[at] EXCEPT !.enabled = setting]]
    BY <2>1
  <2>6. skills' \in Seq(Skill) /\ Len(skills') = Len(skills)
    BY <2>2, <2>4, <2>5 DEF SkillTypes
  <2>7. flags' \in [SkillNames -> BOOLEAN]
    BY <2>1 DEF SkillTypes
  <2>8. QED BY <2>1, <2>6, <2>7 DEF SkillTypes
<1>5. ASSUME NEW trigger \in Triggers, NEW input \in Inputs, BuildPrompt(trigger, input)
      PROVE  SkillTypes'
  BY <1>5 DEF BuildPrompt, SkillTypes
<1>6. CASE UNCHANGED skillVars
  BY <1>6 DEF skillVars, SkillTypes
<1>7. QED BY <1>2, <1>3, <1>4, <1>5, <1>6 DEF SkillNext

-----------------------------------------------------------------------------
(* One more offering. *)
LEMMA LoadKeepsFiled ==
  ASSUME SkillInv, SkillTypes', LoadNext
  PROVE  Filed(Offer, Count, skills, taken)' /\ AsSet(skills, flags)'
<1> DEFINE file == folder[fileAt]
<1>1. /\ fileAt <= Len(folder) /\ fileAt' = fileAt + 1
      /\ taken' = IF IsRead(file) THEN taken + file.units ELSE taken
      /\ skills' = IF IsRead(file) /\ Parses(file) THEN Append(skills, ParsedSkill(file)) ELSE skills
      /\ UNCHANGED <<folder, registered, flags>>
  BY DEF LoadNext
<1>2. SkillTypes /\ registered = <<>>
  BY <1>1 DEF SkillInv, SkillTypes
<1>3. Count = fileAt - 1 /\ Count' = Count + 1 /\ Count \in Nat /\ fileAt \in Nat
  BY <1>1, <1>2 DEF Count, SkillTypes
<1>4. folder \in Seq(SkillFiles) /\ fileAt \in 1..Len(folder) /\ fileAt + 1 \in 1..Len(folder) + 1
  BY <1>1, <1>2 DEF SkillTypes
<1>5. Offer = Listed(folder, fileAt, <<>>) /\ Offer' = Listed(folder, fileAt + 1, <<>>)
  BY <1>1, <1>2 DEF Offer
<1>6. \A i \in 1..Count : Offer'[i] = Offer[i]
  BY <1>3, <1>4, <1>5, ListedLoaded
<1>7. Offer'[Count + 1] = [fit |-> Parses(file) /\ file.units \in 1..LargestFile,
                           skill |-> ParsedSkill(file), units |-> file.units]
  <2>1. Count + 1 = fileAt
    BY <1>3
  <2>2. QED BY <1>4, <1>5, <2>1, ListedLoaded
<1>8. /\ Offer'[Count + 1].units = file.units /\ Offer'[Count + 1].skill = ParsedSkill(file)
      /\ Offer'[Count + 1].fit <=> (Parses(file) /\ file.units \in 1..LargestFile)
  <2> DEFINE fits == Parses(file) /\ file.units \in 1..LargestFile
             skill2 == ParsedSkill(file)
             size == file.units
  <2>1. Offer'[Count + 1] = [fit |-> fits, skill |-> skill2, units |-> size]
    BY <1>7
  <2> HIDE DEF file, fits, skill2, size
  <2>2. /\ Offer'[Count + 1].units = size /\ Offer'[Count + 1].skill = skill2
        /\ Offer'[Count + 1].fit = fits
    BY <2>1
  <2>3. Offer'[Count + 1].fit <=> fits
    BY <2>2, Zenon
  <2>4. QED BY <2>2, <2>3, Zenon DEF fits, skill2, size
<1>9. file \in SkillFiles /\ file.units \in Nat
  <2>1. fileAt \in 1..Len(folder)
    BY <1>1, <1>2 DEF SkillTypes
  <2>2. file \in SkillFiles
    BY <1>2, <2>1, ElementOfSeq DEF SkillTypes
  <2>3. QED BY <2>2, SkillAssumption
<1> HIDE DEF file
<1>10. \A i \in 1..Count + 1 : Offer'[i].units \in Nat
  <2> DEFINE next == fileAt + 1
  <2>1. /\ next \in 1..Len(folder) + 1 /\ folder \in Seq(SkillFiles) /\ Len(<<>>) \in Nat
        /\ Offer' = Listed(folder, next, <<>>) /\ Count + 1 = next - 1 + Len(<<>>)
    BY <1>3, <1>4, <1>5
  <2> HIDE DEF next
  <2>2. \A i \in 1..next - 1 + Len(<<>>) : Listed(folder, next, <<>>)[i].units \in Nat
    BY <2>1, ListedUnits
  <2>3. QED BY <2>1, <2>2
<1>11. /\ skills \in Seq(Skill) /\ Len(skills) \in Nat /\ Len(skills) <= MaxSkills /\ MaxSkills \in Nat
       /\ taken \in Nat /\ taken' \in Nat /\ taken <= taken'
  <2>1. taken \in Nat /\ taken' \in Nat
    BY <1>2 DEF SkillTypes
  <2>2. taken <= taken'
    BY <1>1, <1>9, <2>1
  <2>3. QED BY <1>2, <2>1, <2>2, SkillAssumption DEF SkillTypes
<1>12. Filed(Offer', Count, skills, taken)
  <2>1. Filed(Offer, Count, skills, taken)
    BY DEF SkillInv
  <2>2. QED BY <1>3, <1>6, <2>1, FiledSame
<1>13. CASE IsRead(file) /\ Parses(file)
  <2>1. /\ skills' = Append(skills, ParsedSkill(file)) /\ file.units \in 1..LargestFile
        /\ Len(skills) < MaxSkills
    BY <1>1, <1>11, <1>13 DEF IsRead, Full
  <2>2. ParsedSkill(file) \in Skill /\ ParsedSkill(file).enabled = TRUE
    BY <1>9, <1>13, ParsedIsSkill
  <2>3. Bare(ParsedSkill(file)) = ParsedSkill(file)
    BY <2>2, EnabledIsBare
  <2>4. Offer'[Count + 1].fit /\ Bare(ParsedSkill(file)) = Offer'[Count + 1].skill
    BY <1>8, <1>13, <2>1, <2>3
  <2>5. Filed(Offer', Count + 1, Append(skills, ParsedSkill(file)), taken')
    BY <1>3, <1>10, <1>11, <1>12, <2>1, <2>2, <2>4, TakenLast
  <2>6. Filed(Offer, Count, skills, taken)'
    BY <1>3, <2>1, <2>5
  <2>7. AsSet(Append(skills, ParsedSkill(file)), flags)
    BY <1>11, <2>2, AsSetAppend DEF SkillInv
  <2>8. AsSet(skills, flags)'
    BY <1>1, <2>1, <2>7
  <2>9. QED BY <2>6, <2>8
<1>14. CASE ~(IsRead(file) /\ Parses(file))
  <2>1. skills' = skills
    BY <1>1, <1>14
  <2>2. Offer'[Count + 1].fit => Len(skills) = MaxSkills \/ taken' + Offer'[Count + 1].units > SkillRoom
    <3>1. HAVE Offer'[Count + 1].fit
    <3>2. ~IsRead(file) /\ file.units \in 1..LargestFile
      BY <1>8, <1>14, <3>1
    <3>3. taken' = taken
      BY <1>1, <3>2
    <3>4. Len(skills) >= MaxSkills \/ ~(taken + file.units <= SkillRoom)
      BY <3>2 DEF IsRead, Full
    <3>5. SkillRoom \in Nat
      BY SkillAssumption
    <3>6. QED BY <1>8, <1>9, <1>11, <3>3, <3>4, <3>5
  <2>3. Filed(Offer', Count + 1, skills, taken')
    BY <1>3, <1>10, <1>11, <1>12, <2>2, TurnedDown
  <2>4. Filed(Offer, Count, skills, taken)'
    BY <1>3, <2>1, <2>3
  <2>5. AsSet(skills, flags)'
    BY <1>1, <2>1 DEF SkillInv
  <2>6. QED BY <2>4, <2>5
<1>15. QED BY <1>13, <1>14

LEMMA RegisterKeepsFiled ==
  ASSUME SkillInv, SkillTypes', NEW name \in SkillNames, NEW trigger \in Triggers \union {NoValue},
         RegisterSkill(name, trigger)
  PROVE  Filed(Offer, Count, skills, taken)' /\ AsSet(skills, flags)'
<1> DEFINE skill == [name |-> name, trigger |-> trigger, body |-> 1, enabled |-> TRUE]
<1>1. /\ skills' = IF Full THEN skills ELSE Append(skills, skill)
      /\ registered' = Append(registered, skill) /\ UNCHANGED <<folder, fileAt, taken, flags>>
  BY DEF RegisterSkill
<1>2. skill \in Skill /\ skill.enabled = TRUE /\ Bare(skill) = skill
  <2>1. skill \in Skill /\ skill.enabled = TRUE
    BY DEF Skill
  <2>2. QED BY <2>1, EnabledIsBare
<1> HIDE DEF skill
<1>3. SkillTypes /\ registered \in Seq(Skill) /\ Len(registered) \in Nat /\ fileAt \in Nat \ {0}
  BY DEF SkillInv, SkillTypes
<1>4. /\ Len(registered') = Len(registered) + 1 /\ registered'[Len(registered) + 1] = skill
      /\ \A i \in 1..Len(registered) : registered'[i] = registered[i]
  BY <1>1, <1>2, <1>3, AppendProperties
<1>5. Count' = Count + 1 /\ Count \in Nat /\ Count = fileAt - 1 + Len(registered)
  BY <1>1, <1>3, <1>4 DEF Count
<1>6. Offer = Listed(folder, fileAt, registered) /\ Offer' = Listed(folder, fileAt, Append(registered, skill))
  BY <1>1 DEF Offer
<1>7. \A i \in 1..Count : Offer'[i] = Offer[i]
  <2>1. \A i \in 1..fileAt - 1 + Len(registered) :
          Listed(folder, fileAt, Append(registered, skill))[i] = Listed(folder, fileAt, registered)[i]
    <3>1. registered \in Seq(Skill) /\ skill \in Skill /\ fileAt \in Nat \ {0}
      BY <1>2, <1>3
    <3>2. QED BY <3>1, ListedRegistered
  <2>2. QED BY <1>5, <1>6, <2>1
<1>8. Offer'[Count + 1].fit /\ Offer'[Count + 1].skill = skill
  <2>1. Count + 1 = fileAt + Len(registered)
    BY <1>3, <1>5
  <2>2. Offer'[Count + 1] = [fit |-> TRUE, skill |-> skill, units |-> 0]
    BY <1>2, <1>3, <1>6, <2>1, ListedRegistered
  <2>3. QED BY <2>2
<1>9. \A i \in 1..Count + 1 : Offer'[i].units \in Nat
  <2>1. folder \in Seq(SkillFiles) /\ fileAt \in 1..Len(folder) + 1
    BY <1>3 DEF SkillTypes
  <2>2. Len(Append(registered, skill)) \in Nat /\ Count + 1 = fileAt - 1 + Len(Append(registered, skill))
    BY <1>1, <1>3, <1>4, <1>5
  <2>3. QED BY <1>6, <2>1, <2>2, ListedUnits
<1>10. /\ skills \in Seq(Skill) /\ Len(skills) \in Nat /\ Len(skills) <= MaxSkills /\ MaxSkills \in Nat
       /\ taken \in Nat /\ taken <= taken
  BY <1>3, SkillAssumption DEF SkillTypes
<1>11. Filed(Offer', Count, skills, taken)
  <2>1. Filed(Offer, Count, skills, taken)
    BY DEF SkillInv
  <2>2. QED BY <1>5, <1>7, <2>1, FiledSame
<1>12. CASE ~Full
  <2>1. skills' = Append(skills, skill) /\ Len(skills) < MaxSkills
    BY <1>1, <1>10, <1>12 DEF Full
  <2>2. Filed(Offer', Count + 1, Append(skills, skill), taken)
    BY <1>2, <1>5, <1>8, <1>9, <1>10, <1>11, <2>1, TakenLast
  <2>3. Filed(Offer, Count, skills, taken)'
    BY <1>1, <1>5, <2>1, <2>2
  <2>4. AsSet(Append(skills, skill), flags)
    BY <1>2, <1>10, AsSetAppend DEF SkillInv
  <2>5. AsSet(skills, flags)'
    BY <1>1, <2>1, <2>4
  <2>6. QED BY <2>3, <2>5
<1>13. CASE Full
  <2>1. skills' = skills /\ Len(skills) = MaxSkills
    BY <1>1, <1>10, <1>13 DEF Full
  <2>2. Filed(Offer', Count + 1, skills, taken)
    BY <1>5, <1>9, <1>10, <1>11, <2>1, TurnedDown
  <2>3. Filed(Offer, Count, skills, taken)'
    BY <1>1, <1>5, <2>1, <2>2
  <2>4. AsSet(skills, flags)'
    BY <1>1, <2>1 DEF SkillInv
  <2>5. QED BY <2>3, <2>4
<1>14. QED BY <1>12, <1>13

(* To set the first skill of a name is to set the name. *)
LEMMA EnableKeepsFiled ==
  ASSUME SkillInv, SkillTypes', NEW name \in SkillNames, NEW setting \in BOOLEAN, Enable(name, setting)
  PROVE  Filed(Offer, Count, skills, taken)' /\ AsSet(skills, flags)'
<1> DEFINE at == Find(name)
<1>1. /\ at # 0 /\ skills' = [skills EXCEPT ![at].enabled = setting]
      /\ flags' = [flags EXCEPT ![name] = setting] /\ UNCHANGED <<folder, fileAt, taken, registered>>
  BY DEF Enable
<1>2. SkillTypes /\ skills \in Seq(Skill) /\ Len(skills) \in Nat /\ flags \in [SkillNames -> BOOLEAN]
  BY DEF SkillInv, SkillTypes
<1>3. at \in 1..Len(skills) /\ skills[at].name = name /\ \A k \in 1..at - 1 : skills[k].name # name
  BY <1>1, <1>2, FindIs
<1> HIDE DEF at
<1>4. skills' = [skills EXCEPT ![at] = [skills[at] EXCEPT !.enabled = setting]]
  BY <1>1
<1>5. /\ Len(skills') = Len(skills) /\ skills'[at] = [skills[at] EXCEPT !.enabled = setting]
      /\ \A i \in 1..Len(skills) : i # at => skills'[i] = skills[i]
  BY <1>2, <1>3, <1>4
<1>6. /\ Bare(skills'[at]) = Bare(skills[at]) /\ skills'[at].name = name /\ skills'[at].enabled = setting
  <2>1. skills[at] \in Skill
    BY <1>2, <1>3, ElementOfSeq
  <2>2. \A s \in Skill : Bare([s EXCEPT !.enabled = setting]) = Bare(s)
                         /\ [s EXCEPT !.enabled = setting].name = s.name
                         /\ [s EXCEPT !.enabled = setting].enabled = setting
    BY DEF Bare, Skill
  <2>3. QED BY <1>3, <1>5, <2>1, <2>2
<1>7. \A i \in 1..Len(skills) : Bare(skills'[i]) = Bare(skills[i]) /\ skills'[i].name = skills[i].name
  BY <1>3, <1>5, <1>6
<1>8. Filed(Offer, Count, skills, taken)'
  <2>1. Offer' = Offer /\ Count' = Count /\ taken' = taken
    BY <1>1 DEF Offer, Count
  <2>2. Filed(Offer, Count, skills, taken) /\ Count \in Nat
    BY <1>2, OfferingsCounted DEF SkillInv
  <2>3. Filed(Offer, Count, skills', taken)
    BY <1>5, <1>7, <2>2, FiledSame
  <2>4. QED BY <2>1, <2>3
<1>9. \A n \in SkillNames :
        /\ \A i \in 1..Len(skills) :
             skills[i].name = n /\ (\A k \in 1..i - 1 : skills[k].name # n) =>
               skills[i].enabled = flags[n]
        /\ (\A i \in 1..Len(skills) : skills[i].name # n) => flags[n] = TRUE
  BY DEF SkillInv, AsSet
<1>10. /\ flags'[name] = setting /\ \A n \in SkillNames : n # name => flags'[n] = flags[n]
  BY <1>1, <1>2
<1>11. ASSUME NEW n \in SkillNames, NEW i \in 1..Len(skills), skills'[i].name = n,
              \A k \in 1..i - 1 : skills'[k].name # n
       PROVE  skills'[i].enabled = flags'[n]
  <2>1. skills[i].name = n /\ \A k \in 1..i - 1 : skills[k].name # n
    <3>1. \A k \in 1..i - 1 : k \in 1..Len(skills)
      BY <1>2
    <3>2. QED BY <1>7, <1>11, <3>1
  <2>2. CASE n = name
    <3>1. i = at
      <4>1. ~(i < at)
        <5>1. i < at => i \in 1..at - 1
          BY <1>2, <1>3
        <5>2. QED BY <1>3, <2>1, <2>2, <5>1
      <4>2. ~(at < i)
        <5>1. at < i => at \in 1..i - 1
          BY <1>2, <1>3
        <5>2. QED BY <1>3, <2>1, <2>2, <5>1
      <4>3. QED BY <1>2, <1>3, <4>1, <4>2
    <3>2. QED BY <1>6, <1>10, <2>2, <3>1
  <2>3. CASE n # name
    <3>1. i # at
      BY <1>3, <2>1, <2>3
    <3>2. skills'[i] = skills[i] /\ flags'[n] = flags[n]
      BY <1>5, <1>10, <2>3, <3>1
    <3>3. skills[i].enabled = flags[n]
      BY <1>9, <2>1
    <3>4. QED BY <3>2, <3>3
  <2>4. QED BY <2>2, <2>3
<1>12. ASSUME NEW n \in SkillNames, \A i \in 1..Len(skills) : skills'[i].name # n
       PROVE  flags'[n] = TRUE
  <2>1. \A i \in 1..Len(skills) : skills[i].name # n
    BY <1>7, <1>12
  <2>2. n # name
    BY <1>3, <2>1
  <2>3. QED BY <1>9, <1>10, <2>1, <2>2
<1>13. AsSet(skills, flags)'
  BY <1>5, <1>11, <1>12 DEF AsSet
<1>14. QED BY <1>8, <1>13

-----------------------------------------------------------------------------
LEMMA SkillInitially == SkillInit => SkillInv
<1> SUFFICES ASSUME SkillInit PROVE SkillInv
  OBVIOUS
<1>1. /\ fileAt = 1 /\ skills = <<>> /\ taken = 0 /\ registered = <<>>
      /\ flags = [n \in SkillNames |-> TRUE] /\ skillPrompt = NoPrompt
  BY DEF SkillInit
<1>2. folder \in Seq(SkillFiles)
  <2>1. MaxFiles \in Nat
    BY SkillAssumption
  <2>2. folder \in UNION {[1..m -> SkillFiles] : m \in 0..MaxFiles}
    BY DEF SkillInit, SeqOf
  <2>3. PICK m \in 0..MaxFiles : folder \in [1..m -> SkillFiles]
    BY <2>2
  <2>4. QED BY <2>1, <2>3
<1>3. SkillTypes
  <2>1. Len(folder) \in Nat /\ MaxSkills \in Nat
    BY <1>2, SkillAssumption
  <2>2. <<>> \in Seq(Skill) /\ Len(<<>>) = 0
    OBVIOUS
  <2>3. QED BY <1>1, <1>2, <2>1, <2>2 DEF SkillTypes
<1>4. Filed(Offer, Count, skills, taken)
  <2>1. Count = 0 /\ Len(skills) = 0
    BY <1>1 DEF Count
  <2>2. <<>> \in [1..0 -> 1..0] /\ 1..0 = {}
    OBVIOUS
  <2>3. /\ <<>> \in [1..Len(skills) -> 1..Count]
        /\ \A i, k \in 1..Len(skills) : i < k => <<>>[i] < <<>>[k]
        /\ \A i \in 1..Len(skills) : Offer[<<>>[i]].fit /\ Bare(skills[i]) = Offer[<<>>[i]].skill
        /\ \A i \in 1..Count :
             (\A k \in 1..Len(skills) : <<>>[k] # i) =>
               (Offer[i].fit => Len(skills) = MaxSkills \/ taken + Offer[i].units > SkillRoom)
    BY <2>1, <2>2, Zenon
  <2>4. QED BY <2>3, Zenon DEF Filed
<1>5. AsSet(skills, flags)
  BY <1>1 DEF AsSet
<1>6. QED BY <1>1, <1>3, <1>4, <1>5 DEF SkillInv, PromptWhole

LEMMA SkillKeeps ==
  ASSUME SkillInv, [SkillNext]_skillVars
  PROVE  SkillInv'
<1>1. SkillTypes'
  BY SkillTypesKept DEF SkillInv
<1>2. ASSUME UNCHANGED <<folder, fileAt, skills, taken, registered, flags>>
      PROVE  Filed(Offer, Count, skills, taken)' /\ AsSet(skills, flags)'
  <2>1. Offer' = Offer /\ Count' = Count
    BY <1>2 DEF Offer, Count
  <2>2. QED BY <1>2, <2>1 DEF SkillInv
<1>3. ASSUME UNCHANGED skillPrompt PROVE PromptWhole'
  BY <1>3 DEF SkillInv, PromptWhole
<1>4. CASE LoadNext
  BY <1>1, <1>3, <1>4, LoadKeepsFiled DEF SkillInv, LoadNext
<1>5. ASSUME NEW name \in SkillNames, NEW trigger \in Triggers \union {NoValue}, RegisterSkill(name, trigger)
      PROVE  SkillInv'
  BY <1>1, <1>3, <1>5, RegisterKeepsFiled DEF SkillInv, RegisterSkill
<1>6. ASSUME NEW name \in SkillNames, NEW setting \in BOOLEAN, Enable(name, setting)
      PROVE  SkillInv'
  BY <1>1, <1>3, <1>6, EnableKeepsFiled DEF SkillInv, Enable
<1>7. ASSUME NEW trigger \in Triggers, NEW input \in Inputs, BuildPrompt(trigger, input)
      PROVE  SkillInv'
  <2> DEFINE body == skills[FindByTrigger(trigger)].body
             total == body + input + 64
             text == body + (IF input > 0 THEN 14 + input ELSE 0)
  <2>1. /\ FindByTrigger(trigger) # 0
        /\ skillPrompt' = IF total > PromptRoom THEN NoPrompt
                          ELSE [body |-> body, input |-> input, length |-> Smaller(text, total - 1)]
        /\ UNCHANGED <<folder, fileAt, skills, taken, registered, flags>>
    BY <1>7 DEF BuildPrompt
  <2>2. body \in Nat /\ input \in Nat
    <3>1. SkillTypes
      BY DEF SkillInv
    <3>2. FindByTrigger(trigger) \in 1..Len(skills)
      BY <2>1, <3>1, FindByTriggerIs
    <3>3. skills[FindByTrigger(trigger)] \in Skill
      BY <3>1, <3>2, ElementOfSeq DEF SkillTypes
    <3>4. QED BY <3>3, SkillAssumption DEF Skill
  <2>3. Smaller(text, total - 1) >= body + input
    <3> HIDE DEF body
    <3>1. QED BY <2>2 DEF Smaller
  <2> HIDE DEF body, total, text
  <2>4. PromptWhole'
    BY <2>1, <2>3 DEF PromptWhole
  <2>5. QED BY <1>1, <1>2, <2>1, <2>4 DEF SkillInv
<1>8. CASE UNCHANGED skillVars
  BY <1>1, <1>2, <1>3, <1>8 DEF SkillInv, skillVars
<1>9. QED BY <1>4, <1>5, <1>6, <1>7, <1>8 DEF SkillNext

(* What the invariant says of the offerings is what the property does. *)
LEMMA FiledIsNotMissed == SkillInv => NoneIsMissed
<1> SUFFICES ASSUME SkillInv PROVE NoneIsMissed
  OBVIOUS
<1>1. SkillTypes /\ Filed(Offer, Count, skills, taken)
  BY DEF SkillInv
<1>2. Offerings = 1..Count /\ \A i \in 1..Count : Offer[i] = Offered(i)
  BY <1>1, OfferingsCounted
<1>3. DOMAIN skills = 1..Len(skills)
  BY <1>1 DEF SkillTypes
<1>4. PICK choice \in [1..Len(skills) -> 1..Count] :
        /\ \A i, k \in 1..Len(skills) : i < k => choice[i] < choice[k]
        /\ \A i \in 1..Len(skills) : Offer[choice[i]].fit /\ Bare(skills[i]) = Offer[choice[i]].skill
        /\ \A i \in 1..Count :
             (\A k \in 1..Len(skills) : choice[k] # i) =>
               (Offer[i].fit => Len(skills) = MaxSkills \/ taken + Offer[i].units > SkillRoom)
  BY <1>1 DEF Filed
<1>5. choice \in Selections(Len(skills))
  BY <1>2, <1>4 DEF Selections
<1>6. \A i \in DOMAIN skills : Offered(choice[i]).fit /\ [skills[i] EXCEPT !.enabled = TRUE] = Offered(choice[i]).skill
  <2>1. TAKE i \in DOMAIN skills
  <2>2. choice[i] \in 1..Count /\ i \in 1..Len(skills)
    BY <1>3, <1>4
  <2>3. Bare(skills[i]) = [skills[i] EXCEPT !.enabled = TRUE]
    BY DEF Bare
  <2>4. Offer[choice[i]].fit /\ Bare(skills[i]) = Offer[choice[i]].skill /\ Offer[choice[i]] = Offered(choice[i])
    BY <1>2, <1>4, <2>2
  <2>5. QED BY <2>3, <2>4
<1>7. \A i \in Offerings \ Range(choice) :
        Offered(i).fit => Len(skills) = MaxSkills \/ taken + Offered(i).units > SkillRoom
  <2>1. TAKE i \in Offerings \ Range(choice)
  <2>2. i \in 1..Count /\ Offer[i] = Offered(i)
    BY <1>2
  <2>3. \A k \in 1..Len(skills) : choice[k] # i
    BY <1>4, <2>1 DEF Range
  <2>4. QED BY <1>4, <2>2, <2>3
<1>8. QED BY <1>5, <1>6, <1>7 DEF NoneIsMissed

LEMMA SetIsHidden == SkillInv => DisabledIsHidden
<1> SUFFICES ASSUME SkillInv PROVE DisabledIsHidden
  OBVIOUS
<1>1. SkillTypes /\ skills \in Seq(Skill) /\ AsSet(skills, flags)
  BY DEF SkillInv, SkillTypes
<1>2. ASSUME NEW name \in SkillNames, Find(name) # 0
      PROVE  skills[Find(name)].enabled = flags[name]
  BY <1>1, <1>2, FindIs DEF AsSet
<1>3. ASSUME NEW trigger \in Triggers, FindByTrigger(trigger) # 0
      PROVE  LET at == FindByTrigger(trigger)
             IN flags[skills[at].name] \/ Find(skills[at].name) < at
  <2> DEFINE at == FindByTrigger(trigger)
             name == skills[at].name
  <2>1. at \in 1..Len(skills) /\ skills[at].enabled
    BY <1>1, <1>3, FindByTriggerIs
  <2>2. name \in SkillNames
    <3>1. skills[at] \in Skill
      BY <1>1, <2>1, ElementOfSeq
    <3>2. QED BY <3>1 DEF Skill
  <2> HIDE DEF at
  <2>3. Find(name) # 0
    BY <1>1, <2>1, FindIs
  <2>4. Find(name) \in 1..Len(skills) /\ \A k \in 1..Find(name) - 1 : skills[k].name # name
    BY <1>1, <2>3, FindIs
  <2>5. ~(at < Find(name))
    <3>1. at < Find(name) => at \in 1..Find(name) - 1
      BY <1>1, <2>1, <2>4
    <3>2. QED BY <2>4, <3>1
  <2>6. Find(name) = at \/ Find(name) < at
    BY <2>1, <2>4, <2>5
  <2>7. Find(name) = at => flags[name]
    <3>1. Find(name) = at => skills[Find(name)].enabled
      BY <2>1
    <3>2. QED BY <1>2, <2>2, <2>3, <3>1
  <2>8. QED BY <2>6, <2>7 DEF at
<1>4. QED BY <1>2, <1>3 DEF DisabledIsHidden

(* For any files, calls and sizes: every skill that was in a file or was   *)
(* registered is in the table, in the order they came, unless there was no *)
(* room for it; a name is as enabled as it was last set; and a prompt has  *)
(* all of the skill and of the input, or is none.                          *)
THEOREM SkillsStayAsFiled == SkillSpec => []SkillsAsFiled
<1>1. SkillInv => SkillsAsFiled
  BY FiledIsNotMissed, SetIsHidden DEF SkillInv, SkillsAsFiled
<1>2. SkillInv /\ [SkillNext]_skillVars => SkillInv'
  BY SkillKeeps
<1>3. QED
  BY <1>1, <1>2, SkillInitially, PTL DEF SkillSpec

-----------------------------------------------------------------------------
(***************************************************************************)
(* What the parser has read is kept in a book beside its stack: the texts  *)
(* that each container holds so far (held), where it begins (at) and the   *)
(* arena that was spent before it (spent).                                 *)
(***************************************************************************)
Types == {"array", "object"}
Comma1(i) == IF i = 1 THEN 0 ELSE 1
KeyLen(type) == IF type = "object" THEN 2 ELSE 0
Gap(type, i) == Comma1(i) + KeyLen(type)

(* The tokens v stand in s after the first o of it; a text agrees with s   *)
(* there as far as both of them go.                                        *)
Stands(s, o, v) == o + Len(v) <= Len(s) /\ \A q \in 1..Len(v) : s[o + q] = v[q]
Agrees(x, s, o) == \A q \in 1..Len(x.text) : o + q <= Len(s) => s[o + q] = x.text[q]

IsText(t) == t.text \in Seq(Tokens) /\ t.text # <<>> /\ t.needs \in Nat

(* What a container may hold, of texts of up to l containers.              *)
Holds(type, keys, parts, l) ==
  /\ parts \in Seq(TextsUpTo[l]) /\ Len(parts) <= MaxElements
  /\ IF type = "array" THEN keys = <<>> ELSE keys \in Seq(Strings) /\ Len(keys) = Len(parts)

(* It may be what was begun as frame, with n elements at least.            *)
Continues(frame, held, keys, parts, l, n) ==
  /\ Holds(frame.type, keys, parts, l) /\ Len(parts) >= n
  /\ \A i \in 1..Len(held) : parts[i] = held[i]
  /\ \A i \in 1..Len(frame.keys) : keys[i] = frame.keys[i]

FilledBy(frame, held) == Filled(frame.type, frame.keys, held)

(* Where the next element of a container begins, and what is spent by then. *)
NextPlace(frame, held, o) ==
  o + Len(FilledBy(frame, held).text) + Gap(frame.type, Len(held) + 1)
Used(frame, held, b) == b + (2 * frame.cap - FirstCap) + FilledBy(frame, held).needs

(* Whatever text has begun at o is a container that continues frame.       *)
Follows(s, frame, held, o, l, n) ==
  \A x \in TextsUpTo[l + 1] :
    Agrees(x, s, o) =>
      \E keys, parts : /\ Continues(frame, held, keys, parts, l, n)
                       /\ x = ContainerText(frame.type, keys, parts)

(* A container whose elements may hold l containers inside each other, at  *)
(* o: it has paid for so many elements.                                    *)
Kept(s, frame, held, o, l, paid) ==
  /\ held \in Seq(TextsUpTo[l]) /\ Len(held) <= MaxElements
  /\ Len(frame.items) = Len(held) /\ \A i \in 1..Len(held) : frame.items[i] = held[i].value
  /\ o \in Nat /\ Stands(s, o, FilledBy(frame, held).text)
  /\ 2 * frame.cap - FirstCap = BlocksOf(paid)

KeyCount(frame, n) == Len(frame.keys) = IF frame.type = "object" THEN n ELSE 0

(* A container in which an element has begun.                              *)
Begun(s, frame, held, o, l) ==
  /\ Kept(s, frame, held, o, l, Len(held) + 1) /\ Len(held) < MaxElements
  /\ KeyCount(frame, Len(held) + 1)
  /\ Stands(s, o + Len(FilledBy(frame, held).text), Before(frame.type, frame.keys, Len(held) + 1))
  /\ Follows(s, frame, held, o, l, Len(held) + 1)

(* The container on top, by what it wants.                                 *)
AfterElement(s, frame, held, o, l) ==
  /\ Kept(s, frame, held, o, l, Len(held)) /\ KeyCount(frame, Len(held))
  /\ Len(s) = o + Len(FilledBy(frame, held).text)
  /\ Follows(s, frame, held, o, l, Len(held))
AfterComma(s, frame, held, o, l) ==
  /\ Kept(s, frame, held, o, l, Len(held)) /\ KeyCount(frame, Len(held))
  /\ 0 < Len(held) /\ Len(held) < MaxElements
  /\ Len(s) = o + Len(FilledBy(frame, held).text) + 1 /\ s[Len(s)] = ","
  /\ Follows(s, frame, held, o, l, Len(held) + 1)
AfterKey(s, frame, held, o, l) ==
  /\ Kept(s, frame, held, o, l, Len(held) + 1) /\ KeyCount(frame, Len(held) + 1)
  /\ Len(held) < MaxElements /\ frame.type = "object"
  /\ Len(s) = NextPlace(frame, held, o) - 1 /\ s[Len(s)] = frame.keys[Len(held) + 1]
  /\ (Len(held) # 0 => s[Len(s) - 1] = ",")
  /\ Follows(s, frame, held, o, l, Len(held) + 1)
AfterColon(s, frame, held, o, l) ==
  Begun(s, frame, held, o, l) /\ frame.type = "object" /\ Len(s) = NextPlace(frame, held, o)

OnTop(w, s, frame, held, o, l) ==
  \/ w = "first" /\ held = <<>> /\ AfterElement(s, frame, held, o, l)
  \/ w = "more" /\ held # <<>> /\ AfterElement(s, frame, held, o, l)
  \/ w = "key" /\ frame.type = "object" /\ AfterComma(s, frame, held, o, l)
  \/ w = "value" /\ frame.type = "array" /\ AfterComma(s, frame, held, o, l)
  \/ w = "colon" /\ AfterKey(s, frame, held, o, l)
  \/ w = "value" /\ AfterColon(s, frame, held, o, l)

(* An element has begun in each of the first n containers.                 *)
Chain(s, frames, held, at, spent, n) ==
  /\ at[1] = 0 /\ spent[1] = 0
  /\ \A j \in 1..n : /\ Begun(s, frames[j], held[j], at[j], MaxNesting - j)
                     /\ at[j + 1] = NextPlace(frames[j], held[j], at[j])
                     /\ spent[j + 1] = Used(frames[j], held[j], spent[j])

Nodes == UNION {{t.value : t \in TextsUpTo[l]} : l \in 0..MaxNesting}
Frames == [type : Types, keys : Seq(Strings), items : Seq(Nodes), cap : Nat]

Reading(s, w, frames, b) ==
  \/ w = "value" /\ frames = <<>> /\ s = <<>> /\ b = 0
  \/ /\ frames # <<>>
     /\ \E held, at, spent :
          LET d == Len(frames) IN
          /\ Chain(s, frames, held, at, spent, d - 1)
          /\ OnTop(w, s, frames[d], held[d], at[d], MaxNesting - d)
          /\ b = Used(frames[d], held[d], spent[d])

(* The whole text was read: no other begins like it.                       *)
WasRead(s, value, b) ==
  \E x \in TextsUpTo[MaxNesting] :
    /\ x.text = s /\ x.value = value /\ x.needs = b
    /\ \A t \in TextsUpTo[MaxNesting] : Agrees(t, s, 0) => t = x

ParserTypes ==
  /\ tokens \in Seq(Tokens) /\ stack \in Seq(Frames) /\ Len(stack) <= MaxNesting
  /\ blocks \in Nat /\ blocks <= JsonRoom

ParserInv ==
  /\ ParserTypes
  /\ \/ Reading(tokens, wants, stack, blocks)
     \/ wants = "end" /\ stack = <<>> /\ WasRead(tokens, parsed, blocks)
     \/ wants \in {"ok", "invalid", "full"} /\ JsonIsRead

-----------------------------------------------------------------------------
(***************************************************************************)
(* The parser of JSON, for any strings and scalars, any arena and any      *)
(* limits.  First the room of a container: its blocks double.              *)
(***************************************************************************)
Doubles(b, n) ==
  /\ b \in [0..n -> Nat] /\ b[0] = FirstCap
  /\ \A k \in 1..n : b[k] = 2 * b[k - 1]

(* Blocks of the sizes that grow by doubling exist. *)
LEMMA DoublesExist ==
  ASSUME NEW n \in Nat
  PROVE  \E b : Doubles(b, n)
<1> DEFINE Wanting == {m \in 0..n : ~ \E b : Doubles(b, m)}
<1>1. Wanting = {}
  <2>1. SUFFICES ASSUME Wanting # {} PROVE FALSE
    OBVIOUS
  <2>2. Wanting \in SUBSET Nat
    OBVIOUS
  <2>3. PICK m \in Wanting : \A l \in Wanting : m <= l
    <3> HIDE DEF Wanting
    <3>1. QED BY <2>1, <2>2, LeastExists
  <2>4. m \in 0..n /\ ~ \E b : Doubles(b, m)
    OBVIOUS
  <2>5. CASE m = 0
    <3> DEFINE b == [i \in 0..0 |-> FirstCap]
    <3>1. Doubles(b, 0)
      BY JsonAssumption DEF Doubles
    <3>2. QED BY <2>4, <2>5, <3>1
  <2>6. CASE m # 0
    <3>1. m - 1 \in 0..n /\ m - 1 \notin Wanting
      <4> HIDE DEF Wanting
      <4>1. QED BY <2>2, <2>3, <2>4, <2>6
    <3>2. PICK b : Doubles(b, m - 1)
      BY <3>1
    <3> DEFINE c == [i \in 0..m |-> IF i < m THEN b[i] ELSE 2 * b[m - 1]]
    <3>3. m - 1 \in 0..m - 1 /\ b[m - 1] \in Nat
      BY <2>4, <2>6, <3>2 DEF Doubles
    <3>4. c \in [0..m -> Nat] /\ c[m] = 2 * b[m - 1] /\ \A i \in 0..m - 1 : c[i] = b[i]
      BY <2>4, <3>2, <3>3 DEF Doubles
    <3> HIDE DEF c
    <3>5. \A k \in 1..m : c[k] = 2 * c[k - 1]
      <4> TAKE k \in 1..m
      <4>1. CASE k = m
        BY <3>3, <3>4, <4>1
      <4>2. CASE k # m
        <5>1. k \in 1..m - 1 /\ k \in 0..m - 1 /\ k - 1 \in 0..m - 1
          BY <2>4, <4>2
        <5>2. b[k] = 2 * b[k - 1]
          BY <3>2, <5>1 DEF Doubles
        <5>3. QED BY <3>4, <5>1, <5>2
      <4>3. QED BY <4>1, <4>2
    <3>6. c[0] = FirstCap
      BY <2>4, <2>6, <3>2, <3>4 DEF Doubles
    <3>7. Doubles(c, m)
      BY <3>4, <3>5, <3>6 DEF Doubles
    <3>8. QED BY <2>4, <3>7
  <2>7. QED BY <2>5, <2>6
<1>2. n \in 0..n
  OBVIOUS
<1>3. QED BY <1>1, <1>2

(* Two such lists agree as far as both go. *)
LEMMA DoublesAgree ==
  ASSUME NEW m \in Nat, NEW n \in 0..m, NEW b, Doubles(b, n), NEW c, Doubles(c, m)
  PROVE  \A k \in 0..n : b[k] = c[k]
<1> DEFINE Odd == {k \in 0..n : b[k] # c[k]}
<1>1. SUFFICES ASSUME Odd # {} PROVE FALSE
  OBVIOUS
<1>2. Odd \in SUBSET Nat
  OBVIOUS
<1>3. PICK k \in Odd : \A l \in Odd : k <= l
  <2> HIDE DEF Odd
  <2>1. QED BY <1>1, <1>2, LeastExists
<1>4. k \in 0..n /\ b[k] # c[k]
  OBVIOUS
<1>5. k # 0
  BY <1>4 DEF Doubles
<1>6. k - 1 \in 0..n /\ k - 1 \notin Odd
  <2> HIDE DEF Odd
  <2>1. QED BY <1>2, <1>3, <1>4, <1>5
<1>7. b[k - 1] = c[k - 1]
  BY <1>6
<1>8. k \in 1..n /\ k \in 1..m
  BY <1>4, <1>5
<1>9. QED BY <1>4, <1>7, <1>8 DEF Doubles

(* Each block has room for more elements than blocks came before it. *)
LEMMA DoublesLarge ==
  ASSUME NEW n \in Nat, NEW b, Doubles(b, n)
  PROVE  \A k \in 0..n : b[k] > k
<1> DEFINE Odd == {k \in 0..n : ~(b[k] > k)}
<1>1. SUFFICES ASSUME Odd # {} PROVE FALSE
  OBVIOUS
<1>2. Odd \in SUBSET Nat
  OBVIOUS
<1>3. PICK k \in Odd : \A l \in Odd : k <= l
  <2> HIDE DEF Odd
  <2>1. QED BY <1>1, <1>2, LeastExists
<1>4. k \in 0..n /\ ~(b[k] > k)
  OBVIOUS
<1>5. k # 0
  BY <1>4, JsonAssumption DEF Doubles
<1>6. k - 1 \in 0..n /\ k - 1 \notin Odd
  <2> HIDE DEF Odd
  <2>1. QED BY <1>2, <1>3, <1>4, <1>5
<1>7. b[k - 1] > k - 1 /\ b[k - 1] \in Nat
  BY <1>6 DEF Doubles
<1>8. k \in 1..n /\ k \in Nat
  BY <1>4, <1>5
<1>9. b[k] = 2 * b[k - 1]
  BY <1>8 DEF Doubles
<1>10. QED BY <1>4, <1>7, <1>8, <1>9

(* The last block of a container of n elements. *)
Suffices(b, n, k) == k \in 0..n /\ b[k] >= n /\ \A j \in 0..k - 1 : b[j] < n

(* The blocks of a container, by the last of them. *)
LEMMA BlocksAre ==
  ASSUME NEW m \in Nat, NEW n \in 0..m, NEW c, Doubles(c, m), NEW k, Suffices(c, n, k)
  PROVE  BlocksOf(n) = 2 * c[k] - FirstCap
<1> DEFINE b == [i \in 0..n |-> c[i]]
<1>1. n \in Nat /\ \A i \in 0..n : i \in 0..m
  OBVIOUS
<1>2. b \in [0..n -> Nat] /\ \A i \in 0..n : b[i] = c[i]
  BY <1>1 DEF Doubles
<1>3. Doubles(b, n)
  <2>1. b[0] = FirstCap
    BY <1>1, <1>2 DEF Doubles
  <2>2. \A i \in 1..n : b[i] = 2 * b[i - 1]
    <3> HIDE DEF b
    <3> TAKE i \in 1..n
    <3>1. i \in 1..m /\ i \in 0..n /\ i - 1 \in 0..n
      OBVIOUS
    <3>2. QED BY <1>2, <3>1 DEF Doubles
  <2>3. QED BY <1>2, <2>1, <2>2 DEF Doubles
<1> HIDE DEF b
<1> DEFINE Block == CHOOSE f : f = [i \in 0..n |-> IF i = 0 THEN FirstCap ELSE 2 * f[i - 1]]
<1>4. b = [i \in 0..n |-> IF i = 0 THEN FirstCap ELSE 2 * b[i - 1]]
  <2>1. b = [i \in 0..n |-> b[i]]
    BY <1>3 DEF Doubles
  <2>2. \A i \in 0..n : b[i] = IF i = 0 THEN FirstCap ELSE 2 * b[i - 1]
    BY <1>3 DEF Doubles
  <2>3. QED BY <2>1, <2>2
<1>5. Block = [i \in 0..n |-> IF i = 0 THEN FirstCap ELSE 2 * Block[i - 1]]
  BY <1>4
<1> HIDE DEF Block
<1>6. \A i \in 0..n : Block[i] = b[i]
  <2> DEFINE Odd == {i \in 0..n : Block[i] # b[i]}
  <2>1. SUFFICES ASSUME Odd # {} PROVE FALSE
    OBVIOUS
  <2>2. Odd \in SUBSET Nat
    OBVIOUS
  <2>3. PICK i \in Odd : \A l \in Odd : i <= l
    <3> HIDE DEF Odd
    <3>1. QED BY <2>1, <2>2, LeastExists
  <2>4. i \in 0..n /\ Block[i] # b[i]
    OBVIOUS
  <2>5. Block[i] = IF i = 0 THEN FirstCap ELSE 2 * Block[i - 1]
    BY <1>5, <2>4
  <2>6. b[i] = IF i = 0 THEN FirstCap ELSE 2 * b[i - 1]
    BY <1>3, <2>4 DEF Doubles
  <2>7. i # 0 => i - 1 \in 0..n /\ i - 1 \notin Odd
    <3> HIDE DEF Odd
    <3>1. QED BY <2>2, <2>3, <2>4
  <2>8. i # 0 => Block[i - 1] = b[i - 1]
    BY <2>7
  <2>9. QED BY <2>4, <2>5, <2>6, <2>8
<1>7. k \in 0..n /\ Block[k] = c[k] /\ Block[k] >= n /\ \A j \in 0..k - 1 : Block[j] < n
  <2>1. k \in 0..n /\ \A j \in 0..k - 1 : j \in 0..n
    BY DEF Suffices
  <2>2. QED BY <1>2, <1>6, <2>1 DEF Suffices
<1> DEFINE last == CHOOSE i \in 0..n : Block[i] >= n /\ \A j \in 0..i - 1 : Block[j] < n
<1>8. last \in 0..n /\ Block[last] >= n /\ \A j \in 0..last - 1 : Block[j] < n
  BY <1>7
<1>9. last = k
  <2> HIDE DEF last
  <2>1. last \in Nat /\ k \in Nat /\ Block[last] \in Nat /\ Block[k] \in Nat
    BY <1>2, <1>6, <1>7, <1>8
  <2>2. CASE last < k
    <3>1. last \in 0..k - 1
      BY <2>1, <2>2
    <3>2. QED BY <1>1, <1>7, <1>8, <2>1, <3>1
  <2>3. CASE k < last
    <3>1. k \in 0..last - 1
      BY <2>1, <2>3
    <3>2. QED BY <1>1, <1>7, <1>8, <2>1, <3>1
  <2>4. QED BY <2>1, <2>2, <2>3
<1>10. BlocksOf(n) = 2 * Block[last] - FirstCap
  BY DEF BlocksOf, Block, last
<1>11. QED BY <1>7, <1>9, <1>10

(* Some block suffices, and no one before it. *)
LEMMA LastExists ==
  ASSUME NEW m \in Nat, NEW n \in 0..m, NEW c, Doubles(c, m)
  PROVE  \E k : Suffices(c, n, k)
<1> DEFINE Large == {k \in 0..n : c[k] >= n}
<1>1. n \in Nat /\ \A i \in 0..n : i \in 0..m /\ c[i] \in Nat
  BY DEF Doubles
<1>2. n \in 0..n /\ c[n] > n
  BY <1>1, DoublesLarge
<1>3. Large # {} /\ Large \in SUBSET Nat
  BY <1>1, <1>2
<1>4. PICK k \in Large : \A l \in Large : k <= l
  <2> HIDE DEF Large
  <2>1. QED BY <1>3, LeastExists
<1>5. k \in 0..n /\ c[k] >= n
  OBVIOUS
<1>6. ASSUME NEW j \in 0..k - 1 PROVE c[j] < n
  <2>1. j \in 0..n /\ ~(k <= j)
    BY <1>5
  <2>2. j \notin Large
    <3> HIDE DEF Large
    <3>1. QED BY <1>4, <2>1
  <2>3. QED BY <1>1, <2>1, <2>2
<1>7. QED BY <1>5, <1>6 DEF Suffices

(* A container begins with one block, and gets another when the last one   *)
(* is full and one more element comes.                                     *)
LEMMA BlocksBegin == BlocksOf(0) = FirstCap
<1>1. PICK c : Doubles(c, 0)
  BY DoublesExist
<1>2. Suffices(c, 0, 0)
  BY <1>1, JsonAssumption DEF Suffices, Doubles
<1>3. c[0] = FirstCap
  BY <1>1 DEF Doubles
<1>4. 0 \in 0..0 /\ 0 \in Nat
  OBVIOUS
<1>5. BlocksOf(0) = 2 * c[0] - FirstCap
  BY <1>1, <1>2, <1>4, BlocksAre
<1>6. QED BY <1>3, <1>5, JsonAssumption

(* One element more costs nothing unless the last block is full, and then  *)
(* one of twice its size.                                                  *)
LEMMA BlocksGrow ==
  ASSUME NEW n \in Nat
  PROVE  \E r \in Nat : /\ r >= n /\ r >= FirstCap /\ BlocksOf(n) = 2 * r - FirstCap
                        /\ BlocksOf(n + 1) = IF r = n THEN 2 * (2 * r) - FirstCap ELSE 2 * r - FirstCap
<1>1. PICK c : Doubles(c, n + 1)
  BY DoublesExist
<1>2. n \in 0..n + 1 /\ n + 1 \in 0..n + 1 /\ n + 1 \in Nat
  OBVIOUS
<1>3. PICK k : Suffices(c, n, k)
  BY <1>1, <1>2, LastExists
<1>4. k \in 0..n /\ c[k] \in Nat /\ c[k] >= n
  BY <1>1, <1>3 DEF Suffices, Doubles
<1>5. BlocksOf(n) = 2 * c[k] - FirstCap
  BY <1>1, <1>2, <1>3, BlocksAre
<1>6. c[k] >= FirstCap
  <2>1. CASE k = 0
    BY <1>1, <2>1, JsonAssumption DEF Doubles
  <2>2. CASE k # 0
    <3>1. 0 \in 0..k - 1 /\ k \in 0..n + 1
      BY <1>4, <2>2
    <3>2. c[0] < n /\ c[0] = FirstCap
      BY <1>1, <1>3, <3>1 DEF Suffices, Doubles
    <3>3. QED BY <1>4, <3>2, JsonAssumption
  <2>3. QED BY <2>1, <2>2
<1>7. CASE c[k] # n
  <2>1. Suffices(c, n + 1, k)
    <3>1. \A j \in 0..k - 1 : c[j] < n /\ c[j] \in Nat
      BY <1>1, <1>3, <1>4 DEF Suffices, Doubles
    <3>2. QED BY <1>4, <1>7, <3>1 DEF Suffices
  <2>2. BlocksOf(n + 1) = 2 * c[k] - FirstCap
    BY <1>1, <1>2, <2>1, BlocksAre
  <2>3. QED BY <1>4, <1>5, <1>6, <1>7, <2>2
<1>8. CASE c[k] = n
  <2>1. n # 0
    BY <1>6, <1>8, JsonAssumption
  <2>2. k + 1 \in 0..n + 1 /\ k + 1 \in 1..n + 1 /\ (k + 1) - 1 = k
    BY <1>4
  <2>3. c[k + 1] = 2 * c[k]
    BY <1>1, <2>2 DEF Doubles
  <2>4. Suffices(c, n + 1, k + 1)
    <3>1. ASSUME NEW j \in 0..(k + 1) - 1 PROVE c[j] < n + 1
      <4>1. CASE j = k
        BY <1>8, <4>1
      <4>2. CASE j # k
        <5>1. j \in 0..k - 1 /\ j \in 0..n + 1
          BY <1>4, <4>2
        <5>2. c[j] < n /\ c[j] \in Nat
          BY <1>1, <1>3, <5>1 DEF Suffices, Doubles
        <5>3. QED BY <5>2
      <4>3. QED BY <4>1, <4>2
    <3>2. QED BY <1>8, <2>1, <2>2, <2>3, <3>1 DEF Suffices
  <2>5. BlocksOf(n + 1) = 2 * c[k + 1] - FirstCap
    BY <1>1, <1>2, <2>4, BlocksAre
  <2>6. QED BY <1>4, <1>5, <1>6, <1>8, <2>3, <2>5
<1>9. QED BY <1>7, <1>8

(* The blocks are a number of elements, and do not shrink. *)
LEMMA BlocksNumber == ASSUME NEW n \in Nat PROVE BlocksOf(n) \in Nat /\ BlocksOf(n) <= BlocksOf(n + 1)
BY BlocksGrow, JsonAssumption

(* More elements need no less. *)
LEMMA BlocksMonotone ==
  ASSUME NEW n \in Nat, NEW m \in Nat, n <= m
  PROVE  BlocksOf(n) <= BlocksOf(m)
<1> DEFINE Odd == {k \in Nat : n <= k /\ ~(BlocksOf(n) <= BlocksOf(k))}
<1>1. SUFFICES ASSUME Odd # {} PROVE FALSE
  OBVIOUS
<1>2. Odd \in SUBSET Nat
  OBVIOUS
<1>3. PICK k \in Odd : \A l \in Odd : k <= l
  <2> HIDE DEF Odd
  <2>1. QED BY <1>1, <1>2, LeastExists
<1>4. k \in Nat /\ n <= k /\ ~(BlocksOf(n) <= BlocksOf(k))
  OBVIOUS
<1>5. k # n
  BY <1>4, BlocksNumber
<1>6. k - 1 \in Nat /\ n <= k - 1 /\ k - 1 \notin Odd /\ (k - 1) + 1 = k
  <2> HIDE DEF Odd
  <2>1. QED BY <1>3, <1>4, <1>5
<1>7. BlocksOf(n) <= BlocksOf(k - 1)
  BY <1>6
<1>8. BlocksOf(k - 1) <= BlocksOf(k) /\ BlocksOf(k - 1) \in Nat
  BY <1>6, BlocksNumber
<1>9. BlocksOf(k) \in Nat /\ BlocksOf(n) \in Nat
  BY <1>4, BlocksNumber
<1>10. QED BY <1>4, <1>7, <1>8, <1>9

-----------------------------------------------------------------------------

(* The kinds of tokens, which differ. *)
LEMMA TokenTypes ==
  /\ \A m \in Marks : m \in Tokens
  /\ \A x \in Strings : x \in Tokens /\ x \notin Marks
  /\ \A x \in Scalars : x \in Tokens /\ x \notin Marks
  /\ \A type \in Types : Opener(type) \in Marks /\ Ender(type) \in Marks
BY JsonAssumption DEF Tokens, Types, Opener, Ender, Marks

(* What is put together stands where its parts stand one after the other. *)
LEMMA StandsSplit ==
  ASSUME NEW s, Len(s) \in Nat, NEW o \in Nat, NEW a \in Seq(Tokens), NEW b \in Seq(Tokens)
  PROVE  Stands(s, o, a \o b) <=> Stands(s, o, a) /\ Stands(s, o + Len(a), b)
<1>1. /\ Len(a) \in Nat /\ Len(b) \in Nat /\ Len(a \o b) = Len(a) + Len(b)
      /\ \A q \in 1..Len(a) + Len(b) : (a \o b)[q] = IF q <= Len(a) THEN a[q] ELSE b[q - Len(a)]
  BY ConcatProperties, LenProperties
<1> DEFINE c == a \o b
<1>2. /\ Len(c) = Len(a) + Len(b)
      /\ \A q \in 1..Len(a) : c[q] = a[q]
      /\ \A q \in 1..Len(b) : c[Len(a) + q] = b[q]
  BY <1>1
<1> HIDE DEF c
<1>3. ASSUME Stands(s, o, c) PROVE Stands(s, o, a) /\ Stands(s, o + Len(a), b)
  <2>1. ASSUME NEW q \in 1..Len(a) PROVE s[o + q] = a[q]
    BY <1>1, <1>2, <1>3 DEF Stands
  <2>2. ASSUME NEW q \in 1..Len(b) PROVE s[o + Len(a) + q] = b[q]
    <3>1. Len(a) + q \in 1..Len(c) /\ o + (Len(a) + q) = o + Len(a) + q
      BY <1>1, <1>2
    <3>2. s[o + (Len(a) + q)] = c[Len(a) + q]
      BY <1>3, <3>1 DEF Stands
    <3>3. QED BY <1>2, <3>1, <3>2
  <2>3. QED BY <1>1, <1>2, <1>3, <2>1, <2>2 DEF Stands
<1>4. ASSUME Stands(s, o, a), Stands(s, o + Len(a), b) PROVE Stands(s, o, c)
  <2>1. ASSUME NEW q \in 1..Len(c) PROVE s[o + q] = c[q]
    <3>1. CASE q <= Len(a)
      BY <1>1, <1>2, <1>4, <3>1 DEF Stands
    <3>2. CASE ~(q <= Len(a))
      <4> DEFINE r == q - Len(a)
      <4>1. r \in 1..Len(b) /\ Len(a) + r = q /\ o + Len(a) + r = o + q
        BY <1>1, <1>2, <3>2
      <4> HIDE DEF r
      <4>2. s[o + Len(a) + r] = b[r] /\ c[Len(a) + r] = b[r]
        BY <1>2, <1>4, <4>1 DEF Stands
      <4>3. QED BY <4>1, <4>2
    <3>3. QED BY <3>1, <3>2
  <2>2. QED BY <1>1, <1>2, <1>4, <2>1 DEF Stands
<1>5. QED BY <1>3, <1>4 DEF c

(* What stands in what stands in a text stands in the text. *)
LEMMA StandsInside ==
  ASSUME NEW s, Len(s) \in Nat, NEW a, Len(a) \in Nat, NEW b, Len(b) \in Nat,
         NEW o \in Nat, NEW p \in Nat, Stands(s, o, a), Stands(a, p, b)
  PROVE  Stands(s, o + p, b)
<1>1. ASSUME NEW q \in 1..Len(b) PROVE s[(o + p) + q] = b[q]
  <2>1. p + q \in 1..Len(a) /\ (o + p) + q = o + (p + q)
    BY DEF Stands
  <2>2. s[o + (p + q)] = a[p + q] /\ a[p + q] = b[q]
    BY <2>1 DEF Stands
  <2>3. QED BY <2>1, <2>2
<1>2. (o + p) + Len(b) <= Len(s)
  BY DEF Stands
<1>3. QED BY <1>1, <1>2 DEF Stands

(* A text stands in itself. *)
LEMMA StandsAll == ASSUME NEW s, Len(s) \in Nat PROVE Stands(s, 0, s)
BY DEF Stands

(* The text begins with what stands at its beginning, and is that if it is *)
(* no longer.                                                              *)
LEMMA StandsEqual ==
  ASSUME NEW s \in Seq(Tokens), NEW t \in Seq(Tokens), Stands(s, 0, t), Len(s) = Len(t)
  PROVE  s = t
<1>1. Len(s) \in Nat /\ Len(t) \in Nat
  BY LenProperties
<1>2. \A q \in 1..Len(s) : s[q] = t[q]
  BY <1>1 DEF Stands
<1>3. QED BY <1>1, <1>2, SeqEqual

(* What stands somewhere stands there still when the text goes on.         *)
LEMMA Longer ==
  ASSUME NEW s \in Seq(Tokens), NEW token \in Tokens
  PROVE  LET s2 == Append(s, token) IN
         /\ s2 \in Seq(Tokens) /\ Len(s) \in Nat /\ Len(s2) = Len(s) + 1 /\ s2[Len(s) + 1] = token
         /\ \A q \in 1..Len(s) : s2[q] = s[q]
         /\ Stands(s2, 0, s)
BY LenProperties, AppendProperties DEF Stands

(* What stands in the tokens read stands there after one more. *)
LEMMA StandsLonger ==
  ASSUME NEW s \in Seq(Tokens), NEW token \in Tokens, NEW o \in Nat, NEW v, Len(v) \in Nat,
         Stands(s, o, v)
  PROVE  Stands(Append(s, token), o, v)
<1> DEFINE s2 == Append(s, token)
<1>1. /\ Len(s) \in Nat /\ Len(s2) = Len(s) + 1 /\ \A q \in 1..Len(s) : s2[q] = s[q]
  BY Longer
<1> HIDE DEF s2
<1>2. \A q \in 1..Len(v) : o + q \in 1..Len(s)
  BY <1>1 DEF Stands
<1>3. Stands(s2, o, v)
  BY <1>1, <1>2 DEF Stands
<1>4. QED BY <1>3 DEF s2

(* A text that agrees with more tokens agrees with fewer. *)
LEMMA AgreesShorter ==
  ASSUME NEW s \in Seq(Tokens), NEW token \in Tokens, NEW o \in Nat, NEW x, IsText(x),
         Agrees(x, Append(s, token), o)
  PROVE  Agrees(x, s, o)
<1> DEFINE s2 == Append(s, token)
<1>1. /\ Len(s) \in Nat /\ Len(s2) = Len(s) + 1 /\ \A q \in 1..Len(s) : s2[q] = s[q]
  BY Longer
<1>2. Agrees(x, s2, o)
  OBVIOUS
<1>3. Len(x.text) \in Nat
  BY LenProperties DEF IsText
<1> HIDE DEF s2
<1>4. ASSUME NEW q \in 1..Len(x.text), o + q <= Len(s) PROVE s[o + q] = x.text[q]
  <2>1. o + q \in 1..Len(s) /\ o + q <= Len(s2)
    BY <1>1, <1>3, <1>4
  <2>2. s2[o + q] = x.text[q]
    BY <1>2, <2>1 DEF Agrees
  <2>3. QED BY <1>1, <2>1, <2>2
<1>5. QED BY <1>4 DEF Agrees

(* Where a text agrees and a part of it stands, the part agrees.           *)
LEMMA AgreesInside ==
  ASSUME NEW s, Len(s) \in Nat, NEW x, Len(x.text) \in Nat, NEW y, Len(y.text) \in Nat,
         NEW o \in Nat, NEW p \in Nat, Agrees(x, s, o), Stands(x.text, p, y.text)
  PROVE  Agrees(y, s, o + p)
<1>1. ASSUME NEW q \in 1..Len(y.text), (o + p) + q <= Len(s) PROVE s[(o + p) + q] = y.text[q]
  <2>1. p + q \in 1..Len(x.text) /\ (o + p) + q = o + (p + q)
    BY DEF Stands
  <2>2. s[o + (p + q)] = x.text[p + q] /\ x.text[p + q] = y.text[q]
    BY <1>1, <2>1 DEF Agrees, Stands
  <2>3. QED BY <2>1, <2>2
<1>2. QED BY <1>1 DEF Agrees

-----------------------------------------------------------------------------
(* A container is filled part by part. *)
Start(type) == [text |-> <<Opener(type)>>, needs |-> 0, named |-> <<>>]
With(f, type, keys, parts, k) ==
  [text  |-> (f.text \o Before(type, keys, k)) \o parts[k].text,
   needs |-> f.needs + parts[k].needs,
   named |-> IF type = "object" THEN Named(f.named, keys[k], parts[k].value) ELSE f.named]
Fills(f, type, keys, parts, n) ==
  /\ DOMAIN f = 0..n /\ f[0] = Start(type)
  /\ \A k \in 1..n : f[k] = With(f[k - 1], type, keys, parts, k)

(* The function that Filled is defined by exists. *)
LEMMA FillsExist ==
  ASSUME NEW type, NEW keys, NEW parts, NEW n \in Nat
  PROVE  \E f : Fills(f, type, keys, parts, n)
<1> DEFINE Wanting == {m \in 0..n : ~ \E f : Fills(f, type, keys, parts, m)}
<1>1. SUFFICES ASSUME Wanting # {} PROVE FALSE
  OBVIOUS
<1>2. Wanting \in SUBSET Nat
  OBVIOUS
<1>3. PICK m \in Wanting : \A l \in Wanting : m <= l
  <2> HIDE DEF Wanting
  <2>1. QED BY <1>1, <1>2, LeastExists
<1>4. m \in 0..n /\ ~ \E f : Fills(f, type, keys, parts, m)
  OBVIOUS
<1>5. CASE m = 0
  <2> DEFINE f == [i \in 0..0 |-> Start(type)]
  <2>1. DOMAIN f = 0..0 /\ f[0] = Start(type)
    OBVIOUS
  <2> HIDE DEF f
  <2>2. Fills(f, type, keys, parts, 0)
    BY <2>1 DEF Fills
  <2>3. QED BY <1>4, <1>5, <2>2
<1>6. CASE m # 0
  <2>1. m - 1 \in 0..n /\ m - 1 \notin Wanting
    <3> HIDE DEF Wanting
    <3>1. QED BY <1>2, <1>3, <1>4, <1>6
  <2>2. PICK f : Fills(f, type, keys, parts, m - 1)
    BY <2>1
  <2> DEFINE g == [i \in 0..m |-> IF i < m THEN f[i] ELSE With(f[m - 1], type, keys, parts, m)]
  <2>3. /\ DOMAIN g = 0..m /\ g[m] = With(f[m - 1], type, keys, parts, m)
        /\ \A i \in 0..m - 1 : g[i] = f[i]
    BY <1>4, <1>6
  <2> HIDE DEF g
  <2>4. ASSUME NEW k \in 1..m PROVE g[k] = With(g[k - 1], type, keys, parts, k)
    <3>1. CASE k = m
      <4>1. m - 1 \in 0..m - 1
        BY <1>4, <1>6
      <4>2. QED BY <2>3, <3>1, <4>1
    <3>2. CASE k # m
      <4>1. k \in 1..m - 1 /\ k \in 0..m - 1 /\ k - 1 \in 0..m - 1
        BY <1>4, <3>2
      <4>2. f[k] = With(f[k - 1], type, keys, parts, k)
        BY <2>2, <4>1 DEF Fills
      <4>3. QED BY <2>3, <4>1, <4>2
    <3>3. QED BY <3>1, <3>2
  <2>5. g[0] = Start(type)
    <3>1. 0 \in 0..m - 1
      BY <1>4, <1>6
    <3>2. QED BY <2>2, <2>3, <3>1 DEF Fills
  <2>6. Fills(g, type, keys, parts, m)
    BY <2>3, <2>4, <2>5 DEF Fills
  <2>7. QED BY <1>4, <2>6
<1>7. QED BY <1>5, <1>6

(* Filled is the last value of it. *)
LEMMA FilledIs ==
  ASSUME NEW type, NEW keys, NEW parts, Len(parts) \in Nat
  PROVE  \E f : Fills(f, type, keys, parts, Len(parts)) /\ Filled(type, keys, parts) = f[Len(parts)]
<1> DEFINE n == Len(parts)
           Step(f, k) ==
             [text  |-> (f[k - 1].text \o Before(type, keys, k)) \o parts[k].text,
              needs |-> f[k - 1].needs + parts[k].needs,
              named |-> IF type = "object" THEN Named(f[k - 1].named, keys[k], parts[k].value)
                        ELSE f[k - 1].named]
           Filling == CHOOSE f : f = [k \in 0..n |-> IF k = 0 THEN Start(type) ELSE Step(f, k)]
<1>1. PICK f : Fills(f, type, keys, parts, n)
  BY FillsExist
<1> DEFINE g == [k \in 0..n |-> f[k]]
<1>2. DOMAIN g = 0..n /\ \A k \in 0..n : g[k] = f[k]
  OBVIOUS
<1>3. \A k \in 0..n : g[k] = IF k = 0 THEN Start(type) ELSE Step(g, k)
  <2> TAKE k \in 0..n
  <2>1. CASE k = 0
    BY <1>1, <2>1 DEF Fills
  <2>2. CASE k # 0
    <3>1. k \in 1..n /\ k - 1 \in 0..n
      BY <2>2
    <3>2. f[k] = With(f[k - 1], type, keys, parts, k) /\ g[k] = f[k] /\ g[k - 1] = f[k - 1]
      BY <1>1, <3>1 DEF Fills
    <3> HIDE DEF g
    <3>3. QED BY <2>2, <3>2 DEF With
  <2>3. QED BY <2>1, <2>2
<1>4. g = [k \in 0..n |-> g[k]]
  OBVIOUS
<1> HIDE DEF g
<1>5. [k \in 0..n |-> g[k]] = [k \in 0..n |-> IF k = 0 THEN Start(type) ELSE Step(g, k)]
  <2> HIDE DEF Step, n
  <2>1. QED BY <1>3
<1>6. g = [k \in 0..n |-> IF k = 0 THEN Start(type) ELSE Step(g, k)]
  <2> HIDE DEF Step, n
  <2>1. QED BY <1>4, <1>5
<1>7. Filling = [k \in 0..n |-> IF k = 0 THEN Start(type) ELSE Step(Filling, k)]
  <2> HIDE DEF Step, n
  <2>1. QED BY <1>6
<1>8. Filled(type, keys, parts) = Filling[n]
  BY DEF Filled, Start
<1> HIDE DEF Filling
<1>9. Fills(Filling, type, keys, parts, n)
  <2>1. DOMAIN Filling = 0..n
    <3> HIDE DEF Step, n
    <3>1. QED BY <1>7
  <2>2. Filling[0] = Start(type)
    <3>1. 0 \in 0..n
      OBVIOUS
    <3> HIDE DEF Step, n
    <3>2. QED BY <1>7, <3>1
  <2>3. ASSUME NEW k \in 1..n PROVE Filling[k] = With(Filling[k - 1], type, keys, parts, k)
    <3>1. k \in 0..n /\ k # 0
      OBVIOUS
    <3>2. Filling[k] = Step(Filling, k)
      <4> HIDE DEF Step, n
      <4>1. QED BY <1>7, <3>1
    <3>3. QED BY <3>2 DEF With
  <2>4. QED BY <2>1, <2>2, <2>3 DEF Fills
<1>10. QED BY <1>8, <1>9

(* The gap before an element: a comma but for the first, and in an object  *)
(* a key and a colon.                                                      *)
LEMMA GapTypes ==
  ASSUME NEW i, NEW type
  PROVE  /\ Comma1(i) \in Nat /\ KeyLen(type) \in Nat
         /\ (type = "object" => KeyLen(type) = 2) /\ (type # "object" => KeyLen(type) = 0)
         /\ (i # 1 => Comma1(i) = 1) /\ (i = 1 => Comma1(i) = 0)
         /\ Gap(type, i) = Comma1(i) + KeyLen(type) /\ Gap(type, i) \in Nat
BY DEF Comma1, KeyLen, Gap

(* The short sequences, and what they are put together from. *)
LEMMA ShortSeqs ==
  ASSUME NEW S, NEW x \in S, NEW y \in S, NEW z \in S
  PROVE  /\ <<>> \in Seq(S) /\ Len(<<>>) = 0 /\ <<>> \o <<>> = <<>>
         /\ <<x>> \in Seq(S) /\ Len(<<x>>) = 1 /\ <<x>>[1] = x /\ <<x>> \o <<>> = <<x>>
         /\ <<x, y>> \in Seq(S) /\ Len(<<x, y>>) = 2 /\ <<x, y>>[1] = x /\ <<x, y>>[2] = y
         /\ <<>> \o <<x, y>> = <<x, y>>
         /\ <<x, y, z>> \in Seq(S) /\ Len(<<x, y, z>>) = 3
         /\ <<x, y, z>>[1] = x /\ <<x, y, z>>[2] = y /\ <<x, y, z>>[3] = z
         /\ <<x>> \o <<y, z>> = <<x, y, z>>
<1>1. /\ <<>> \in Seq(S) /\ <<x>> \in Seq(S) /\ <<x, y>> \in Seq(S) /\ <<y, z>> \in Seq(S)
      /\ <<x, y, z>> \in Seq(S)
  OBVIOUS
<1>2. <<>> \o <<>> = <<>> /\ <<x>> \o <<>> = <<x>> /\ <<>> \o <<x, y>> = <<x, y>>
  <2>1. <<>> \o <<>> = <<>>
    BY <1>1, ConcatEmptySeq
  <2>2. <<x>> \o <<>> = <<x>>
    BY <1>1, ConcatEmptySeq
  <2>3. <<>> \o <<x, y>> = <<x, y>>
    BY <1>1, ConcatEmptySeq
  <2>4. QED BY <2>1, <2>2, <2>3
<1>3. <<x>> \o <<y, z>> = <<x, y, z>>
  <2> DEFINE u == <<x>>
             v == <<y, z>>
             w == <<x, y, z>>
  <2>1. u \in Seq(S) /\ Len(u) = 1 /\ u[1] = x /\ v \in Seq(S) /\ Len(v) = 2 /\ v[1] = y /\ v[2] = z
        /\ w \in Seq(S) /\ Len(w) = 3 /\ w[1] = x /\ w[2] = y /\ w[3] = z
    BY <1>1
  <2> HIDE DEF u, v, w
  <2>2. /\ u \o v \in Seq(S) /\ Len(u \o v) = Len(u) + Len(v)
        /\ \A q \in 1..Len(u) + Len(v) : (u \o v)[q] = IF q <= Len(u) THEN u[q] ELSE v[q - Len(u)]
    BY <2>1, ConcatProperties
  <2>3. \A q \in 1..3 : (u \o v)[q] = w[q]
    <3> TAKE q \in 1..3
    <3>1. q = 1 \/ q = 2 \/ q = 3
      OBVIOUS
    <3>2. QED BY <2>1, <2>2, <3>1
  <2>4. u \o v = w
    BY <2>1, <2>2, <2>3, SeqEqual
  <2>5. QED BY <2>4 DEF u, v, w
<1>4. QED BY <1>1, <1>2, <1>3

(* The key of an element, if it has one, is a string. *)
HasKey(type, keys, i) == type = "object" => keys[i] \in Strings

(* What stands before an element. *)
IsBefore(b, type, keys, i) ==
  /\ b \in Seq(Tokens) /\ Len(b) = Gap(type, i) /\ (i # 1 => b[1] = ",")
  /\ type = "object" => b[Comma1(i) + 1] = keys[i] /\ b[Comma1(i) + 2] = ":"

(* What stands in the gap. *)
LEMMA BeforeIs ==
  ASSUME NEW type \in Types, NEW i \in Nat \ {0}, NEW keys, HasKey(type, keys, i)
  PROVE  IsBefore(Before(type, keys, i), type, keys, i)
<1> DEFINE c == ","
           d == ":"
           k == IF type = "object" THEN keys[i] ELSE c
<1>1. c \in Tokens /\ d \in Tokens /\ k \in Tokens
  BY TokenTypes DEF Marks, HasKey
<1>2. Before(type, keys, i) = (IF i = 1 THEN <<>> ELSE <<c>>) \o (IF type = "object" THEN <<k, d>> ELSE <<>>)
  BY DEF Before
<1>3. /\ <<>> \in Seq(Tokens) /\ Len(<<>>) = 0 /\ <<>> \o <<>> = <<>>
      /\ <<c>> \in Seq(Tokens) /\ Len(<<c>>) = 1 /\ <<c>>[1] = c /\ <<c>> \o <<>> = <<c>>
      /\ <<k, d>> \in Seq(Tokens) /\ Len(<<k, d>>) = 2 /\ <<k, d>>[1] = k /\ <<k, d>>[2] = d
      /\ <<>> \o <<k, d>> = <<k, d>>
      /\ <<c, k, d>> \in Seq(Tokens) /\ Len(<<c, k, d>>) = 3
      /\ <<c, k, d>>[1] = c /\ <<c, k, d>>[2] = k /\ <<c, k, d>>[3] = d
      /\ <<c>> \o <<k, d>> = <<c, k, d>>
  <2> HIDE DEF c, d, k
  <2>1. QED BY <1>1, ShortSeqs
<1> HIDE DEF c, d
<1>4. /\ type = "object" => k = keys[i] /\ KeyLen(type) = 2
      /\ type # "object" => KeyLen(type) = 0
      /\ (i # 1 => Comma1(i) = 1) /\ (i = 1 => Comma1(i) = 0)
      /\ Gap(type, i) = Comma1(i) + KeyLen(type)
  BY GapTypes
<1> HIDE DEF k
<1> DEFINE b == Before(type, keys, i)
<1>5. /\ b \in Seq(Tokens) /\ Len(b) = Gap(type, i) /\ (i # 1 => b[1] = c)
      /\ type = "object" => b[Comma1(i) + 1] = keys[i] /\ b[Comma1(i) + 2] = d
  <2>1. CASE i = 1 /\ type = "object"
    <3>1. b = <<k, d>> /\ Comma1(i) + 1 = 1 /\ Comma1(i) + 2 = 2 /\ Gap(type, i) = 2
      BY <1>2, <1>3, <1>4, <2>1
    <3> HIDE DEF b
    <3>2. QED BY <1>3, <1>4, <2>1, <3>1
  <2>2. CASE i # 1 /\ type = "object"
    <3>1. b = <<c, k, d>> /\ Comma1(i) + 1 = 2 /\ Comma1(i) + 2 = 3 /\ Gap(type, i) = 3
      BY <1>2, <1>3, <1>4, <2>2
    <3> HIDE DEF b
    <3>2. QED BY <1>3, <1>4, <2>2, <3>1
  <2>3. CASE i = 1 /\ type # "object"
    <3>1. b = <<>> /\ Gap(type, i) = 0
      BY <1>2, <1>3, <1>4, <2>3
    <3> HIDE DEF b
    <3>2. QED BY <1>3, <1>4, <2>3, <3>1
  <2>4. CASE i # 1 /\ type # "object"
    <3>1. b = <<c>> /\ Gap(type, i) = 1
      BY <1>2, <1>3, <1>4, <2>4
    <3> HIDE DEF b
    <3>2. QED BY <1>3, <1>4, <2>4, <3>1
  <2>5. QED BY <2>1, <2>2, <2>3, <2>4
<1>6. QED BY <1>5 DEF c, d, IsBefore

(* The parts are texts, and the keys strings. *)
Fits(type, keys, parts, n) ==
  \A i \in 1..n : IsText(parts[i]) /\ HasKey(type, keys, i)
IsFill(f, type) ==
  f.text \in Seq(Tokens) /\ Len(f.text) \in Nat \ {0} /\ f.text[1] = Opener(type) /\ f.needs \in Nat

(* An empty container is its opening mark. *)
LEMMA StartFill == ASSUME NEW type \in Types PROVE IsFill(Start(type), type)
BY TokenTypes DEF IsFill, Start

IsWith(w, f, type, b, part, k) ==
  /\ b \in Seq(Tokens) /\ Len(b) = Gap(type, k)
  /\ IsFill(w, type) /\ w.text = (f.text \o b) \o part.text
  /\ Len(w.text) = Len(f.text) + Gap(type, k) + Len(part.text)
  /\ w.needs = f.needs + part.needs
  /\ Stands(w.text, 0, f.text) /\ Stands(w.text, Len(f.text), b)
  /\ Stands(w.text, Len(f.text) + Gap(type, k), part.text)

(* An element more puts the gap and its text behind. *)
LEMMA WithFill ==
  ASSUME NEW type \in Types, NEW keys, NEW parts, NEW k \in Nat \ {0}, NEW f, IsFill(f, type),
         IsText(parts[k]), HasKey(type, keys, k)
  PROVE  IsWith(With(f, type, keys, parts, k), f, type, Before(type, keys, k), parts[k], k)
<1> DEFINE b == Before(type, keys, k)
           a == f.text
           e == parts[k].text
           w == With(f, type, keys, parts, k)
<1>1. /\ a \in Seq(Tokens) /\ Len(a) \in Nat \ {0} /\ a[1] = Opener(type) /\ f.needs \in Nat
      /\ e \in Seq(Tokens) /\ Len(e) \in Nat /\ parts[k].needs \in Nat
  BY LenProperties DEF IsFill, IsText
<1>2. b \in Seq(Tokens) /\ Len(b) = Gap(type, k) /\ Len(b) \in Nat
  <2>1. IsBefore(b, type, keys, k)
    BY BeforeIs
  <2>2. b \in Seq(Tokens) /\ Len(b) = Gap(type, k)
    BY <2>1 DEF IsBefore
  <2>3. QED BY <2>2, LenProperties
<1>3. w.text = (a \o b) \o e /\ w.needs = f.needs + parts[k].needs
  BY DEF With
<1> HIDE DEF a, b, e, w
<1>4. a \o b \in Seq(Tokens) /\ Len(a \o b) = Len(a) + Len(b)
  BY <1>1, <1>2, ConcatProperties
<1>5. (a \o b) \o e \in Seq(Tokens) /\ Len((a \o b) \o e) = Len(a) + Len(b) + Len(e)
  BY <1>1, <1>2, <1>4, ConcatProperties
<1> DEFINE x == (a \o b) \o e
<1>6. Len(x) \in Nat /\ Stands(x, 0, x)
  BY <1>5, LenProperties, StandsAll
<1>7. Stands(x, 0, a \o b) /\ Stands(x, Len(a) + Len(b), e)
  <2>1. Stands(x, 0, a \o b) /\ Stands(x, 0 + Len(a \o b), e)
    BY <1>1, <1>4, <1>6, StandsSplit
  <2>2. 0 + Len(a \o b) = Len(a) + Len(b)
    BY <1>1, <1>2, <1>4
  <2>3. QED BY <2>1, <2>2
<1>8. Stands(x, 0, a) /\ Stands(x, Len(a), b)
  <2>1. Stands(x, 0, a) /\ Stands(x, 0 + Len(a), b)
    BY <1>1, <1>2, <1>6, <1>7, StandsSplit
  <2>2. 0 + Len(a) = Len(a)
    BY <1>1
  <2>3. QED BY <2>1, <2>2
<1>9. x[1] = a[1]
  <2> HIDE DEF x
  <2>1. 1 \in 1..Len(a) /\ 0 + 1 = 1
    BY <1>1
  <2>2. x[0 + 1] = a[1]
    BY <1>8, <2>1 DEF Stands
  <2>3. QED BY <2>1, <2>2
<1>10. w.text = x
  BY <1>3
<1>11. x \in Seq(Tokens) /\ Len(x) = Len(a) + Len(b) + Len(e)
  BY <1>5
<1> HIDE DEF x
<1>12. IsFill(w, type)
  BY <1>1, <1>2, <1>3, <1>9, <1>10, <1>11 DEF IsFill
<1>13. /\ w.text = (a \o b) \o e /\ Len(w.text) = Len(a) + Gap(type, k) + Len(e)
       /\ w.needs = f.needs + parts[k].needs
       /\ Stands(w.text, 0, a) /\ Stands(w.text, Len(a), b)
       /\ Stands(w.text, Len(a) + Gap(type, k), e)
  BY <1>2, <1>3, <1>7, <1>8, <1>10, <1>11
<1>14. QED BY <1>2, <1>12, <1>13 DEF a, b, e, w, IsWith

(* So a container is filled with tokens, at any number of elements. *)
LEMMA FillTypes ==
  ASSUME NEW type \in Types, NEW keys, NEW parts, NEW n \in Nat, NEW f,
         Fills(f, type, keys, parts, n), Fits(type, keys, parts, n)
  PROVE  \A k \in 0..n : IsFill(f[k], type)
<1> DEFINE Odd == {i \in 0..n : ~IsFill(f[i], type)}
<1>1. SUFFICES ASSUME Odd # {} PROVE FALSE
  OBVIOUS
<1>2. Odd \in SUBSET Nat
  OBVIOUS
<1>3. PICK i \in Odd : \A l \in Odd : i <= l
  <2> HIDE DEF Odd
  <2>1. QED BY <1>1, <1>2, LeastExists
<1>4. i \in 0..n /\ ~IsFill(f[i], type)
  OBVIOUS
<1>5. i # 0
  BY <1>4, StartFill DEF Fills
<1>6. i - 1 \in 0..n /\ i - 1 \notin Odd /\ i \in 1..n /\ i \in Nat \ {0}
  <2> HIDE DEF Odd
  <2>1. QED BY <1>2, <1>3, <1>4, <1>5
<1>7. IsFill(f[i - 1], type)
  BY <1>6
<1>8. f[i] = With(f[i - 1], type, keys, parts, i)
  BY <1>6 DEF Fills
<1>9. IsText(parts[i]) /\ HasKey(type, keys, i)
  BY <1>6 DEF Fits
<1>10. IsWith(f[i], f[i - 1], type, Before(type, keys, i), parts[i], i)
  BY <1>6, <1>7, <1>8, <1>9, WithFill
<1>11. QED BY <1>4, <1>10 DEF IsWith

(* The same parts fill the same. *)
Alike(parts, parts2, m) == \A i \in 1..m : parts2[i] = parts[i]
Same(type, keys, keys2, m) == type = "object" => \A i \in 1..m : keys2[i] = keys[i]

(* What a container holds depends on its first parts only. *)
LEMMA FillsAgree ==
  ASSUME NEW type, NEW keys, NEW keys2, NEW parts, NEW parts2, NEW n \in Nat, NEW m \in 0..n,
         NEW f, Fills(f, type, keys, parts, n), NEW g, Fills(g, type, keys2, parts2, m),
         Alike(parts, parts2, m),
         Same(type, keys, keys2, m)
  PROVE  \A k \in 0..m : f[k] = g[k]
<1> DEFINE Odd == {i \in 0..m : f[i] # g[i]}
<1>1. SUFFICES ASSUME Odd # {} PROVE FALSE
  OBVIOUS
<1>2. Odd \in SUBSET Nat
  OBVIOUS
<1>3. PICK i \in Odd : \A l \in Odd : i <= l
  <2> HIDE DEF Odd
  <2>1. QED BY <1>1, <1>2, LeastExists
<1>4. i \in 0..m /\ f[i] # g[i]
  OBVIOUS
<1>5. i # 0
  BY <1>4 DEF Fills
<1>6. i - 1 \in 0..m /\ i - 1 \notin Odd /\ i \in 1..m /\ i \in 1..n
  <2> HIDE DEF Odd
  <2>1. QED BY <1>2, <1>3, <1>4, <1>5
<1>7. f[i - 1] = g[i - 1]
  BY <1>6
<1>8. f[i] = With(f[i - 1], type, keys, parts, i) /\ g[i] = With(g[i - 1], type, keys2, parts2, i)
  BY <1>6 DEF Fills
<1>9. parts2[i] = parts[i] /\ (type = "object" => keys2[i] = keys[i])
  BY <1>6 DEF Same, Alike
<1>10. With(f[i - 1], type, keys, parts, i) = With(g[i - 1], type, keys2, parts2, i)
  <2>1. Before(type, keys, i) = Before(type, keys2, i)
    BY <1>9 DEF Before
  <2>2. QED BY <1>7, <1>9, <2>1 DEF With
<1>11. QED BY <1>4, <1>8, <1>10

(* What fills a container stands at the beginning of what fills it later.  *)
LEMMA FillsWithin ==
  ASSUME NEW type \in Types, NEW keys, NEW parts, NEW n \in Nat, NEW f,
         Fills(f, type, keys, parts, n), Fits(type, keys, parts, n), NEW k \in 0..n
  PROVE  Stands(f[n].text, 0, f[k].text) /\ f[k].needs <= f[n].needs
<1> DEFINE Odd == {i \in 0..n : k <= i /\ ~(Stands(f[i].text, 0, f[k].text) /\ f[k].needs <= f[i].needs)}
<1>1. SUFFICES ASSUME Odd # {} PROVE FALSE
  OBVIOUS
<1>2. Odd \in SUBSET Nat
  OBVIOUS
<1>3. PICK i \in Odd : \A l \in Odd : i <= l
  <2> HIDE DEF Odd
  <2>1. QED BY <1>1, <1>2, LeastExists
<1>4. i \in 0..n /\ k <= i /\ ~(Stands(f[i].text, 0, f[k].text) /\ f[k].needs <= f[i].needs)
  OBVIOUS
<1>5. \A l \in 0..n : IsFill(f[l], type)
  BY FillTypes
<1>6. i # k
  BY <1>4, <1>5, StandsAll DEF IsFill
<1>7. i - 1 \in 0..n /\ i - 1 \notin Odd /\ k <= i - 1 /\ i \in 1..n /\ i \in Nat \ {0}
  <2> HIDE DEF Odd
  <2>1. QED BY <1>2, <1>3, <1>4, <1>6
<1>8. Stands(f[i - 1].text, 0, f[k].text) /\ f[k].needs <= f[i - 1].needs
  BY <1>7
<1>9. f[i] = With(f[i - 1], type, keys, parts, i)
  BY <1>7 DEF Fills
<1>10. IsText(parts[i]) /\ HasKey(type, keys, i)
  BY <1>7 DEF Fits
<1>11. Stands(f[i].text, 0, f[i - 1].text) /\ f[i].needs = f[i - 1].needs + parts[i].needs
  <2>1. IsWith(f[i], f[i - 1], type, Before(type, keys, i), parts[i], i)
    BY <1>5, <1>7, <1>9, <1>10, WithFill
  <2>2. QED BY <2>1 DEF IsWith
<1>12. Stands(f[i].text, 0 + 0, f[k].text)
  BY <1>4, <1>5, <1>7, <1>8, <1>11, StandsInside DEF IsFill
<1>13. f[k].needs <= f[i].needs
  BY <1>4, <1>5, <1>7, <1>8, <1>10, <1>11 DEF IsFill, IsText
<1>14. QED BY <1>4, <1>12, <1>13

-----------------------------------------------------------------------------
(* The texts of up to n containers inside each other, from those of n - 1. *)
TextsFrom(n, f) == IF n = 0 THEN LeafTexts ELSE LeafTexts \union ContainerTexts(f[n - 1])
IsTexts(f, n) == DOMAIN f = 0..n /\ \A k \in 0..n : f[k] = TextsFrom(k, f)

(* The function that TextsUpTo is exists at every nesting. *)
LEMMA TextsExist ==
  ASSUME NEW n \in Nat
  PROVE  \E f : IsTexts(f, n)
<1> DEFINE Wanting == {m \in 0..n : ~ \E f : IsTexts(f, m)}
<1>1. SUFFICES ASSUME Wanting # {} PROVE FALSE
  OBVIOUS
<1>2. Wanting \in SUBSET Nat
  OBVIOUS
<1>3. PICK m \in Wanting : \A l \in Wanting : m <= l
  <2> HIDE DEF Wanting
  <2>1. QED BY <1>1, <1>2, LeastExists
<1>4. m \in 0..n /\ ~ \E f : IsTexts(f, m)
  OBVIOUS
<1>5. CASE m = 0
  <2> DEFINE f == [i \in 0..0 |-> LeafTexts]
  <2>1. DOMAIN f = 0..0 /\ f[0] = LeafTexts
    OBVIOUS
  <2> HIDE DEF f
  <2>2. IsTexts(f, 0)
    BY <2>1 DEF IsTexts, TextsFrom
  <2>3. QED BY <1>4, <1>5, <2>2
<1>6. CASE m # 0
  <2>1. m - 1 \in 0..n /\ m - 1 \notin Wanting
    <3> HIDE DEF Wanting
    <3>1. QED BY <1>2, <1>3, <1>4, <1>6
  <2>2. PICK f : IsTexts(f, m - 1)
    BY <2>1
  <2> DEFINE g == [i \in 0..m |-> IF i < m THEN f[i] ELSE TextsFrom(m, f)]
  <2>3. DOMAIN g = 0..m /\ g[m] = TextsFrom(m, f) /\ \A i \in 0..m - 1 : g[i] = f[i]
    BY <1>4, <1>6
  <2> HIDE DEF g
  <2>4. ASSUME NEW k \in 0..m PROVE g[k] = TextsFrom(k, g)
    <3>1. k # 0 => k - 1 \in 0..m - 1
      BY <1>4
    <3>2. TextsFrom(k, g) = TextsFrom(k, f)
      BY <2>3, <3>1 DEF TextsFrom
    <3>3. k # m => k \in 0..m - 1
      BY <1>4
    <3>4. k # m => f[k] = TextsFrom(k, f)
      BY <2>2, <3>3 DEF IsTexts
    <3>5. QED BY <2>3, <3>2, <3>3, <3>4
  <2>5. IsTexts(g, m)
    BY <2>3, <2>4 DEF IsTexts
  <2>6. QED BY <1>4, <2>5
<1>7. QED BY <1>5, <1>6

(* The texts of so many containers inside each other. *)
LEMMA TextsAre ==
  \A n \in 0..MaxNesting :
    TextsUpTo[n] = IF n = 0 THEN LeafTexts ELSE LeafTexts \union ContainerTexts(TextsUpTo[n - 1])
<1> DEFINE Step(f, n) == IF n = 0 THEN LeafTexts ELSE LeafTexts \union ContainerTexts(f[n - 1])
           It == CHOOSE f : f = [n \in 0..MaxNesting |-> Step(f, n)]
<1>1. MaxNesting \in Nat
  BY JsonAssumption
<1>2. PICK f : IsTexts(f, MaxNesting)
  BY <1>1, TextsExist
<1> DEFINE g == [n \in 0..MaxNesting |-> f[n]]
<1>3. DOMAIN g = 0..MaxNesting /\ \A n \in 0..MaxNesting : g[n] = f[n]
  OBVIOUS
<1>4. \A n \in 0..MaxNesting : f[n] = Step(g, n)
  <2> TAKE n \in 0..MaxNesting
  <2>1. n # 0 => n - 1 \in 0..MaxNesting
    BY <1>1
  <2> HIDE DEF g
  <2>2. f[n] = TextsFrom(n, f)
    BY <1>2 DEF IsTexts
  <2>3. QED BY <1>3, <2>1, <2>2 DEF TextsFrom
<1>5. g = [n \in 0..MaxNesting |-> Step(g, n)]
  <2> DEFINE h == [n \in 0..MaxNesting |-> Step(g, n)]
  <2>1. \A n \in 0..MaxNesting : h[n] = f[n]
    <3> HIDE DEF Step, g
    <3>1. QED BY <1>4
  <2> HIDE DEF Step
  <2>2. g = h
    BY <1>4
  <2>3. QED BY <2>2
<1>6. It = [n \in 0..MaxNesting |-> Step(It, n)]
  <2> HIDE DEF Step, g
  <2>1. QED BY <1>5
<1>7. TextsUpTo = It
  BY DEF TextsUpTo
<1> HIDE DEF It
<1>8. \A n \in 0..MaxNesting : TextsUpTo[n] = Step(TextsUpTo, n)
  <2> HIDE DEF Step
  <2>1. QED BY <1>6, <1>7
<1>9. QED BY <1>8

-----------------------------------------------------------------------------
(***************************************************************************)
(* The texts of the reference, one by one.                                 *)
(***************************************************************************)
LEMMA Containers ==
  ASSUME NEW n \in 0..MaxNesting, n # 0, NEW x
  PROVE  x \in TextsUpTo[n] <=>
           \/ x \in LeafTexts
           \/ \E type \in Types : \E keys, parts :
                Holds(type, keys, parts, n - 1) /\ x = ContainerText(type, keys, parts)
<1> DEFINE S == TextsUpTo[n - 1]
<1>1. TextsUpTo[n] = LeafTexts \union ContainerTexts(S)
  BY TextsAre
<1>2. MaxElements \in Nat
  BY JsonAssumption
<1> HIDE DEF S
<1>3. ASSUME x \in ContainerTexts(S)
      PROVE  \E type \in Types : \E keys, parts :
               /\ parts \in Seq(S) /\ Len(parts) <= MaxElements
               /\ IF type = "array" THEN keys = <<>> ELSE keys \in Seq(Strings) /\ Len(keys) = Len(parts)
               /\ x = ContainerText(type, keys, parts)
  <2>1. PICK i \in 0..MaxElements :
          \/ \E parts \in [1..i -> S] : x = ContainerText("array", <<>>, parts)
          \/ \E keys \in [1..i -> Strings], parts \in [1..i -> S] : x = ContainerText("object", keys, parts)
    BY <1>3 DEF ContainerTexts
  <2>2. i \in Nat /\ i <= MaxElements
    BY <1>2
  <2>3. \A parts \in [1..i -> S] : parts \in Seq(S) /\ Len(parts) = i
    BY <2>2, SeqDef, LenProperties
  <2>4. \A keys \in [1..i -> Strings] : keys \in Seq(Strings) /\ Len(keys) = i
    BY <2>2, SeqDef, LenProperties
  <2>5. CASE \E parts \in [1..i -> S] : x = ContainerText("array", <<>>, parts)
    BY <2>2, <2>3, <2>5 DEF Types
  <2>6. CASE \E keys \in [1..i -> Strings], parts \in [1..i -> S] : x = ContainerText("object", keys, parts)
    BY <2>2, <2>3, <2>4, <2>6 DEF Types
  <2>7. QED BY <2>1, <2>5, <2>6
<1>4. ASSUME NEW type \in Types, NEW keys, NEW parts,
             parts \in Seq(S), Len(parts) <= MaxElements,
             IF type = "array" THEN keys = <<>> ELSE keys \in Seq(Strings) /\ Len(keys) = Len(parts),
             x = ContainerText(type, keys, parts)
      PROVE  x \in ContainerTexts(S)
  <2>1. Len(parts) \in 0..MaxElements /\ parts \in [1..Len(parts) -> S]
    BY <1>2, <1>4, LenProperties
  <2>2. CASE type = "array"
    BY <1>4, <2>1, <2>2 DEF ContainerTexts
  <2>3. CASE type # "array"
    <3>1. type = "object" /\ keys \in [1..Len(parts) -> Strings]
      BY <1>4, <2>3, LenProperties DEF Types
    <3>2. QED BY <1>4, <2>1, <3>1 DEF ContainerTexts
  <2>4. QED BY <2>2, <2>3
<1>5. QED BY <1>1, <1>3, <1>4 DEF Holds, S

(* What a container holds fits in it. *)
LEMMA HoldsFits ==
  ASSUME NEW type \in Types, NEW keys, NEW parts, NEW l, Holds(type, keys, parts, l),
         \A y \in TextsUpTo[l] : IsText(y)
  PROVE  /\ parts \in Seq(TextsUpTo[l]) /\ Len(parts) \in Nat /\ Fits(type, keys, parts, Len(parts))
         /\ \A i \in 1..Len(parts) : parts[i] \in TextsUpTo[l]
<1>1. parts \in Seq(TextsUpTo[l]) /\ Len(parts) \in Nat /\ \A i \in 1..Len(parts) : parts[i] \in TextsUpTo[l]
  BY LenProperties, ElementOfSeq DEF Holds
<1>2. ASSUME NEW i \in 1..Len(parts), type = "object" PROVE keys[i] \in Strings
  BY <1>2, ElementOfSeq DEF Holds
<1>3. QED BY <1>1, <1>2 DEF Fits, HasKey

(* What a container that is complete is, beside what it was filled with.   *)
IsContainer(x, f, type, n) ==
  /\ IsText(x) /\ x.text = Append(f.text, Ender(type)) /\ x.text[1] = Opener(type)
  /\ Len(x.text) = Len(f.text) + 1 /\ x.text[Len(f.text) + 1] = Ender(type)
  /\ Stands(x.text, 0, f.text) /\ x.needs = BlocksOf(n) + f.needs

(* The text of a container is what it is filled with, and its end. *)
LEMMA ContainerIs ==
  ASSUME NEW type \in Types, NEW keys, NEW parts, Len(parts) \in Nat, Fits(type, keys, parts, Len(parts))
  PROVE  /\ IsFill(Filled(type, keys, parts), type)
         /\ IsContainer(ContainerText(type, keys, parts), Filled(type, keys, parts), type, Len(parts))
<1> DEFINE n == Len(parts)
           f == Filled(type, keys, parts)
           x == ContainerText(type, keys, parts)
<1>1. IsFill(f, type)
  <2>1. PICK g : Fills(g, type, keys, parts, n) /\ f = g[n]
    BY FilledIs
  <2>2. n \in 0..n
    OBVIOUS
  <2> HIDE DEF f, n
  <2>3. QED BY <2>1, <2>2, FillTypes DEF n
<1>2. x.text = Append(f.text, Ender(type)) /\ x.needs = BlocksOf(n) + f.needs
  BY DEF ContainerText
<1>3. BlocksOf(n) \in Nat
  BY BlocksNumber
<1>4. f.text \in Seq(Tokens) /\ Len(f.text) \in Nat \ {0} /\ f.text[1] = Opener(type) /\ f.needs \in Nat
  BY <1>1 DEF IsFill
<1>5. Ender(type) \in Tokens
  BY TokenTypes
<1> HIDE DEF x, f, n
<1>6. /\ x.text \in Seq(Tokens) /\ Len(x.text) = Len(f.text) + 1 /\ x.text[Len(f.text) + 1] = Ender(type)
      /\ \A q \in 1..Len(f.text) : x.text[q] = f.text[q]
      /\ Stands(x.text, 0, f.text)
  BY <1>2, <1>4, <1>5, Longer
<1>7. x.text # <<>> /\ x.text[1] = Opener(type)
  BY <1>4, <1>6
<1>8. IsContainer(x, f, type, n)
  BY <1>2, <1>3, <1>4, <1>6, <1>7 DEF IsContainer, IsText
<1>9. QED BY <1>1, <1>8 DEF x, f, n

(* The text of a leaf is its token. *)
LEMMA LeafIs ==
  ASSUME NEW x \in LeafTexts
  PROVE  IsText(x) /\ Len(x.text) = 1 /\ x.text[1] \in Strings \union Scalars /\ x.needs = 0
         /\ x.text = <<x.text[1]>> /\ x.value = Leaf(x.text[1]) /\ x.named = <<>>
<1>1. PICK t \in Strings \union Scalars :
        x = [text |-> <<t>>, value |-> Leaf(t), needs |-> 0, named |-> <<>>]
  BY DEF LeafTexts
<1>2. x.text = <<t>> /\ x.needs = 0 /\ x.value = Leaf(t) /\ x.named = <<>> /\ t \in Tokens
  BY <1>1, TokenTypes
<1>3. <<t>> \in Seq(Tokens) /\ Len(<<t>>) = 1 /\ <<t>>[1] = t
  BY <1>2
<1>4. QED BY <1>2, <1>3 DEF IsText

(* Every text is made of tokens. *)
LEMMA TextsText == \A n \in 0..MaxNesting : \A x \in TextsUpTo[n] : IsText(x)
<1> DEFINE Odd == {n \in 0..MaxNesting : ~ \A x \in TextsUpTo[n] : IsText(x)}
<1>1. SUFFICES ASSUME Odd # {} PROVE FALSE
  OBVIOUS
<1>2. Odd \in SUBSET Nat
  OBVIOUS
<1>3. PICK n \in Odd : \A l \in Odd : n <= l
  <2> HIDE DEF Odd
  <2>1. QED BY <1>1, <1>2, LeastExists
<1>4. n \in 0..MaxNesting
  OBVIOUS
<1>5. PICK x \in TextsUpTo[n] : ~IsText(x)
  OBVIOUS
<1>6. CASE n = 0
  BY <1>4, <1>5, <1>6, TextsAre, LeafIs
<1>7. CASE n # 0
  <2>1. n - 1 \in 0..MaxNesting /\ n - 1 \notin Odd
    <3> HIDE DEF Odd
    <3>1. QED BY <1>2, <1>3, <1>4, <1>7, JsonAssumption
  <2>2. \A y \in TextsUpTo[n - 1] : IsText(y)
    BY <2>1
  <2>3. CASE x \in LeafTexts
    BY <1>5, <2>3, LeafIs
  <2>4. CASE x \notin LeafTexts
    <3>1. PICK type, keys, parts :
            type \in Types /\ Holds(type, keys, parts, n - 1) /\ x = ContainerText(type, keys, parts)
      BY <1>4, <1>5, <1>7, <2>4, Containers
    <3>2. Len(parts) \in Nat /\ Fits(type, keys, parts, Len(parts))
      BY <2>2, <3>1, HoldsFits
    <3>3. IsContainer(x, Filled(type, keys, parts), type, Len(parts))
      BY <3>1, <3>2, ContainerIs
    <3>4. QED BY <1>5, <3>3 DEF IsContainer
  <2>5. QED BY <2>3, <2>4
<1>8. QED BY <1>6, <1>7

(* What the first n keys of a container name: the first of their values.   *)
NamesAre(named, type, keys, parts, n) ==
  /\ \A key : key \in DOMAIN named <=> type = "object" /\ \E i \in 1..n : keys[i] = key
  /\ \A i \in 1..n : type = "object" /\ (\A j \in 1..n : keys[j] = keys[i] => i <= j)
                       => named[keys[i]] = parts[i].value

(* A name more, and the names that were there keep their values. *)
LEMMA NamedIs ==
  ASSUME NEW named, NEW key, NEW value
  PROVE  /\ DOMAIN Named(named, key, value) = DOMAIN named \union {key}
         /\ \A k \in DOMAIN named : Named(named, key, value)[k] = named[k]
         /\ key \notin DOMAIN named => Named(named, key, value)[key] = value
BY DEF Named

(* The empty function names nothing. *)
LEMMA NoDomain == DOMAIN <<>> = {} /\ \A x : x \notin DOMAIN <<>>
OBVIOUS

(* An object names each key once, for the first element with that key. *)
LEMMA FillsNamed ==
  ASSUME NEW type, NEW keys, NEW parts, NEW n \in Nat, NEW f, Fills(f, type, keys, parts, n)
  PROVE  \A k \in 0..n : NamesAre(f[k].named, type, keys, parts, k)
<1> DEFINE Odd == {k \in 0..n : ~NamesAre(f[k].named, type, keys, parts, k)}
<1>1. SUFFICES ASSUME Odd # {} PROVE FALSE
  OBVIOUS
<1>2. Odd \in SUBSET Nat
  OBVIOUS
<1>3. PICK k \in Odd : \A l \in Odd : k <= l
  <2> HIDE DEF Odd
  <2>1. QED BY <1>1, <1>2, LeastExists
<1>4. k \in 0..n /\ ~NamesAre(f[k].named, type, keys, parts, k)
  OBVIOUS
<1>5. k # 0
  <2>1. SUFFICES ASSUME k = 0 PROVE FALSE
    OBVIOUS
  <2>2. f[0].named = <<>>
    BY DEF Fills, Start
  <2>3. \A i : i \notin 1..0
    OBVIOUS
  <2>4. NamesAre(f[0].named, type, keys, parts, 0)
    BY <2>2, <2>3, NoDomain DEF NamesAre
  <2>5. QED BY <1>4, <2>1, <2>4
<1>6. k - 1 \in 0..n /\ k - 1 \notin Odd /\ k \in 1..n /\ k \in Nat \ {0}
  <2> HIDE DEF Odd
  <2>1. QED BY <1>2, <1>3, <1>4, <1>5
<1> DEFINE old == f[k - 1].named
           new == f[k].named
<1>7. NamesAre(old, type, keys, parts, k - 1)
  BY <1>6
<1>8. new = IF type = "object" THEN Named(old, keys[k], parts[k].value) ELSE old
  BY <1>6 DEF Fills, With
<1> HIDE DEF old, new, Odd
<1>9. \A i : i \in 1..k <=> i \in 1..k - 1 \/ i = k
  BY <1>6
<1>10. CASE type # "object"
  <2>1. NamesAre(new, type, keys, parts, k)
    BY <1>7, <1>8, <1>10 DEF NamesAre
  <2>2. QED BY <1>4, <2>1 DEF new
<1>11. CASE type = "object"
  <2>1. /\ DOMAIN new = DOMAIN old \union {keys[k]}
        /\ \A x \in DOMAIN old : new[x] = old[x]
        /\ keys[k] \notin DOMAIN old => new[keys[k]] = parts[k].value
    <3> DEFINE key == keys[k]
               value == parts[k].value
    <3>1. new = Named(old, key, value)
      BY <1>8, <1>11
    <3> HIDE DEF key, value
    <3>2. /\ DOMAIN new = DOMAIN old \union {key} /\ \A x \in DOMAIN old : new[x] = old[x]
          /\ key \notin DOMAIN old => new[key] = value
      BY <3>1 DEF Named
    <3>3. QED BY <3>2 DEF key, value
  <2>2. \A key : key \in DOMAIN new <=> \E i \in 1..k : keys[i] = key
    BY <1>7, <1>9, <1>11, <2>1 DEF NamesAre
  <2>3. ASSUME NEW i \in 1..k, \A j \in 1..k : keys[j] = keys[i] => i <= j
        PROVE  new[keys[i]] = parts[i].value
    <3>1. CASE i = k
      <4>1. \A j \in 1..k - 1 : keys[j] # keys[k]
        <5> TAKE j \in 1..k - 1
        <5>1. j \in 1..k /\ ~(k <= j)
          BY <1>6
        <5>2. QED BY <2>3, <3>1, <5>1
      <4>2. keys[k] \notin DOMAIN old
        BY <1>7, <4>1 DEF NamesAre
      <4>3. QED BY <2>1, <3>1, <4>2
    <3>2. CASE i # k
      <4>1. i \in 1..k - 1
        BY <1>9, <3>2
      <4>2. keys[i] \in DOMAIN old
        BY <1>7, <1>11, <4>1 DEF NamesAre
      <4>3. old[keys[i]] = parts[i].value
        BY <1>7, <1>9, <1>11, <2>3, <4>1 DEF NamesAre
      <4>4. QED BY <2>1, <4>2, <4>3
    <3>3. QED BY <3>1, <3>2
  <2>4. NamesAre(new, type, keys, parts, k)
    BY <1>11, <2>2, <2>3 DEF NamesAre
  <2>5. QED BY <1>4, <2>4 DEF new
<1>12. QED BY <1>10, <1>11

(* sea_json_get finds in a value what its text names. *)
NamedRight(x) ==
  \A key \in Strings : Get(x.value, key) = IF key \in DOMAIN x.named THEN x.named[key] ELSE NoNode

(* The lookup finds the first element with the key, or none. *)
LEMMA GetFinds ==
  ASSUME NEW node, NEW key, NEW n \in Nat, DOMAIN node.keys = 1..n
  PROVE  IF \E i \in 1..n : node.keys[i] = key
         THEN \E i \in 1..n : /\ node.keys[i] = key /\ \A j \in 1..n : node.keys[j] = key => i <= j
                              /\ Get(node, key) = node.items[i]
         ELSE Get(node, key) = NoNode
<1> DEFINE Places == {i \in DOMAIN node.keys : node.keys[i] = key}
<1>1. Places \in SUBSET Nat /\ \A i : i \in Places <=> i \in 1..n /\ node.keys[i] = key
  OBVIOUS
<1>2. Get(node, key) = IF Places = {} THEN NoNode
                       ELSE node.items[CHOOSE i \in Places : \A k \in Places : i <= k]
  BY DEF Get
<1> HIDE DEF Places
<1>3. CASE Places = {}
  BY <1>1, <1>2, <1>3
<1>4. CASE Places # {}
  <2>1. \E i \in Places : \A k \in Places : i <= k
    BY <1>1, <1>4, LeastExists
  <2> DEFINE i == CHOOSE i \in Places : \A k \in Places : i <= k
  <2>2. i \in Places /\ \A k \in Places : i <= k
    BY <2>1
  <2>3. Get(node, key) = node.items[i]
    BY <1>2, <1>4
  <2> HIDE DEF i
  <2>4. i \in 1..n /\ node.keys[i] = key /\ \A j \in 1..n : node.keys[j] = key => i <= j
    BY <1>1, <2>2
  <2>5. QED BY <2>3, <2>4
<1>5. QED BY <1>3, <1>4

(* So the lookup in a container finds what its text names. *)
LEMMA ContainerNamed ==
  ASSUME NEW type \in Types, NEW keys, NEW parts, NEW l, Holds(type, keys, parts, l)
  PROVE  NamedRight(ContainerText(type, keys, parts))
<1> DEFINE n == Len(parts)
           f == Filled(type, keys, parts)
           x == ContainerText(type, keys, parts)
           m == IF type = "object" THEN n ELSE 0
<1>1. n \in Nat /\ parts \in Seq(TextsUpTo[l]) /\ DOMAIN parts = 1..n
  BY LenProperties DEF Holds
<1>2. m \in Nat /\ DOMAIN keys = 1..m
  <2>1. CASE type = "object"
    BY <1>1, <2>1, LenProperties DEF Holds
  <2>2. CASE type = "array"
    <3>1. keys = <<>> /\ 1..0 = {}
      BY <2>2 DEF Holds
    <3>2. QED BY <2>2, <3>1, NoDomain
  <2>3. QED BY <2>1, <2>2 DEF Types
<1>3. NamesAre(f.named, type, keys, parts, n)
  <2>1. PICK g : Fills(g, type, keys, parts, n) /\ f = g[n]
    BY <1>1, FilledIs
  <2>2. n \in 0..n
    BY <1>1
  <2> HIDE DEF f, n
  <2>3. QED BY <1>1, <2>1, <2>2, FillsNamed
<1>4. /\ x.value.keys = keys /\ x.named = f.named
      /\ \A i \in 1..n : x.value.items[i] = parts[i].value
  BY <1>1 DEF ContainerText, Node
<1> HIDE DEF f, x, n
<1>5. ASSUME NEW key \in Strings
      PROVE  Get(x.value, key) = IF key \in DOMAIN x.named THEN x.named[key] ELSE NoNode
  <2> DEFINE node == x.value
  <2>1. DOMAIN node.keys = 1..m /\ node.keys = keys
    BY <1>2, <1>4
  <2>2. key \in DOMAIN x.named <=> \E i \in 1..m : keys[i] = key
    BY <1>3, <1>4 DEF NamesAre
  <2> HIDE DEF node, m
  <2>3. CASE \E i \in 1..m : keys[i] = key
    <3>1. PICK i \in 1..m : /\ keys[i] = key /\ \A j \in 1..m : keys[j] = key => i <= j
                            /\ Get(node, key) = node.items[i]
      BY <1>2, <2>1, <2>3, GetFinds
    <3>2. type = "object" /\ m = n
      BY <3>1 DEF m
    <3>3. x.named[key] = parts[i].value
      BY <1>3, <1>4, <3>1, <3>2 DEF NamesAre
    <3>4. node.items[i] = parts[i].value
      BY <1>4, <3>1, <3>2 DEF node
    <3>5. QED BY <2>2, <2>3, <3>1, <3>3, <3>4 DEF node
  <2>4. CASE ~ \E i \in 1..m : keys[i] = key
    <3>1. Get(node, key) = NoNode
      BY <1>2, <2>1, <2>4, GetFinds
    <3>2. QED BY <2>2, <2>4, <3>1 DEF node
  <2>5. QED BY <2>3, <2>4
<1>6. QED BY <1>5 DEF NamedRight, x

(* There is nothing to look up in a leaf. *)
LEMMA LeafNamed == ASSUME NEW x \in LeafTexts PROVE NamedRight(x)
<1>1. x.value.keys = <<>> /\ x.named = <<>>
  <2>1. x.value = Leaf(x.text[1]) /\ x.named = <<>>
    BY LeafIs
  <2>2. \A t : Leaf(t).keys = <<>>
    BY DEF Leaf, Node
  <2>3. QED BY <2>1, <2>2
<1>2. DOMAIN x.value.keys = 1..0 /\ \A i : i \notin 1..0
  BY <1>1, NoDomain
<1>3. \A key : Get(x.value, key) = NoNode
  BY <1>2, GetFinds
<1>4. QED BY <1>1, <1>3, NoDomain DEF NamedRight

(* The lookup in any value finds what its text names. *)
LEMMA TextsNamed == \A n \in 0..MaxNesting : \A x \in TextsUpTo[n] : NamedRight(x)
<1> TAKE n \in 0..MaxNesting
<1> TAKE x \in TextsUpTo[n]
<1>1. CASE x \in LeafTexts
  BY <1>1, LeafNamed
<1>2. CASE x \notin LeafTexts
  <2>1. n # 0
    BY <1>2, TextsAre
  <2>2. PICK type, keys, parts :
          type \in Types /\ Holds(type, keys, parts, n - 1) /\ x = ContainerText(type, keys, parts)
    BY <1>2, <2>1, Containers
  <2>3. QED BY <2>2, ContainerNamed
<1>3. QED BY <1>1, <1>2

-----------------------------------------------------------------------------
(***************************************************************************)
(* A container that was begun, and a text that continues it.               *)
(***************************************************************************)
(* What keys and parts go on with is filled with the same so far.          *)
LEMMA FilledSame ==
  ASSUME NEW type \in Types, NEW keys, NEW parts, NEW keys2, NEW held, Len(parts) \in Nat, Len(held) \in Nat,
         Len(held) <= Len(parts), Fits(type, keys, parts, Len(parts)),
         \A i \in 1..Len(held) : parts[i] = held[i],
         Same(type, keys, keys2, Len(held)),
         NEW f, Fills(f, type, keys, parts, Len(parts))
  PROVE  Filled(type, keys2, held) = f[Len(held)]
<1> DEFINE n == Len(parts)
           m == Len(held)
<1>1. PICK g : Fills(g, type, keys2, held, m) /\ Filled(type, keys2, held) = g[m]
  BY FilledIs
<1>2. m \in 0..n /\ m \in 0..m /\ n \in Nat /\ Fills(f, type, keys, parts, n)
  OBVIOUS
<1>3. Alike(parts, held, m) /\ Same(type, keys, keys2, m)
  BY DEF Alike
<1> HIDE DEF n, m
<1>4. \A k \in 0..m : f[k] = g[k]
  BY <1>1, <1>2, <1>3, FillsAgree
<1>5. QED BY <1>1, <1>2, <1>4 DEF m

(* x continues what is filled with f, where b comes before part if there   *)
(* is another one.                                                         *)
IsLonger(x, f, type, b, part, m) ==
  /\ IsFill(f, type) /\ IsText(part) /\ IsText(x)
  /\ b \in Seq(Tokens) /\ Len(b) = Gap(type, m + 1)
  /\ Stands(x.text, 0, f.text)
  /\ Stands(x.text, Len(f.text), b) /\ Stands(x.text, Len(f.text) + Gap(type, m + 1), part.text)
  /\ x.needs >= BlocksOf(m + 1) + f.needs + part.needs

(* A container that continues what was read with no element more is that,  *)
(* and its end.                                                            *)
LEMMA ContinuesEnds ==
  ASSUME NEW type \in Types, NEW keys, NEW parts, NEW held, Len(held) \in Nat, Len(parts) = Len(held),
         Fits(type, keys, parts, Len(parts)), \A i \in 1..Len(held) : parts[i] = held[i], NEW keys2,
         Same(type, keys, keys2, Len(held))
  PROVE  /\ IsFill(Filled(type, keys2, held), type)
         /\ IsContainer(ContainerText(type, keys, parts), Filled(type, keys2, held), type, Len(held))
<1>1. PICK f : Fills(f, type, keys, parts, Len(parts)) /\ Filled(type, keys, parts) = f[Len(parts)]
  BY FilledIs
<1>2. Filled(type, keys2, held) = f[Len(held)]
  BY <1>1, FilledSame
<1>3. Filled(type, keys2, held) = Filled(type, keys, parts)
  BY <1>1, <1>2
<1>4. QED BY <1>3, ContainerIs

(* With elements more, the next one comes behind the gap. *)
LEMMA ContinuesMore ==
  ASSUME NEW type \in Types, NEW keys, NEW parts, NEW held, Len(held) \in Nat, Len(parts) \in Nat,
         Len(held) < Len(parts),
         Fits(type, keys, parts, Len(parts)), \A i \in 1..Len(held) : parts[i] = held[i], NEW keys2,
         Same(type, keys, keys2, Len(held))
  PROVE  IsLonger(ContainerText(type, keys, parts), Filled(type, keys2, held), type,
                  Before(type, keys, Len(held) + 1), parts[Len(held) + 1], Len(held))
<1> DEFINE n == Len(parts)
           m == Len(held)
           k == m + 1
           b == Before(type, keys, k)
           e == parts[k]
           x == ContainerText(type, keys, parts)
           h == Filled(type, keys2, held)
           c == Filled(type, keys, parts)
<1>1. PICK f : Fills(f, type, keys, parts, n) /\ c = f[n]
  BY FilledIs
<1>2. h = f[m]
  <2>1. Len(held) <= Len(parts) /\ Fills(f, type, keys, parts, Len(parts))
    BY <1>1
  <2> HIDE DEF n, m, c
  <2>2. h = f[Len(held)]
    BY <2>1, FilledSame
  <2>3. QED BY <2>2 DEF m
<1>3. IsContainer(x, c, type, n)
  BY ContainerIs
<1>4. n \in Nat /\ m \in 0..n /\ k \in 0..n /\ k \in 1..n /\ k \in Nat \ {0} /\ k - 1 = m /\ n \in 0..n /\ k <= n
  OBVIOUS
<1>5. IsText(e) /\ HasKey(type, keys, k)
  BY <1>4 DEF Fits
<1>6. Fits(type, keys, parts, n)
  OBVIOUS
<1> HIDE DEF n, m, c, h, x
<1>7. \A j \in 0..n : IsFill(f[j], type)
  BY <1>1, <1>4, <1>6, FillTypes
<1>8. IsWith(f[k], f[m], type, b, e, k)
  <2>1. f[k] = With(f[m], type, keys, parts, k)
    BY <1>1, <1>4 DEF Fills
  <2>2. IsFill(f[m], type)
    BY <1>4, <1>7
  <2>3. QED BY <1>4, <1>5, <2>1, <2>2, WithFill
<1>9. Stands(c.text, 0, f[k].text) /\ f[k].needs <= c.needs
  BY <1>1, <1>4, <1>6, FillsWithin
<1> HIDE DEF b, e, k
<1> DEFINE l == Len(h.text)
           w == f[k]
<1>10. IsFill(c, type) /\ IsFill(h, type) /\ IsFill(w, type) /\ l \in Nat
  BY <1>1, <1>2, <1>4, <1>7 DEF IsFill
<1>11. Stands(x.text, 0, w.text)
  <2>1. Stands(x.text, 0, c.text) /\ Len(x.text) \in Nat /\ Len(c.text) \in Nat /\ Len(w.text) \in Nat
    BY <1>3, <1>10, LenProperties DEF IsContainer, IsFill, IsText
  <2>2. Stands(x.text, 0 + 0, w.text)
    BY <1>9, <2>1, StandsInside
  <2>3. QED BY <2>2
<1>12. /\ Stands(w.text, 0, h.text) /\ Stands(w.text, l, b) /\ Stands(w.text, l + Gap(type, k), e.text)
       /\ b \in Seq(Tokens) /\ Len(b) = Gap(type, k) /\ w.needs = h.needs + e.needs
  BY <1>2, <1>8 DEF IsWith
<1>13. /\ Len(x.text) \in Nat /\ Len(w.text) \in Nat /\ Len(h.text) \in Nat /\ Len(b) \in Nat
       /\ Len(e.text) \in Nat /\ Gap(type, k) \in Nat
  BY <1>3, <1>5, <1>10, <1>12, LenProperties, GapTypes DEF IsContainer, IsFill, IsText
<1>14. Stands(x.text, 0 + 0, h.text)
  BY <1>11, <1>12, <1>13, StandsInside
<1>15. Stands(x.text, 0 + l, b)
  BY <1>10, <1>11, <1>12, <1>13, StandsInside
<1>16. Stands(x.text, 0 + (l + Gap(type, k)), e.text)
  BY <1>10, <1>11, <1>12, <1>13, StandsInside
<1>17. x.needs >= BlocksOf(k) + h.needs + e.needs
  <2>1. x.needs = BlocksOf(n) + c.needs /\ BlocksOf(n) \in Nat /\ BlocksOf(k) \in Nat
    BY <1>3, <1>4, BlocksNumber DEF IsContainer
  <2>2. BlocksOf(k) <= BlocksOf(n)
    BY <1>4, BlocksMonotone
  <2>3. c.needs \in Nat /\ h.needs \in Nat /\ e.needs \in Nat
    BY <1>5, <1>10 DEF IsFill, IsText
  <2>4. QED BY <1>9, <1>12, <2>1, <2>2, <2>3
<1>18. 0 + 0 = 0 /\ 0 + l = l /\ 0 + (l + Gap(type, k)) = l + Gap(type, k)
  BY <1>10, <1>13
<1>19. IsText(x)
  BY <1>3 DEF IsContainer
<1>20. IsLonger(x, h, type, b, e, m)
  BY <1>5, <1>10, <1>12, <1>14, <1>15, <1>16, <1>17, <1>18, <1>19 DEF IsLonger, k
<1>21. QED BY <1>20 DEF x, h, b, e, m, k

-----------------------------------------------------------------------------
(***************************************************************************)
(* One container on the stack, and the tokens that come.                   *)
(***************************************************************************)
LEMMA NestingTypes ==
  ASSUME NEW l \in 0..MaxNesting - 1
  PROVE  l \in 0..MaxNesting /\ l + 1 \in 0..MaxNesting /\ l + 1 # 0 /\ (l + 1) - 1 = l /\ l \in Nat
BY JsonAssumption

(* The types of a frame of the stack. *)
LEMMA FrameTypes ==
  ASSUME NEW frame \in Frames
  PROVE  /\ frame.type \in Types /\ frame.keys \in Seq(Strings) /\ Len(frame.keys) \in Nat
         /\ frame.items \in Seq(Nodes) /\ Len(frame.items) \in Nat /\ frame.cap \in Nat
BY LenProperties DEF Frames

(* What is held is of texts, and the keys before are strings. *)
LEMMA KeptTypes ==
  ASSUME NEW frame \in Frames, NEW l \in 0..MaxNesting - 1, NEW s, NEW held, NEW o, NEW paid,
         Kept(s, frame, held, o, l, paid), NEW n \in Nat, n >= Len(held), KeyCount(frame, n)
  PROVE  /\ held \in Seq(TextsUpTo[l]) /\ Len(held) \in Nat /\ Len(held) <= MaxElements
         /\ Fits(frame.type, frame.keys, held, Len(held))
         /\ IsFill(FilledBy(frame, held), frame.type)
         /\ o \in Nat /\ Stands(s, o, FilledBy(frame, held).text)
<1>1. /\ held \in Seq(TextsUpTo[l]) /\ Len(held) \in Nat /\ Len(held) <= MaxElements
      /\ o \in Nat /\ Stands(s, o, FilledBy(frame, held).text)
  BY LenProperties DEF Kept
<1>2. ASSUME NEW i \in 1..Len(held) PROVE IsText(held[i])
  BY <1>1, ElementOfSeq, TextsText, NestingTypes
<1>3. ASSUME NEW i \in 1..Len(held), frame.type = "object" PROVE frame.keys[i] \in Strings
  <2>1. i \in 1..Len(frame.keys)
    BY <1>1, <1>3 DEF KeyCount
  <2>2. QED BY <2>1, FrameTypes, ElementOfSeq
<1>4. Fits(frame.type, frame.keys, held, Len(held))
  BY <1>2, <1>3 DEF Fits, HasKey
<1>5. IsFill(Filled(frame.type, frame.keys, held), frame.type)
  BY <1>1, <1>4, FrameTypes, ContainerIs
<1>6. QED BY <1>1, <1>4, <1>5 DEF FilledBy

(* A text that is a container begun as frame.                              *)
Goes(x, f, type, keys, parts, m, l) ==
  /\ IsText(x) /\ Len(parts) \in Nat
  /\ Len(parts) = m => IsContainer(x, f, type, m)
  /\ Len(parts) > m => /\ IsLonger(x, f, type, Before(type, keys, m + 1), parts[m + 1], m)
                       /\ IsBefore(Before(type, keys, m + 1), type, keys, m + 1)
                       /\ HasKey(type, keys, m + 1) /\ parts[m + 1] \in TextsUpTo[l]

(* Both at once, for a container that continues a frame. *)
LEMMA Following ==
  ASSUME NEW frame \in Frames, NEW l \in 0..MaxNesting - 1, NEW s, NEW held, NEW o, NEW paid,
         Kept(s, frame, held, o, l, paid), NEW n \in Nat, n >= Len(held), KeyCount(frame, n),
         NEW keys, NEW parts, NEW due \in Nat, Continues(frame, held, keys, parts, l, due),
         NEW x, x = ContainerText(frame.type, keys, parts)
  PROVE  Goes(x, FilledBy(frame, held), frame.type, keys, parts, Len(held), l)
<1> DEFINE m == Len(held)
           type == frame.type
<1>1. m \in Nat /\ type \in Types /\ frame.keys \in Seq(Strings) /\ Len(frame.keys) \in Nat
  BY KeptTypes, FrameTypes
<1>2. /\ Holds(type, keys, parts, l) /\ \A i \in 1..m : parts[i] = held[i]
      /\ \A i \in 1..Len(frame.keys) : keys[i] = frame.keys[i]
  BY DEF Continues
<1>3. \A y \in TextsUpTo[l] : IsText(y)
  BY TextsText, NestingTypes
<1>4. Len(parts) \in Nat /\ Fits(type, keys, parts, Len(parts)) /\ \A i \in 1..Len(parts) : parts[i] \in TextsUpTo[l]
  BY <1>1, <1>2, <1>3, HoldsFits
<1>5. Same(type, keys, frame.keys, m)
  <2>1. SUFFICES ASSUME type = "object", NEW i \in 1..m PROVE frame.keys[i] = keys[i]
    BY DEF Same
  <2>2. i \in 1..Len(frame.keys)
    BY <1>1, <2>1 DEF KeyCount
  <2>3. QED BY <1>2, <2>2
<1>6. IsText(x)
  BY <1>1, <1>4, ContainerIs DEF IsContainer
<1>7. CASE Len(parts) = m
  <2>1. IsContainer(x, Filled(type, frame.keys, held), type, m)
    BY <1>1, <1>2, <1>4, <1>5, <1>7, ContinuesEnds
  <2>2. QED BY <1>1, <1>4, <1>6, <1>7, <2>1 DEF Goes, FilledBy
<1>8. CASE Len(parts) > m
  <2>1. IsLonger(x, Filled(type, frame.keys, held), type, Before(type, keys, m + 1), parts[m + 1], m)
    BY <1>1, <1>2, <1>4, <1>5, <1>8, ContinuesMore
  <2>2. m + 1 \in 1..Len(parts) /\ m + 1 \in Nat \ {0}
    BY <1>1, <1>4, <1>8
  <2>3. HasKey(type, keys, m + 1) /\ parts[m + 1] \in TextsUpTo[l]
    BY <1>4, <2>2 DEF Fits
  <2>4. IsBefore(Before(type, keys, m + 1), type, keys, m + 1)
    BY <1>1, <2>2, <2>3, BeforeIs
  <2>5. QED BY <1>1, <1>4, <1>6, <1>8, <2>1, <2>3, <2>4 DEF Goes, FilledBy
<1>9. CASE Len(parts) < m
  BY <1>1, <1>4, <1>6, <1>9 DEF Goes
<1>10. QED BY <1>1, <1>4, <1>7, <1>8, <1>9

(* A frame keeps what it has when a token more is read. *)
LEMMA KeptLonger ==
  ASSUME NEW s \in Seq(Tokens), NEW token \in Tokens, NEW frame \in Frames, NEW l \in 0..MaxNesting - 1,
         NEW held, NEW o, NEW paid, Kept(s, frame, held, o, l, paid),
         NEW n \in Nat, n >= Len(held), KeyCount(frame, n)
  PROVE  Kept(Append(s, token), frame, held, o, l, paid)
<1>1. Len(FilledBy(frame, held).text) \in Nat /\ o \in Nat /\ Stands(s, o, FilledBy(frame, held).text)
  BY KeptTypes DEF IsFill
<1>2. Stands(Append(s, token), o, FilledBy(frame, held).text)
  BY <1>1, StandsLonger
<1>3. QED BY <1>2 DEF Kept

(* Whatever agrees with more tokens continues the frame still. *)
LEMMA FollowsLonger ==
  ASSUME NEW s \in Seq(Tokens), NEW token \in Tokens, NEW frame, NEW l \in 0..MaxNesting - 1,
         NEW held, NEW o \in Nat, NEW due, Follows(s, frame, held, o, l, due)
  PROVE  Follows(Append(s, token), frame, held, o, l, due)
<1>1. ASSUME NEW x \in TextsUpTo[l + 1], Agrees(x, Append(s, token), o) PROVE Agrees(x, s, o)
  BY <1>1, AgreesShorter, TextsText, NestingTypes
<1>2. QED BY <1>1 DEF Follows

(* What a text is where one more token agrees with it. *)
LEMMA NextAgrees ==
  ASSUME NEW s \in Seq(Tokens), NEW token \in Tokens, NEW x, IsText(x), NEW o \in Nat, NEW q \in Nat \ {0},
         o + q = Len(s) + 1, q <= Len(x.text), Agrees(x, Append(s, token), o)
  PROVE  x.text[q] = token
<1> DEFINE s2 == Append(s, token)
<1>1. Len(s) \in Nat /\ Len(s2) = Len(s) + 1 /\ s2[Len(s) + 1] = token
  BY Longer
<1>2. Len(x.text) \in Nat /\ Agrees(x, s2, o)
  BY LenProperties DEF IsText
<1> HIDE DEF s2
<1>3. q \in 1..Len(x.text) /\ o + q <= Len(s2)
  BY <1>1, <1>2
<1>4. s2[o + q] = x.text[q]
  BY <1>2, <1>3 DEF Agrees
<1>5. QED BY <1>1, <1>4

(* The first token of a text: a leaf, or the beginning of a container,     *)
(* which has paid for a block.                                             *)
LEMMA FirstToken ==
  ASSUME NEW n \in 0..MaxNesting, NEW x \in TextsUpTo[n]
  PROVE  \/ x \in LeafTexts /\ x.text[1] \in Strings \union Scalars
         \/ n # 0 /\ \E type \in Types : x.text[1] = Opener(type) /\ x.needs >= FirstCap
<1>1. CASE x \in LeafTexts
  BY <1>1, LeafIs
<1>2. CASE x \notin LeafTexts
  <2>1. n # 0
    BY <1>2, TextsAre
  <2>2. PICK type, keys, parts :
          type \in Types /\ Holds(type, keys, parts, n - 1) /\ x = ContainerText(type, keys, parts)
    BY <1>2, <2>1, Containers
  <2>3. \A y \in TextsUpTo[n - 1] : IsText(y)
    BY <2>1, TextsText, JsonAssumption
  <2>4. Len(parts) \in Nat /\ Fits(type, keys, parts, Len(parts))
    BY <2>2, <2>3, HoldsFits
  <2>5. IsContainer(x, Filled(type, keys, parts), type, Len(parts)) /\ IsFill(Filled(type, keys, parts), type)
    BY <2>2, <2>4, ContainerIs
  <2>6. x.needs >= FirstCap
    <3>1. BlocksOf(0) <= BlocksOf(Len(parts)) /\ BlocksOf(0) = FirstCap /\ BlocksOf(Len(parts)) \in Nat
      BY <2>4, BlocksMonotone, BlocksBegin, BlocksNumber
    <3>2. QED BY <2>5, <3>1, JsonAssumption DEF IsContainer, IsFill
  <2>7. QED BY <2>1, <2>2, <2>5, <2>6 DEF IsContainer
<1>3. QED BY <1>1, <1>2

(* The beginnings and the ends of the containers, and the comma, are       *)
(* different marks.                                                        *)
LEMMA MarkTypes ==
  /\ Opener("array") = "[" /\ Opener("object") = "{" /\ Ender("array") = "]" /\ Ender("object") = "}"
  /\ \A type \in Types : Ender(type) # "," /\ \A type2 \in Types : Ender(type) # Opener(type2)
  /\ \A type \in Types, type2 \in Types : Opener(type) = Opener(type2) => type = type2
  /\ \A x \in Strings \union Scalars : x \notin Marks
  /\ \A type \in Types : Opener(type) \in {"[", "{"} /\ Opener(type) \in Marks /\ Ender(type) \in Marks
BY TokenTypes DEF Types, Opener, Ender

(* Where the next element of such a text is. *)
IsBeyond(x, f, type, keys, part, m) ==
  /\ Len(x.text) \in Nat /\ Len(part.text) \in Nat \ {0}
  /\ Len(f.text) + Gap(type, m + 1) + Len(part.text) <= Len(x.text)
  /\ Stands(x.text, Len(f.text) + Gap(type, m + 1), part.text)
  /\ Stands(x.text, Len(f.text), Before(type, keys, m + 1))
  /\ x.text[Len(f.text) + Gap(type, m + 1) + 1] = part.text[1]
  /\ m # 0 => x.text[Len(f.text) + 1] = ","
  /\ type = "object" => /\ x.text[Len(f.text) + Comma1(m + 1) + 1] = keys[m + 1]
                        /\ x.text[Len(f.text) + Comma1(m + 1) + 2] = ":"
  /\ x.needs >= BlocksOf(m + 1) + f.needs + part.needs

(* The places of a container's next element: its comma, key, colon and     *)
(* first token.                                                            *)
LEMMA Beyond ==
  ASSUME NEW x, NEW f, NEW type \in Types, NEW keys, NEW parts, NEW m \in Nat, NEW l,
         IsFill(f, type), Goes(x, f, type, keys, parts, m, l), Len(parts) > m
  PROVE  IsBeyond(x, f, type, keys, parts[m + 1], m)
<1> DEFINE F == Len(f.text)
           g == Gap(type, m + 1)
           e == parts[m + 1].text
           b == Before(type, keys, m + 1)
           t == x.text
<1>1. /\ IsText(x) /\ IsLonger(x, f, type, b, parts[m + 1], m)
      /\ IsBefore(b, type, keys, m + 1) /\ parts[m + 1] \in TextsUpTo[l]
  BY DEF Goes
<1>2. /\ t \in Seq(Tokens) /\ Len(t) \in Nat /\ F \in Nat /\ e \in Seq(Tokens) /\ e # <<>> /\ Len(e) \in Nat
      /\ Stands(t, F, b) /\ Stands(t, F + g, e) /\ b \in Seq(Tokens) /\ Len(b) = g
      /\ x.needs >= BlocksOf(m + 1) + f.needs + parts[m + 1].needs
  BY <1>1, LenProperties DEF IsLonger, IsText, IsFill
<1>3. g \in Nat /\ g = Comma1(m + 1) + KeyLen(type) /\ Comma1(m + 1) \in Nat
      /\ (m # 0 => Comma1(m + 1) = 1) /\ (type = "object" => KeyLen(type) = 2) /\ KeyLen(type) \in Nat
  <2>1. m # 0 => m + 1 # 1
    OBVIOUS
  <2>2. QED BY <2>1, GapTypes
<1>4. Len(e) \in Nat \ {0}
  BY <1>2, EmptySeq
<1>5. /\ m # 0 => b[1] = ","
      /\ type = "object" => b[Comma1(m + 1) + 1] = keys[m + 1] /\ b[Comma1(m + 1) + 2] = ":"
  <2>1. m # 0 => m + 1 # 1
    OBVIOUS
  <2>2. QED BY <1>1, <2>1 DEF IsBefore
<1> HIDE DEF F, g, e, b, t
<1>6. F + g + Len(e) <= Len(t)
  BY <1>2, <1>3 DEF Stands
<1>7. t[F + g + 1] = e[1]
  <2>1. 1 \in 1..Len(e)
    BY <1>4
  <2>2. QED BY <1>2, <2>1 DEF Stands
<1>8. \A q \in 1..g : t[F + q] = b[q]
  BY <1>2 DEF Stands
<1>9. m # 0 => t[F + 1] = ","
  <2>1. m # 0 => 1 \in 1..g
    BY <1>3
  <2>2. QED BY <1>5, <1>8, <2>1
<1>10. ASSUME type = "object"
       PROVE  t[F + Comma1(m + 1) + 1] = keys[m + 1] /\ t[F + Comma1(m + 1) + 2] = ":"
  <2> DEFINE c == Comma1(m + 1)
  <2>1. c + 1 \in 1..g /\ c + 2 \in 1..g /\ F + (c + 1) = F + c + 1 /\ F + (c + 2) = F + c + 2
    <3>1. c \in Nat /\ g = c + 2
      BY <1>3, <1>10
    <3> HIDE DEF c
    <3>2. QED BY <1>2, <3>1
  <2>2. b[c + 1] = keys[m + 1] /\ b[c + 2] = ":"
    BY <1>5, <1>10
  <2> HIDE DEF c
  <2>3. t[F + (c + 1)] = b[c + 1] /\ t[F + (c + 2)] = b[c + 2]
    BY <1>8, <2>1
  <2>4. t[F + c + 1] = keys[m + 1] /\ t[F + c + 2] = ":"
    BY <2>1, <2>2, <2>3
  <2>5. QED BY <2>4 DEF c
<1>11. QED BY <1>2, <1>4, <1>6, <1>7, <1>9, <1>10 DEF F, g, e, b, t, IsBeyond

(* parse_array, parse_object: a container begins. *)
LEMMA ContainerBegins ==
  ASSUME NEW s \in Seq(Tokens), NEW type \in Types, NEW l \in 0..MaxNesting - 1,
         NEW frame, frame = [type |-> type, keys |-> <<>>, items |-> <<>>, cap |-> FirstCap]
  PROVE  /\ frame \in Frames
         /\ AfterElement(Append(s, Opener(type)), frame, <<>>, Len(s), l)
         /\ \A b \in Nat : Used(frame, <<>>, b) = b + FirstCap
<1> DEFINE s2 == Append(s, Opener(type))
           f == FilledBy(frame, <<>>)
<1>1. Len(<<>>) = 0 /\ Len(<<>>) \in Nat /\ <<>> \in Seq(TextsUpTo[l]) /\ <<>> \in Seq(Strings) /\ <<>> \in Seq(Nodes)
  OBVIOUS
<1>2. frame \in Frames
  BY <1>1, JsonAssumption DEF Frames
<1>3. f = Start(type)
  <2>1. \E g : Fills(g, type, <<>>, <<>>, Len(<<>>)) /\ Filled(type, <<>>, <<>>) = g[Len(<<>>)]
    BY <1>1, FilledIs
  <2>2. f = Filled(type, <<>>, <<>>)
    BY DEF FilledBy
  <2>3. QED BY <1>1, <2>1, <2>2 DEF Fills
<1>4. f.text = <<Opener(type)>> /\ Len(f.text) = 1 /\ f.text[1] = Opener(type) /\ f.needs = 0
  BY <1>3 DEF Start
<1>5. Opener(type) \in Tokens
  BY TokenTypes
<1>6. s2 \in Seq(Tokens) /\ Len(s) \in Nat /\ Len(s2) = Len(s) + 1 /\ s2[Len(s) + 1] = Opener(type)
  BY <1>5, Longer
<1> HIDE DEF f
<1>7. Stands(s2, Len(s), f.text)
  <2> HIDE DEF s2
  <2>1. \A q \in 1..1 : q = 1
    OBVIOUS
  <2>2. QED BY <1>4, <1>6, <2>1 DEF Stands
<1>8. Kept(s2, frame, <<>>, Len(s), l, 0)
  <2>1. frame.items = <<>> /\ frame.cap = FirstCap /\ 2 * FirstCap - FirstCap = FirstCap
    BY JsonAssumption
  <2>2. \A i \in 1..0 : FALSE
    OBVIOUS
  <2>3. 0 <= MaxElements
    BY JsonAssumption
  <2> HIDE DEF s2
  <2>4. QED BY <1>1, <1>6, <1>7, <2>1, <2>2, <2>3, BlocksBegin DEF Kept, f
<1>9. Follows(s2, frame, <<>>, Len(s), l, 0)
  <2>1. SUFFICES ASSUME NEW x \in TextsUpTo[l + 1], Agrees(x, s2, Len(s))
                 PROVE  \E keys, parts : /\ Continues(frame, <<>>, keys, parts, l, 0)
                                         /\ x = ContainerText(frame.type, keys, parts)
    BY DEF Follows
  <2>2. IsText(x) /\ Len(x.text) \in Nat \ {0}
    BY TextsText, NestingTypes, LenProperties, EmptySeq DEF IsText
  <2>3. x.text[1] = Opener(type)
    BY <1>5, <1>6, <2>1, <2>2, NextAgrees
  <2>4. x \notin LeafTexts
    BY <2>3, LeafIs, MarkTypes
  <2>5. PICK type2, keys, parts :
          type2 \in Types /\ Holds(type2, keys, parts, l) /\ x = ContainerText(type2, keys, parts)
    <3>1. \E type2 \in Types : \E keys, parts :
            Holds(type2, keys, parts, (l + 1) - 1) /\ x = ContainerText(type2, keys, parts)
      BY <2>4, Containers, NestingTypes
    <3>2. QED BY <3>1, NestingTypes
  <2>6. Len(parts) \in Nat /\ Fits(type2, keys, parts, Len(parts))
    BY <2>5, HoldsFits, TextsText, NestingTypes
  <2>7. x.text[1] = Opener(type2)
    BY <2>5, <2>6, ContainerIs DEF IsContainer
  <2>8. type2 = type
    BY <2>3, <2>5, <2>7, MarkTypes
  <2>9. frame.type = type /\ frame.keys = <<>> /\ \A i \in 1..0 : FALSE
    OBVIOUS
  <2>10. Continues(frame, <<>>, keys, parts, l, 0)
    BY <1>1, <2>5, <2>6, <2>8, <2>9 DEF Continues
  <2>11. QED BY <2>5, <2>8, <2>9, <2>10
<1>10. KeyCount(frame, 0)
  BY <1>1 DEF KeyCount
<1>11. AfterElement(s2, frame, <<>>, Len(s), l)
  <2>1. Len(s2) = Len(s) + Len(f.text)
    BY <1>4, <1>6
  <2> HIDE DEF s2
  <2>2. QED BY <1>1, <1>8, <1>9, <1>10, <2>1 DEF AfterElement, f
<1>12. ASSUME NEW b \in Nat PROVE Used(frame, <<>>, b) = b + FirstCap
  <2>1. frame.cap = FirstCap
    OBVIOUS
  <2>2. QED BY <1>4, <2>1, JsonAssumption DEF Used, f
<1>13. QED BY <1>2, <1>11, <1>12

(* A container ends: what was read is its text, and nothing else is.       *)
IsEnded(x, s2, frame, held, o, l) ==
  /\ x \in TextsUpTo[l + 1] /\ x.value = Node(frame.type, "", frame.keys, frame.items)
  /\ Stands(s2, o, x.text) /\ Len(s2) = o + Len(x.text)
  /\ \A y \in TextsUpTo[l + 1] : Agrees(y, s2, o) => y = x
  /\ \A b \in Nat : Used(frame, held, b) = b + x.needs

(* A container ends: the text of what the frame holds was read, no other   *)
(* text agrees, and it has paid what it needs.                             *)
LEMMA ContainerEnds ==
  ASSUME NEW s \in Seq(Tokens), NEW frame \in Frames, NEW l \in 0..MaxNesting - 1, NEW held, NEW o,
         AfterElement(s, frame, held, o, l),
         NEW x, x = ContainerText(frame.type, frame.keys, held),
         NEW s2, s2 = Append(s, Ender(frame.type))
  PROVE  IsEnded(x, s2, frame, held, o, l)
<1> DEFINE f == FilledBy(frame, held)
           m == Len(held)
           type == frame.type
           F == Len(f.text)
<1>1. /\ Kept(s, frame, held, o, l, m) /\ KeyCount(frame, m) /\ Len(s) = o + F
      /\ Follows(s, frame, held, o, l, m)
  BY DEF AfterElement
<1>2. /\ held \in Seq(TextsUpTo[l]) /\ m \in Nat /\ m <= MaxElements
      /\ Fits(type, frame.keys, held, m) /\ IsFill(f, type) /\ o \in Nat /\ Stands(s, o, f.text)
  <2>1. Len(held) \in Nat
    BY LenProperties DEF AfterElement, Kept
  <2>2. Len(held) >= Len(held)
    BY <2>1
  <2>3. Kept(s, frame, held, o, l, Len(held)) /\ KeyCount(frame, Len(held))
    BY DEF AfterElement
  <2> HIDE DEF f, m, type, F
  <2>4. QED BY <2>1, <2>2, <2>3, KeptTypes DEF f, m, type
<1>3. type \in Types /\ frame.keys \in Seq(Strings) /\ Len(frame.keys) \in Nat
      /\ frame.items \in Seq(Nodes)
  BY FrameTypes
<1>4. F \in Nat \ {0} /\ f.needs \in Nat /\ m >= m
  BY <1>2 DEF IsFill
<1>5. Ender(type) \in Tokens /\ Ender(type) \in Marks /\ Ender(type) # ","
  BY <1>3, TokenTypes, MarkTypes
<1>6. Holds(type, frame.keys, held, l)
  <2>1. CASE type = "array"
    <3>1. Len(frame.keys) = 0
      BY <1>1, <2>1 DEF KeyCount
    <3>2. QED BY <1>2, <1>3, <2>1, <3>1, EmptySeq DEF Holds
  <2>2. CASE type = "object"
    <3>1. Len(frame.keys) = m
      BY <1>1, <2>2 DEF KeyCount
    <3>2. QED BY <1>2, <1>3, <2>2, <3>1 DEF Holds
  <2>3. QED BY <1>3, <2>1, <2>2 DEF Types
<1>7. x \in TextsUpTo[l + 1]
  <2>1. \E type2 \in Types : \E keys, parts :
          Holds(type2, keys, parts, (l + 1) - 1) /\ x = ContainerText(type2, keys, parts)
    BY <1>3, <1>6, NestingTypes
  <2>2. QED BY <2>1, Containers, NestingTypes
<1>8. x.value = Node(type, "", frame.keys, frame.items)
  <2> DEFINE items == [i \in DOMAIN held |-> held[i].value]
  <2>1. x.value = Node(type, "", frame.keys, items)
    BY DEF ContainerText
  <2>2. Len(frame.items) = m /\ \A i \in 1..m : frame.items[i] = held[i].value
    BY <1>1 DEF Kept
  <2>3. DOMAIN held = 1..m
    BY <1>2, LenProperties
  <2>4. frame.items = [i \in 1..m |-> frame.items[i]]
    BY <1>3, <2>2, LenProperties
  <2>5. frame.items = items
    <3> HIDE DEF m
    <3>1. QED BY <2>2, <2>3, <2>4
  <2>6. QED BY <2>1, <2>5
<1>9. IsContainer(x, f, type, m)
  BY <1>2, <1>3, ContainerIs DEF FilledBy
<1> HIDE DEF f, m, type, F
<1>10. s2 \in Seq(Tokens) /\ Len(s2) = Len(s) + 1 /\ s2[Len(s) + 1] = Ender(type)
       /\ \A q \in 1..Len(s) : s2[q] = s[q]
  BY <1>5, Longer DEF type
<1>11. /\ x.text = Append(f.text, Ender(type)) /\ Len(x.text) = F + 1 /\ x.text[F + 1] = Ender(type)
       /\ Stands(x.text, 0, f.text) /\ x.needs = BlocksOf(m) + f.needs /\ IsText(x)
  BY <1>9 DEF IsContainer, F
<1>12. Stands(s2, o, x.text) /\ Len(s2) = o + Len(x.text)
  <2>1. Len(s2) = o + Len(x.text) /\ o + (F + 1) = Len(s) + 1
    BY <1>1, <1>2, <1>4, <1>10, <1>11
  <2>2. ASSUME NEW q \in 1..F + 1 PROVE s2[o + q] = x.text[q]
    <3>1. CASE q = F + 1
      BY <1>10, <1>11, <2>1, <3>1
    <3>2. CASE q # F + 1
      <4>1. q \in 1..F /\ o + q \in 1..Len(s) /\ 0 + q = q
        BY <1>1, <1>2, <1>4, <3>2
      <4>2. s[o + q] = f.text[q] /\ x.text[0 + q] = f.text[q]
        BY <1>2, <1>11, <4>1 DEF Stands, F
      <4>3. QED BY <1>10, <4>1, <4>2
    <3>3. QED BY <3>1, <3>2
  <2>3. o + Len(x.text) <= Len(s2)
    BY <1>2, <1>4, <1>11, <2>1
  <2>4. QED BY <1>11, <2>1, <2>2, <2>3 DEF Stands
<1>13. ASSUME NEW y \in TextsUpTo[l + 1], Agrees(y, s2, o) PROVE y = x
  <2>1. IsText(y)
    BY TextsText, NestingTypes
  <2>2. Agrees(y, s, o)
    BY <1>2, <1>5, <1>13, <2>1, AgreesShorter DEF type
  <2>3. PICK keys, parts : Continues(frame, held, keys, parts, l, m) /\ y = ContainerText(type, keys, parts)
    BY <1>1, <2>2 DEF Follows, type
  <2>4. Goes(y, f, type, keys, parts, m, l)
    <3>1. m \in Nat /\ m >= Len(held)
      BY <1>2, <1>4 DEF m
    <3>2. QED BY <1>1, <2>3, <3>1, Following DEF f, type, m
  <2>5. Len(parts) \in Nat /\ Len(parts) >= m /\ Holds(type, keys, parts, l)
        /\ (\A i \in 1..m : parts[i] = held[i]) /\ \A i \in 1..Len(frame.keys) : keys[i] = frame.keys[i]
    BY <2>3, <2>4 DEF Continues, Goes, type, m
  <2>6. CASE Len(parts) > m
    <3>1. /\ Len(y.text) \in Nat /\ Len(parts[m + 1].text) \in Nat \ {0} /\ Gap(type, m + 1) \in Nat
          /\ F + Gap(type, m + 1) + Len(parts[m + 1].text) <= Len(y.text)
          /\ y.text[F + Gap(type, m + 1) + 1] = parts[m + 1].text[1]
          /\ m # 0 => y.text[F + 1] = ","
          /\ type = "object" => y.text[F + Comma1(m + 1) + 1] = keys[m + 1]
      <4>1. IsBeyond(y, f, type, keys, parts[m + 1], m)
        BY <1>2, <1>3, <2>4, <2>6, Beyond
      <4>2. QED BY <4>1, GapTypes DEF F, IsBeyond
    <3>2. y.text[F + 1] = Ender(type)
      <4>1. F + 1 \in Nat \ {0} /\ F + 1 <= Len(y.text) /\ o + (F + 1) = Len(s) + 1
        <5> DEFINE g == Gap(type, m + 1)
                   e == Len(parts[m + 1].text)
                   z == Len(y.text)
        <5>1. g \in Nat /\ e \in Nat \ {0} /\ z \in Nat /\ F + g + e <= z
          BY <3>1
        <5> HIDE DEF g, e, z
        <5>2. F + 1 <= z
          BY <1>4, <5>1
        <5>3. QED BY <1>1, <1>2, <1>4, <5>2 DEF z
      <4>2. Agrees(y, Append(s, Ender(type)), o)
        BY <1>13 DEF type
      <4> DEFINE c == Ender(type)
                 q == F + 1
      <4>3. c \in Tokens /\ Agrees(y, Append(s, c), o)
        BY <1>5, <4>2
      <4>4. q \in Nat \ {0} /\ q <= Len(y.text) /\ o + q = Len(s) + 1
        BY <4>1
      <4> HIDE DEF c, q
      <4>5. y.text[q] = c
        BY <1>2, <2>1, <4>3, <4>4, NextAgrees
      <4>6. QED BY <4>5 DEF c, q
    <3>3. m = 0
      BY <1>5, <3>1, <3>2
    <3>4. Comma1(m + 1) = 0
      BY <3>3 DEF Comma1
    <3>5. CASE type = "object"
      <4>1. keys[m + 1] \in Strings
        BY <2>4, <2>6, <3>5 DEF Goes, HasKey
      <4>2. F + Comma1(m + 1) + 1 = F + 1
        BY <1>4, <3>4
      <4>3. keys[m + 1] = Ender(type)
        BY <3>1, <3>2, <3>5, <4>2
      <4>4. QED BY <1>5, <4>1, <4>3, TokenTypes
    <3>6. CASE type = "array"
      <4>1. Gap(type, m + 1) = 0
        BY <3>4, <3>6, GapTypes
      <4>2. F + Gap(type, m + 1) + 1 = F + 1
        BY <1>4, <4>1
      <4>3. parts[m + 1].text[1] = Ender(type)
        BY <3>1, <3>2, <4>2
      <4>4. parts[m + 1] \in TextsUpTo[l]
        BY <2>4, <2>6 DEF Goes
      <4>5. \/ parts[m + 1].text[1] \in Strings \union Scalars
            \/ \E type2 \in Types : parts[m + 1].text[1] = Opener(type2)
        BY <4>4, FirstToken, NestingTypes
      <4>6. QED BY <1>3, <1>5, <4>3, <4>5, MarkTypes
    <3>7. QED BY <1>3, <3>5, <3>6 DEF Types
  <2>7. CASE Len(parts) = m
    <3>1. parts = held
      <4>1. parts \in Seq(TextsUpTo[l]) /\ held \in Seq(TextsUpTo[l]) /\ Len(held) = m
        BY <1>2, <2>5 DEF Holds, m
      <4>2. \A i \in 1..Len(parts) : parts[i] = held[i]
        BY <2>5, <2>7
      <4>3. QED BY <2>7, <4>1, <4>2, SeqEqual
    <3>2. keys = frame.keys
      <4>1. CASE type = "array"
        <5>1. keys = <<>> /\ Len(frame.keys) = 0
          BY <1>1, <2>5, <4>1 DEF KeyCount, Holds, type
        <5>2. frame.keys = <<>>
          BY <1>3, <5>1, EmptySeq
        <5>3. QED BY <5>1, <5>2
      <4>2. CASE type = "object"
        <5>1. keys \in Seq(Strings) /\ Len(keys) = Len(frame.keys)
          BY <1>1, <2>5, <2>7, <4>2 DEF KeyCount, Holds, type
        <5>2. QED BY <1>3, <2>5, <5>1, SeqEqual
      <4>3. QED BY <1>3, <4>1, <4>2 DEF Types
    <3>3. QED BY <2>3, <3>1, <3>2 DEF type
  <2>8. QED BY <1>2, <2>5, <2>6, <2>7
<1>14. ASSUME NEW b \in Nat PROVE Used(frame, held, b) = b + x.needs
  <2>1. 2 * frame.cap - FirstCap = BlocksOf(m)
    BY <1>1 DEF Kept
  <2>2. BlocksOf(m) \in Nat
    BY <1>2, BlocksNumber
  <2>3. Used(frame, held, b) = b + (2 * frame.cap - FirstCap) + f.needs
    BY DEF Used, f
  <2>4. QED BY <1>4, <1>11, <2>1, <2>2, <2>3
<1>15. QED BY <1>7, <1>8, <1>12, <1>13, <1>14 DEF type, IsEnded

(* The larger block is paid for before an element begins. *)
LEMMA Paid ==
  ASSUME NEW frame \in Frames, NEW m \in Nat, 2 * frame.cap - FirstCap = BlocksOf(m)
  PROVE  /\ frame.cap >= m
         /\ 2 * (IF frame.cap = m THEN 2 * m ELSE frame.cap) - FirstCap = BlocksOf(m + 1)
         /\ frame.cap \in Nat /\ frame.cap # 0
<1>1. PICK r \in Nat : /\ r >= m /\ r >= FirstCap /\ BlocksOf(m) = 2 * r - FirstCap
                       /\ BlocksOf(m + 1) = IF r = m THEN 2 * (2 * r) - FirstCap ELSE 2 * r - FirstCap
  BY BlocksGrow
<1>2. frame.cap \in Nat /\ FirstCap \in Nat \ {0}
  BY FrameTypes, JsonAssumption
<1>3. frame.cap = r
  BY <1>1, <1>2
<1>4. QED BY <1>1, <1>2, <1>3

(* A leaf is read. *)
LEMMA LeafReads ==
  ASSUME NEW s \in Seq(Tokens), NEW token \in Strings \union Scalars, NEW l \in 0..MaxNesting
  PROVE  \E x \in TextsUpTo[l] :
           /\ x.value = Leaf(token) /\ x.needs = 0 /\ x.text = <<token>>
           /\ Stands(Append(s, token), Len(s), x.text)
           /\ Len(Append(s, token)) = Len(s) + Len(x.text)
           /\ \A y \in TextsUpTo[l] : Agrees(y, Append(s, token), Len(s)) => y = x
<1> DEFINE x == [text |-> <<token>>, value |-> Leaf(token), needs |-> 0, named |-> <<>>]
           s2 == Append(s, token)
<1>1. x \in LeafTexts
  BY DEF LeafTexts
<1>2. x \in TextsUpTo[l]
  BY <1>1, TextsAre
<1>3. token \in Tokens /\ token \notin Marks
  BY TokenTypes
<1>4. s2 \in Seq(Tokens) /\ Len(s) \in Nat /\ Len(s2) = Len(s) + 1 /\ s2[Len(s) + 1] = token
  BY <1>3, Longer
<1>5. x.text = <<token>> /\ Len(x.text) = 1 /\ x.text[1] = token /\ x.value = Leaf(token) /\ x.needs = 0 /\ x.named = <<>>
  OBVIOUS
<1> DEFINE n == Len(s)
<1>6. ASSUME NEW y \in TextsUpTo[l], Agrees(y, s2, n) PROVE y = x
  <2>1. IsText(y) /\ Len(y.text) \in Nat \ {0}
    BY TextsText, LenProperties, EmptySeq DEF IsText
  <2>2. y.text[1] = token
    BY <1>3, <1>4, <1>6, <2>1, NextAgrees
  <2>3. y \in LeafTexts
    <3>1. \/ y \in LeafTexts
          \/ \E type \in Types : y.text[1] = Opener(type)
      BY FirstToken
    <3>2. QED BY <1>3, <2>2, <3>1, MarkTypes
  <2>4. PICK t \in Strings \union Scalars :
          y = [text |-> <<t>>, value |-> Leaf(t), needs |-> 0, named |-> <<>>]
    BY <2>3 DEF LeafTexts
  <2>5. t = token
    BY <2>2, <2>4
  <2>6. QED BY <2>4, <2>5
<1> HIDE DEF x, s2
<1>7. Stands(s2, Len(s), x.text) /\ Len(s2) = Len(s) + Len(x.text)
  <2>1. \A q \in 1..1 : q = 1
    OBVIOUS
  <2>2. QED BY <1>4, <1>5, <2>1 DEF Stands
<1>8. QED BY <1>2, <1>5, <1>6, <1>7 DEF s2

(* A container in which an element has begun keeps what it has. *)
LEMMA BegunLonger ==
  ASSUME NEW s \in Seq(Tokens), NEW token \in Tokens, NEW frame \in Frames, NEW l \in 0..MaxNesting - 1,
         NEW held, NEW o, Begun(s, frame, held, o, l)
  PROVE  Begun(Append(s, token), frame, held, o, l)
<1> DEFINE m == Len(held)
           f == FilledBy(frame, held)
           b == Before(frame.type, frame.keys, m + 1)
           n == IF frame.type = "object" THEN m + 1 ELSE m
<1>1. /\ Kept(s, frame, held, o, l, m + 1) /\ m < MaxElements /\ KeyCount(frame, m + 1)
      /\ Stands(s, o + Len(f.text), b) /\ Follows(s, frame, held, o, l, m + 1)
  BY DEF Begun
<1>2. m \in Nat
  BY <1>1, LenProperties DEF Kept
<1>3. m + 1 \in Nat /\ m + 1 >= Len(held)
  BY <1>2
<1>4. IsFill(f, frame.type) /\ o \in Nat /\ frame.type \in Types
  BY <1>1, <1>3, KeptTypes, FrameTypes
<1>5. HasKey(frame.type, frame.keys, m + 1)
  <2>1. SUFFICES ASSUME frame.type = "object" PROVE frame.keys[m + 1] \in Strings
    BY DEF HasKey
  <2>2. m + 1 \in 1..Len(frame.keys)
    BY <1>1, <1>2, <2>1 DEF KeyCount
  <2>3. QED BY <2>2, FrameTypes, ElementOfSeq
<1>6. Len(b) \in Nat
  <2>1. IsBefore(b, frame.type, frame.keys, m + 1)
    BY <1>2, <1>3, <1>4, <1>5, BeforeIs
  <2>2. QED BY <2>1, LenProperties DEF IsBefore
<1>7. o + Len(f.text) \in Nat
  BY <1>4 DEF IsFill
<1> HIDE DEF m, f, b, n
<1>8. Stands(Append(s, token), o + Len(f.text), b)
  BY <1>1, <1>6, <1>7, StandsLonger
<1>9. Kept(Append(s, token), frame, held, o, l, m + 1)
  <2>1. Len(held) <= m + 1
    BY <1>3
  <2>2. QED BY <1>1, <1>3, KeptLonger
<1>10. Follows(Append(s, token), frame, held, o, l, m + 1)
  BY <1>1, <1>4, FollowsLonger
<1>11. QED BY <1>1, <1>8, <1>9, <1>10 DEF Begun, m, f, b

(* A token that is not its end: the container goes on. *)
LEMMA GoesOn ==
  ASSUME NEW s \in Seq(Tokens), NEW frame \in Frames, NEW l \in 0..MaxNesting - 1, NEW held, NEW o,
         AfterElement(s, frame, held, o, l), NEW c \in Tokens, c # Ender(frame.type)
  PROVE  /\ Kept(Append(s, c), frame, held, o, l, Len(held))
         /\ Follows(Append(s, c), frame, held, o, l, Len(held) + 1)
<1> DEFINE s2 == Append(s, c)
           f == FilledBy(frame, held)
           m == Len(held)
           F == Len(f.text)
           type == frame.type
<1>1. /\ Kept(s, frame, held, o, l, m) /\ KeyCount(frame, m) /\ Len(s) = o + F
      /\ Follows(s, frame, held, o, l, m)
  BY DEF AfterElement
<1>2. m \in Nat /\ held \in Seq(TextsUpTo[l])
  BY <1>1, LenProperties DEF Kept
<1>3. m >= Len(held)
  BY <1>2
<1>4. IsFill(f, type) /\ o \in Nat /\ type \in Types
  BY <1>1, <1>2, <1>3, KeptTypes, FrameTypes
<1>5. F \in Nat
  BY <1>4 DEF IsFill
<1> HIDE DEF f, m, F, type
<1>6. s2 \in Seq(Tokens) /\ Len(s) \in Nat /\ Len(s2) = Len(s) + 1 /\ s2[Len(s) + 1] = c
  BY Longer
<1>7. Kept(s2, frame, held, o, l, m)
  BY <1>1, <1>2, <1>3, KeptLonger
<1>8. Follows(s2, frame, held, o, l, m + 1)
  <2>1. SUFFICES ASSUME NEW x \in TextsUpTo[l + 1], Agrees(x, s2, o)
                 PROVE  \E keys, parts : /\ Continues(frame, held, keys, parts, l, m + 1)
                                         /\ x = ContainerText(frame.type, keys, parts)
    BY DEF Follows
  <2>2. IsText(x)
    BY TextsText, NestingTypes
  <2>3. Agrees(x, s, o)
    BY <1>4, <2>1, <2>2, AgreesShorter
  <2>4. PICK keys, parts : Continues(frame, held, keys, parts, l, m) /\ x = ContainerText(frame.type, keys, parts)
    BY <1>1, <2>3 DEF Follows
  <2>5. Goes(x, f, type, keys, parts, m, l)
    <3>1. m \in Nat /\ m >= Len(held)
      BY <1>2, <1>3
    <3>2. QED BY <1>1, <2>4, <3>1, Following DEF f, type, m
  <2>6. Len(parts) \in Nat /\ Len(parts) >= m
    BY <2>4, <2>5 DEF Continues, Goes
  <2>7. Len(parts) # m
    <3>1. SUFFICES ASSUME Len(parts) = m PROVE FALSE
      OBVIOUS
    <3>2. IsContainer(x, f, type, m)
      BY <2>5, <3>1 DEF Goes
    <3>3. Len(x.text) = F + 1 /\ x.text[F + 1] = Ender(type)
      BY <3>2 DEF IsContainer, F
    <3>4. x.text[F + 1] = c
      <4>1. F + 1 \in Nat \ {0} /\ F + 1 <= Len(x.text) /\ o + (F + 1) = Len(s) + 1
        BY <1>1, <1>4, <1>5, <3>3
      <4>2. QED BY <1>4, <2>1, <2>2, <4>1, NextAgrees
    <3>5. QED BY <3>3, <3>4 DEF type
  <2>8. Continues(frame, held, keys, parts, l, m + 1)
    BY <1>2, <2>4, <2>6, <2>7 DEF Continues
  <2>9. QED BY <2>4, <2>8
<1>9. QED BY <1>7, <1>8 DEF m

(* A comma, where another element comes. *)
LEMMA CommaReads ==
  ASSUME NEW s \in Seq(Tokens), NEW frame \in Frames, NEW l \in 0..MaxNesting - 1, NEW held, NEW o,
         AfterElement(s, frame, held, o, l), held # <<>>, Len(held) < MaxElements
  PROVE  AfterComma(Append(s, ","), frame, held, o, l)
<1> DEFINE c == ","
           s2 == Append(s, c)
           m == Len(held)
           F == Len(FilledBy(frame, held).text)
<1>1. Kept(s, frame, held, o, l, m) /\ KeyCount(frame, m) /\ Len(s) = o + F
  BY DEF AfterElement
<1>2. m \in Nat /\ held \in Seq(TextsUpTo[l])
  BY <1>1, LenProperties DEF Kept
<1>3. m # 0
  BY <1>2, EmptySeq
<1>4. c \in Tokens /\ c # Ender(frame.type)
  BY TokenTypes, MarkTypes, FrameTypes DEF Marks
<1> HIDE DEF c, m, F
<1>5. Len(s) \in Nat /\ Len(s2) = Len(s) + 1 /\ s2[Len(s) + 1] = c
  BY <1>4, Longer
<1>6. Kept(s2, frame, held, o, l, m) /\ Follows(s2, frame, held, o, l, m + 1)
  BY <1>4, GoesOn DEF m
<1> HIDE DEF s2
<1>7. Len(s2) = o + F + 1 /\ s2[Len(s2)] = c /\ 0 < m
  BY <1>1, <1>2, <1>3, <1>5
<1>8. QED BY <1>1, <1>2, <1>6, <1>7 DEF AfterComma, m, F, c, s2

(* The same elements fill the same. *)
LEMMA SameContents ==
  ASSUME NEW frame, NEW frame2, NEW held, Len(held) \in Nat, frame.type \in Types, frame2.type = frame.type,
         Fits(frame.type, frame.keys, held, Len(held)),
         Same(frame.type, frame.keys, frame2.keys, Len(held))
  PROVE  FilledBy(frame2, held) = FilledBy(frame, held)
<1> DEFINE type == frame.type
           keys == frame.keys
           keys2 == frame2.keys
           m == Len(held)
<1>1. PICK f : Fills(f, type, keys, held, m) /\ Filled(type, keys, held) = f[m]
  BY FilledIs
<1>2. Same(type, keys, keys2, m) /\ Alike(held, held, m)
  BY DEF Alike
<1>3. PICK g : Fills(g, type, keys2, held, m) /\ Filled(type, keys2, held) = g[m]
  BY FilledIs
<1>4. m \in Nat /\ m \in 0..m
  OBVIOUS
<1> HIDE DEF m, keys, keys2, type
<1>5. \A k \in 0..m : f[k] = g[k]
  BY <1>1, <1>2, <1>3, <1>4, FillsAgree
<1>6. QED BY <1>1, <1>3, <1>4, <1>5 DEF FilledBy, keys, keys2, type

Grows(cap, m) == IF cap = m THEN 2 * m ELSE 0
CapAfter(cap, m) == IF cap = m THEN 2 * m ELSE cap

(* What a container that grows pays. *)
LEMMA GrowsBy ==
  ASSUME NEW cap \in Nat, NEW m \in Nat
  PROVE  2 * CapAfter(cap, m) = 2 * cap + Grows(cap, m) /\ Grows(cap, m) \in Nat
<1>1. CASE cap = m
  BY <1>1 DEF CapAfter, Grows
<1>2. CASE cap # m
  BY <1>2 DEF CapAfter, Grows
<1>3. QED BY <1>1, <1>2

(* The first element of a container, or the next. *)
Ready(s, frame, held, o, l) ==
  (held = <<>> /\ AfterElement(s, frame, held, o, l)) \/ AfterComma(s, frame, held, o, l)

IsReady(s, s2, frame, held, o, l) ==
  /\ Kept(s2, frame, held, o, l, Len(held))
  /\ Follows(s2, frame, held, o, l, Len(held) + 1)
  /\ KeyCount(frame, Len(held)) /\ Len(held) \in Nat /\ Len(held) < MaxElements
  /\ Len(s) = o + Len(FilledBy(frame, held).text) + Comma1(Len(held) + 1)
  /\ Len(held) # 0 => s[Len(s)] = ","
  /\ Fits(frame.type, frame.keys, held, Len(held)) /\ IsFill(FilledBy(frame, held), frame.type) /\ o \in Nat

(* A token that is no end, where an element may begin: one element more    *)
(* must come.                                                              *)
LEMMA ReadyIs ==
  ASSUME NEW s \in Seq(Tokens), NEW frame \in Frames, NEW l \in 0..MaxNesting - 1, NEW held, NEW o,
         Ready(s, frame, held, o, l), NEW c \in Tokens, c # Ender(frame.type)
  PROVE  IsReady(s, Append(s, c), frame, held, o, l)
<1>1. Kept(s, frame, held, o, l, Len(held)) /\ KeyCount(frame, Len(held))
  BY DEF Ready, AfterElement, AfterComma
<1>2. Len(held) \in Nat
  BY <1>1, LenProperties DEF Kept
<1>3. Len(held) >= Len(held)
  BY <1>2
<1>4. Fits(frame.type, frame.keys, held, Len(held)) /\ IsFill(FilledBy(frame, held), frame.type) /\ o \in Nat
  BY <1>1, <1>2, <1>3, KeptTypes
<1>5. Len(FilledBy(frame, held).text) \in Nat
  BY <1>4 DEF IsFill
<1>6. CASE held = <<>> /\ AfterElement(s, frame, held, o, l)
  <2>1. Len(held) = 0 /\ Comma1(Len(held) + 1) = 0 /\ Len(held) < MaxElements
    BY <1>6, JsonAssumption DEF Comma1
  <2>2. Len(s) = o + Len(FilledBy(frame, held).text)
    BY <1>6 DEF AfterElement
  <2>3. Kept(Append(s, c), frame, held, o, l, Len(held)) /\ Follows(Append(s, c), frame, held, o, l, Len(held) + 1)
    BY <1>6, GoesOn
  <2>4. QED BY <1>1, <1>2, <1>4, <1>5, <2>1, <2>2, <2>3 DEF IsReady
<1>7. CASE AfterComma(s, frame, held, o, l)
  <2>1. /\ 0 < Len(held) /\ Len(held) < MaxElements
        /\ Len(s) = o + Len(FilledBy(frame, held).text) + 1 /\ s[Len(s)] = ","
        /\ Follows(s, frame, held, o, l, Len(held) + 1)
    BY <1>7 DEF AfterComma
  <2>2. Comma1(Len(held) + 1) = 1
    <3>1. Len(held) + 1 # 1
      <4>1. 0 < Len(held)
        BY <2>1
      <4>2. QED BY <1>2, <4>1
    <3>2. QED BY <3>1 DEF Comma1
  <2>3. Kept(Append(s, c), frame, held, o, l, Len(held))
    BY <1>1, <1>2, <1>3, KeptLonger
  <2>4. Follows(Append(s, c), frame, held, o, l, Len(held) + 1)
    BY <1>4, <2>1, FollowsLonger
  <2>5. QED BY <1>1, <1>2, <1>4, <2>1, <2>2, <2>3, <2>4 DEF IsReady
<1>8. QED BY <1>6, <1>7 DEF Ready

(* A container that gets a larger block, and perhaps a key, holds what it  *)
(* held.                                                                   *)
IsGrown(s, frame, frame2, held, o, l) ==
  /\ frame2 \in Frames /\ FilledBy(frame2, held) = FilledBy(frame, held)
  /\ Kept(s, frame2, held, o, l, Len(held) + 1)
  /\ \A b \in Nat : Used(frame2, held, b) = Used(frame, held, b) + Grows(frame.cap, Len(held))

(* A container that has grown has paid for one element more. *)
LEMMA KeptGrown ==
  ASSUME NEW s, NEW frame \in Frames, NEW l \in 0..MaxNesting - 1, NEW held, NEW o,
         Kept(s, frame, held, o, l, Len(held)), KeyCount(frame, Len(held)),
         NEW keys \in Seq(Strings), \A i \in 1..Len(frame.keys) : keys[i] = frame.keys[i],
         NEW frame2, frame2 = [type |-> frame.type, keys |-> keys, items |-> frame.items,
                               cap |-> CapAfter(frame.cap, Len(held))]
  PROVE  IsGrown(s, frame, frame2, held, o, l)
<1> DEFINE m == Len(held)
           cap2 == CapAfter(frame.cap, m)
<1>1. m \in Nat
  BY LenProperties DEF Kept
<1>2. m >= Len(held)
  BY <1>1
<1>3. Fits(frame.type, frame.keys, held, m) /\ IsFill(FilledBy(frame, held), frame.type)
  BY <1>1, <1>2, KeptTypes
<1>4. 2 * frame.cap - FirstCap = BlocksOf(m)
  BY DEF Kept
<1>5. 2 * cap2 - FirstCap = BlocksOf(m + 1) /\ frame.cap \in Nat /\ cap2 \in Nat
  BY <1>1, <1>4, Paid DEF CapAfter
<1>6. frame2.type = frame.type /\ frame2.keys = keys /\ frame2.items = frame.items /\ frame2.cap = cap2
  OBVIOUS
<1>7. frame2 \in Frames
  BY <1>5, FrameTypes DEF Frames
<1>8. FilledBy(frame2, held) = FilledBy(frame, held)
  <2>1. Same(frame.type, frame.keys, frame2.keys, m)
    <3>1. SUFFICES ASSUME frame.type = "object", NEW i \in 1..m PROVE frame2.keys[i] = frame.keys[i]
      BY DEF Same
    <3>2. i \in 1..Len(frame.keys)
      BY <3>1 DEF KeyCount
    <3>3. QED BY <1>6, <3>2
  <2>2. QED BY <1>1, <1>3, <1>6, <2>1, FrameTypes, SameContents
<1> HIDE DEF cap2
<1>9. Kept(s, frame2, held, o, l, m + 1)
  BY <1>5, <1>6, <1>8 DEF Kept
<1>10. ASSUME NEW b \in Nat PROVE Used(frame2, held, b) = Used(frame, held, b) + Grows(frame.cap, m)
  <2>1. /\ Used(frame2, held, b) = b + (2 * cap2 - FirstCap) + FilledBy(frame, held).needs
        /\ Used(frame, held, b) = b + (2 * frame.cap - FirstCap) + FilledBy(frame, held).needs
    BY <1>6, <1>8 DEF Used
  <2>2. 2 * cap2 = 2 * frame.cap + Grows(frame.cap, m) /\ Grows(frame.cap, m) \in Nat
    BY <1>1, <1>5, GrowsBy DEF cap2
  <2> DEFINE n == FilledBy(frame, held).needs
             g == Grows(frame.cap, m)
             c == frame.cap
  <2>3. n \in Nat /\ c \in Nat /\ FirstCap \in Nat
    BY <1>3, <1>5, JsonAssumption DEF IsFill
  <2>4. /\ Used(frame2, held, b) = b + (2 * cap2 - FirstCap) + n
        /\ Used(frame, held, b) = b + (2 * c - FirstCap) + n
    BY <2>1
  <2> HIDE DEF n, g, c
  <2>5. 2 * cap2 = 2 * c + g /\ g \in Nat
    BY <2>2 DEF g, c
  <2>6. Used(frame2, held, b) = Used(frame, held, b) + g
    <3>1. b + (2 * cap2 - FirstCap) + n = (b + (2 * c - FirstCap) + n) + g
      BY <1>5, <2>3, <2>5
    <3>2. QED BY <2>4, <3>1
  <2>7. QED BY <2>6 DEF g
<1>11. QED BY <1>7, <1>8, <1>9, <1>10 DEF IsGrown

(* A key is read. *)
IsKeyed(s2, frame, frame2, held, o, l) ==
  /\ frame2 \in Frames /\ AfterKey(s2, frame2, held, o, l)
  /\ \A b \in Nat : Used(frame2, held, b) = Used(frame, held, b) + Grows(frame.cap, Len(held))

(* The key of an element is read, and the object has room for it. *)
LEMMA KeyReads ==
  ASSUME NEW s \in Seq(Tokens), NEW frame \in Frames, NEW l \in 0..MaxNesting - 1, NEW held, NEW o,
         Ready(s, frame, held, o, l), frame.type = "object", NEW c \in Strings,
         NEW frame2, frame2 = [type |-> frame.type, keys |-> Append(frame.keys, c), items |-> frame.items,
                               cap |-> CapAfter(frame.cap, Len(held))]
  PROVE  IsKeyed(Append(s, c), frame, frame2, held, o, l)
<1> DEFINE s2 == Append(s, c)
           m == Len(held)
           f == FilledBy(frame, held)
           F == Len(f.text)
           k == Append(frame.keys, c)
           d == Comma1(m + 1)
<1>1. c \in Tokens /\ c # Ender(frame.type)
  BY TokenTypes, FrameTypes
<1>2. /\ Kept(s2, frame, held, o, l, m) /\ Follows(s2, frame, held, o, l, m + 1)
      /\ KeyCount(frame, m) /\ m \in Nat /\ m < MaxElements /\ Len(s) = o + F + d
      /\ IsFill(f, frame.type) /\ o \in Nat
  <2>1. IsReady(s, s2, frame, held, o, l)
    BY <1>1, ReadyIs
  <2>2. QED BY <2>1 DEF IsReady
<1>3. m # 0 => s[Len(s)] = ","
  <2>1. IsReady(s, s2, frame, held, o, l)
    BY <1>1, ReadyIs
  <2>2. QED BY <2>1 DEF IsReady
<1>4. /\ k \in Seq(Strings) /\ Len(frame.keys) = m /\ Len(k) = m + 1 /\ k[m + 1] = c
      /\ \A i \in 1..Len(frame.keys) : k[i] = frame.keys[i]
  <2>1. Len(frame.keys) = m /\ frame.keys \in Seq(Strings)
    BY <1>2, FrameTypes DEF KeyCount
  <2>2. k \in Seq(Strings) /\ Len(k) = Len(frame.keys) + 1 /\ k[Len(frame.keys) + 1] = c
        /\ \A i \in 1..Len(frame.keys) : k[i] = frame.keys[i]
    BY <2>1, AppendProperties, LenProperties
  <2>3. QED BY <2>1, <2>2
<1>5. F \in Nat /\ d \in Nat /\ d + 2 = Gap("object", m + 1)
  BY <1>2, GapTypes DEF IsFill
<1>6. s2 \in Seq(Tokens) /\ Len(s) \in Nat /\ Len(s2) = Len(s) + 1 /\ s2[Len(s) + 1] = c
      /\ \A q \in 1..Len(s) : s2[q] = s[q]
  BY <1>1, Longer
<1>7. frame2 = [type |-> frame.type, keys |-> k, items |-> frame.items, cap |-> CapAfter(frame.cap, m)]
  OBVIOUS
<1> HIDE DEF m, f, F, k, d
<1>8. /\ frame2 \in Frames /\ FilledBy(frame2, held) = f /\ Kept(s2, frame2, held, o, l, m + 1)
      /\ \A b \in Nat : Used(frame2, held, b) = Used(frame, held, b) + Grows(frame.cap, m)
  <2>1. IsGrown(s2, frame, frame2, held, o, l)
    BY <1>2, <1>4, <1>7, KeptGrown DEF m
  <2>2. QED BY <2>1 DEF IsGrown, m, f
<1>9. frame2.type = "object" /\ frame2.keys = k
  BY <1>7
<1>10. KeyCount(frame2, m + 1)
  BY <1>4, <1>9 DEF KeyCount
<1>11. Follows(s2, frame2, held, o, l, m + 1)
  <2>1. SUFFICES ASSUME NEW x \in TextsUpTo[l + 1], Agrees(x, s2, o)
                 PROVE  \E keys, parts : /\ Continues(frame2, held, keys, parts, l, m + 1)
                                         /\ x = ContainerText(frame2.type, keys, parts)
    BY DEF Follows
  <2>2. PICK keys, parts : Continues(frame, held, keys, parts, l, m + 1) /\ x = ContainerText(frame.type, keys, parts)
    BY <1>2, <2>1 DEF Follows
  <2>3. Goes(x, f, frame.type, keys, parts, m, l)
    <3>1. m \in Nat /\ m >= Len(held) /\ m + 1 \in Nat
      BY <1>2 DEF m
    <3>2. QED BY <1>2, <2>2, <3>1, Following DEF f, m
  <2>4. Len(parts) > m
    <3>1. Len(parts) >= m + 1 /\ Len(parts) \in Nat
      BY <2>2, <2>3 DEF Continues, Goes
    <3>2. QED BY <1>2, <3>1
  <2>5. IsBeyond(x, f, frame.type, keys, parts[m + 1], m)
    BY <1>2, <2>3, <2>4, Beyond, FrameTypes
  <2>6. x.text[F + d + 1] = keys[m + 1] /\ Len(x.text) \in Nat /\ F + Gap("object", m + 1) <= Len(x.text)
    <3>1. /\ x.text[Len(f.text) + Comma1(m + 1) + 1] = keys[m + 1]
          /\ Len(x.text) \in Nat /\ Len(parts[m + 1].text) \in Nat
          /\ Len(f.text) + Gap("object", m + 1) + Len(parts[m + 1].text) <= Len(x.text)
      BY <2>5 DEF IsBeyond
    <3> DEFINE e == Len(parts[m + 1].text)
               g == Gap("object", m + 1)
               z == Len(x.text)
    <3>2. e \in Nat /\ z \in Nat /\ F + g + e <= z /\ g \in Nat
      BY <1>5, <3>1 DEF F
    <3> HIDE DEF e, g, z
    <3>3. F + g <= z
      BY <1>5, <3>2
    <3>4. QED BY <3>1, <3>3 DEF F, d, g, z
  <2>7. keys[m + 1] = c
    <3> DEFINE q == F + d + 1
    <3>1. q \in Nat \ {0} /\ q <= Len(x.text) /\ o + q = Len(s) + 1
      BY <1>2, <1>5, <2>6
    <3>2. IsText(x)
      BY <2>3 DEF Goes
    <3> HIDE DEF q
    <3>3. x.text[q] = c
      BY <1>1, <1>2, <2>1, <3>1, <3>2, NextAgrees
    <3>4. QED BY <2>6, <3>3 DEF q
  <2>8. \A i \in 1..Len(k) : keys[i] = k[i]
    <3> TAKE i \in 1..Len(k)
    <3>1. CASE i = m + 1
      BY <1>4, <2>7, <3>1
    <3>2. CASE i # m + 1
      <4>1. i \in 1..Len(frame.keys)
        BY <1>2, <1>4, <3>2
      <4>2. QED BY <1>4, <2>2, <4>1 DEF Continues
    <3>3. QED BY <3>1, <3>2
  <2>9. Continues(frame2, held, keys, parts, l, m + 1)
    BY <1>7, <2>2, <2>8 DEF Continues
  <2>10. QED BY <1>7, <2>2, <2>9
<1>12. Len(s2) = NextPlace(frame2, held, o) - 1
  <2>1. NextPlace(frame2, held, o) = o + F + Gap("object", m + 1)
    BY <1>8, <1>9 DEF NextPlace, m, F
  <2>2. QED BY <1>2, <1>5, <1>6, <2>1
<1>13. s2[Len(s2)] = frame2.keys[m + 1]
  BY <1>4, <1>6, <1>9
<1>14. m # 0 => s2[Len(s2) - 1] = ","
  <2>1. SUFFICES ASSUME m # 0 PROVE s2[Len(s2) - 1] = ","
    OBVIOUS
  <2>2. Len(s2) - 1 = Len(s) /\ Len(s) # 0
    <3>1. d = 1
      <4>1. m + 1 # 1
        BY <1>2, <2>1
      <4>2. QED BY <4>1 DEF d, Comma1
    <3>2. QED BY <1>2, <1>5, <1>6, <3>1
  <2>3. Len(s) \in 1..Len(s)
    BY <1>6, <2>2
  <2>4. s2[Len(s)] = s[Len(s)]
    BY <1>6, <2>3
  <2>5. QED BY <1>3, <2>1, <2>2, <2>4
<1> HIDE DEF s2
<1>15. AfterKey(s2, frame2, held, o, l)
  BY <1>2, <1>8, <1>9, <1>10, <1>11, <1>12, <1>13, <1>14 DEF AfterKey, m
<1>16. QED BY <1>8, <1>15 DEF s2, m, IsKeyed

(* An element of an array begins. *)
LEMMA ArrayGoesOn ==
  ASSUME NEW s \in Seq(Tokens), NEW frame \in Frames, NEW l \in 0..MaxNesting - 1, NEW held, NEW o,
         Ready(s, frame, held, o, l), frame.type = "array", NEW c \in Tokens, c # Ender("array"),
         NEW frame2, frame2 = [type |-> frame.type, keys |-> frame.keys, items |-> frame.items,
                               cap |-> CapAfter(frame.cap, Len(held))]
  PROVE  /\ frame2 \in Frames /\ Begun(Append(s, c), frame2, held, o, l)
         /\ Len(s) = NextPlace(frame2, held, o)
         /\ \A b \in Nat : Used(frame2, held, b) = Used(frame, held, b) + Grows(frame.cap, Len(held))
<1> DEFINE s2 == Append(s, c)
           m == Len(held)
           f == FilledBy(frame, held)
           F == Len(f.text)
           d == Comma1(m + 1)
           b == Before("array", frame.keys, m + 1)
<1>1. /\ Kept(s2, frame, held, o, l, m) /\ Follows(s2, frame, held, o, l, m + 1)
      /\ KeyCount(frame, m) /\ m \in Nat /\ m < MaxElements /\ Len(s) = o + F + d
      /\ IsFill(f, frame.type) /\ o \in Nat
  <2>1. IsReady(s, s2, frame, held, o, l)
    BY ReadyIs
  <2>2. QED BY <2>1 DEF IsReady
<1>2. m # 0 => s[Len(s)] = ","
  <2>1. IsReady(s, s2, frame, held, o, l)
    BY ReadyIs
  <2>2. QED BY <2>1 DEF IsReady
<1>3. F \in Nat /\ d \in Nat /\ d = Gap("array", m + 1) /\ (m = 0 => d = 0) /\ (m # 0 => d = 1)
  <2>1. m + 1 = 1 <=> m = 0
    BY <1>1
  <2>2. F \in Nat
    BY <1>1 DEF IsFill
  <2>3. d \in Nat /\ d + KeyLen("array") = Gap("array", m + 1) /\ KeyLen("array") = 0
    BY GapTypes
  <2>4. (m = 0 => d = 0) /\ (m # 0 => d = 1)
    BY <2>1, GapTypes
  <2>5. QED BY <2>2, <2>3, <2>4
<1>4. s2 \in Seq(Tokens) /\ Len(s) \in Nat /\ Len(s2) = Len(s) + 1 /\ \A q \in 1..Len(s) : s2[q] = s[q]
  BY Longer
<1>5. b \in Seq(Tokens) /\ Len(b) = d /\ (m # 0 => b[1] = ",")
  <2>1. m + 1 \in Nat \ {0} /\ HasKey("array", frame.keys, m + 1) /\ "array" \in Types /\ (m # 0 => m + 1 # 1)
    BY <1>1 DEF HasKey, Types
  <2>2. IsBefore(b, "array", frame.keys, m + 1)
    BY <2>1, BeforeIs
  <2>3. QED BY <1>3, <2>1, <2>2 DEF IsBefore
<1>6. frame2 = [type |-> frame.type, keys |-> frame.keys, items |-> frame.items, cap |-> CapAfter(frame.cap, m)]
  OBVIOUS
<1>7. frame2.type = "array" /\ frame2.keys = frame.keys /\ frame2.items = frame.items
  BY <1>6
<1>8. frame.keys \in Seq(Strings) /\ \A i \in 1..Len(frame.keys) : frame.keys[i] = frame.keys[i]
  BY FrameTypes
<1> HIDE DEF m, f, F, d, b
<1>9. /\ frame2 \in Frames /\ FilledBy(frame2, held) = f /\ Kept(s2, frame2, held, o, l, m + 1)
      /\ \A x \in Nat : Used(frame2, held, x) = Used(frame, held, x) + Grows(frame.cap, m)
  <2>1. IsGrown(s2, frame, frame2, held, o, l)
    BY <1>1, <1>6, <1>8, KeptGrown DEF m
  <2>2. QED BY <2>1 DEF IsGrown, m, f
<1>10. KeyCount(frame2, m + 1)
  BY <1>1, <1>7 DEF KeyCount
<1>11. Follows(s2, frame2, held, o, l, m + 1)
  BY <1>1, <1>7 DEF Follows, Continues
<1>12. Len(s) = NextPlace(frame2, held, o)
  BY <1>1, <1>3, <1>7, <1>9 DEF NextPlace, m, F
<1> HIDE DEF s2
<1>13. Stands(s2, o + F, b)
  <2>1. CASE m = 0
    <3>1. Len(b) = 0 /\ \A q \in 1..0 : FALSE
      BY <1>3, <1>5, <2>1
    <3>2. QED BY <1>1, <1>3, <1>4, <3>1 DEF Stands
  <2>2. CASE m # 0
    <3>1. Len(b) = 1 /\ (\A q \in 1..1 : q = 1) /\ Len(s) = o + F + 1 /\ Len(s) \in 1..Len(s)
      <4>1. d = 1
        BY <1>3, <2>2
      <4>2. Len(b) = 1
        BY <1>5, <4>1
      <4>3. Len(s) = o + F + 1
        BY <1>1, <4>1
      <4>4. o \in Nat /\ F \in Nat
        BY <1>1, <1>3
      <4>5. Len(s) \in 1..Len(s)
        BY <1>4, <4>3, <4>4
      <4>6. QED BY <4>2, <4>3, <4>5
    <3>2. s2[o + F + 1] = b[1]
      BY <1>2, <1>4, <1>5, <2>2, <3>1
    <3>3. QED BY <1>1, <1>3, <1>4, <3>1, <3>2 DEF Stands
  <2>3. QED BY <2>1, <2>2
<1>14. Begun(s2, frame2, held, o, l)
  BY <1>1, <1>7, <1>9, <1>10, <1>11, <1>13 DEF Begun, m, b, F
<1>15. QED BY <1>9, <1>12, <1>14 DEF s2, m

(* A colon after a key. *)
LEMMA ColonReads ==
  ASSUME NEW s \in Seq(Tokens), NEW frame \in Frames, NEW l \in 0..MaxNesting - 1, NEW held, NEW o,
         AfterKey(s, frame, held, o, l)
  PROVE  AfterColon(Append(s, ":"), frame, held, o, l)
<1> DEFINE c == ":"
           s2 == Append(s, c)
           m == Len(held)
           f == FilledBy(frame, held)
           F == Len(f.text)
           d == Comma1(m + 1)
           b == Before("object", frame.keys, m + 1)
           p == o + F
<1>1. /\ Kept(s, frame, held, o, l, m + 1) /\ Follows(s, frame, held, o, l, m + 1)
      /\ KeyCount(frame, m + 1) /\ m < MaxElements /\ frame.type = "object"
      /\ Len(s) = NextPlace(frame, held, o) - 1 /\ s[Len(s)] = frame.keys[m + 1]
  BY DEF AfterKey
<1>2. m # 0 => s[Len(s) - 1] = ","
  BY DEF AfterKey
<1>3. m \in Nat
  BY <1>1, LenProperties DEF Kept
<1>4. m + 1 \in Nat /\ m + 1 >= Len(held)
  BY <1>3
<1>5. IsFill(f, frame.type) /\ o \in Nat
  BY <1>1, <1>4, KeptTypes
<1>6. F \in Nat /\ d \in Nat /\ Gap("object", m + 1) = d + 2 /\ (m = 0 => d = 0) /\ (m # 0 => d = 1)
  <2>1. m + 1 = 1 <=> m = 0
    BY <1>3
  <2>2. QED BY <1>5, <2>1, GapTypes DEF IsFill
<1>7. Len(s) = p + d + 1 /\ p \in Nat
  <2>1. NextPlace(frame, held, o) = o + F + Gap("object", m + 1)
    BY <1>1 DEF NextPlace
  <2>2. QED BY <1>1, <1>5, <1>6, <2>1
<1>8. c \in Tokens
  BY TokenTypes DEF Marks
<1>9. s2 \in Seq(Tokens) /\ Len(s) \in Nat /\ Len(s2) = Len(s) + 1 /\ s2[Len(s) + 1] = c
      /\ \A q \in 1..Len(s) : s2[q] = s[q]
  BY <1>8, Longer
<1>10. /\ b \in Seq(Tokens) /\ Len(b) = d + 2 /\ (m # 0 => b[1] = ",")
       /\ b[d + 1] = frame.keys[m + 1] /\ b[d + 2] = c
  <2>1. frame.keys[m + 1] \in Strings
    <3>1. m + 1 \in 1..Len(frame.keys)
      BY <1>1, <1>3 DEF KeyCount
    <3>2. QED BY <3>1, FrameTypes, ElementOfSeq
  <2>2. m + 1 \in Nat \ {0} /\ HasKey("object", frame.keys, m + 1) /\ "object" \in Types /\ (m # 0 => m + 1 # 1)
    BY <1>3, <2>1 DEF HasKey, Types
  <2>3. IsBefore(b, "object", frame.keys, m + 1)
    BY <2>2, BeforeIs
  <2>4. QED BY <1>6, <2>2, <2>3 DEF IsBefore
<1> HIDE DEF c, m, f, F, d, b, p
<1>11. Kept(s2, frame, held, o, l, m + 1) /\ Follows(s2, frame, held, o, l, m + 1)
  BY <1>1, <1>4, <1>5, <1>8, KeptLonger, FollowsLonger
<1> HIDE DEF s2
<1>12. Stands(s2, p, b)
  <2>1. s2[p + (d + 1)] = b[d + 1] /\ s2[p + (d + 2)] = b[d + 2]
    <3>1. p + (d + 1) = Len(s) /\ Len(s) \in 1..Len(s) /\ p + (d + 2) = Len(s) + 1
      BY <1>6, <1>7, <1>9
    <3>2. QED BY <1>1, <1>9, <1>10, <3>1
  <2>2. m # 0 => s2[p + 1] = b[1]
    <3>1. SUFFICES ASSUME m # 0 PROVE s2[p + 1] = b[1]
      OBVIOUS
    <3>2. Len(s) - 1 = p + 1 /\ Len(s) - 1 \in 1..Len(s)
      BY <1>6, <1>7, <1>9, <3>1
    <3>3. QED BY <1>2, <1>9, <1>10, <3>1, <3>2
  <2>3. ASSUME NEW q \in 1..d + 2 PROVE s2[p + q] = b[q]
    <3>1. q = d + 1 \/ q = d + 2 \/ (m # 0 /\ q = 1)
      BY <1>6, <2>3
    <3>2. QED BY <2>1, <2>2, <3>1
  <2>4. p + (d + 2) <= Len(s2)
    BY <1>6, <1>7, <1>9
  <2>5. QED BY <1>10, <2>3, <2>4 DEF Stands
<1>13. Begun(s2, frame, held, o, l)
  BY <1>1, <1>11, <1>12 DEF Begun, m, b, F, f, p
<1>14. Len(s2) = NextPlace(frame, held, o)
  BY <1>1, <1>7, <1>9, <1>6 DEF NextPlace, F, f, m, p
<1>15. QED BY <1>1, <1>13, <1>14 DEF AfterColon, s2, c

(* The only text of up to l containers that what was read from o on is.    *)
IsTaken(e, s, o, l) ==
  /\ e \in TextsUpTo[l] /\ Stands(s, o, e.text) /\ Len(s) = o + Len(e.text)
  /\ \A y \in TextsUpTo[l] : Agrees(y, s, o) => y = e

(* An element was read whole. *)
IsAfter(s, frame, frame2, held, e, o, l) ==
  /\ frame2 \in Frames /\ Append(held, e) # <<>>
  /\ AfterElement(s, frame2, Append(held, e), o, l)
  /\ \A b \in Nat : Used(frame2, Append(held, e), b) = Used(frame, held, b) + e.needs

(* An element was read whole: it is the one that every text that agrees    *)
(* has there.                                                              *)
LEMMA ElementReads ==
  ASSUME NEW s \in Seq(Tokens), NEW frame \in Frames, NEW l \in 0..MaxNesting - 1, NEW held, NEW o,
         Begun(s, frame, held, o, l), NEW e, IsTaken(e, s, NextPlace(frame, held, o), l),
         NEW frame2, frame2 = [type |-> frame.type, keys |-> frame.keys,
                               items |-> Append(frame.items, e.value), cap |-> frame.cap]
  PROVE  IsAfter(s, frame, frame2, held, e, o, l)
<1>0. /\ e \in TextsUpTo[l] /\ Stands(s, NextPlace(frame, held, o), e.text)
      /\ Len(s) = NextPlace(frame, held, o) + Len(e.text)
      /\ \A y \in TextsUpTo[l] : Agrees(y, s, NextPlace(frame, held, o)) => y = e
  BY DEF IsTaken
<1> USE <1>0
<1> DEFINE m == Len(held)
           k == m + 1
           type == frame.type
           keys == frame.keys
           held2 == Append(held, e)
           f == FilledBy(frame, held)
           f2 == FilledBy(frame2, held2)
           b == Before(type, keys, k)
           F == Len(f.text)
           g == Gap(type, k)
           p == NextPlace(frame, held, o)
<1>1. /\ Kept(s, frame, held, o, l, m + 1) /\ m < MaxElements /\ KeyCount(frame, m + 1)
      /\ Stands(s, o + F, b) /\ Follows(s, frame, held, o, l, m + 1)
  BY DEF Begun
<1>2. held \in Seq(TextsUpTo[l]) /\ m \in Nat /\ k \in Nat /\ k \in Nat \ {0} /\ k >= Len(held) /\ k # 0 /\ k <= MaxElements
  <2>1. held \in Seq(TextsUpTo[l]) /\ m \in Nat
    BY <1>1, LenProperties DEF Kept
  <2>2. QED BY <1>1, <2>1, JsonAssumption
<1>3. /\ Fits(type, keys, held, m) /\ IsFill(f, type) /\ o \in Nat /\ Stands(s, o, f.text)
      /\ type \in Types /\ keys \in Seq(Strings)
  BY <1>1, <1>2, KeptTypes, FrameTypes
<1>4. F \in Nat \ {0} /\ f.needs \in Nat /\ f.text \in Seq(Tokens)
  BY <1>3 DEF IsFill
<1>5. IsText(e)
  BY TextsText, NestingTypes
<1>6. e.text \in Seq(Tokens) /\ Len(e.text) \in Nat /\ e.needs \in Nat
  BY <1>5, LenProperties DEF IsText
<1>7. /\ held2 \in Seq(TextsUpTo[l]) /\ Len(held2) = k /\ held2[k] = e
      /\ \A i \in 1..m : held2[i] = held[i]
  BY <1>2, AppendProperties
<1>8. held2 # <<>>
  BY <1>2, <1>7
<1>9. HasKey(type, keys, k)
  <2>1. SUFFICES ASSUME type = "object" PROVE keys[k] \in Strings
    BY DEF HasKey
  <2>2. k \in 1..Len(keys)
    BY <1>1, <1>2, <2>1 DEF KeyCount
  <2>3. QED BY <1>3, <2>2, ElementOfSeq
<1>10. p = o + F + g /\ g \in Nat
  BY GapTypes DEF NextPlace
<1>11. frame2.type = type /\ frame2.keys = keys /\ frame2.cap = frame.cap /\ frame2.items = Append(frame.items, e.value)
  OBVIOUS
<1>12. Stands(s, p, e.text) /\ Len(s) = p + Len(e.text) /\ \A y \in TextsUpTo[l] : Agrees(y, s, p) => y = e
  OBVIOUS
<1>13. frame.items \in Seq(Nodes) /\ Len(frame.items) = m /\ \A i \in 1..m : frame.items[i] = held[i].value
  BY <1>1, FrameTypes DEF Kept
<1> HIDE DEF m, k, type, keys, held2, f, f2, b, F, g, p
<1>14. Fits(type, keys, held2, k)
  <2>1. ASSUME NEW i \in 1..k PROVE IsText(held2[i]) /\ HasKey(type, keys, i)
    <3>1. CASE i = k
      BY <1>5, <1>7, <1>9, <3>1
    <3>2. CASE i # k
      <4>1. i \in 1..m
        BY <1>2, <3>2 DEF k
      <4>2. QED BY <1>3, <1>7, <4>1 DEF Fits
    <3>3. QED BY <3>1, <3>2
  <2>2. QED BY <2>1 DEF Fits
<1>15. IsWith(f2, f, type, b, e, k)
  <2>1. PICK h : Fills(h, type, keys, held2, k) /\ Filled(type, keys, held2) = h[k]
    BY <1>2, <1>7, FilledIs
  <2>2. f = h[m]
    <3>1. Len(held) \in Nat /\ Len(held2) \in Nat /\ Len(held) <= Len(held2) /\ Len(held2) = k /\ Len(held) = m
      BY <1>2, <1>7 DEF m, k
    <3>2. Same(type, keys, keys, Len(held))
      BY DEF Same
    <3>3. Filled(type, keys, held) = h[Len(held)]
      BY <1>3, <1>7, <1>14, <2>1, <3>1, <3>2, FilledSame
    <3>4. QED BY <3>1, <3>3 DEF f, FilledBy, type, keys
  <2>3. k \in 1..k /\ k - 1 = m
    BY <1>2 DEF k, m
  <2>4. h[k] = With(h[m], type, keys, held2, k)
    BY <2>1, <2>3 DEF Fills
  <2>5. f2 = h[k]
    BY <1>11, <2>1 DEF f2, FilledBy
  <2>6. f2 = With(f, type, keys, held2, k)
    BY <2>2, <2>4, <2>5
  <2>7. IsText(held2[k])
    BY <1>5, <1>7
  <2>8. IsWith(f2, f, type, Before(type, keys, k), held2[k], k)
    BY <1>2, <1>3, <1>9, <2>6, <2>7, WithFill
  <2>9. QED BY <1>7, <2>8 DEF b
<1>16. /\ b \in Seq(Tokens) /\ Len(b) = g /\ f2.text = (f.text \o b) \o e.text
       /\ Len(f2.text) = F + g + Len(e.text) /\ f2.needs = f.needs + e.needs
  BY <1>15 DEF IsWith, F, g
<1>17. Stands(s, o, f2.text)
  <2>1. Len(s) \in Nat
    BY LenProperties
  <2>2. Stands(s, o, f.text) /\ Stands(s, o + Len(f.text), b)
    BY <1>1, <1>3 DEF F, b, k
  <2>3. Stands(s, o, f.text \o b)
    BY <1>3, <1>4, <1>16, <2>1, <2>2, StandsSplit
  <2>4. f.text \o b \in Seq(Tokens) /\ Len(f.text \o b) = F + g
    <3>1. f.text \in Seq(Tokens) /\ b \in Seq(Tokens) /\ Len(b) = g
      BY <1>4, <1>16
    <3> DEFINE u == f.text
    <3> HIDE DEF u
    <3>2. u \in Seq(Tokens)
      BY <3>1 DEF u
    <3>3. u \o b \in Seq(Tokens) /\ Len(u \o b) = Len(u) + Len(b)
      BY <3>1, <3>2, ConcatProperties
    <3>4. QED BY <3>1, <3>3 DEF u, F
  <2>5. o + Len(f.text \o b) = p
    BY <1>3, <1>4, <1>10, <2>4
  <2>6. Stands(s, o, (f.text \o b) \o e.text)
    BY <1>3, <1>6, <1>12, <2>1, <2>3, <2>4, <2>5, StandsSplit
  <2>7. QED BY <1>16, <2>6
<1>18. Len(s) = o + Len(f2.text)
  BY <1>3, <1>4, <1>6, <1>10, <1>12, <1>16
<1>19. /\ frame2.items \in Seq(Nodes) /\ Len(frame2.items) = k
       /\ \A i \in 1..k : frame2.items[i] = held2[i].value
  <2>1. e.value \in Nodes
    <3>1. l \in 0..MaxNesting
      BY NestingTypes
    <3>2. e.value \in {t.value : t \in TextsUpTo[l]}
      OBVIOUS
    <3>3. QED BY <3>1, <3>2 DEF Nodes
  <2>2. /\ frame2.items \in Seq(Nodes) /\ Len(frame2.items) = m + 1 /\ frame2.items[m + 1] = e.value
        /\ \A i \in 1..m : frame2.items[i] = frame.items[i]
    BY <1>11, <1>13, <2>1, AppendProperties
  <2>3. ASSUME NEW i \in 1..k PROVE frame2.items[i] = held2[i].value
    <3>1. CASE i = k
      BY <1>7, <2>2, <3>1 DEF k
    <3>2. CASE i # k
      <4>1. i \in 1..m
        BY <1>2, <3>2 DEF k
      <4>2. QED BY <1>7, <1>13, <2>2, <4>1
    <3>3. QED BY <3>1, <3>2
  <2>4. QED BY <2>2, <2>3 DEF k
<1>20. frame2 \in Frames
  BY <1>3, <1>19, FrameTypes DEF Frames, type, keys
<1>21. Kept(s, frame2, held2, o, l, k)
  <2>1. 2 * frame2.cap - FirstCap = BlocksOf(k)
    BY <1>1, <1>11 DEF Kept, k
  <2>2. QED BY <1>2, <1>3, <1>7, <1>17, <1>19, <2>1 DEF Kept, f2
<1>22. Follows(s, frame2, held2, o, l, k)
  <2>1. SUFFICES ASSUME NEW x \in TextsUpTo[l + 1], Agrees(x, s, o)
                 PROVE  \E keysX, parts : /\ Continues(frame2, held2, keysX, parts, l, k)
                                          /\ x = ContainerText(frame2.type, keysX, parts)
    BY DEF Follows
  <2>2. PICK keysX, parts : Continues(frame, held, keysX, parts, l, k) /\ x = ContainerText(type, keysX, parts)
    BY <1>1, <2>1 DEF Follows, k, type
  <2>3. Goes(x, f, type, keysX, parts, m, l)
    BY <1>1, <1>2, <2>2, Following DEF f, m, type, k
  <2>4. Len(parts) > m /\ k = m + 1
    <3>1. Len(parts) >= k /\ Len(parts) \in Nat
      BY <2>2, <2>3 DEF Continues, Goes
    <3>2. QED BY <1>2, <3>1 DEF k
  <2>5. IsBeyond(x, f, type, keysX, parts[m + 1], m) /\ parts[m + 1] \in TextsUpTo[l]
    <3>1. parts[m + 1] \in TextsUpTo[l]
      BY <2>3, <2>4 DEF Goes
    <3>2. QED BY <1>2, <1>3, <2>3, <2>4, <3>1, Beyond
  <2> DEFINE y == parts[k]
  <2>6. /\ Len(x.text) \in Nat /\ Len(y.text) \in Nat /\ Stands(x.text, F + g, y.text) /\ y \in TextsUpTo[l]
    BY <2>4, <2>5 DEF IsBeyond, F, g
  <2> HIDE DEF y
  <2>7. Agrees(y, s, o + (F + g))
    <3>1. F + g \in Nat /\ Len(s) \in Nat
      BY <1>4, <1>10, LenProperties
    <3>2. QED BY <1>3, <2>1, <2>6, <3>1, AgreesInside
  <2>8. y = e
    <3>1. o + (F + g) = p
      BY <1>3, <1>4, <1>10
    <3>2. QED BY <1>12, <2>6, <2>7, <3>1
  <2>9. \A i \in 1..k : parts[i] = held2[i]
    <3> TAKE i \in 1..k
    <3>1. CASE i = k
      BY <1>7, <2>8, <3>1 DEF y
    <3>2. CASE i # k
      <4>1. i \in 1..Len(held) /\ i \in 1..m
        BY <1>2, <3>2 DEF k, m
      <4>2. QED BY <1>7, <2>2, <4>1 DEF Continues
    <3>3. QED BY <3>1, <3>2
  <2>10. Continues(frame2, held2, keysX, parts, l, k)
    BY <1>7, <1>11, <2>2, <2>9 DEF Continues, type, keys
  <2>11. QED BY <1>11, <2>2, <2>10
<1>23. KeyCount(frame2, k)
  BY <1>1, <1>11 DEF KeyCount, k, type, keys
<1>24. AfterElement(s, frame2, held2, o, l)
  BY <1>7, <1>18, <1>21, <1>22, <1>23 DEF AfterElement, f2
<1>25. ASSUME NEW n \in Nat PROVE Used(frame2, held2, n) = Used(frame, held, n) + e.needs
  <2>1. /\ Used(frame2, held2, n) = n + (2 * frame.cap - FirstCap) + f2.needs
        /\ Used(frame, held, n) = n + (2 * frame.cap - FirstCap) + f.needs
    BY <1>11 DEF Used, f, f2
  <2> DEFINE c == 2 * frame.cap - FirstCap
  <2>2. c \in Int
    BY FrameTypes, JsonAssumption
  <2> HIDE DEF c
  <2>3. n + c + (f.needs + e.needs) = (n + c + f.needs) + e.needs
    BY <1>4, <1>6, <2>2
  <2>4. QED BY <1>16, <2>1, <2>3 DEF c
<1>26. QED BY <1>8, <1>20, <1>24, <1>25 DEF held2, IsAfter

-----------------------------------------------------------------------------
(***************************************************************************)
(* What comes next in a text that begins with the tokens read.             *)
(***************************************************************************)
IsUsed(frame, held, b, paid) ==
  /\ Used(frame, held, b) = b + BlocksOf(paid) + FilledBy(frame, held).needs
  /\ Used(frame, held, b) \in Nat /\ BlocksOf(paid) \in Nat /\ FilledBy(frame, held).needs \in Nat

(* What is spent is what the container and its elements need. *)
LEMMA UsedIs ==
  ASSUME NEW frame \in Frames, NEW l \in 0..MaxNesting - 1, NEW s, NEW held, NEW o,
         NEW paid \in Nat, paid >= Len(held), Kept(s, frame, held, o, l, paid),
         NEW n \in Nat, n >= Len(held), KeyCount(frame, n), NEW b \in Nat
  PROVE  IsUsed(frame, held, b, paid)
<1>1. IsFill(FilledBy(frame, held), frame.type)
  BY KeptTypes
<1>2. FilledBy(frame, held).needs \in Nat
  BY <1>1 DEF IsFill
<1>3. BlocksOf(paid) \in Nat /\ 2 * frame.cap - FirstCap = BlocksOf(paid)
  BY BlocksNumber DEF Kept
<1>4. Used(frame, held, b) = b + BlocksOf(paid) + FilledBy(frame, held).needs
  BY <1>3 DEF Used
<1> DEFINE c == BlocksOf(paid)
           d == FilledBy(frame, held).needs
<1>5. c \in Nat /\ d \in Nat
  BY <1>2, <1>3
<1> HIDE DEF c, d
<1>6. b + c + d \in Nat
  BY <1>5
<1>7. QED BY <1>2, <1>3, <1>4, <1>6 DEF c, d, IsUsed

(* The place and the cost of the next element are numbers. *)
LEMMA BegunTypes ==
  ASSUME NEW s, NEW frame \in Frames, NEW l \in 0..MaxNesting - 1, NEW held, NEW o,
         Begun(s, frame, held, o, l), NEW b \in Nat
  PROVE  /\ o \in Nat /\ NextPlace(frame, held, o) \in Nat /\ Used(frame, held, b) \in Nat
<1> DEFINE m == Len(held)
           f == FilledBy(frame, held)
<1>1. Kept(s, frame, held, o, l, m + 1) /\ KeyCount(frame, m + 1)
  BY DEF Begun
<1>2. m \in Nat
  BY <1>1, LenProperties DEF Kept
<1>3. m + 1 \in Nat /\ m + 1 >= Len(held)
  BY <1>2
<1>4. IsFill(f, frame.type) /\ o \in Nat
  BY <1>1, <1>3, KeptTypes
<1>5. Used(frame, held, b) \in Nat
  BY <1>1, <1>3, UsedIs DEF IsUsed
<1>6. NextPlace(frame, held, o) \in Nat
  <2>1. Len(f.text) \in Nat /\ Gap(frame.type, m + 1) \in Nat
    BY <1>4, GapTypes DEF IsFill
  <2> HIDE DEF f, m
  <2>2. QED BY <1>4, <2>1 DEF NextPlace, f, m
<1>7. QED BY <1>4, <1>5, <1>6

IsInside(x, y, p, frame, held, o, b) ==
  /\ Stands(x.text, p, y.text) /\ NextPlace(frame, held, o) = o + p
  /\ Used(frame, held, b) + y.needs <= b + x.needs

(* A text that agrees has an element where it has begun, and needs room    *)
(* for it besides what is spent.                                           *)
LEMMA BegunInside ==
  ASSUME NEW s, NEW frame \in Frames, NEW l \in 0..MaxNesting - 1, NEW held, NEW o,
         Begun(s, frame, held, o, l), NEW x \in TextsUpTo[l + 1], Agrees(x, s, o), NEW b \in Nat
  PROVE  \E y \in TextsUpTo[l], p \in Nat : IsInside(x, y, p, frame, held, o, b)
<1> DEFINE m == Len(held)
           f == FilledBy(frame, held)
           F == Len(f.text)
           g == Gap(frame.type, m + 1)
<1>1. Kept(s, frame, held, o, l, m + 1) /\ KeyCount(frame, m + 1) /\ Follows(s, frame, held, o, l, m + 1)
  BY DEF Begun
<1>2. m \in Nat
  BY <1>1, LenProperties DEF Kept
<1>3. m + 1 \in Nat /\ m + 1 >= Len(held)
  BY <1>2
<1>4. IsFill(f, frame.type) /\ o \in Nat /\ frame.type \in Types
  BY <1>1, <1>3, KeptTypes, FrameTypes
<1>5. /\ Used(frame, held, b) = b + BlocksOf(m + 1) + f.needs
      /\ BlocksOf(m + 1) \in Nat /\ f.needs \in Nat
  BY <1>1, <1>3, UsedIs DEF IsUsed
<1>6. F \in Nat /\ g \in Nat /\ NextPlace(frame, held, o) = o + F + g
  BY <1>4, GapTypes DEF IsFill, NextPlace
<1>7. PICK keys, parts : Continues(frame, held, keys, parts, l, m + 1) /\ x = ContainerText(frame.type, keys, parts)
  BY <1>1 DEF Follows
<1> HIDE DEF m, f, F, g
<1>8. Goes(x, f, frame.type, keys, parts, m, l)
  BY <1>1, <1>3, <1>7, Following DEF f, m
<1>9. Len(parts) > m
  <2>1. Len(parts) >= m + 1 /\ Len(parts) \in Nat
    BY <1>7, <1>8 DEF Continues, Goes
  <2>2. QED BY <1>2, <2>1
<1> DEFINE y == parts[m + 1]
<1>10. IsBeyond(x, f, frame.type, keys, y, m) /\ y \in TextsUpTo[l]
  <2>1. y \in TextsUpTo[l]
    BY <1>8, <1>9 DEF Goes
  <2>2. QED BY <1>2, <1>4, <1>8, <1>9, <2>1, Beyond
<1> HIDE DEF y
<1>11. Stands(x.text, F + g, y.text) /\ x.needs >= BlocksOf(m + 1) + f.needs + y.needs
  BY <1>10 DEF IsBeyond, F, g
<1>12. y.needs \in Nat /\ x.needs \in Nat
  <2>1. IsText(y) /\ IsText(x)
    BY <1>10, TextsText, NestingTypes
  <2>2. QED BY <2>1 DEF IsText
<1>13. Used(frame, held, b) + y.needs <= b + x.needs
  BY <1>5, <1>11, <1>12
<1>14. F + g \in Nat /\ NextPlace(frame, held, o) = o + (F + g)
  BY <1>4, <1>6
<1>15. QED BY <1>10, <1>11, <1>13, <1>14 DEF IsInside

PriceOf(w, frame, m) ==
  IF w = (IF frame.type = "object" THEN "key" ELSE "value") THEN Grows(frame.cap, m) ELSE 0
ExpectedIn(w, type) ==
  (IF w = "value" \/ (w = "first" /\ type # "object") THEN Strings \union Scalars \union {"[", "{"} ELSE {})
  \union (IF w = "key" \/ (w = "first" /\ type = "object") THEN Strings ELSE {})
  \union (IF w \in {"first", "more"} THEN {Ender(type)} ELSE {})
  \union (IF w = "colon" THEN {":"} ELSE {}) \union (IF w = "more" THEN {","} ELSE {})

(* The token c is the next of a text that needs r: it is expected, there   *)
(* is room for what is paid before it, and a container may begin.          *)
IsNext(w, frame, held, c, l, b, r) ==
  /\ c \in ExpectedIn(w, frame.type) /\ Used(frame, held, b) + PriceOf(w, frame, Len(held)) <= b + r
  /\ c \in {"[", "{"} => l # 0 /\ Used(frame, held, b) + PriceOf(w, frame, Len(held)) + FirstCap <= b + r

(* The first token of an element is one that parse_value takes. *)
LEMMA FirstTokenExpected ==
  ASSUME NEW l \in 0..MaxNesting, NEW y \in TextsUpTo[l]
  PROVE  /\ y.text[1] \in Strings \union Scalars \union {"[", "{"}
         /\ y.text[1] \in {"[", "{"} => l # 0 /\ y.needs >= FirstCap
<1>1. CASE y \in LeafTexts /\ y.text[1] \in Strings \union Scalars
  <2>1. y.text[1] \notin Marks
    BY <1>1, MarkTypes
  <2>2. y.text[1] \notin {"[", "{"}
    BY <2>1 DEF Marks
  <2>3. QED BY <1>1, <2>2
<1>2. CASE l # 0 /\ \E type \in Types : y.text[1] = Opener(type) /\ y.needs >= FirstCap
  BY <1>2, MarkTypes
<1>3. QED BY <1>1, <1>2, FirstToken

(* Where the last token read is q tokens after o, the next of x is this.   *)
EndsAfter(s, o, q, x) == Len(s) = o + q /\ q \in Nat /\ q + 1 <= Len(x.text)

(* In a container after m of its elements there is another, or the end.    *)
LEMMA NextAfterElement ==
  ASSUME NEW s \in Seq(Tokens), NEW frame \in Frames, NEW l \in 0..MaxNesting - 1, NEW held, NEW o,
         AfterElement(s, frame, held, o, l), NEW w, w = IF held = <<>> THEN "first" ELSE "more",
         NEW x \in TextsUpTo[l + 1], Agrees(x, s, o), NEW b \in Nat
  PROVE  \E q : EndsAfter(s, o, q, x) /\ IsNext(w, frame, held, x.text[q + 1], l, b, x.needs)
<1> DEFINE m == Len(held)
           f == FilledBy(frame, held)
           F == Len(f.text)
           type == frame.type
           U == Used(frame, held, b)
           c == x.text[F + 1]
<1>1. /\ Kept(s, frame, held, o, l, m) /\ KeyCount(frame, m) /\ Len(s) = o + F
      /\ Follows(s, frame, held, o, l, m)
  BY DEF AfterElement
<1>2. held \in Seq(TextsUpTo[l]) /\ m \in Nat /\ m >= Len(held) /\ (m = 0 <=> held = <<>>)
  <2>1. held \in Seq(TextsUpTo[l]) /\ m \in Nat
    BY <1>1, LenProperties DEF Kept
  <2>2. QED BY <2>1, EmptySeq
<1>3. IsFill(f, type) /\ o \in Nat /\ type \in Types
  BY <1>1, <1>2, KeptTypes, FrameTypes
<1>4. F \in Nat
  BY <1>3 DEF IsFill
<1>5. U = b + BlocksOf(m) + f.needs /\ BlocksOf(m) \in Nat /\ f.needs \in Nat /\ U \in Nat
  <2>1. m \in Nat /\ m >= Len(held)
    BY <1>2
  <2>2. IsUsed(frame, held, b, m)
    BY <1>1, <2>1, UsedIs
  <2>3. QED BY <2>2 DEF IsUsed
<1>6. PICK keys, parts : Continues(frame, held, keys, parts, l, m) /\ x = ContainerText(type, keys, parts)
  BY <1>1 DEF Follows
<1>7. w \in {"first", "more"} /\ PriceOf(w, frame, m) = 0 /\ (w = "first" <=> m = 0) /\ (w = "more" <=> m # 0)
  BY <1>2 DEF PriceOf
<1>8. IsText(x) /\ x.needs \in Nat
  BY TextsText, NestingTypes DEF IsText
<1> HIDE DEF m, f, F, type, U, c
<1>9. Goes(x, f, type, keys, parts, m, l)
  BY <1>1, <1>2, <1>6, Following DEF f, m, type
<1>10. Len(parts) \in Nat /\ Len(parts) >= m
  BY <1>6, <1>9 DEF Continues, Goes
<1>11. Ender(type) \in ExpectedIn(w, type) /\ (w = "more" => "," \in ExpectedIn(w, type))
  BY <1>7 DEF ExpectedIn
<1>12. Ender(type) \notin {"[", "{"} /\ "," \notin {"[", "{"}
  BY <1>3, MarkTypes DEF Types
<1>13. CASE Len(parts) = m
  <2>1. IsContainer(x, f, type, m)
    BY <1>9, <1>13 DEF Goes
  <2>2. F + 1 <= Len(x.text) /\ c = Ender(type) /\ x.needs = BlocksOf(m) + f.needs
    BY <1>4, <2>1 DEF IsContainer, F, c
  <2>3. U + PriceOf(w, frame, m) <= b + x.needs
    BY <1>5, <1>7, <2>2
  <2>4. IsNext(w, frame, held, c, l, b, x.needs)
    BY <1>11, <1>12, <2>2, <2>3 DEF IsNext, U, m, type
  <2>5. QED BY <1>1, <1>4, <2>2, <2>4 DEF EndsAfter, c
<1>14. CASE Len(parts) > m
  <2> DEFINE y == parts[m + 1]
             g == Gap(type, m + 1)
  <2>1. IsBeyond(x, f, type, keys, y, m)
    BY <1>2, <1>3, <1>9, <1>14, Beyond
  <2>2. y \in TextsUpTo[l] /\ HasKey(type, keys, m + 1)
    BY <1>9, <1>14 DEF Goes
  <2> HIDE DEF y
  <2>3. /\ Len(x.text) \in Nat /\ Len(y.text) \in Nat \ {0} /\ F + g + Len(y.text) <= Len(x.text)
        /\ x.text[F + g + 1] = y.text[1] /\ (m # 0 => c = ",")
        /\ (type = "object" => x.text[F + Comma1(m + 1) + 1] = keys[m + 1])
        /\ x.needs >= BlocksOf(m + 1) + f.needs + y.needs
    BY <2>1 DEF IsBeyond, F, c
  <2>4. g \in Nat /\ g = Comma1(m + 1) + KeyLen(type) /\ (type # "object" => KeyLen(type) = 0)
    BY GapTypes
  <2> HIDE DEF g
  <2>5. F + 1 <= Len(x.text)
    <3> DEFINE e == Len(y.text)
               z == Len(x.text)
    <3>1. e \in Nat \ {0} /\ z \in Nat /\ F + g + e <= z
      BY <2>3
    <3> HIDE DEF e, z
    <3>2. F + 1 <= z
      BY <1>4, <2>4, <3>1
    <3>3. QED BY <3>2 DEF z
  <2>6. BlocksOf(m) <= BlocksOf(m + 1) /\ BlocksOf(m + 1) \in Nat /\ y.needs \in Nat
    <3>1. IsText(y)
      BY <2>2, TextsText, NestingTypes
    <3>2. QED BY <1>2, <3>1, BlocksNumber DEF IsText
  <2>7. U + PriceOf(w, frame, m) + y.needs <= b + x.needs
    <3> DEFINE p == BlocksOf(m)
               q == BlocksOf(m + 1)
               r == f.needs
               u == y.needs
               z == x.needs
    <3>1. /\ p \in Nat /\ q \in Nat /\ r \in Nat /\ u \in Nat /\ z \in Nat /\ p <= q
          /\ U = b + p + r /\ z >= q + r + u
      BY <1>5, <1>8, <2>3, <2>6
    <3> HIDE DEF p, q, r, u, z
    <3>2. U + u <= b + z
      BY <3>1
    <3>3. QED BY <1>5, <1>7, <3>1, <3>2 DEF u, z
  <2>8. U + PriceOf(w, frame, m) <= b + x.needs
    BY <1>5, <1>7, <1>8, <2>6, <2>7
  <2>9. CASE m # 0
    <3>1. c = "," /\ w = "more"
      BY <1>7, <2>3, <2>9
    <3>2. IsNext(w, frame, held, c, l, b, x.needs)
      BY <1>11, <1>12, <2>8, <3>1 DEF IsNext, U, m, type
    <3>3. QED BY <1>1, <1>4, <2>5, <3>2 DEF EndsAfter, c
  <2>10. CASE m = 0 /\ type = "object"
    <3>1. Comma1(m + 1) = 0
      BY <2>10 DEF Comma1
    <3>2. c = keys[m + 1] /\ keys[m + 1] \in Strings
      <4>1. F + Comma1(m + 1) + 1 = F + 1
        BY <1>4, <3>1
      <4>2. QED BY <2>2, <2>3, <2>10, <4>1 DEF HasKey, c
    <3>3. c \in ExpectedIn(w, type)
      BY <1>7, <2>10, <3>2 DEF ExpectedIn
    <3>4. c \notin {"[", "{"}
      <4>1. c \notin Marks
        BY <3>2, TokenTypes
      <4>2. QED BY <4>1 DEF Marks
    <3>5. IsNext(w, frame, held, c, l, b, x.needs)
      BY <2>8, <3>3, <3>4 DEF IsNext, U, m, type
    <3>6. QED BY <1>1, <1>4, <2>5, <3>5 DEF EndsAfter, c
  <2>11. CASE m = 0 /\ type # "object"
    <3>1. g = 0
      <4>1. Comma1(m + 1) = 0
        BY <2>11 DEF Comma1
      <4>2. QED BY <2>4, <2>11, <4>1
    <3>2. c = y.text[1]
      <4>1. F + g + 1 = F + 1
        BY <1>4, <3>1
      <4>2. QED BY <2>3, <4>1 DEF c
    <3>3. /\ y.text[1] \in Strings \union Scalars \union {"[", "{"}
          /\ y.text[1] \in {"[", "{"} => l # 0 /\ y.needs >= FirstCap
      BY <2>2, FirstTokenExpected, NestingTypes
    <3>4. c \in ExpectedIn(w, type)
      BY <1>7, <2>11, <3>2, <3>3 DEF ExpectedIn
    <3>5. y.needs >= FirstCap => U + PriceOf(w, frame, m) + FirstCap <= b + x.needs
      BY <1>5, <1>7, <1>8, <2>6, <2>7, JsonAssumption
    <3>6. IsNext(w, frame, held, c, l, b, x.needs)
      BY <2>8, <3>2, <3>3, <3>4, <3>5 DEF IsNext, U, m, type
    <3>7. QED BY <1>1, <1>4, <2>5, <3>6 DEF EndsAfter, c
  <2>12. QED BY <2>9, <2>10, <2>11
<1>15. QED BY <1>2, <1>10, <1>13, <1>14

(* The next element of a text that goes on with one. *)
IsPart(x, frame, held, keys, y, o, l) ==
  /\ y \in TextsUpTo[l] /\ HasKey(frame.type, keys, Len(held) + 1)
  /\ IsBeyond(x, FilledBy(frame, held), frame.type, keys, y, Len(held))
  /\ o \in Nat /\ frame.type \in Types /\ Len(held) \in Nat
  /\ Len(FilledBy(frame, held).text) \in Nat /\ FilledBy(frame, held).needs \in Nat
  /\ x.needs \in Nat /\ y.needs \in Nat

(* A text that agrees has an element more, where one must come. *)
LEMMA NextPart ==
  ASSUME NEW s, NEW frame \in Frames, NEW l \in 0..MaxNesting - 1, NEW held, NEW o, NEW paid,
         Kept(s, frame, held, o, l, paid), NEW n \in Nat, n >= Len(held), KeyCount(frame, n),
         Follows(s, frame, held, o, l, Len(held) + 1), NEW x \in TextsUpTo[l + 1], Agrees(x, s, o)
  PROVE  \E keys, y : IsPart(x, frame, held, keys, y, o, l)
<1> DEFINE m == Len(held)
           f == FilledBy(frame, held)
<1>1. m \in Nat /\ IsFill(f, frame.type) /\ o \in Nat /\ frame.type \in Types
  BY KeptTypes, FrameTypes
<1>2. PICK keys, parts : Continues(frame, held, keys, parts, l, m + 1) /\ x = ContainerText(frame.type, keys, parts)
  BY DEF Follows
<1> HIDE DEF m, f
<1>3. Goes(x, f, frame.type, keys, parts, m, l)
  <2>1. m + 1 \in Nat
    BY <1>1
  <2>2. QED BY <1>2, <2>1, Following DEF f, m
<1>4. Len(parts) > m
  <2>1. Len(parts) >= m + 1 /\ Len(parts) \in Nat
    BY <1>2, <1>3 DEF Continues, Goes
  <2>2. QED BY <1>1, <2>1
<1>5. IsBeyond(x, f, frame.type, keys, parts[m + 1], m)
  BY <1>1, <1>3, <1>4, Beyond
<1>6. parts[m + 1] \in TextsUpTo[l] /\ HasKey(frame.type, keys, m + 1)
  BY <1>3, <1>4 DEF Goes
<1>7. parts[m + 1].needs \in Nat /\ x.needs \in Nat
  <2>1. IsText(parts[m + 1]) /\ IsText(x)
    BY <1>6, TextsText, NestingTypes
  <2>2. QED BY <2>1 DEF IsText
<1>8. Len(f.text) \in Nat /\ f.needs \in Nat
  BY <1>1 DEF IsFill
<1>9. IsPart(x, frame, held, keys, parts[m + 1], o, l)
  BY <1>1, <1>5, <1>6, <1>7, <1>8 DEF IsPart, f, m
<1>10. QED BY <1>9

(* Where the element comes after q tokens, or its key or colon does.       *)
IsPlaced(x, frame, keys, y, m, o, F, g, d) ==
  /\ F \in Nat /\ g \in Nat /\ d \in Nat /\ o \in Nat /\ m \in Nat
  /\ F + g + 1 <= Len(x.text) /\ x.text[F + g + 1] = y.text[1]
  /\ (frame.type = "object" => g = d + 2 /\ x.text[F + d + 1] = keys[m + 1]
                                /\ x.text[F + d + 2] = ":" /\ keys[m + 1] \in Strings)
  /\ (frame.type # "object" => g = d)

(* The places of its comma, its key and its colon. *)
LEMMA PartPlaces ==
  ASSUME NEW x, NEW frame, NEW held, NEW keys, NEW y, NEW o, NEW l, IsPart(x, frame, held, keys, y, o, l),
         NEW F, F = Len(FilledBy(frame, held).text), NEW g, g = Gap(frame.type, Len(held) + 1),
         NEW d, d = Comma1(Len(held) + 1)
  PROVE  IsPlaced(x, frame, keys, y, Len(held), o, F, g, d)
<1> DEFINE m == Len(held)
           e == Len(y.text)
           z == Len(x.text)
<1>1. /\ z \in Nat /\ e \in Nat \ {0} /\ F + g + e <= z /\ x.text[F + g + 1] = y.text[1]
      /\ (frame.type = "object" => x.text[F + d + 1] = keys[m + 1] /\ x.text[F + d + 2] = ":")
  BY DEF IsPart, IsBeyond
<1>2. F \in Nat /\ o \in Nat /\ m \in Nat /\ frame.type \in Types
  BY DEF IsPart
<1>3. frame.type = "object" => keys[m + 1] \in Strings
  BY DEF IsPart, HasKey
<1>4. g \in Nat /\ d \in Nat /\ (frame.type = "object" => g = d + 2) /\ (frame.type # "object" => g = d)
  <2>1. g = d + KeyLen(frame.type) /\ d \in Nat
    BY GapTypes
  <2>2. KeyLen(frame.type) = IF frame.type = "object" THEN 2 ELSE 0
    BY DEF KeyLen
  <2> HIDE DEF m
  <2>3. QED BY <2>1, <2>2
<1> HIDE DEF m, e, z
<1>5. F + g + 1 <= z
  BY <1>1, <1>2, <1>4
<1>6. QED BY <1>1, <1>2, <1>3, <1>4, <1>5 DEF m, z, IsPlaced

(* What is paid before it is part of what the whole text needs. *)
LEMMA PartPaid ==
  ASSUME NEW x, NEW frame \in Frames, NEW held, NEW keys, NEW y, NEW o, NEW l \in 0..MaxNesting - 1,
         IsPart(x, frame, held, keys, y, o, l), NEW b \in Nat, NEW s,
         Kept(s, frame, held, o, l, Len(held) + 1), KeyCount(frame, Len(held) + 1)
  PROVE  Used(frame, held, b) \in Nat /\ Used(frame, held, b) + y.needs <= b + x.needs
<1> DEFINE m == Len(held)
           u == Used(frame, held, b)
           q == BlocksOf(m + 1)
           r == FilledBy(frame, held).needs
           v == y.needs
           z == x.needs
<1>1. m \in Nat /\ r \in Nat /\ v \in Nat /\ z \in Nat /\ z >= q + r + v
  BY DEF IsPart, IsBeyond
<1>2. m + 1 \in Nat /\ m + 1 >= Len(held)
  BY <1>1
<1>3. u = b + q + r /\ q \in Nat /\ u \in Nat
  <2>1. IsUsed(frame, held, b, m + 1)
    BY <1>2, UsedIs
  <2>2. QED BY <2>1 DEF IsUsed
<1> HIDE DEF m, u, q, r, v, z
<1>4. u + v <= b + z
  BY <1>1, <1>3
<1>5. QED BY <1>3, <1>4 DEF u, v, z

(* There is room for it in what the text needs. *)
LEMMA PartDue ==
  ASSUME NEW x, NEW frame \in Frames, NEW held, NEW keys, NEW y, NEW o, NEW l \in 0..MaxNesting - 1,
         IsPart(x, frame, held, keys, y, o, l), NEW b \in Nat, NEW s,
         Kept(s, frame, held, o, l, Len(held)), KeyCount(frame, Len(held))
  PROVE  /\ Used(frame, held, b) \in Nat /\ Grows(frame.cap, Len(held)) \in Nat
         /\ Used(frame, held, b) + Grows(frame.cap, Len(held)) + y.needs <= b + x.needs
<1> DEFINE m == Len(held)
           u == Used(frame, held, b)
           p == BlocksOf(m)
           q == BlocksOf(m + 1)
           r == FilledBy(frame, held).needs
           v == y.needs
           z == x.needs
           g == Grows(frame.cap, m)
           c == frame.cap
<1>1. m \in Nat /\ r \in Nat /\ v \in Nat /\ z \in Nat /\ z >= q + r + v
  BY DEF IsPart, IsBeyond
<1>2. m >= Len(held)
  BY <1>1
<1>3. u = b + p + r /\ p \in Nat /\ u \in Nat
  <2>1. IsUsed(frame, held, b, m)
    BY <1>1, <1>2, UsedIs
  <2>2. QED BY <2>1 DEF IsUsed
<1>4. c \in Nat /\ 2 * c - FirstCap = p
  BY FrameTypes DEF Kept
<1>5. 2 * CapAfter(c, m) - FirstCap = q
  BY <1>1, <1>4, Paid DEF CapAfter
<1>6. 2 * CapAfter(c, m) = 2 * c + g /\ g \in Nat
  BY <1>1, <1>4, GrowsBy
<1>7. FirstCap \in Nat
  BY JsonAssumption
<1> HIDE DEF m, u, p, q, r, v, z, g, c
<1>8. q = p + g
  BY <1>3, <1>4, <1>5, <1>6, <1>7
<1>9. u + g + v <= b + z
  BY <1>1, <1>3, <1>6, <1>8
<1>10. QED BY <1>3, <1>6, <1>9 DEF u, v, z, g, c, m

(* Strings, the colon and the comma begin no container. *)
LEMMA TokenKinds ==
  ASSUME NEW c
  PROVE  /\ c \in Strings => c \notin {"[", "{"}
         /\ ":" \notin {"[", "{"} /\ "," \notin {"[", "{"}
BY TokenTypes DEF Marks
(* After a comma comes a key, or in an array an element. *)
LEMMA NextAfterComma ==
  ASSUME NEW s \in Seq(Tokens), NEW frame \in Frames, NEW l \in 0..MaxNesting - 1, NEW held, NEW o,
         AfterComma(s, frame, held, o, l), NEW w, w = IF frame.type = "object" THEN "key" ELSE "value",
         NEW x \in TextsUpTo[l + 1], Agrees(x, s, o), NEW b \in Nat
  PROVE  \E q : EndsAfter(s, o, q, x) /\ IsNext(w, frame, held, x.text[q + 1], l, b, x.needs)
<1> DEFINE m == Len(held)
           F == Len(FilledBy(frame, held).text)
           g == Gap(frame.type, m + 1)
           d == Comma1(m + 1)
           p == PriceOf(w, frame, m)
           u == Used(frame, held, b)
           c == x.text[F + d + 1]
<1>1. /\ Kept(s, frame, held, o, l, m) /\ KeyCount(frame, m) /\ 0 < m
      /\ Len(s) = o + F + 1 /\ Follows(s, frame, held, o, l, m + 1)
  BY DEF AfterComma
<1>2. m \in Nat
  BY <1>1, LenProperties DEF Kept
<1>3. m >= Len(held)
  BY <1>2
<1>4. PICK keys, y : IsPart(x, frame, held, keys, y, o, l)
  BY <1>1, <1>2, <1>3, NextPart
<1>5. /\ F \in Nat /\ g \in Nat /\ d \in Nat /\ o \in Nat
      /\ F + g + 1 <= Len(x.text) /\ x.text[F + g + 1] = y.text[1]
      /\ (frame.type = "object" => g = d + 2 /\ c = keys[m + 1] /\ keys[m + 1] \in Strings)
      /\ (frame.type # "object" => g = d)
  <2>1. IsPlaced(x, frame, keys, y, m, o, F, g, d)
    BY <1>4, PartPlaces
  <2>2. QED BY <2>1 DEF IsPlaced
<1>6. y \in TextsUpTo[l] /\ Len(x.text) \in Nat /\ x.needs \in Nat /\ y.needs \in Nat
  BY <1>4 DEF IsPart, IsBeyond
<1>7. d = 1
  <2>1. m + 1 # 1
    BY <1>1, <1>2
  <2>2. QED BY <2>1 DEF Comma1
<1>8. p = Grows(frame.cap, m)
  BY DEF PriceOf
<1>9. u \in Nat /\ p \in Nat /\ u + p + y.needs <= b + x.needs
  BY <1>1, <1>4, <1>8, PartDue
<1> HIDE DEF m, F, g, d, p, u, c
<1>10. u + p <= b + x.needs /\ (y.needs >= FirstCap => u + p + FirstCap <= b + x.needs)
  BY <1>6, <1>9, JsonAssumption
<1>11. EndsAfter(s, o, F + d, x) /\ F + d + 1 <= Len(x.text)
  <2>1. Len(s) = o + (F + d) /\ F + d \in Nat /\ F + d + 1 <= Len(x.text)
    BY <1>1, <1>5, <1>6, <1>7
  <2>2. QED BY <2>1 DEF EndsAfter
<1>12. CASE frame.type = "object"
  <2>1. w = "key" /\ c \in Strings
    BY <1>5, <1>12
  <2>2. c \in ExpectedIn(w, frame.type)
    BY <2>1 DEF ExpectedIn
  <2>3. c \notin {"[", "{"}
    BY <2>1, TokenKinds
  <2>4. IsNext(w, frame, held, c, l, b, x.needs)
    BY <1>10, <2>2, <2>3 DEF IsNext, p, u, m
  <2>5. QED BY <1>11, <2>4 DEF c
<1>13. CASE frame.type # "object"
  <2>1. w = "value" /\ c = y.text[1]
    BY <1>5, <1>13 DEF c
  <2>2. /\ y.text[1] \in Strings \union Scalars \union {"[", "{"}
        /\ y.text[1] \in {"[", "{"} => l # 0 /\ y.needs >= FirstCap
    BY <1>6, FirstTokenExpected, NestingTypes
  <2>3. c \in ExpectedIn(w, frame.type)
    BY <2>1, <2>2 DEF ExpectedIn
  <2>4. IsNext(w, frame, held, c, l, b, x.needs)
    BY <1>10, <2>1, <2>2, <2>3 DEF IsNext, p, u, m
  <2>5. QED BY <1>11, <2>4 DEF c
<1>14. QED BY <1>12, <1>13

(* After a key comes a colon. *)
LEMMA NextAfterKey ==
  ASSUME NEW s \in Seq(Tokens), NEW frame \in Frames, NEW l \in 0..MaxNesting - 1, NEW held, NEW o,
         AfterKey(s, frame, held, o, l), NEW w, w = "colon",
         NEW x \in TextsUpTo[l + 1], Agrees(x, s, o), NEW b \in Nat
  PROVE  \E q : EndsAfter(s, o, q, x) /\ IsNext(w, frame, held, x.text[q + 1], l, b, x.needs)
<1> DEFINE m == Len(held)
           F == Len(FilledBy(frame, held).text)
           g == Gap(frame.type, m + 1)
           d == Comma1(m + 1)
           p == PriceOf(w, frame, m)
           u == Used(frame, held, b)
           c == x.text[F + d + 2]
<1>1. /\ Kept(s, frame, held, o, l, m + 1) /\ KeyCount(frame, m + 1) /\ frame.type = "object"
      /\ Len(s) = NextPlace(frame, held, o) - 1 /\ Follows(s, frame, held, o, l, m + 1)
  BY DEF AfterKey
<1>2. m \in Nat
  BY <1>1, LenProperties DEF Kept
<1>3. m + 1 >= Len(held) /\ m + 1 \in Nat
  BY <1>2
<1>4. PICK keys, y : IsPart(x, frame, held, keys, y, o, l)
  BY <1>1, <1>3, NextPart
<1>5. /\ F \in Nat /\ g \in Nat /\ d \in Nat /\ o \in Nat /\ F + g + 1 <= Len(x.text)
      /\ g = d + 2 /\ c = ":"
  <2>1. IsPlaced(x, frame, keys, y, m, o, F, g, d)
    BY <1>4, PartPlaces
  <2>2. QED BY <1>1, <2>1 DEF IsPlaced
<1>6. Len(x.text) \in Nat /\ x.needs \in Nat /\ y.needs \in Nat
  BY <1>4 DEF IsPart, IsBeyond
<1>7. NextPlace(frame, held, o) = o + F + g
  BY DEF NextPlace
<1>8. p = 0
  BY <1>1 DEF PriceOf
<1>9. u \in Nat /\ u + y.needs <= b + x.needs
  BY <1>1, <1>4, PartPaid
<1> HIDE DEF m, F, g, d, p, u, c
<1>10. u + p <= b + x.needs
  BY <1>6, <1>8, <1>9
<1>11. EndsAfter(s, o, F + d + 1, x) /\ (F + d + 1) + 1 = F + d + 2
  <2>1. Len(s) = o + (F + d + 1) /\ F + d + 1 \in Nat /\ (F + d + 1) + 1 <= Len(x.text)
    BY <1>1, <1>5, <1>6, <1>7
  <2>2. QED BY <1>5, <2>1 DEF EndsAfter
<1>12. c \in ExpectedIn(w, frame.type)
  BY <1>5 DEF ExpectedIn
<1>13. c \notin {"[", "{"}
  BY <1>5, TokenKinds
<1>14. IsNext(w, frame, held, c, l, b, x.needs)
  BY <1>10, <1>12, <1>13 DEF IsNext, p, u, m
<1>15. QED BY <1>11, <1>14 DEF c

(* After a colon comes an element. *)
LEMMA NextAfterColon ==
  ASSUME NEW s \in Seq(Tokens), NEW frame \in Frames, NEW l \in 0..MaxNesting - 1, NEW held, NEW o,
         AfterColon(s, frame, held, o, l), NEW w, w = "value",
         NEW x \in TextsUpTo[l + 1], Agrees(x, s, o), NEW b \in Nat
  PROVE  \E q : EndsAfter(s, o, q, x) /\ IsNext(w, frame, held, x.text[q + 1], l, b, x.needs)
<1> DEFINE m == Len(held)
           F == Len(FilledBy(frame, held).text)
           g == Gap(frame.type, m + 1)
           d == Comma1(m + 1)
           p == PriceOf(w, frame, m)
           u == Used(frame, held, b)
           c == x.text[F + g + 1]
<1>1. /\ Kept(s, frame, held, o, l, m + 1) /\ KeyCount(frame, m + 1) /\ frame.type = "object"
      /\ Len(s) = NextPlace(frame, held, o) /\ Follows(s, frame, held, o, l, m + 1)
  BY DEF AfterColon, Begun
<1>2. m \in Nat
  BY <1>1, LenProperties DEF Kept
<1>3. m + 1 >= Len(held) /\ m + 1 \in Nat
  BY <1>2
<1>4. PICK keys, y : IsPart(x, frame, held, keys, y, o, l)
  BY <1>1, <1>3, NextPart
<1>5. /\ F \in Nat /\ g \in Nat /\ o \in Nat /\ F + g + 1 <= Len(x.text) /\ c = y.text[1]
  <2>1. IsPlaced(x, frame, keys, y, m, o, F, g, Comma1(m + 1))
    BY <1>4, PartPlaces
  <2>2. QED BY <2>1 DEF IsPlaced
<1>6. y \in TextsUpTo[l] /\ Len(x.text) \in Nat /\ x.needs \in Nat /\ y.needs \in Nat
  BY <1>4 DEF IsPart, IsBeyond
<1>7. NextPlace(frame, held, o) = o + F + g
  BY DEF NextPlace
<1>8. p = 0
  BY <1>1 DEF PriceOf
<1>9. u \in Nat /\ u + y.needs <= b + x.needs
  BY <1>1, <1>4, PartPaid
<1> HIDE DEF m, F, g, d, p, u, c
<1>10. u + p <= b + x.needs /\ (y.needs >= FirstCap => u + p + FirstCap <= b + x.needs)
  BY <1>6, <1>8, <1>9, JsonAssumption
<1>11. EndsAfter(s, o, F + g, x)
  <2>1. Len(s) = o + (F + g) /\ F + g \in Nat /\ F + g + 1 <= Len(x.text)
    BY <1>1, <1>5, <1>6, <1>7
  <2>2. QED BY <2>1 DEF EndsAfter
<1>12. /\ y.text[1] \in Strings \union Scalars \union {"[", "{"}
       /\ y.text[1] \in {"[", "{"} => l # 0 /\ y.needs >= FirstCap
  BY <1>6, FirstTokenExpected, NestingTypes
<1>13. c \in ExpectedIn(w, frame.type)
  BY <1>5, <1>12 DEF ExpectedIn
<1>14. IsNext(w, frame, held, c, l, b, x.needs)
  BY <1>5, <1>10, <1>12, <1>13 DEF IsNext, p, u, m
<1>15. QED BY <1>11, <1>14 DEF c

(* A text of which the last container has begun goes on. *)
LEMMA TopNext ==
  ASSUME NEW s \in Seq(Tokens), NEW frame \in Frames, NEW l \in 0..MaxNesting - 1, NEW held, NEW o,
         NEW w, OnTop(w, s, frame, held, o, l),
         NEW x \in TextsUpTo[l + 1], Agrees(x, s, o), NEW b \in Nat
  PROVE  \E q : EndsAfter(s, o, q, x) /\ IsNext(w, frame, held, x.text[q + 1], l, b, x.needs)
<1>1. CASE w = "first" /\ held = <<>> /\ AfterElement(s, frame, held, o, l)
  BY <1>1, NextAfterElement
<1>2. CASE w = "more" /\ held # <<>> /\ AfterElement(s, frame, held, o, l)
  BY <1>2, NextAfterElement
<1>3. CASE w = "key" /\ frame.type = "object" /\ AfterComma(s, frame, held, o, l)
  BY <1>3, NextAfterComma
<1>4. CASE w = "value" /\ frame.type = "array" /\ AfterComma(s, frame, held, o, l)
  BY <1>4, NextAfterComma
<1>5. CASE w = "colon" /\ AfterKey(s, frame, held, o, l)
  BY <1>5, NextAfterKey
<1>6. CASE w = "value" /\ AfterColon(s, frame, held, o, l)
  BY <1>6, NextAfterColon
<1>7. QED BY <1>1, <1>2, <1>3, <1>4, <1>5, <1>6 DEF OnTop
-----------------------------------------------------------------------------
(***************************************************************************)
(* The containers that are inside each other.                              *)
(***************************************************************************)
LEMMA FrontIs ==
  ASSUME NEW S, NEW q \in Seq(S), q # <<>>
  PROVE  /\ Len(q) \in Nat \ {0} /\ Front(q) \in Seq(S) /\ Len(Front(q)) = Len(q) - 1
         /\ \A j \in 1..Len(q) - 1 : Front(q)[j] = q[j]
         /\ Last(q) = q[Len(q)] /\ Last(q) \in S
<1>1. Len(q) \in Nat \ {0}
  BY EmptySeq, LenProperties
<1>2. \A j \in 1..Len(q) : q[j] \in S
  BY ElementOfSeq
<1>3. \A j \in 1..Len(q) - 1 : q[j] \in S
  BY <1>1, <1>2
<1> DEFINE n == Len(q) - 1
<1>4. n \in Nat /\ n \in Int /\ 1 \in Int /\ Front(q) = SubSeq(q, 1, n)
  BY <1>1 DEF Front
<1> HIDE DEF n
<1>5. /\ SubSeq(q, 1, n) \in Seq(S) /\ Len(SubSeq(q, 1, n)) = (IF 1 <= n THEN n - 1 + 1 ELSE 0)
      /\ \A j \in 1..n - 1 + 1 : SubSeq(q, 1, n)[j] = q[1 + j - 1]
  BY <1>3, <1>4, SubSeqProperties DEF n
<1>6. Front(q) \in Seq(S) /\ Len(Front(q)) = n
  BY <1>4, <1>5
<1>7. ASSUME NEW j \in 1..n PROVE Front(q)[j] = q[j]
  <2>1. j \in 1..n - 1 + 1 /\ 1 + j - 1 = j
    BY <1>4
  <2>2. QED BY <1>4, <1>5, <2>1
<1>8. Last(q) = q[Len(q)] /\ Len(q) \in 1..Len(q)
  BY <1>1 DEF Last
<1>9. QED BY <1>1, <1>2, <1>6, <1>7, <1>8 DEF n

(* The last of a sequence. *)
LEMMA LastIs ==
  ASSUME NEW S, NEW q \in Seq(S), q # <<>>
  PROVE  Len(q) \in Nat \ {0} /\ Last(q) = q[Len(q)] /\ Last(q) \in S
BY FrontIs

(* The last of a sequence is replaced. *)
IsReplaced(q2, q, y, S) ==
  /\ q2 \in Seq(S) /\ q2 # <<>> /\ Len(q2) = Len(q) /\ q2[Len(q)] = y
  /\ \A j \in 1..Len(q) - 1 : q2[j] = q[j]

(* A sequence with its last element replaced. *)
LEMMA ReplacedIs ==
  ASSUME NEW S, NEW q \in Seq(S), q # <<>>, NEW y \in S
  PROVE  IsReplaced(Append(Front(q), y), q, y, S)
<1> DEFINE p == Front(q)
           n == Len(q)
<1>1. n \in Nat \ {0} /\ p \in Seq(S) /\ Len(p) = n - 1 /\ \A j \in 1..n - 1 : p[j] = q[j]
  BY FrontIs
<1> HIDE DEF p, n
<1>2. Append(p, y) \in Seq(S) /\ Append(p, y) # <<>> /\ Len(Append(p, y)) = Len(p) + 1
      /\ (\A j \in 1..Len(p) : Append(p, y)[j] = p[j]) /\ Append(p, y)[Len(p) + 1] = y
  BY <1>1, AppendProperties
<1>3. Len(p) + 1 = n
  BY <1>1
<1>4. QED BY <1>1, <1>2, <1>3 DEF IsReplaced, p, n

(* By itself, it is the sequence. *)
LEMMA LastReplaced ==
  ASSUME NEW S, NEW q \in Seq(S), q # <<>>
  PROVE  Append(Front(q), Last(q)) = q
<1>1. Last(q) \in S /\ Len(q) \in Nat \ {0} /\ Last(q) = q[Len(q)]
  BY FrontIs
<1> DEFINE q2 == Append(Front(q), Last(q))
<1>2. IsReplaced(q2, q, Last(q), S)
  BY <1>1, ReplacedIs
<1> HIDE DEF q2
<1>3. q2 \in Seq(S) /\ Len(q2) = Len(q) /\ q2[Len(q)] = q[Len(q)] /\ \A j \in 1..Len(q) - 1 : q2[j] = q[j]
  BY <1>1, <1>2 DEF IsReplaced
<1>4. \A j \in 1..Len(q) : q2[j] = q[j]
  BY <1>1, <1>3
<1>5. QED BY <1>3, <1>4, SeqEqual DEF q2

(* The nesting that is left above and below a container. *)
LEMMA LevelTypes ==
  ASSUME NEW n \in Nat, n <= MaxNesting
  PROVE  /\ MaxNesting - n \in 0..MaxNesting
         /\ n # 0 => /\ MaxNesting - n \in 0..MaxNesting - 1 /\ n - 1 \in Nat /\ n - 1 <= MaxNesting
                     /\ MaxNesting - (n - 1) = (MaxNesting - n) + 1 /\ (n - 1) + 1 = n
         /\ n < MaxNesting => MaxNesting - (n + 1) \in 0..MaxNesting - 1 /\ n + 1 \in Nat /\ n + 1 <= MaxNesting
BY JsonAssumption

(* The containers below keep what they have when a token more is read. *)
LEMMA ChainLonger ==
  ASSUME NEW s \in Seq(Tokens), NEW c \in Tokens, NEW n \in Nat, n <= MaxNesting,
         NEW frames, \A j \in 1..n : frames[j] \in Frames, NEW held, NEW at, NEW spent,
         Chain(s, frames, held, at, spent, n)
  PROVE  Chain(Append(s, c), frames, held, at, spent, n)
<1>1. ASSUME NEW j \in 1..n PROVE Begun(Append(s, c), frames[j], held[j], at[j], MaxNesting - j)
  <2>1. j \in Nat /\ j <= MaxNesting /\ j # 0
    BY JsonAssumption
  <2>2. MaxNesting - j \in 0..MaxNesting - 1
    BY <2>1, LevelTypes
  <2>3. Begun(s, frames[j], held[j], at[j], MaxNesting - j) /\ frames[j] \in Frames
    BY DEF Chain
  <2>4. QED BY <2>2, <2>3, BegunLonger
<1>2. QED BY <1>1 DEF Chain

(* A chain is about the first n containers only. *)
LEMMA ChainSame ==
  ASSUME NEW s, NEW n \in Nat, NEW frames, NEW held, NEW at, NEW spent,
         Chain(s, frames, held, at, spent, n), NEW frames2, NEW held2, NEW at2, NEW spent2,
         \A j \in 1..n : frames2[j] = frames[j] /\ held2[j] = held[j],
         \A j \in 1..n + 1 : at2[j] = at[j] /\ spent2[j] = spent[j]
  PROVE  Chain(s, frames2, held2, at2, spent2, n)
<1>1. 1 \in 1..n + 1 /\ \A j \in 1..n : j \in 1..n + 1 /\ j + 1 \in 1..n + 1
  OBVIOUS
<1>2. at2[1] = 0 /\ spent2[1] = 0
  BY <1>1 DEF Chain
<1>3. ASSUME NEW j \in 1..n
      PROVE  /\ Begun(s, frames2[j], held2[j], at2[j], MaxNesting - j)
             /\ at2[j + 1] = NextPlace(frames2[j], held2[j], at2[j])
             /\ spent2[j + 1] = Used(frames2[j], held2[j], spent2[j])
  <2>1. /\ Begun(s, frames[j], held[j], at[j], MaxNesting - j)
        /\ at[j + 1] = NextPlace(frames[j], held[j], at[j])
        /\ spent[j + 1] = Used(frames[j], held[j], spent[j])
    BY DEF Chain
  <2>2. /\ frames2[j] = frames[j] /\ held2[j] = held[j] /\ at2[j] = at[j] /\ spent2[j] = spent[j]
        /\ at2[j + 1] = at[j + 1] /\ spent2[j + 1] = spent[j + 1]
    BY <1>1
  <2>3. QED BY <2>1, <2>2
<1>4. QED BY <1>2, <1>3 DEF Chain

(* One more container has begun an element. *)
IsChained(s, frames, n, o, b) ==
  \E held, at, spent : Chain(s, frames, held, at, spent, n) /\ at[n + 1] = o /\ spent[n + 1] = b

(* A container in which an element has begun joins them. *)
LEMMA ChainMore ==
  ASSUME NEW s, NEW n \in Nat, NEW frames, NEW held, NEW at, NEW spent,
         Chain(s, frames, held, at, spent, n), NEW frames2, NEW h,
         \A j \in 1..n : frames2[j] = frames[j],
         Begun(s, frames2[n + 1], h, at[n + 1], MaxNesting - (n + 1))
  PROVE  IsChained(s, frames2, n + 1, NextPlace(frames2[n + 1], h, at[n + 1]),
                   Used(frames2[n + 1], h, spent[n + 1]))
<1> DEFINE k == n + 1
           held2 == [j \in 1..k |-> IF j = k THEN h ELSE held[j]]
           at2 == [j \in 1..k + 1 |-> IF j = k + 1 THEN NextPlace(frames2[k], h, at[k]) ELSE at[j]]
           spent2 == [j \in 1..k + 1 |-> IF j = k + 1 THEN Used(frames2[k], h, spent[k]) ELSE spent[j]]
<1>1. k \in Nat /\ k # 0 /\ k + 1 # k /\ n + 2 = k + 1 /\ k \in 1..k /\ k + 1 \in 1..k + 1 /\ k \in 1..k + 1
  OBVIOUS
<1>2. \A j \in 1..n : j \in 1..k /\ j # k
  OBVIOUS
<1>3. \A j \in 1..k : j \in 1..k + 1 /\ j # k + 1
  OBVIOUS
<1>4. \A j \in 1..n : held2[j] = held[j]
  BY <1>2
<1>5. \A j \in 1..k : at2[j] = at[j] /\ spent2[j] = spent[j]
  BY <1>3
<1>6. held2[k] = h /\ at2[k + 1] = NextPlace(frames2[k], h, at[k]) /\ spent2[k + 1] = Used(frames2[k], h, spent[k])
  BY <1>1
<1> HIDE DEF held2, at2, spent2
<1>7. Chain(s, frames2, held2, at2, spent2, n)
  BY <1>4, <1>5, ChainSame
<1>8. at2[k] = at[k] /\ spent2[k] = spent[k]
  BY <1>1, <1>5
<1>9. ASSUME NEW j \in 1..k
      PROVE  /\ Begun(s, frames2[j], held2[j], at2[j], MaxNesting - j)
             /\ at2[j + 1] = NextPlace(frames2[j], held2[j], at2[j])
             /\ spent2[j + 1] = Used(frames2[j], held2[j], spent2[j])
  <2>1. CASE j = k
    BY <1>6, <1>8, <2>1
  <2>2. CASE j # k
    <3>1. j \in 1..n
      BY <2>2
    <3>2. QED BY <1>7, <3>1 DEF Chain
  <2>3. QED BY <2>1, <2>2
<1>10. Chain(s, frames2, held2, at2, spent2, k)
  BY <1>7, <1>9 DEF Chain
<1>11. QED BY <1>6, <1>10 DEF IsChained

(* Where each of them begins, and what was spent before it. *)
LEMMA ChainTypes ==
  ASSUME NEW s, NEW n \in Nat, n <= MaxNesting, NEW frames, \A j \in 1..n : frames[j] \in Frames,
         NEW held, NEW at, NEW spent, Chain(s, frames, held, at, spent, n)
  PROVE  \A j \in 1..n + 1 : at[j] \in Nat /\ spent[j] \in Nat
<1> DEFINE Odd == {j \in 1..n + 1 : ~(at[j] \in Nat /\ spent[j] \in Nat)}
<1>1. SUFFICES ASSUME Odd # {} PROVE FALSE
  OBVIOUS
<1>2. Odd \in SUBSET Nat
  OBVIOUS
<1>3. PICK k \in Odd : \A j \in Odd : k <= j
  BY <1>1, <1>2, LeastExists
<1>4. k \in 1..n + 1 /\ ~(at[k] \in Nat /\ spent[k] \in Nat)
  BY <1>3
<1>5. k # 1
  BY <1>4 DEF Chain
<1> DEFINE j == k - 1
<1>6. j \in 1..n /\ j + 1 = k /\ j \in Nat /\ j # 0 /\ j <= MaxNesting /\ ~(k <= j) /\ j \in 1..n + 1
  BY <1>4, <1>5, JsonAssumption
<1>7. at[j] \in Nat /\ spent[j] \in Nat
  BY <1>3, <1>6
<1> HIDE DEF Odd, j
<1>8. /\ Begun(s, frames[j], held[j], at[j], MaxNesting - j) /\ frames[j] \in Frames
      /\ at[j + 1] = NextPlace(frames[j], held[j], at[j])
      /\ spent[j + 1] = Used(frames[j], held[j], spent[j])
  BY <1>6 DEF Chain
<1>9. MaxNesting - j \in 0..MaxNesting - 1
  BY <1>6, LevelTypes
<1>10. at[j + 1] \in Nat /\ spent[j + 1] \in Nat
  BY <1>7, <1>8, <1>9, BegunTypes
<1>11. QED BY <1>4, <1>6, <1>10

(* A text that begins with what was read has, in each of the containers,   *)
(* a text that does.                                                       *)
IsWithin(t, s, o, b, l) ==
  \E x \in TextsUpTo[l] : /\ Stands(t.text, o, x.text) /\ Agrees(x, s, o) /\ b + x.needs <= t.needs

(* A text that agrees has a text inside it, where the next container       *)
(* begins, with room for it.                                               *)
LEMMA WithinNext ==
  ASSUME NEW s \in Seq(Tokens), NEW frame \in Frames, NEW l \in 0..MaxNesting - 1, NEW held, NEW o \in Nat,
         Begun(s, frame, held, o, l), NEW b \in Nat, NEW t, IsText(t), IsWithin(t, s, o, b, l + 1)
  PROVE  IsWithin(t, s, NextPlace(frame, held, o), Used(frame, held, b), l)
<1>1. PICK x \in TextsUpTo[l + 1] : /\ Stands(t.text, o, x.text) /\ Agrees(x, s, o) /\ b + x.needs <= t.needs
  BY DEF IsWithin
<1>2. PICK y \in TextsUpTo[l], p \in Nat : IsInside(x, y, p, frame, held, o, b)
  BY <1>1, BegunInside
<1>3. IsText(x) /\ IsText(y)
  BY TextsText, NestingTypes
<1>4. Len(x.text) \in Nat /\ Len(y.text) \in Nat /\ Len(t.text) \in Nat /\ Len(s) \in Nat
      /\ x.needs \in Nat /\ y.needs \in Nat /\ t.needs \in Nat
  BY <1>3, LenProperties DEF IsText
<1>5. Stands(t.text, o + p, y.text)
  BY <1>1, <1>2, <1>4, StandsInside DEF IsInside
<1>6. Agrees(y, s, o + p)
  BY <1>1, <1>2, <1>4, AgreesInside DEF IsInside
<1>7. Used(frame, held, b) + y.needs <= t.needs
  <2> DEFINE u == Used(frame, held, b)
  <2>1. u \in Nat
    BY BegunTypes
  <2> HIDE DEF u
  <2>2. u + y.needs <= b + x.needs
    BY <1>2 DEF u, IsInside
  <2>3. u + y.needs <= t.needs
    BY <1>1, <1>4, <2>1, <2>2
  <2>4. QED BY <2>3 DEF u
<1>8. QED BY <1>2, <1>5, <1>6, <1>7 DEF IsWithin, IsInside

(* So it has one at every level, down to what is read now. *)
LEMMA Descend ==
  ASSUME NEW s \in Seq(Tokens), NEW n \in Nat, n <= MaxNesting, NEW frames, \A j \in 1..n : frames[j] \in Frames,
         NEW held, NEW at, NEW spent, Chain(s, frames, held, at, spent, n),
         NEW t \in TextsUpTo[MaxNesting], Agrees(t, s, 0)
  PROVE  \A j \in 1..n + 1 : IsWithin(t, s, at[j], spent[j], MaxNesting - (j - 1))
<1> DEFINE Odd == {j \in 1..n + 1 : ~IsWithin(t, s, at[j], spent[j], MaxNesting - (j - 1))}
<1>1. SUFFICES ASSUME Odd # {} PROVE FALSE
  OBVIOUS
<1>2. Odd \in SUBSET Nat
  OBVIOUS
<1>3. PICK k \in Odd : \A j \in Odd : k <= j
  BY <1>1, <1>2, LeastExists
<1>4. k \in 1..n + 1 /\ ~IsWithin(t, s, at[k], spent[k], MaxNesting - (k - 1))
  BY <1>3
<1>5. MaxNesting \in 0..MaxNesting /\ MaxNesting - (1 - 1) = MaxNesting /\ MaxNesting \in Nat
  BY JsonAssumption
<1>6. IsText(t) /\ t.needs \in Nat /\ t.text \in Seq(Tokens)
  BY <1>5, TextsText DEF IsText
<1>7. k # 1
  <2>1. SUFFICES ASSUME k = 1 PROVE FALSE
    OBVIOUS
  <2>2. at[1] = 0 /\ spent[1] = 0
    BY DEF Chain
  <2>3. Stands(t.text, 0, t.text) /\ 0 + t.needs <= t.needs
    BY <1>6, StandsAll, LenProperties
  <2>4. IsWithin(t, s, 0, 0, MaxNesting)
    BY <2>3 DEF IsWithin
  <2>5. QED BY <1>4, <1>5, <2>1, <2>2, <2>4
<1> DEFINE j == k - 1
<1>8. j \in 1..n /\ j + 1 = k /\ j \in Nat /\ j # 0 /\ j <= MaxNesting /\ ~(k <= j) /\ j \in 1..n + 1
  BY <1>4, <1>7, <1>5
<1>9. IsWithin(t, s, at[j], spent[j], MaxNesting - (j - 1))
  BY <1>3, <1>8
<1> HIDE DEF Odd, j
<1>10. /\ Begun(s, frames[j], held[j], at[j], MaxNesting - j) /\ frames[j] \in Frames
       /\ at[j + 1] = NextPlace(frames[j], held[j], at[j])
       /\ spent[j + 1] = Used(frames[j], held[j], spent[j])
  BY <1>8 DEF Chain
<1>11. at[j] \in Nat /\ spent[j] \in Nat
  BY <1>8, ChainTypes
<1>12. MaxNesting - j \in 0..MaxNesting - 1 /\ MaxNesting - (j - 1) = (MaxNesting - j) + 1
  BY <1>8, LevelTypes
<1>13. IsWithin(t, s, at[j + 1], spent[j + 1], MaxNesting - j)
  BY <1>6, <1>9, <1>10, <1>11, <1>12, WithinNext
<1>14. k - 1 = j
  BY DEF j
<1>15. QED BY <1>4, <1>8, <1>13, <1>14

(* The top of the stack may change, the rest is as it was. *)
LEMMA ReplacedReads ==
  ASSUME NEW s, NEW frames \in Seq(Frames), frames # <<>>, NEW held, NEW at, NEW spent,
         Chain(s, frames, held, at, spent, Len(frames) - 1), NEW frame2 \in Frames, NEW h, NEW w,
         OnTop(w, s, frame2, h, at[Len(frames)], MaxNesting - Len(frames)),
         NEW b, b = Used(frame2, h, spent[Len(frames)])
  PROVE  /\ IsReplaced(Append(Front(frames), frame2), frames, frame2, Frames)
         /\ Reading(s, w, Append(Front(frames), frame2), b)
<1> DEFINE d == Len(frames)
           frames2 == Append(Front(frames), frame2)
           held2 == [j \in 1..d |-> IF j = d THEN h ELSE held[j]]
<1>1. IsReplaced(frames2, frames, frame2, Frames)
  BY ReplacedIs
<1>2. d \in Nat \ {0}
  BY FrontIs
<1> HIDE DEF d, frames2
<1>3. d - 1 \in Nat /\ (d - 1) + 1 = d /\ d \in 1..d /\ \A j \in 1..d - 1 : j \in 1..d /\ j # d
  BY <1>2
<1>4. Len(frames2) = d /\ frames2 # <<>> /\ frames2[d] = frame2 /\ \A j \in 1..d - 1 : frames2[j] = frames[j]
  BY <1>1 DEF IsReplaced, d
<1>5. held2[d] = h /\ \A j \in 1..d - 1 : held2[j] = held[j]
  BY <1>3
<1> HIDE DEF held2
<1>6. Chain(s, frames2, held2, at, spent, d - 1)
  <2>1. Chain(s, frames, held, at, spent, d - 1)
    BY DEF d
  <2>2. QED BY <1>3, <1>4, <1>5, <2>1, ChainSame
<1>7. OnTop(w, s, frames2[d], held2[d], at[d], MaxNesting - d) /\ b = Used(frames2[d], held2[d], spent[d])
  BY <1>4, <1>5 DEF d
<1>8. Reading(s, w, frames2, b)
  BY <1>4, <1>6, <1>7 DEF Reading
<1>9. QED BY <1>1, <1>8 DEF frames2

(* A value is complete: it is an element, or the whole text. *)
Completes(s, value, frames, b) ==
  IF frames = <<>> THEN WasRead(s, value, b)
  ELSE LET frame2 == [Last(frames) EXCEPT !.items = Append(@, value)] IN
       /\ IsReplaced(Append(Front(frames), frame2), frames, frame2, Frames)
       /\ Reading(s, "more", Append(Front(frames), frame2), b)

(* A frame with a value more. *)
LEMMA ItemsGrown ==
  ASSUME NEW frame \in Frames, NEW value
  PROVE  [frame EXCEPT !.items = Append(@, value)] =
           [type |-> frame.type, keys |-> frame.keys, items |-> Append(frame.items, value), cap |-> frame.cap]
<1>1. frame = [type |-> frame.type, keys |-> frame.keys, items |-> frame.items, cap |-> frame.cap]
  BY DEF Frames
<1>2. QED BY <1>1

(* A value that was read is the element of the container below, or the     *)
(* whole.                                                                  *)
LEMMA ElementEnds ==
  ASSUME NEW s \in Seq(Tokens), NEW frames \in Seq(Frames), Len(frames) <= MaxNesting,
         NEW held, NEW at, NEW spent, Chain(s, frames, held, at, spent, Len(frames)),
         NEW e, IsTaken(e, s, at[Len(frames) + 1], MaxNesting - Len(frames)),
         NEW b, b = spent[Len(frames) + 1] + e.needs
  PROVE  Completes(s, e.value, frames, b)
<1> DEFINE d == Len(frames)
           l == MaxNesting - d
<1>1. d \in Nat /\ d <= MaxNesting /\ Chain(s, frames, held, at, spent, d)
  BY LenProperties
<1>2. /\ e \in TextsUpTo[l] /\ Stands(s, at[d + 1], e.text) /\ Len(s) = at[d + 1] + Len(e.text)
      /\ \A y \in TextsUpTo[l] : Agrees(y, s, at[d + 1]) => y = e
  BY DEF IsTaken
<1>3. b = spent[d + 1] + e.needs
  OBVIOUS
<1>4. l \in 0..MaxNesting
  BY <1>1, LevelTypes
<1>5. IsText(e) /\ e.needs \in Nat /\ e.text \in Seq(Tokens) /\ Len(e.text) \in Nat
  BY <1>2, <1>4, TextsText, LenProperties DEF IsText
<1>6. CASE frames = <<>>
  <2>1. d = 0 /\ l = MaxNesting
    BY <1>6, JsonAssumption
  <2> HIDE DEF d, l
  <2>2. at[d + 1] = 0 /\ spent[d + 1] = 0
    <3>1. d + 1 = 1
      BY <2>1
    <3>2. QED BY <1>1, <3>1 DEF Chain
  <2>3. s = e.text
    <3>1. Len(s) = Len(e.text) /\ Stands(s, 0, e.text)
      BY <1>2, <1>5, <2>2
    <3>2. QED BY <1>5, <3>1, StandsEqual
  <2>4. b = e.needs
    BY <1>3, <1>5, <2>2
  <2>5. WasRead(s, e.value, b)
    BY <1>2, <2>1, <2>2, <2>3, <2>4 DEF WasRead
  <2>6. QED BY <1>6, <2>5 DEF Completes
<1>7. CASE frames # <<>>
  <2> DEFINE frame == frames[d]
             h == held[d]
             o == at[d]
  <2>1. d # 0 /\ d \in 1..d /\ Last(frames) = frame /\ frame \in Frames
    BY <1>7, LastIs
  <2> DEFINE frame2 == [Last(frames) EXCEPT !.items = Append(@, e.value)]
  <2> HIDE DEF d, l
  <2>2. Begun(s, frame, h, o, l) /\ at[d + 1] = NextPlace(frame, h, o) /\ spent[d + 1] = Used(frame, h, spent[d])
    BY <1>1, <2>1 DEF Chain, l
  <2>3. l \in 0..MaxNesting - 1
    BY <1>1, <2>1, LevelTypes DEF l
  <2>4. spent[d] \in Nat /\ spent[d + 1] \in Nat
    <3>1. \A j \in 1..d : frames[j] \in Frames
      BY ElementOfSeq DEF d
    <3>2. \A j \in 1..d + 1 : spent[j] \in Nat
      BY <1>1, <3>1, ChainTypes
    <3>3. d \in 1..d + 1 /\ d + 1 \in 1..d + 1
      BY <1>1, <2>1
    <3>4. QED BY <3>2, <3>3
  <2>5. frame2 = [type |-> frame.type, keys |-> frame.keys,
                  items |-> Append(frame.items, e.value), cap |-> frame.cap]
    <3> HIDE DEF frame
    <3>1. QED BY <2>1, ItemsGrown
  <2> HIDE DEF frame, frame2, h, o
  <2>6. IsTaken(e, s, NextPlace(frame, h, o), l)
    BY <1>2, <2>2 DEF IsTaken
  <2>7. /\ frame2 \in Frames /\ Append(h, e) # <<>>
        /\ AfterElement(s, frame2, Append(h, e), o, l)
        /\ \A x \in Nat : Used(frame2, Append(h, e), x) = Used(frame, h, x) + e.needs
    <3>1. IsAfter(s, frame, frame2, h, e, o, l)
      BY <2>1, <2>2, <2>3, <2>5, <2>6, ElementReads
    <3>2. QED BY <3>1 DEF IsAfter
  <2>8. b = Used(frame2, Append(h, e), spent[d])
    BY <1>3, <2>2, <2>4, <2>7
  <2>9. OnTop("more", s, frame2, Append(h, e), at[d], MaxNesting - d)
    BY <2>7 DEF OnTop, o, l
  <2>10. Chain(s, frames, held, at, spent, d - 1)
    <3>1. \A j \in 1..d - 1 : j \in 1..d
      BY <1>1
    <3>2. QED BY <1>1, <3>1 DEF Chain
  <2>11. /\ IsReplaced(Append(Front(frames), frame2), frames, frame2, Frames)
         /\ Reading(s, "more", Append(Front(frames), frame2), b)
    BY <1>7, <2>7, <2>8, <2>9, <2>10, ReplacedReads DEF d
  <2>12. QED BY <1>7, <2>11 DEF Completes, frame2
<1>8. QED BY <1>6, <1>7
-----------------------------------------------------------------------------
(***************************************************************************)
(* An element begins in the container on top.                              *)
(***************************************************************************)
Beginning(w, type) == w = (IF type = "object" THEN "key" ELSE "value")
CapOf(w, frame, m) == IF Beginning(w, frame.type) THEN CapAfter(frame.cap, m) ELSE frame.cap

IsTopBegun(s2, w, frame, frame2, h, o, l) ==
  /\ frame2 \in Frames /\ Begun(s2, frame2, h, o, l)
  /\ Len(s2) = NextPlace(frame2, h, o) + 1
  /\ \A b \in Nat : Used(frame2, h, b) = Used(frame, h, b) + PriceOf(w, frame, Len(h))

(* The book of the container on top. *)
LEMMA TopTypes ==
  ASSUME NEW s \in Seq(Tokens), NEW frame \in Frames, NEW l \in 0..MaxNesting - 1, NEW h, NEW o,
         NEW w, OnTop(w, s, frame, h, o, l)
  PROVE  /\ Len(h) \in Nat /\ Len(frame.items) = Len(h) /\ o \in Nat
         /\ w \in {"first", "more", "key", "value", "colon"}
<1>1. \E paid : Kept(s, frame, h, o, l, paid)
  BY DEF OnTop, AfterElement, AfterComma, AfterKey, AfterColon, Begun
<1>2. w \in {"first", "more", "key", "value", "colon"}
  BY DEF OnTop
<1>3. QED BY <1>1, <1>2, LenProperties DEF Kept

(* A container with no element yet does not grow. *)
LEMMA CapStays == ASSUME NEW cap PROVE CapAfter(cap, 0) = cap /\ Grows(cap, 0) = 0
BY DEF CapAfter, Grows

(* An element begins in the container on top, which has room for it. *)
LEMMA TopBegins ==
  ASSUME NEW s \in Seq(Tokens), NEW frame \in Frames, NEW l \in 0..MaxNesting - 1, NEW h, NEW o,
         NEW w, OnTop(w, s, frame, h, o, l), w = "value" \/ (w = "first" /\ frame.type # "object"),
         NEW c \in Tokens, c # "]",
         NEW frame2, frame2 = [type |-> frame.type, keys |-> frame.keys, items |-> frame.items,
                               cap |-> CapOf(w, frame, Len(h))]
  PROVE  IsTopBegun(Append(s, c), w, frame, frame2, h, o, l)
<1>1. Len(Append(s, c)) = Len(s) + 1
  BY Longer
<1>2. frame.type \in Types /\ (frame.type # "object" <=> frame.type = "array")
  BY FrameTypes DEF Types
<1>3. CASE frame.type = "array"
  <2>1. Ready(s, frame, h, o, l)
    BY <1>3 DEF OnTop, Ready, AfterColon
  <2>2. CapOf(w, frame, Len(h)) = CapAfter(frame.cap, Len(h))
        /\ PriceOf(w, frame, Len(h)) = Grows(frame.cap, Len(h))
    <3>1. CASE w = "value"
      BY <1>3, <3>1 DEF CapOf, Beginning, PriceOf
    <3>2. CASE w = "first"
      <4>1. h = <<>> /\ Len(h) = 0
        BY <3>2 DEF OnTop
      <4>2. ~Beginning(w, frame.type) /\ PriceOf(w, frame, Len(h)) = 0
        BY <1>3, <3>2 DEF Beginning, PriceOf
      <4>3. QED BY <4>1, <4>2, CapStays DEF CapOf
    <3>3. QED BY <3>1, <3>2
  <2>3. c # Ender("array")
    BY MarkTypes
  <2>4. /\ frame2 \in Frames /\ Begun(Append(s, c), frame2, h, o, l)
        /\ Len(s) = NextPlace(frame2, h, o)
        /\ \A b \in Nat : Used(frame2, h, b) = Used(frame, h, b) + Grows(frame.cap, Len(h))
    BY <1>3, <2>1, <2>2, <2>3, ArrayGoesOn
  <2>5. QED BY <1>1, <2>2, <2>4 DEF IsTopBegun
<1>4. CASE frame.type = "object"
  <2>1. w = "value" /\ AfterColon(s, frame, h, o, l)
    BY <1>4 DEF OnTop
  <2>2. ~Beginning(w, frame.type) /\ PriceOf(w, frame, Len(h)) = 0
    BY <1>4, <2>1 DEF Beginning, PriceOf
  <2>3. frame2 = frame
    BY <2>2 DEF CapOf, Frames
  <2>4. Begun(s, frame, h, o, l) /\ Len(s) = NextPlace(frame, h, o)
    BY <2>1 DEF AfterColon
  <2>5. Begun(Append(s, c), frame, h, o, l)
    BY <2>4, BegunLonger
  <2>6. ASSUME NEW b \in Nat PROVE Used(frame, h, b) = Used(frame, h, b) + 0
    <3>1. Used(frame, h, b) \in Nat
      BY <2>4, BegunTypes
    <3>2. QED BY <3>1
  <2>7. QED BY <1>1, <2>2, <2>3, <2>4, <2>5, <2>6 DEF IsTopBegun
<1>5. QED BY <1>2, <1>3, <1>4

IsTopKey(s2, w, frame, frame2, h, o, l) ==
  /\ frame2 \in Frames /\ AfterKey(s2, frame2, h, o, l)
  /\ \A b \in Nat : Used(frame2, h, b) = Used(frame, h, b) + PriceOf(w, frame, Len(h))

(* The key of an element is read in the object on top. *)
LEMMA TopKey ==
  ASSUME NEW s \in Seq(Tokens), NEW frame \in Frames, NEW l \in 0..MaxNesting - 1, NEW h, NEW o,
         NEW w, OnTop(w, s, frame, h, o, l), w \in {"first", "key"}, frame.type = "object",
         NEW c \in Strings,
         NEW frame2, frame2 = [type |-> frame.type, keys |-> Append(frame.keys, c), items |-> frame.items,
                               cap |-> CapOf(w, frame, Len(h))]
  PROVE  IsTopKey(Append(s, c), w, frame, frame2, h, o, l)
<1>1. Ready(s, frame, h, o, l)
  BY DEF OnTop, Ready
<1>2. CapOf(w, frame, Len(h)) = CapAfter(frame.cap, Len(h))
      /\ PriceOf(w, frame, Len(h)) = Grows(frame.cap, Len(h))
  <2>1. CASE w = "key"
    BY <2>1 DEF CapOf, Beginning, PriceOf
  <2>2. CASE w = "first"
    <3>1. h = <<>> /\ Len(h) = 0
      BY <2>2 DEF OnTop
    <3>2. ~Beginning(w, frame.type) /\ PriceOf(w, frame, Len(h)) = 0
      BY <2>2 DEF Beginning, PriceOf
    <3>3. QED BY <3>1, <3>2, CapStays DEF CapOf
  <2>3. QED BY <2>1, <2>2
<1>3. IsKeyed(Append(s, c), frame, frame2, h, o, l)
  BY <1>1, <1>2, KeyReads
<1>4. QED BY <1>2, <1>3 DEF IsTopKey, IsKeyed

-----------------------------------------------------------------------------
(***************************************************************************)
(* The steps of the parser.                                                *)
(***************************************************************************)
LEMMA PriceIs ==
  /\ stack = <<>> => Price = 0 /\ Grown = <<>>
  /\ stack # <<>> => Price = PriceOf(wants, Top, Len(Top.items))
BY DEF Price, Grown, PriceOf, Grows, InObject, Top

(* The stack when the container on top has grown. *)
LEMMA GrownIs ==
  ASSUME stack \in Seq(Frames), stack # <<>>
  PROVE  Grown = Append(Front(stack), [type |-> Top.type, keys |-> Top.keys, items |-> Top.items,
                                       cap |-> CapOf(wants, Top, Len(Top.items))])
<1> DEFINE frame == Top
           m == Len(frame.items)
           frame2 == [type |-> frame.type, keys |-> frame.keys, items |-> frame.items,
                      cap |-> CapOf(wants, frame, m)]
<1>1. frame \in Frames /\ frame = Last(stack)
  BY LastIs DEF Top
<1>2. m \in Nat /\ frame.cap \in Nat
  BY <1>1, FrameTypes
<1>3. Price = PriceOf(wants, frame, m)
  BY PriceIs
<1>4. frame = [type |-> frame.type, keys |-> frame.keys, items |-> frame.items, cap |-> frame.cap]
  BY <1>1 DEF Frames
<1> HIDE DEF frame, m
<1>5. CASE Price = 0
  <2>1. CapOf(wants, frame, m) = frame.cap
    BY <1>2, <1>3, <1>5 DEF CapOf, Beginning, PriceOf, CapAfter, Grows
  <2>2. frame2 = frame
    BY <1>4, <2>1
  <2>3. Grown = stack
    BY <1>5 DEF Grown
  <2>4. QED BY <1>1, <2>2, <2>3, LastReplaced DEF frame, m
<1>6. CASE Price # 0
  <2>1. Price = CapOf(wants, frame, m)
    BY <1>2, <1>3, <1>6 DEF CapOf, Beginning, PriceOf, CapAfter, Grows
  <2>2. [frame EXCEPT !.cap = Price] = frame2
    BY <1>4, <2>1
  <2>3. Grown = Append(Front(stack), [frame EXCEPT !.cap = Price])
    BY <1>6 DEF Grown, frame
  <2>4. QED BY <2>2, <2>3 DEF frame, m
<1>7. QED BY <1>5, <1>6

(* What it costs is a number. *)
LEMMA PriceNumber ==
  ASSUME ParserTypes
  PROVE  Price \in Nat /\ Price = IF stack = <<>> THEN 0 ELSE PriceOf(wants, Top, Len(Top.items))
<1>1. CASE stack = <<>>
  BY <1>1, PriceIs
<1>2. CASE stack # <<>>
  <2>1. Top \in Frames
    BY <1>2, LastIs DEF ParserTypes, Top
  <2>2. Top.cap \in Nat /\ Len(Top.items) \in Nat
    BY <2>1, FrameTypes
  <2>3. Price = PriceOf(wants, Top, Len(Top.items))
    BY <1>2, PriceIs
  <2>4. PriceOf(wants, Top, Len(Top.items)) \in Nat
    BY <2>2, GrowsBy DEF PriceOf
  <2>5. QED BY <1>2, <2>3, <2>4
<1>3. QED BY <1>1, <1>2

(* The container on top, and the book of it. *)
IsOn(held, at, spent) ==
  /\ Chain(tokens, stack, held, at, spent, Len(stack) - 1)
  /\ OnTop(wants, tokens, Top, held[Len(stack)], at[Len(stack)], MaxNesting - Len(stack))
  /\ blocks = Used(Top, held[Len(stack)], spent[Len(stack)])

IsLevel(d) ==
  /\ d \in Nat \ {0} /\ d <= MaxNesting /\ MaxNesting - d \in 0..MaxNesting - 1
  /\ d - 1 \in Nat /\ d - 1 <= MaxNesting /\ (d - 1) + 1 = d
  /\ MaxNesting - (d - 1) = (MaxNesting - d) + 1
  /\ Top \in Frames /\ Top = stack[d] /\ \A j \in 1..d : stack[j] \in Frames

(* The nesting of the container on top. *)
LEMMA TopLevel ==
  ASSUME ParserTypes, stack # <<>>
  PROVE  IsLevel(Len(stack))
<1> DEFINE d == Len(stack)
<1>1. d \in Nat \ {0} /\ Top = stack[d] /\ Top \in Frames /\ d <= MaxNesting
  BY LastIs DEF ParserTypes, Top
<1>2. \A j \in 1..d : stack[j] \in Frames
  BY ElementOfSeq DEF ParserTypes
<1> HIDE DEF d
<1>3. QED BY <1>1, <1>2, LevelTypes DEF IsLevel, d

(* The book exists while the parser reads a container. *)
LEMMA ReadingOn ==
  ASSUME ParserTypes, stack # <<>>, Reading(tokens, wants, stack, blocks)
  PROVE  \E held, at, spent : IsOn(held, at, spent)
<1>1. Top = stack[Len(stack)]
  BY TopLevel DEF IsLevel
<1>2. QED BY <1>1 DEF Reading, IsOn

(* Its types. *)
LEMMA ReadingTypes ==
  ASSUME ParserTypes, stack # <<>>, NEW held, NEW at, NEW spent, IsOn(held, at, spent)
  PROVE  /\ at[Len(stack)] \in Nat /\ spent[Len(stack)] \in Nat
         /\ Len(Top.items) = Len(held[Len(stack)])
         /\ wants \in {"first", "more", "key", "value", "colon"}
<1> DEFINE d == Len(stack)
<1>1. IsLevel(d)
  BY TopLevel
<1>2. Chain(tokens, stack, held, at, spent, d - 1)
      /\ OnTop(wants, tokens, Top, held[d], at[d], MaxNesting - d) /\ tokens \in Seq(Tokens)
  BY DEF IsOn, ParserTypes
<1> HIDE DEF d
<1>3. \A j \in 1..d - 1 : stack[j] \in Frames
  BY <1>1 DEF IsLevel
<1>4. d - 1 \in Nat /\ d - 1 <= MaxNesting /\ (d - 1) + 1 = d /\ d \in 1..d
      /\ Top \in Frames /\ MaxNesting - d \in 0..MaxNesting - 1
  BY <1>1 DEF IsLevel
<1>5. \A j \in 1..(d - 1) + 1 : at[j] \in Nat /\ spent[j] \in Nat
  BY <1>2, <1>3, <1>4, ChainTypes
<1>6. Len(Top.items) = Len(held[d]) /\ wants \in {"first", "more", "key", "value", "colon"}
  BY <1>2, <1>4, TopTypes
<1>7. QED BY <1>4, <1>5, <1>6 DEF d

IsElementBegun(s2, frames, b) ==
  \E held, at, spent :
    /\ Chain(s2, frames, held, at, spent, Len(frames))
    /\ Len(s2) = at[Len(frames) + 1] + 1 /\ b = spent[Len(frames) + 1]

(* An element begins: every container of the stack has one that has begun. *)
LEMMA ElementBegins ==
  ASSUME ParserTypes, Reading(tokens, wants, stack, blocks), WantsValue, NEW c \in Tokens, c # "]"
  PROVE  /\ Grown \in Seq(Frames) /\ Len(Grown) = Len(stack)
         /\ IsElementBegun(Append(tokens, c), Grown, blocks + Price)
<1> DEFINE s2 == Append(tokens, c)
           d == Len(stack)
           l == MaxNesting - d
<1>1. tokens \in Seq(Tokens) /\ Len(tokens) \in Nat /\ Len(s2) = Len(tokens) + 1
  BY Longer DEF ParserTypes
<1>2. CASE stack = <<>>
  <2>1. tokens = <<>> /\ blocks = 0 /\ Price = 0 /\ Grown = <<>>
    BY <1>2, PriceIs DEF Reading
  <2>2. Grown \in Seq(Frames) /\ Len(Grown) = 0 /\ Len(stack) = 0 /\ Len(tokens) = 0
    BY <1>2, <2>1
  <2> DEFINE at == [j \in 1..1 |-> 0]
  <2>3. at[1] = 0 /\ \A j \in 1..0 : FALSE
    OBVIOUS
  <2> HIDE DEF at, s2
  <2>4. Chain(s2, Grown, at, at, at, 0) /\ Len(s2) = at[0 + 1] + 1 /\ blocks + Price = at[0 + 1]
    BY <1>1, <2>1, <2>2, <2>3 DEF Chain
  <2>5. IsElementBegun(s2, Grown, blocks + Price)
    BY <2>2, <2>4 DEF IsElementBegun
  <2>6. QED BY <2>2, <2>5 DEF s2
<1>3. CASE stack # <<>>
  <2>1. PICK held, at, spent : IsOn(held, at, spent)
    BY <1>3, ReadingOn
  <2>2. IsLevel(d)
    BY <1>3, TopLevel
  <2>3. /\ at[d] \in Nat /\ spent[d] \in Nat /\ Len(Top.items) = Len(held[d])
    BY <1>3, <2>1, ReadingTypes
  <2> DEFINE h == held[d]
             o == at[d]
             frame2 == [type |-> Top.type, keys |-> Top.keys, items |-> Top.items,
                        cap |-> CapOf(wants, Top, Len(h))]
  <2>4. Grown = Append(Front(stack), frame2)
    BY <1>3, <2>3, GrownIs DEF ParserTypes
  <2>5. wants = "value" \/ (wants = "first" /\ Top.type # "object")
    BY <1>3 DEF WantsValue, InObject, Top
  <2>6. /\ Chain(tokens, stack, held, at, spent, d - 1)
        /\ OnTop(wants, tokens, Top, h, o, l) /\ blocks = Used(Top, h, spent[d])
    BY <2>1 DEF IsOn
  <2>7. IsTopBegun(s2, wants, Top, frame2, h, o, l)
    <3>1. Top \in Frames /\ l \in 0..MaxNesting - 1
      BY <2>2 DEF IsLevel
    <3> HIDE DEF l, d
    <3>2. QED BY <1>1, <2>5, <2>6, <3>1, TopBegins
  <2>8. Price = PriceOf(wants, Top, Len(h))
    BY <1>3, <2>3, PriceIs
  <2> HIDE DEF d, frame2, h, s2
  <2>9. /\ frame2 \in Frames /\ Begun(s2, frame2, h, at[d], MaxNesting - d)
        /\ Len(s2) = NextPlace(frame2, h, at[d]) + 1 /\ Used(frame2, h, spent[d]) = blocks + Price
    BY <2>3, <2>6, <2>7, <2>8 DEF IsTopBegun, o, l
  <2>10. IsReplaced(Grown, stack, frame2, Frames)
    BY <1>3, <2>4, <2>9, ReplacedIs DEF ParserTypes
  <2>11. /\ Grown \in Seq(Frames) /\ Len(Grown) = d /\ Grown[d] = frame2
         /\ \A j \in 1..d - 1 : Grown[j] = stack[j]
    BY <2>10 DEF IsReplaced, d
  <2> DEFINE n == d - 1
  <2>12. n \in Nat /\ n <= MaxNesting /\ n + 1 = d /\ n + 2 = d + 1 /\ \A j \in 1..n : stack[j] \in Frames
    BY <2>2 DEF IsLevel
  <2>13. Chain(tokens, stack, held, at, spent, n) /\ \A j \in 1..n : Grown[j] = stack[j]
    BY <2>6, <2>11
  <2> HIDE DEF n
  <2>14. Chain(s2, stack, held, at, spent, n)
    BY <1>1, <2>12, <2>13, ChainLonger DEF s2
  <2>15. Begun(s2, Grown[n + 1], h, at[n + 1], MaxNesting - (n + 1))
    BY <2>9, <2>11, <2>12
  <2>16. IsChained(s2, Grown, n + 1, NextPlace(Grown[n + 1], h, at[n + 1]), Used(Grown[n + 1], h, spent[n + 1]))
    BY <2>12, <2>13, <2>14, <2>15, ChainMore
  <2>17. IsElementBegun(s2, Grown, blocks + Price)
    <3>1. IsChained(s2, Grown, d, NextPlace(frame2, h, at[d]), Used(frame2, h, spent[d]))
      BY <2>11, <2>12, <2>16
    <3>2. PICK held2, at2, spent2 :
            /\ Chain(s2, Grown, held2, at2, spent2, d)
            /\ at2[d + 1] = NextPlace(frame2, h, at[d]) /\ spent2[d + 1] = Used(frame2, h, spent[d])
      BY <3>1 DEF IsChained
    <3>3. Len(s2) = at2[Len(Grown) + 1] + 1 /\ blocks + Price = spent2[Len(Grown) + 1]
          /\ Chain(s2, Grown, held2, at2, spent2, Len(Grown))
      BY <2>9, <2>11, <3>2
    <3>4. QED BY <3>3 DEF IsElementBegun
  <2>18. QED BY <2>11, <2>17 DEF s2, d
<1>4. QED BY <1>2, <1>3
(* A text that begins with what was read goes on with what is expected. *)
GoesAhead(t) ==
  LET next == t.text[Len(tokens) + 1] IN
  /\ Len(tokens) \in Nat /\ Len(t.text) \in Nat /\ Len(tokens) + 1 <= Len(t.text)
  /\ next \in Expected /\ blocks + Price <= t.needs
  /\ next \in {"[", "{"} => Len(stack) < MaxNesting /\ blocks + Price + FirstCap <= t.needs

(* What the parser takes next. *)
LEMMA ExpectedIs ==
  /\ stack = <<>> /\ wants = "value" => Strings \union Scalars \union {"[", "{"} \subseteq Expected
  /\ stack # <<>> => ExpectedIn(wants, Top.type) \subseteq Expected
<1>1. ASSUME stack = <<>>, wants = "value" PROVE Strings \union Scalars \union {"[", "{"} \subseteq Expected
  BY <1>1 DEF Expected, WantsValue
<1>2. ASSUME stack # <<>>, NEW c \in ExpectedIn(wants, Top.type) PROVE c \in Expected
  <2>1. /\ WantsValue <=> wants = "value" \/ (wants = "first" /\ Top.type # "object")
        /\ WantsKey <=> wants = "key" \/ (wants = "first" /\ Top.type = "object")
    BY <1>2 DEF WantsValue, WantsKey, InObject, Top
  <2>2. CASE WantsValue /\ c \in Strings \union Scalars \union {"[", "{"}
    BY <2>2 DEF Expected
  <2>3. CASE WantsKey /\ c \in Strings
    BY <2>3 DEF Expected
  <2>4. CASE wants \in {"first", "more"} /\ c \in {Ender(Top.type)}
    BY <2>4 DEF Expected
  <2>5. CASE wants = "colon" /\ c = ":"
    BY <2>5 DEF Expected
  <2>6. CASE wants = "more" /\ c = ","
    BY <2>6 DEF Expected
  <2>7. QED BY <1>2, <2>1, <2>2, <2>3, <2>4, <2>5, <2>6 DEF ExpectedIn
<1>3. QED BY <1>1, <1>2

(* At most what is at most. *)
LEMMA AtMost ==
  ASSUME NEW a \in Nat, NEW b \in Nat, NEW x \in Nat, NEW t \in Nat, a <= b + x, b + x <= t
  PROVE  a <= t
OBVIOUS

(* The key of the proof: the next token of any text that agrees is one     *)
(* that the parser takes, with the nesting and the room it needs.          *)
LEMMA TextGoesAhead ==
  ASSUME ParserTypes, Reading(tokens, wants, stack, blocks), NEW t \in TextsUpTo[MaxNesting], Agrees(t, tokens, 0)
  PROVE  GoesAhead(t)
<1> DEFINE next == t.text[Len(tokens) + 1]
<1>1. MaxNesting \in 0..MaxNesting /\ MaxNesting \in Nat /\ FirstCap \in Nat
  BY JsonAssumption
<1>2. IsText(t) /\ t.needs \in Nat /\ Len(t.text) \in Nat \ {0} /\ tokens \in Seq(Tokens) /\ Len(tokens) \in Nat
  BY <1>1, TextsText, LenProperties, EmptySeq DEF IsText, ParserTypes
<1>3. CASE stack = <<>>
  <2>1. tokens = <<>> /\ blocks = 0 /\ Price = 0 /\ wants = "value" /\ Len(tokens) = 0 /\ Len(stack) = 0
    BY <1>3, PriceIs DEF Reading
  <2>2. next = t.text[1]
    BY <2>1
  <2>3. /\ t.text[1] \in Strings \union Scalars \union {"[", "{"}
        /\ t.text[1] \in {"[", "{"} => MaxNesting # 0 /\ t.needs >= FirstCap
    BY <1>1, FirstTokenExpected
  <2>4. t.text[1] \in Expected
    BY <1>3, <2>1, <2>3, ExpectedIs
  <2> HIDE DEF next
  <2>5. blocks + Price <= t.needs /\ Len(tokens) + 1 <= Len(t.text)
    BY <1>2, <2>1
  <2>6. next \in {"[", "{"} => Len(stack) < MaxNesting /\ blocks + Price + FirstCap <= t.needs
    <3>1. SUFFICES ASSUME next \in {"[", "{"} PROVE Len(stack) < MaxNesting /\ blocks + Price + FirstCap <= t.needs
      OBVIOUS
    <3>2. t.text[1] \in {"[", "{"}
      BY <2>2, <3>1
    <3>3. MaxNesting # 0 /\ t.needs >= FirstCap
      BY <2>3, <3>2
    <3>4. Len(stack) < MaxNesting
      BY <1>1, <2>1, <3>3
    <3>5. blocks + Price + FirstCap = FirstCap
      BY <1>1, <2>1
    <3>6. FirstCap <= t.needs
      BY <1>1, <1>2, <3>3
    <3>7. QED BY <3>4, <3>5, <3>6
  <2>7. QED BY <1>2, <2>2, <2>4, <2>5, <2>6 DEF GoesAhead, next
<1>4. CASE stack # <<>>
  <2> DEFINE d == Len(stack)
             l == MaxNesting - d
             n == d - 1
  <2>1. PICK held, at, spent : IsOn(held, at, spent)
    BY <1>4, ReadingOn
  <2>2. IsLevel(d)
    BY <1>4, TopLevel
  <2>3. at[d] \in Nat /\ spent[d] \in Nat /\ Len(Top.items) = Len(held[d])
    BY <1>4, <2>1, ReadingTypes
  <2> DEFINE h == held[d]
             o == at[d]
             b == spent[d]
  <2>4. /\ Chain(tokens, stack, held, at, spent, n)
        /\ OnTop(wants, tokens, Top, h, o, l) /\ blocks = Used(Top, h, b)
    BY <2>1 DEF IsOn
  <2>5. /\ d \in Nat \ {0} /\ d <= MaxNesting /\ l \in 0..MaxNesting - 1 /\ n \in Nat /\ n <= MaxNesting
        /\ n + 1 = d /\ d \in 1..n + 1 /\ MaxNesting - n = l + 1 /\ Top \in Frames
        /\ \A j \in 1..n : stack[j] \in Frames
    BY <2>2 DEF IsLevel
  <2>6. Price = PriceOf(wants, Top, Len(h)) /\ Price \in Nat
    BY <1>4, <2>3, PriceIs, PriceNumber
  <2> HIDE DEF d, l, n, h, o, b, next
  <2>7. IsWithin(t, tokens, o, b, l + 1)
    <3>1. \A j \in 1..n + 1 : IsWithin(t, tokens, at[j], spent[j], MaxNesting - (j - 1))
      BY <1>2, <2>4, <2>5, Descend
    <3>2. MaxNesting - (d - 1) = l + 1
      BY <2>5 DEF n
    <3>3. QED BY <2>5, <3>1, <3>2 DEF o, b
  <2>8. PICK x \in TextsUpTo[l + 1] : Stands(t.text, o, x.text) /\ Agrees(x, tokens, o) /\ b + x.needs <= t.needs
    BY <2>7 DEF IsWithin
  <2>9. o \in Nat /\ b \in Nat
    BY <2>3 DEF o, b
  <2>10. PICK q : EndsAfter(tokens, o, q, x) /\ IsNext(wants, Top, h, x.text[q + 1], l, b, x.needs)
    BY <1>2, <2>4, <2>5, <2>8, <2>9, TopNext
  <2>11. IsText(x) /\ x.needs \in Nat /\ Len(x.text) \in Nat
    BY <2>5, TextsText, NestingTypes, LenProperties DEF IsText
  <2>12. Len(tokens) = o + q /\ q \in Nat /\ q + 1 <= Len(x.text)
    BY <2>10 DEF EndsAfter
  <2>13. q + 1 \in 1..Len(x.text) /\ o + (q + 1) = Len(tokens) + 1
    BY <2>9, <2>11, <2>12
  <2>14. t.text[o + (q + 1)] = x.text[q + 1] /\ o + Len(x.text) <= Len(t.text)
    BY <2>8, <2>13 DEF Stands
  <2>15. next = x.text[q + 1]
    BY <2>13, <2>14 DEF next
  <2>16. Len(tokens) + 1 <= Len(t.text)
    BY <1>2, <2>9, <2>11, <2>12, <2>14
  <2>17. /\ next \in ExpectedIn(wants, Top.type) /\ blocks + Price <= b + x.needs
         /\ next \in {"[", "{"} => l # 0 /\ blocks + Price + FirstCap <= b + x.needs
    BY <2>4, <2>6, <2>10, <2>15 DEF IsNext
  <2>18. next \in Expected
    BY <1>4, <2>17, ExpectedIs
  <2>19. blocks \in Nat
    BY DEF ParserTypes
  <2>20. blocks + Price <= t.needs
    <3>1. blocks + Price \in Nat
      BY <2>6, <2>19
    <3>2. x.needs \in Nat /\ t.needs \in Nat /\ b \in Nat /\ b + x.needs <= t.needs
          /\ blocks + Price <= b + x.needs
      BY <1>2, <2>8, <2>9, <2>11, <2>17
    <3>3. QED BY <3>1, <3>2, AtMost
  <2>21. next \in {"[", "{"} => blocks + Price + FirstCap <= t.needs
    <3>1. SUFFICES ASSUME next \in {"[", "{"} PROVE blocks + Price + FirstCap <= t.needs
      OBVIOUS
    <3>2. blocks + Price + FirstCap \in Nat
      BY <1>1, <2>6, <2>19
    <3>3. x.needs \in Nat /\ t.needs \in Nat /\ b \in Nat /\ b + x.needs <= t.needs
          /\ blocks + Price + FirstCap <= b + x.needs
      BY <1>2, <2>8, <2>9, <2>11, <2>17, <3>1
    <3>4. QED BY <3>2, <3>3, AtMost
  <2>22. l # 0 => d < MaxNesting
    BY <1>1, <2>5 DEF l
  <2>23. QED BY <1>2, <2>16, <2>17, <2>18, <2>20, <2>21, <2>22 DEF GoesAhead, next, d
<1>5. QED BY <1>3, <1>4

(* A leaf that is read is the only text that begins so. *)
LEMMA LeafIsRead ==
  ASSUME NEW s \in Seq(Tokens), NEW token \in Strings \union Scalars, NEW l \in 0..MaxNesting
  PROVE  \E x : IsTaken(x, Append(s, token), Len(s), l) /\ x.value = Leaf(token) /\ x.needs = 0
BY LeafReads DEF IsTaken

(* A value is complete. *)
LEMMA CompleteKeeps ==
  ASSUME NEW value, NEW frames \in Seq(Frames), Len(frames) <= MaxNesting, Complete(value, frames),
         tokens' \in Seq(Tokens), blocks' \in Nat, blocks' <= JsonRoom,
         Completes(tokens', value, frames, blocks')
  PROVE  ParserInv'
<1>1. CASE frames = <<>>
  <2>1. parsed' = value /\ stack' = <<>> /\ wants' = "end" /\ WasRead(tokens', value, blocks')
    BY <1>1 DEF Complete, Completes
  <2>2. stack' \in Seq(Frames) /\ Len(stack') <= MaxNesting
    BY <2>1, JsonAssumption
  <2>3. QED BY <2>1, <2>2 DEF ParserInv, ParserTypes
<1>2. CASE frames # <<>>
  <2> DEFINE frame2 == [Last(frames) EXCEPT !.items = Append(@, value)]
             frames2 == Append(Front(frames), frame2)
  <2>1. stack' = frames2 /\ wants' = "more"
    BY <1>2 DEF Complete
  <2>2. IsReplaced(frames2, frames, frame2, Frames) /\ Reading(tokens', "more", frames2, blocks')
    BY <1>2 DEF Completes
  <2> HIDE DEF frame2, frames2
  <2>3. stack' \in Seq(Frames) /\ Len(stack') <= MaxNesting
    BY <2>1, <2>2 DEF IsReplaced
  <2>4. Reading(tokens', wants', stack', blocks')
    BY <2>1, <2>2
  <2>5. QED BY <2>3, <2>4 DEF ParserInv, ParserTypes
<1>3. QED BY <1>1, <1>2

(* A string, a number or a literal is read. *)
LEMMA ScalarKeeps ==
  ASSUME ParserTypes, Reading(tokens, wants, stack, blocks), NEW token \in Strings \union Scalars, Scalar(token)
  PROVE  ParserInv'
<1> DEFINE d == Len(Grown)
           l == MaxNesting - d
           s2 == Append(tokens, token)
<1>1. /\ WantsValue /\ blocks + Price <= JsonRoom /\ Complete(Leaf(token), Grown)
      /\ blocks' = blocks + Price /\ tokens' = s2
  BY DEF Scalar, Reads
<1>2. token \in Tokens /\ token # "]"
  BY TokenTypes DEF Marks
<1>3. Grown \in Seq(Frames) /\ d = Len(stack) /\ IsElementBegun(s2, Grown, blocks + Price)
  BY <1>1, <1>2, ElementBegins
<1>4. d \in Nat /\ d <= MaxNesting /\ tokens \in Seq(Tokens) /\ blocks \in Nat
  BY <1>3, LenProperties DEF ParserTypes
<1>5. l \in 0..MaxNesting
  BY <1>4, LevelTypes
<1>6. s2 \in Seq(Tokens) /\ Len(s2) = Len(tokens) + 1 /\ Len(tokens) \in Nat
  BY <1>2, <1>4, Longer
<1>7. PICK x : IsTaken(x, s2, Len(tokens), l) /\ x.value = Leaf(token) /\ x.needs = 0
  BY <1>4, <1>5, LeafIsRead
<1> HIDE DEF s2, l
<1>8. PICK held, at, spent :
        /\ Chain(s2, Grown, held, at, spent, d)
        /\ Len(s2) = at[d + 1] + 1 /\ blocks + Price = spent[d + 1]
  BY <1>3 DEF IsElementBegun
<1>9. at[d + 1] \in Nat
  <2>1. \A j \in 1..d : Grown[j] \in Frames
    BY <1>3, ElementOfSeq
  <2> HIDE DEF d
  <2>2. \A j \in 1..d + 1 : at[j] \in Nat
    BY <1>4, <1>8, <2>1, ChainTypes
  <2>3. QED BY <1>4, <2>2
<1>10. blocks' \in Nat /\ blocks' <= JsonRoom /\ blocks' = spent[d + 1] + x.needs
  <2>1. Price \in Nat
    BY PriceNumber
  <2>2. blocks + Price \in Nat
    BY <1>4, <2>1
  <2>3. QED BY <1>1, <1>7, <1>8, <2>2
<1>11. at[d + 1] = Len(tokens)
  BY <1>6, <1>8, <1>9
<1>12. IsTaken(x, s2, at[d + 1], MaxNesting - d)
  BY <1>7, <1>11 DEF l
<1>13. Completes(s2, x.value, Grown, blocks')
  BY <1>3, <1>4, <1>6, <1>8, <1>10, <1>12, ElementEnds
<1>14. QED BY <1>1, <1>3, <1>4, <1>6, <1>7, <1>10, <1>13, CompleteKeeps

(* A container that begins joins the stack. *)
LEMMA ParserOpens ==
  ASSUME NEW s, NEW frames \in Seq(Frames), NEW held, NEW at, NEW spent,
         Chain(s, frames, held, at, spent, Len(frames)),
         NEW frame \in Frames, AfterElement(s, frame, <<>>, at[Len(frames) + 1], MaxNesting - (Len(frames) + 1)),
         NEW b, b = Used(frame, <<>>, spent[Len(frames) + 1])
  PROVE  Reading(s, "first", Append(frames, frame), b)
<1> DEFINE d == Len(frames)
           k == d + 1
           frames2 == Append(frames, frame)
           held2 == [j \in 1..k |-> IF j = k THEN <<>> ELSE held[j]]
<1>1. /\ d \in Nat /\ frames2 # <<>> /\ Len(frames2) = k /\ frames2[k] = frame
      /\ \A j \in 1..d : frames2[j] = frames[j]
  BY LenProperties, AppendProperties
<1> HIDE DEF d, frames2
<1>2. k \in 1..k /\ k - 1 = d /\ \A j \in 1..d : j \in 1..k /\ j # k
  BY <1>1
<1>3. held2[k] = <<>> /\ \A j \in 1..d : held2[j] = held[j]
  BY <1>2
<1> HIDE DEF held2
<1>4. Chain(s, frames2, held2, at, spent, d)
  <2>1. Chain(s, frames, held, at, spent, d)
    BY DEF d
  <2>2. QED BY <1>1, <1>3, <2>1, ChainSame
<1>5. OnTop("first", s, frame, <<>>, at[k], MaxNesting - k)
  BY DEF OnTop, d
<1>6. OnTop("first", s, frames2[k], held2[k], at[k], MaxNesting - k) /\ b = Used(frames2[k], held2[k], spent[k])
  BY <1>1, <1>3, <1>5 DEF d
<1> HIDE DEF k
<1>7. \E held3, at3, spent3 :
          /\ Chain(s, frames2, held3, at3, spent3, k - 1)
          /\ OnTop("first", s, frames2[k], held3[k], at3[k], MaxNesting - k)
          /\ b = Used(frames2[k], held3[k], spent3[k])
  BY <1>2, <1>4, <1>6
<1>8. QED BY <1>1, <1>7 DEF Reading, frames2

(* A container begins. *)
LEMMA OpenKeeps ==
  ASSUME ParserTypes, Reading(tokens, wants, stack, blocks), NEW type \in Types, Open(type)
  PROVE  ParserInv'
<1> DEFINE d == Len(Grown)
           l == MaxNesting - (d + 1)
           c == Opener(type)
           s2 == Append(tokens, c)
           frame == [type |-> type, keys |-> <<>>, items |-> <<>>, cap |-> FirstCap]
<1>1. /\ WantsValue /\ Len(stack) < MaxNesting /\ blocks + Price + FirstCap <= JsonRoom
      /\ stack' = Append(Grown, frame) /\ blocks' = blocks + Price + FirstCap
      /\ wants' = "first" /\ tokens' = s2
  BY DEF Open, Reads
<1>2. c \in Tokens /\ c # "]"
  BY TokenTypes, MarkTypes
<1>3. Grown \in Seq(Frames) /\ d = Len(stack) /\ IsElementBegun(s2, Grown, blocks + Price)
  BY <1>1, <1>2, ElementBegins
<1>4. d \in Nat /\ d <= MaxNesting /\ d < MaxNesting /\ tokens \in Seq(Tokens) /\ blocks \in Nat
  BY <1>1, <1>3, LenProperties DEF ParserTypes
<1> HIDE DEF d
<1>5. l \in 0..MaxNesting - 1 /\ d + 1 <= MaxNesting
  BY <1>4, LevelTypes
<1>6. s2 \in Seq(Tokens) /\ Len(s2) = Len(tokens) + 1 /\ Len(tokens) \in Nat
  BY <1>2, <1>4, Longer
<1> HIDE DEF l
<1>7. /\ frame \in Frames /\ AfterElement(s2, frame, <<>>, Len(tokens), l)
      /\ \A b \in Nat : Used(frame, <<>>, b) = b + FirstCap
  BY <1>4, <1>5, ContainerBegins
<1> HIDE DEF s2, frame, c
<1>8. PICK held, at, spent :
        /\ Chain(s2, Grown, held, at, spent, d)
        /\ Len(s2) = at[d + 1] + 1 /\ blocks + Price = spent[d + 1]
  BY <1>3 DEF IsElementBegun, d
<1>9. at[d + 1] \in Nat /\ spent[d + 1] \in Nat
  <2>1. \A j \in 1..d : Grown[j] \in Frames
    BY <1>3, ElementOfSeq DEF d
  <2>2. \A j \in 1..d + 1 : at[j] \in Nat /\ spent[j] \in Nat
    BY <1>4, <1>8, <2>1, ChainTypes
  <2>3. QED BY <1>4, <2>2
<1>10. at[d + 1] = Len(tokens)
  BY <1>6, <1>8, <1>9
<1>11. blocks' = Used(frame, <<>>, spent[d + 1]) /\ blocks' \in Nat /\ blocks' <= JsonRoom
  <2>1. blocks' = spent[d + 1] + FirstCap /\ FirstCap \in Nat
    BY <1>1, <1>8, JsonAssumption
  <2>2. Used(frame, <<>>, spent[d + 1]) = spent[d + 1] + FirstCap
    BY <1>7, <1>9
  <2>3. blocks' \in Nat
    BY <1>9, <2>1
  <2>4. blocks' <= JsonRoom
    BY <1>1
  <2>5. QED BY <2>1, <2>2, <2>3, <2>4
<1>12. Reading(s2, "first", Append(Grown, frame), blocks')
  BY <1>3, <1>7, <1>8, <1>10, <1>11, ParserOpens DEF d, l
<1>13. stack' \in Seq(Frames) /\ Len(stack') <= MaxNesting
  <2>1. Append(Grown, frame) \in Seq(Frames) /\ Len(Append(Grown, frame)) = d + 1
    BY <1>3, <1>7, AppendProperties DEF d
  <2>2. QED BY <1>1, <1>5, <2>1
<1>14. Reading(tokens', wants', stack', blocks')
  BY <1>1, <1>12
<1>15. QED BY <1>1, <1>6, <1>11, <1>13, <1>14 DEF ParserInv, ParserTypes

(* A container ends. *)
LEMMA CloseKeeps ==
  ASSUME ParserTypes, Reading(tokens, wants, stack, blocks), Close
  PROVE  ParserInv'
<1> DEFINE d == Len(stack)
           l == MaxNesting - d
           n == d - 1
           s2 == Append(tokens, Ender(Top.type))
           frames == Front(stack)
           value == Node(Top.type, "", Top.keys, Top.items)
<1>1. /\ wants \in {"first", "more"} /\ stack # <<>> /\ Complete(value, frames)
      /\ tokens' = s2 /\ blocks' = blocks
  BY DEF Close, Reads
<1>2. PICK held, at, spent : IsOn(held, at, spent)
  BY <1>1, ReadingOn
<1>3. IsLevel(d)
  BY <1>1, TopLevel
<1>4. at[d] \in Nat /\ spent[d] \in Nat
  BY <1>1, <1>2, ReadingTypes
<1> DEFINE h == held[d]
           o == at[d]
           b == spent[d]
           x == ContainerText(Top.type, Top.keys, h)
<1>5. /\ Chain(tokens, stack, held, at, spent, n)
      /\ OnTop(wants, tokens, Top, h, o, l) /\ blocks = Used(Top, h, b)
  BY <1>2 DEF IsOn
<1>6. /\ d \in Nat \ {0} /\ d <= MaxNesting /\ l \in 0..MaxNesting - 1 /\ n \in Nat /\ n <= MaxNesting
      /\ n + 1 = d /\ d \in 1..n + 1 /\ MaxNesting - n = l + 1 /\ Top \in Frames
      /\ \A j \in 1..n : stack[j] \in Frames
  BY <1>3 DEF IsLevel
<1>7. AfterElement(tokens, Top, h, o, l)
  BY <1>1, <1>5 DEF OnTop
<1>8. frames \in Seq(Frames) /\ Len(frames) = n /\ \A j \in 1..n : frames[j] = stack[j]
  BY <1>1, FrontIs DEF ParserTypes
<1>9. Ender(Top.type) \in Tokens
  BY <1>6, TokenTypes, FrameTypes
<1>10. s2 \in Seq(Tokens) /\ tokens \in Seq(Tokens)
  BY <1>9, Longer DEF ParserTypes
<1> HIDE DEF d, l, n, frames, h, o, b, x
<1>11. /\ x \in TextsUpTo[l + 1] /\ x.value = value
       /\ Stands(s2, o, x.text) /\ Len(s2) = o + Len(x.text)
       /\ \A y \in TextsUpTo[l + 1] : Agrees(y, s2, o) => y = x
       /\ \A a \in Nat : Used(Top, h, a) = a + x.needs
  <2>1. IsEnded(x, s2, Top, h, o, l)
    BY <1>6, <1>7, <1>10, ContainerEnds DEF x
  <2>2. QED BY <2>1 DEF IsEnded
<1> HIDE DEF s2, value
<1>12. Chain(s2, frames, held, at, spent, n)
  <2>1. Chain(s2, stack, held, at, spent, n)
    BY <1>5, <1>6, <1>9, <1>10, ChainLonger DEF s2
  <2>2. QED BY <1>6, <1>8, <2>1, ChainSame
<1>13. blocks = spent[n + 1] + x.needs /\ blocks \in Nat /\ blocks <= JsonRoom
  BY <1>4, <1>5, <1>6, <1>11 DEF b, ParserTypes
<1>14. IsTaken(x, s2, at[n + 1], MaxNesting - n)
  BY <1>6, <1>11 DEF IsTaken, o
<1>15. Completes(s2, x.value, frames, blocks)
  BY <1>6, <1>8, <1>10, <1>12, <1>13, <1>14, ElementEnds
<1>16. QED BY <1>1, <1>6, <1>8, <1>10, <1>11, <1>13, <1>15, CompleteKeeps

(* A sequence without what was appended. *)
LEMMA FrontAppend ==
  ASSUME NEW S, NEW p \in Seq(S), NEW y \in S
  PROVE  Front(Append(p, y)) = p /\ Last(Append(p, y)) = y
<1> DEFINE q == Append(p, y)
<1>1. q \in Seq(S) /\ q # <<>> /\ Len(q) = Len(p) + 1 /\ (\A j \in 1..Len(p) : q[j] = p[j])
      /\ q[Len(p) + 1] = y /\ Len(p) \in Nat
  BY AppendProperties, LenProperties
<1> HIDE DEF q
<1>2. /\ Front(q) \in Seq(S) /\ Len(Front(q)) = Len(q) - 1
      /\ (\A j \in 1..Len(q) - 1 : Front(q)[j] = q[j]) /\ Last(q) = q[Len(q)]
  BY <1>1, FrontIs
<1>3. Len(q) - 1 = Len(p)
  BY <1>1
<1>4. Front(q) = p
  BY <1>1, <1>2, <1>3, SeqEqual
<1>5. QED BY <1>1, <1>2, <1>4 DEF q

(* A frame with a key more. *)
LEMMA KeysGrown ==
  ASSUME NEW type, NEW keys, NEW items, NEW cap, NEW token
  PROVE  [[type |-> type, keys |-> keys, items |-> items, cap |-> cap] EXCEPT !.keys = Append(@, token)] =
           [type |-> type, keys |-> Append(keys, token), items |-> items, cap |-> cap]
OBVIOUS

(* A key is read. *)
LEMMA KeyKeeps ==
  ASSUME ParserTypes, Reading(tokens, wants, stack, blocks), NEW token \in Strings, Key(token)
  PROVE  ParserInv'
<1> DEFINE d == Len(stack)
           l == MaxNesting - d
           n == d - 1
           s2 == Append(tokens, token)
<1>1. /\ WantsKey /\ blocks + Price <= JsonRoom
      /\ stack' = Append(Front(Grown), [Last(Grown) EXCEPT !.keys = Append(@, token)])
      /\ blocks' = blocks + Price /\ wants' = "colon" /\ tokens' = s2
  BY DEF Key, Reads
<1>2. stack # <<>>
  BY <1>1 DEF WantsKey, InObject, Reading
<1>3. PICK held, at, spent : IsOn(held, at, spent)
  BY <1>2, ReadingOn
<1>4. IsLevel(d)
  BY <1>2, TopLevel
<1>5. at[d] \in Nat /\ spent[d] \in Nat /\ Len(Top.items) = Len(held[d])
  BY <1>2, <1>3, ReadingTypes
<1> DEFINE h == held[d]
           o == at[d]
           b == spent[d]
           cap == CapOf(wants, Top, Len(h))
           frame1 == [type |-> Top.type, keys |-> Top.keys, items |-> Top.items, cap |-> cap]
           frame2 == [type |-> Top.type, keys |-> Append(Top.keys, token), items |-> Top.items, cap |-> cap]
<1>6. /\ Chain(tokens, stack, held, at, spent, n)
      /\ OnTop(wants, tokens, Top, h, o, l) /\ blocks = Used(Top, h, b)
  BY <1>3 DEF IsOn
<1>7. /\ d \in Nat \ {0} /\ d <= MaxNesting /\ l \in 0..MaxNesting - 1 /\ n \in Nat /\ n <= MaxNesting
      /\ Top \in Frames /\ \A j \in 1..n : stack[j] \in Frames
  BY <1>4 DEF IsLevel
<1>8. wants \in {"first", "key"} /\ Top.type = "object"
  <2>1. wants = "key" \/ (wants = "first" /\ Top.type = "object")
    BY <1>1 DEF WantsKey, InObject, Top
  <2>2. wants = "key" => Top.type = "object"
    BY <1>6 DEF OnTop
  <2>3. QED BY <2>1, <2>2
<1>9. token \in Tokens /\ tokens \in Seq(Tokens) /\ stack \in Seq(Frames)
  BY TokenTypes DEF ParserTypes
<1>10. s2 \in Seq(Tokens)
  BY <1>9, Longer
<1>11. IsTopKey(s2, wants, Top, frame2, h, o, l)
  <2> HIDE DEF h, o, l
  <2>1. QED BY <1>6, <1>7, <1>8, <1>9, TopKey
<1>12. Grown = Append(Front(stack), frame1)
  BY <1>2, <1>5, <1>9, GrownIs
<1>13. Price = PriceOf(wants, Top, Len(h)) /\ Price \in Nat
  BY <1>2, <1>5, PriceIs, PriceNumber
<1>14. [frame1 EXCEPT !.keys = Append(@, token)] = frame2
  <2> HIDE DEF cap
  <2>1. QED BY KeysGrown
<1>15. frame1 \in Frames
  <2>1. cap \in Nat
    <3>1. frame2 \in Frames
      BY <1>11 DEF IsTopKey
    <3>2. frame2.cap = cap
      OBVIOUS
    <3> HIDE DEF frame2, cap
    <3>3. QED BY <3>1, <3>2, FrameTypes
  <2> HIDE DEF cap
  <2>2. QED BY <1>7, <2>1, FrameTypes DEF Frames
<1> HIDE DEF frame1, frame2, h, o, b, cap, s2
<1>16. stack' = Append(Front(stack), frame2)
  <2>1. Front(stack) \in Seq(Frames)
    BY <1>2, <1>9, FrontIs
  <2>2. Front(Grown) = Front(stack) /\ Last(Grown) = frame1
    BY <1>12, <1>15, <2>1, FrontAppend
  <2>3. QED BY <1>1, <1>14, <2>2
<1>17. frame2 \in Frames /\ AfterKey(s2, frame2, h, o, l) /\ Used(frame2, h, b) = blocks + Price
  BY <1>5, <1>6, <1>11, <1>13 DEF IsTopKey, b
<1>18. Chain(s2, stack, held, at, spent, n)
  BY <1>6, <1>7, <1>9, ChainLonger DEF s2
<1>19. OnTop("colon", s2, frame2, h, at[Len(stack)], MaxNesting - Len(stack))
  BY <1>17 DEF OnTop, o
<1>20. blocks' = Used(frame2, h, spent[Len(stack)])
  BY <1>1, <1>17 DEF b
<1>21. /\ IsReplaced(stack', stack, frame2, Frames) /\ Reading(s2, "colon", stack', blocks')
  BY <1>2, <1>9, <1>16, <1>17, <1>18, <1>19, <1>20, ReplacedReads
<1>22. stack' \in Seq(Frames) /\ Len(stack') <= MaxNesting
  BY <1>7, <1>21 DEF IsReplaced
<1>23. blocks' \in Nat /\ blocks' <= JsonRoom
  <2>1. blocks \in Nat
    BY DEF ParserTypes
  <2>2. QED BY <1>1, <1>13, <2>1
<1>24. Reading(tokens', wants', stack', blocks')
  BY <1>1, <1>21
<1>25. QED BY <1>1, <1>10, <1>22, <1>23, <1>24 DEF ParserInv, ParserTypes

(* A colon or a comma is read. *)
LEMMA ColonKeeps ==
  ASSUME ParserTypes, Reading(tokens, wants, stack, blocks), Colon \/ Comma
  PROVE  ParserInv'
<1> DEFINE d == Len(stack)
           l == MaxNesting - d
           n == d - 1
<1>1. /\ stack' = stack /\ blocks' = blocks
      /\ \/ wants = "colon" /\ wants' = "value" /\ tokens' = Append(tokens, ":")
         \/ /\ wants = "more" /\ Len(Top.items) < MaxElements /\ tokens' = Append(tokens, ",")
            /\ wants' = IF InObject THEN "key" ELSE "value"
  BY DEF Colon, Comma, Reads
<1>2. stack # <<>>
  BY <1>1 DEF Reading
<1>3. PICK held, at, spent : IsOn(held, at, spent)
  BY <1>2, ReadingOn
<1>4. IsLevel(d)
  BY <1>2, TopLevel
<1>5. at[d] \in Nat /\ spent[d] \in Nat /\ Len(Top.items) = Len(held[d])
  BY <1>2, <1>3, ReadingTypes
<1> DEFINE h == held[d]
           o == at[d]
           b == spent[d]
<1>6. /\ Chain(tokens, stack, held, at, spent, n)
      /\ OnTop(wants, tokens, Top, h, o, l) /\ blocks = Used(Top, h, b)
  BY <1>3 DEF IsOn
<1>7. /\ d \in Nat \ {0} /\ d <= MaxNesting /\ l \in 0..MaxNesting - 1 /\ n \in Nat /\ n <= MaxNesting
      /\ Top \in Frames /\ Top = stack[d] /\ \A j \in 1..n : stack[j] \in Frames
  BY <1>4 DEF IsLevel
<1>8. tokens \in Seq(Tokens) /\ ":" \in Tokens /\ "," \in Tokens /\ Top.type \in Types
  BY <1>7, TokenTypes, FrameTypes DEF ParserTypes, Marks
<1>9. tokens' \in Seq(Tokens)
  BY <1>1, <1>8, Longer
<1>10. OnTop(wants', tokens', Top, h, o, l)
  <2> HIDE DEF d, l, n, h, o, b
  <2>1. CASE wants = "colon" /\ wants' = "value" /\ tokens' = Append(tokens, ":")
    <3>1. AfterKey(tokens, Top, h, o, l)
      BY <1>6, <2>1 DEF OnTop
    <3>2. AfterColon(Append(tokens, ":"), Top, h, o, l)
      BY <1>7, <1>8, <3>1, ColonReads
    <3>3. QED BY <2>1, <3>2 DEF OnTop
  <2>2. CASE /\ wants = "more" /\ Len(Top.items) < MaxElements /\ tokens' = Append(tokens, ",")
             /\ wants' = IF InObject THEN "key" ELSE "value"
    <3>1. h # <<>> /\ AfterElement(tokens, Top, h, o, l)
      BY <1>6, <2>2 DEF OnTop
    <3>2. Len(h) < MaxElements
      BY <1>5, <2>2 DEF h
    <3>3. AfterComma(Append(tokens, ","), Top, h, o, l)
      BY <1>7, <1>8, <3>1, <3>2, CommaReads
    <3>4. (Top.type = "object" /\ wants' = "key") \/ (Top.type = "array" /\ wants' = "value")
      BY <1>2, <1>8, <2>2 DEF InObject, Types, Top
    <3>5. QED BY <2>2, <3>3, <3>4 DEF OnTop
  <2>3. QED BY <1>1, <2>1, <2>2
<1> HIDE DEF d, l, n, h, o, b
<1>11. Chain(tokens', stack, held, at, spent, n)
  BY <1>1, <1>6, <1>7, <1>8, ChainLonger
<1>12. Reading(tokens', wants', stack, blocks)
  <2>1. /\ Chain(tokens', stack, held, at, spent, d - 1)
        /\ OnTop(wants', tokens', stack[d], held[d], at[d], MaxNesting - d)
        /\ blocks = Used(stack[d], held[d], spent[d])
    BY <1>6, <1>7, <1>10, <1>11 DEF h, o, b, l, n
  <2>2. QED BY <1>2, <2>1 DEF Reading, d
<1>13. Reading(tokens', wants', stack', blocks')
  BY <1>1, <1>12
<1>14. stack' \in Seq(Frames) /\ Len(stack') <= MaxNesting /\ blocks' \in Nat /\ blocks' <= JsonRoom
  BY <1>1 DEF ParserTypes
<1>15. QED BY <1>9, <1>13, <1>14 DEF ParserInv, ParserTypes

(* The text ends after a value: it is one of the reference. *)
LEMMA EndReads ==
  ASSUME ParserTypes, stack = <<>>, WasRead(tokens, parsed, blocks), TextEnds
  PROVE  ParserInv'
<1>1. wants' = "ok" /\ tokens' = Append(tokens, EndOfText) /\ stack' = stack /\ parsed' = parsed /\ blocks' = blocks
  BY DEF TextEnds, Reads
<1>2. EndOfText \in Tokens /\ tokens \in Seq(Tokens)
  BY TokenTypes DEF Marks, ParserTypes
<1>3. Append(tokens, EndOfText) \in Seq(Tokens) /\ Front(Append(tokens, EndOfText)) = tokens
  BY <1>2, FrontAppend, Longer
<1>4. PICK x \in TextsUpTo[MaxNesting] : x.text = tokens /\ x.value = parsed /\ x.needs = blocks
  BY DEF WasRead
<1>5. x \in Texts
  BY <1>4 DEF Texts, ParserTypes
<1>6. NamedRight(x)
  <2>1. MaxNesting \in 0..MaxNesting
    BY JsonAssumption
  <2>2. QED BY <2>1, TextsNamed
<1>7. \A key \in Strings : Get(parsed, key) = IF key \in DOMAIN x.named THEN x.named[key] ELSE NoNode
  BY <1>4, <1>6 DEF NamedRight
<1>8. x.text = Front(tokens') /\ x.value = parsed' /\ x.needs = blocks'
      /\ \A key \in Strings : Get(parsed', key) = IF key \in DOMAIN x.named THEN x.named[key] ELSE NoNode
  BY <1>1, <1>3, <1>4, <1>7
<1>9. JsonIsRead'
  BY <1>1, <1>5, <1>8 DEF JsonIsRead
<1>10. ParserTypes'
  BY <1>1, <1>3 DEF ParserTypes
<1>11. QED BY <1>1, <1>9, <1>10 DEF ParserInv
(* No text that begins with what was read goes on with token. *)
EndsHere(token) ==
  \A t \in Texts :
    Agrees(t, tokens, 0) =>
      IF token = EndOfText THEN Len(t.text) # Len(tokens)
      ELSE ~(Len(tokens) + 1 <= Len(t.text) /\ t.text[Len(tokens) + 1] = token)

(* What begins a text agrees with it, and the text goes on. *)
LEMMA BeginningAgrees ==
  ASSUME NEW s \in Seq(Tokens), NEW c \in Tokens, Append(s, c) \in Beginnings
  PROVE  \E t \in Texts : Agrees(t, s, 0) /\ Len(s) + 1 <= Len(t.text) /\ t.text[Len(s) + 1] = c
<1> DEFINE s2 == Append(s, c)
<1>1. PICK t \in Texts : \E i \in 0..Len(t.text) : s2 = SubSeq(t.text, 1, i)
  BY DEF Beginnings
<1>2. PICK i \in 0..Len(t.text) : s2 = SubSeq(t.text, 1, i)
  BY <1>1
<1>3. IsText(t)
  BY TextsText, JsonAssumption DEF Texts
<1>4. t.text \in Seq(Tokens) /\ Len(t.text) \in Nat /\ i \in Nat /\ i <= Len(t.text) /\ i \in Int /\ 1 \in Int
  BY <1>3, LenProperties DEF IsText
<1>5. \A j \in 1..i : t.text[j] \in Tokens
  BY <1>4, ElementOfSeq
<1>6. /\ Len(SubSeq(t.text, 1, i)) = (IF 1 <= i THEN i - 1 + 1 ELSE 0)
      /\ \A j \in 1..i - 1 + 1 : SubSeq(t.text, 1, i)[j] = t.text[1 + j - 1]
  BY <1>4, <1>5, SubSeqProperties
<1>7. Len(s) \in Nat /\ Len(s2) = Len(s) + 1 /\ s2[Len(s) + 1] = c /\ \A j \in 1..Len(s) : s2[j] = s[j]
  BY Longer
<1> HIDE DEF s2
<1>8. Len(s2) = i /\ i = Len(s) + 1
  BY <1>2, <1>4, <1>6, <1>7
<1>9. ASSUME NEW j \in 1..i PROVE s2[j] = t.text[j]
  <2>1. j \in 1..i - 1 + 1 /\ 1 + j - 1 = j
    BY <1>4
  <2>2. QED BY <1>2, <1>6, <2>1
<1>10. Agrees(t, s, 0)
  <2>1. SUFFICES ASSUME NEW q \in 1..Len(t.text), 0 + q <= Len(s) PROVE s[0 + q] = t.text[q]
    BY DEF Agrees
  <2>2. q \in 1..Len(s) /\ q \in 1..i /\ 0 + q = q
    BY <1>4, <1>7, <1>8, <2>1
  <2>3. QED BY <1>7, <1>9, <2>2
<1>11. Len(s) + 1 <= Len(t.text) /\ t.text[Len(s) + 1] = c
  <2>1. i \in 1..i
    BY <1>4, <1>7, <1>8
  <2>2. QED BY <1>4, <1>7, <1>8, <1>9, <2>1
<1>12. QED BY <1>10, <1>11

(* The parser may give up where no text goes on so. *)
LEMMA FailKeeps ==
  ASSUME ParserTypes, NEW token \in Tokens, EndsHere(token), Reads(token), wants' \in {"invalid", "full"},
         UNCHANGED <<stack, parsed, blocks>>
  PROVE  ParserInv'
<1>1. tokens \in Seq(Tokens) /\ tokens' = Append(tokens, token)
  BY DEF ParserTypes, Reads
<1>2. tokens' \in Seq(Tokens) /\ Front(tokens') = tokens /\ Last(tokens') = token /\ Len(tokens) \in Nat
  BY <1>1, FrontAppend, Longer
<1>3. CASE token = EndOfText
  <2>1. SUFFICES ASSUME NEW t \in Texts, t.text = tokens PROVE FALSE
    <3>1. (\A t \in Texts : t.text # tokens) => tokens \notin {t.text : t \in Texts}
      OBVIOUS
    <3>2. tokens \notin {t.text : t \in Texts} => JsonIsRead'
      BY <1>2, <1>3 DEF JsonIsRead
    <3>3. JsonIsRead' => ParserInv'
      BY <1>2 DEF ParserInv, ParserTypes
    <3>4. QED BY <3>1, <3>2, <3>3
  <2>2. Agrees(t, tokens, 0)
    BY <1>2, <2>1 DEF Agrees
  <2>3. QED BY <1>3, <2>1, <2>2 DEF EndsHere
<1>4. CASE token # EndOfText
  <2>1. tokens' \notin Beginnings
    <3>1. SUFFICES ASSUME tokens' \in Beginnings PROVE FALSE
      OBVIOUS
    <3>2. PICK t \in Texts : Agrees(t, tokens, 0) /\ Len(tokens) + 1 <= Len(t.text) /\ t.text[Len(tokens) + 1] = token
      BY <1>1, <3>1, BeginningAgrees
    <3>3. QED BY <1>4, <3>2 DEF EndsHere
  <2>2. JsonIsRead'
    BY <1>2, <1>4, <2>1 DEF JsonIsRead
  <2>3. QED BY <1>2, <2>2 DEF ParserInv, ParserTypes
<1>5. QED BY <1>3, <1>4

(* The texts that there is nesting and room for. *)
LEMMA JsonTypes ==
  ASSUME NEW t \in Texts
  PROVE  t \in TextsUpTo[MaxNesting] /\ t.needs \in Nat /\ t.needs <= JsonRoom /\ Len(t.text) \in Nat
BY TextsText, JsonAssumption, LenProperties DEF Texts, IsText

(* The parser gives up in the middle only where no text goes on so. *)
LEMMA ReadingEndsHere ==
  ASSUME ParserTypes, Reading(tokens, wants, stack, blocks), NEW token \in Tokens, Invalid(token) \/ NoRoom(token)
  PROVE  EndsHere(token)
<1> SUFFICES ASSUME NEW t \in Texts, Agrees(t, tokens, 0)
             PROVE  IF token = EndOfText THEN Len(t.text) # Len(tokens)
                    ELSE ~(Len(tokens) + 1 <= Len(t.text) /\ t.text[Len(tokens) + 1] = token)
  BY DEF EndsHere
<1> DEFINE next == t.text[Len(tokens) + 1]
<1>1. t \in TextsUpTo[MaxNesting] /\ t.needs \in Nat /\ t.needs <= JsonRoom
  BY JsonTypes
<1>2. GoesAhead(t)
  BY <1>1, TextGoesAhead
<1>3. /\ Len(tokens) \in Nat /\ Len(t.text) \in Nat /\ Len(tokens) + 1 <= Len(t.text)
      /\ next \in Expected /\ blocks + Price <= t.needs
  BY <1>2 DEF GoesAhead
<1>4. ASSUME next \in {"[", "{"} PROVE Len(stack) < MaxNesting /\ blocks + Price + FirstCap <= t.needs
  BY <1>2, <1>4 DEF GoesAhead
<1>5. blocks \in Nat /\ Price \in Nat /\ FirstCap \in Nat /\ JsonRoom \in Nat /\ Len(stack) \in Nat /\ MaxNesting \in Nat
  BY PriceNumber, JsonAssumption, LenProperties DEF ParserTypes
<1> HIDE DEF next
<1>6. Len(t.text) # Len(tokens)
  <2>1. Len(tokens) \in Nat /\ Len(t.text) \in Nat /\ Len(tokens) + 1 <= Len(t.text)
    BY <1>3
  <2>2. QED BY <2>1
<1>7. ~(blocks + Price > JsonRoom)
  <2>1. blocks + Price \in Nat /\ blocks + Price <= t.needs
    BY <1>3, <1>5
  <2>2. QED BY <1>1, <1>5, <2>1
<1>8. next # token
  <2>1. SUFFICES ASSUME next = token PROVE FALSE
    OBVIOUS
  <2>2. ASSUME token \in {"[", "{"}
        PROVE  ~(Len(stack) >= MaxNesting) /\ ~(blocks + Price + FirstCap > JsonRoom)
    <3>1. Len(stack) < MaxNesting /\ blocks + Price + FirstCap <= t.needs
      BY <1>4, <2>1, <2>2
    <3>2. blocks + Price + FirstCap \in Nat
      BY <1>5
    <3> HIDE <2>2
    <3>3. ~(Len(stack) >= MaxNesting)
      BY <1>5, <3>1
    <3>4. ~(blocks + Price + FirstCap > JsonRoom)
      BY <1>1, <1>5, <3>1, <3>2
    <3>5. QED BY <3>3, <3>4
  <2>3. CASE Invalid(token)
    <3>1. token \notin Expected \/ (token \in {"[", "{"} /\ Len(stack) >= MaxNesting)
      BY <2>3 DEF Invalid
    <3>2. token \in Expected
      BY <1>3, <2>1
    <3>3. QED BY <2>2, <3>1, <3>2
  <2>4. CASE NoRoom(token)
    <3>1. blocks + Price > JsonRoom \/ (token \in {"[", "{"} /\ blocks + Price + FirstCap > JsonRoom)
      BY <2>4 DEF NoRoom
    <3>2. QED BY <1>7, <2>2, <3>1
  <2>5. QED BY <2>3, <2>4
<1>9. QED BY <1>6, <1>8 DEF next

(* After the whole value, too. *)
LEMMA WholeEndsHere ==
  ASSUME ParserTypes, wants = "end", stack = <<>>, WasRead(tokens, parsed, blocks), NEW token \in Tokens,
         Invalid(token) \/ NoRoom(token)
  PROVE  EndsHere(token)
<1>1. Price = 0 /\ blocks \in Nat /\ blocks <= JsonRoom /\ JsonRoom \in Nat /\ ~WantsValue
  BY PriceIs, JsonAssumption DEF ParserTypes, WantsValue
<1>2. ~NoRoom(token)
  <2>1. ~(blocks + Price > JsonRoom)
    BY <1>1
  <2>2. QED BY <1>1, <2>1 DEF NoRoom
<1>3. token \notin Expected \/ token \in {"[", "{"}
  BY <1>2 DEF Invalid
<1>4. EndOfText \in Expected
  BY DEF Expected
<1>5. token # EndOfText
  BY <1>3, <1>4 DEF EndOfText
<1>6. PICK x \in TextsUpTo[MaxNesting] :
        x.text = tokens /\ \A t \in TextsUpTo[MaxNesting] : Agrees(t, tokens, 0) => t = x
  BY DEF WasRead
<1>7. ASSUME NEW t \in Texts, Agrees(t, tokens, 0) PROVE ~(Len(tokens) + 1 <= Len(t.text))
  <2>1. Len(t.text) = Len(tokens) /\ Len(tokens) \in Nat
    BY <1>6, <1>7, JsonTypes
  <2>2. QED BY <2>1
<1>8. QED BY <1>5, <1>7 DEF EndsHere

(* The invariant holds at first. *)
LEMMA ParserInitially == JsonInit => ParserInv
<1>1. SUFFICES ASSUME JsonInit PROVE ParserInv
  OBVIOUS
<1>2. tokens = <<>> /\ wants = "value" /\ stack = <<>> /\ blocks = 0
  BY <1>1 DEF JsonInit
<1>3. Reading(tokens, wants, stack, blocks)
  BY <1>2 DEF Reading
<1>4. ParserTypes
  BY <1>2, JsonAssumption DEF ParserTypes
<1>5. QED BY <1>3, <1>4 DEF ParserInv

(* And every token keeps it. *)
LEMMA ParserSteps == ParserInv /\ [JsonNext]_jsonVars => ParserInv'
<1>1. SUFFICES ASSUME ParserInv, [JsonNext]_jsonVars PROVE ParserInv'
  OBVIOUS
<1>2. ParserTypes
  BY <1>1 DEF ParserInv
<1>3. /\ Reading(tokens, wants, stack, blocks) => wants \in {"value", "first", "more", "key", "colon"}
      /\ wants \in {"value", "first", "more", "key", "colon"} => Reading(tokens, wants, stack, blocks)
      /\ wants = "end" => stack = <<>> /\ WasRead(tokens, parsed, blocks)
      /\ wants \in {"value", "first", "more", "key", "colon", "end", "ok", "invalid", "full"}
  <2>1. Reading(tokens, wants, stack, blocks) => wants \in {"value", "first", "more", "key", "colon"}
    <3>1. CASE stack = <<>>
      BY <3>1 DEF Reading
    <3>2. CASE stack # <<>>
      BY <1>2, <3>2, ReadingOn, ReadingTypes
    <3>3. QED BY <3>1, <3>2
  <2>2. QED BY <1>1, <2>1 DEF ParserInv
<1>4. ASSUME NEW token \in Strings \union Scalars, Scalar(token) PROVE ParserInv'
  <2>1. wants \in {"value", "first"}
    BY <1>4 DEF Scalar, WantsValue
  <2>2. QED BY <1>2, <1>3, <1>4, <2>1, ScalarKeeps
<1>5. ASSUME NEW token \in Strings, Key(token) PROVE ParserInv'
  <2>1. wants \in {"key", "first"}
    BY <1>5 DEF Key, WantsKey
  <2>2. QED BY <1>2, <1>3, <1>5, <2>1, KeyKeeps
<1>6. ASSUME NEW type \in Types, Open(type) PROVE ParserInv'
  <2>1. wants \in {"value", "first"}
    BY <1>6 DEF Open, WantsValue
  <2>2. QED BY <1>2, <1>3, <1>6, <2>1, OpenKeeps
<1>7. CASE Close
  <2>1. wants \in {"first", "more"}
    BY <1>7 DEF Close
  <2>2. QED BY <1>2, <1>3, <1>7, <2>1, CloseKeeps
<1>8. CASE Colon \/ Comma
  <2>1. wants \in {"colon", "more"}
    BY <1>8 DEF Colon, Comma
  <2>2. QED BY <1>2, <1>3, <1>8, <2>1, ColonKeeps
<1>9. CASE TextEnds
  <2>1. wants = "end"
    BY <1>9 DEF TextEnds
  <2>2. QED BY <1>2, <1>3, <1>9, <2>1, EndReads
<1>10. ASSUME NEW token \in Tokens, Invalid(token) \/ NoRoom(token) PROVE ParserInv'
  <2>1. Running /\ Reads(token) /\ wants' \in {"invalid", "full"} /\ UNCHANGED <<stack, parsed, blocks>>
    BY <1>10 DEF Invalid, NoRoom
  <2>2. wants \in {"value", "first", "more", "key", "colon"} \/ wants = "end"
    BY <1>3, <2>1 DEF Running
  <2>3. EndsHere(token)
    BY <1>2, <1>3, <1>10, <2>2, ReadingEndsHere, WholeEndsHere
  <2>4. QED BY <1>2, <2>1, <2>3, FailKeeps
<1>11. CASE UNCHANGED jsonVars
  BY <1>1, <1>11 DEF jsonVars, ParserInv, ParserTypes, JsonIsRead
<1>12. "array" \in Types /\ "object" \in Types
  BY DEF Types
<1>13. QED BY <1>1, <1>4, <1>5, <1>6, <1>7, <1>8, <1>9, <1>10, <1>11, <1>12 DEF JsonNext

(* The parser accepts JSON and nothing else, for the value that the text   *)
(* has; it fails at no token that could still have become such a text.     *)
THEOREM ParserReadsJson == JsonSpec => []JsonIsRead
<1>1. ParserInv => JsonIsRead
  <2>1. SUFFICES ASSUME ParserInv PROVE JsonIsRead
    OBVIOUS
  <2>2. CASE wants \in {"ok", "invalid", "full"} /\ JsonIsRead
    BY <2>2
  <2>3. CASE wants = "end"
    BY <2>3 DEF JsonIsRead
  <2>4. CASE Reading(tokens, wants, stack, blocks)
    <3>1. wants \notin {"ok", "invalid", "full"}
      <4>1. CASE stack = <<>>
        BY <2>4, <4>1 DEF Reading
      <4>2. CASE stack # <<>>
        <5>1. ParserTypes
          BY <2>1 DEF ParserInv
        <5>2. wants \in {"first", "more", "key", "value", "colon"}
          BY <2>4, <4>2, <5>1, ReadingOn, ReadingTypes
        <5>3. QED BY <5>2
      <4>3. QED BY <4>1, <4>2
    <3>2. QED BY <3>1 DEF JsonIsRead
  <2>5. QED BY <2>1, <2>2, <2>3, <2>4 DEF ParserInv
<1>2. QED BY <1>1, ParserInitially, ParserSteps, PTL DEF JsonSpec

=============================================================================

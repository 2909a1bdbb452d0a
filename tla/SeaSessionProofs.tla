-------------------------- MODULE SeaSessionProofs --------------------------
(***************************************************************************)
(* Proofs about the sessions, for every set of keys, every size of the     *)
(* table, the window and the prompt, and any number of messages, losses of *)
(* the process and failed summaries: windows are the latest messages,      *)
(* nothing is forgotten unaccounted for, sessions stay apart, and a clear  *)
(* leaves nothing.                                                         *)
(***************************************************************************)
EXTENDS SeaSession, SequenceTheorems, WellFoundedInduction, TLAPS

Slots == [key : Keys, history : Seq(Ids), summary : SUBSET Ids, active : 0 .. MaxNow]

Deletions == {"deleteMessages", "deleteSession"}
Statements == [do : {"insert", "summarize", "replace"} \union Deletions,
               key : Keys, of : SUBSET Ids]

Types ==
  /\ now \in 0 .. MaxNow /\ up \in BOOLEAN /\ lives \in 1 .. MaxLives
  /\ sessions \in Seq(Slots) /\ todo \in Seq(Statements)
  /\ rows \in [Keys -> (SUBSET Ids) \union {NoRow}] /\ stored \in [Keys -> SUBSET Ids]
  /\ owner \in Seq(Keys) /\ Len(owner) <= MaxMessages
  /\ begun \in [Keys -> Seq(Ids)] /\ excused \in SUBSET Ids

(* No key has two slots. *)
Distinct(table) == \A i, j \in 1 .. Len(table) : table[i].key = table[j].key => i = j

(* A table keeps within its bounds. *)
Fits(table) ==
  /\ Len(table) <= MaxSessions /\ Distinct(table)
  /\ \A i \in 1 .. Len(table) :
       Len(table[i].history) <= HistoryRoom /\ table[i].active <= now
TableInv == Fits(sessions)

(* What was added to a key, and nothing else, is in its slot, in its rows  *)
(* and in the statements that are left to do.                              *)
Added(own, key) == {m \in 1 .. Len(own) : own[m] = key}
Owned(table, own) ==
  \A i \in 1 .. Len(table) :
    Range(table[i].history) \union table[i].summary \subseteq Added(own, table[i].key)
OwnInv ==
  /\ Owned(sessions, owner)
  /\ \A k \in Keys :
       stored[k] \subseteq Added(owner, k) /\ (rows[k] = NoRow \/ rows[k] \subseteq Added(owner, k))
  /\ \A i \in 1 .. Len(todo) : todo[i].of \subseteq Added(owner, todo[i].key)

(* The window of a slot is the end of all the messages of its session, and *)
(* what is not in it is in the summary or lost; without a slot none are    *)
(* owed.                                                                   *)
Ends(h, all) ==
  Len(h) <= Len(all) /\ \A i \in 1 .. Len(h) : h[i] = all[Len(all) - Len(h) + i]
Shows(slot, all, lost) ==
  /\ Ends(slot.history, all)
  /\ Len(slot.history) < KeepRecent => slot.history = all
  /\ Range(all) \subseteq Range(slot.history) \union slot.summary \union lost
ShowsAll(table, messages, lost) ==
  /\ \A i \in 1 .. Len(table) : Shows(table[i], messages[table[i].key], lost)
  /\ \A k \in Keys : Index(table, k) = {} => messages[k] = <<>>
WindowInv == ShowsAll(sessions, begun, excused)

(* A clear empties the slot first, and then the messages go before the row.*)
Emptied(table, key) ==
  \E i \in 1 .. Len(table) :
    table[i].key = key /\ table[i].history = <<>> /\ table[i].summary = {}
ClearInv ==
  \A i \in 1 .. Len(todo) : todo[i].do \in Deletions =>
    /\ Emptied(sessions, todo[i].key)
    /\ todo[i].do = "deleteMessages" =>
         /\ i = 1 /\ Len(todo) = 2
         /\ todo[2].do = "deleteSession" /\ todo[2].key = todo[1].key
    /\ todo[i].do = "deleteSession" =>
         /\ i = Len(todo)
         /\ \/ i = 2 /\ todo[1].do = "deleteMessages"
            \/ i = 1 /\ stored[todo[i].key] = {}

IInv == Types /\ TableInv /\ OwnInv /\ WindowInv /\ ClearInv

-----------------------------------------------------------------------------
(* The sizes the constants are assumed to have. *)
LEMMA Sizes ==
  /\ MaxSessions \in Nat /\ MaxSessions >= 1 /\ KeepRecent \in Nat /\ KeepRecent >= 1
  /\ PromptRoom \in Nat /\ PromptRoom >= 1 /\ MaxHistory \in Nat /\ HistoryRoom \in Nat
  /\ KeepRecent < MaxHistory /\ MaxHistory <= HistoryRoom
  /\ MaxMessages \in Nat /\ MaxNow \in Nat /\ MaxLives \in Nat /\ MaxLives >= 1
BY SessionAssumption

(* Numbers that are not none have a least one. *)
LEMMA LeastExists ==
  ASSUME NEW S \in SUBSET Nat, S # {}
  PROVE  \E x \in S : \A y \in S : x <= y
<1>1. \E x \in S : \A y \in S : <<y, x>> \notin OpToRel(<, Nat)
  BY NatLessThanWellFounded, WFMin
<1>2. PICK x \in S : \A y \in S : <<y, x>> \notin OpToRel(<, Nat)
  BY <1>1
<1>3. \A y \in S : ~(y < x)
  BY <1>2 DEF OpToRel
<1>4. QED BY <1>3

(* A table that is not empty has a session idle longest. *)
LEMMA OldestIsSlot ==
  ASSUME NEW t \in Seq(Slots), t # <<>>
  PROVE  Oldest(t) \in 1 .. Len(t)
<1>1. DOMAIN t = 1 .. Len(t) /\ Len(t) \in Nat /\ Len(t) >= 1
  OBVIOUS
<1>2. \A i \in 1 .. Len(t) : t[i].active \in Nat
  <2>1. \A i \in 1 .. Len(t) : t[i] \in Slots
    BY ElementOfSeq
  <2>2. \A s \in Slots : s.active \in Nat
    BY Sizes DEF Slots
  <2>3. QED BY <2>1, <2>2
<1> DEFINE Times == {t[i].active : i \in 1 .. Len(t)}
<1>3. PICK a \in Times : \A b \in Times : a <= b
  <2>1. Times \in SUBSET Nat /\ Times # {}
    BY <1>1, <1>2
  <2>2. QED BY <2>1, LeastExists
<1> DEFINE First == {i \in 1 .. Len(t) : t[i].active = a}
<1>4. PICK i \in First : \A k \in First : i <= k
  <2>1. First \in SUBSET Nat /\ First # {}
    BY <1>1, <1>3
  <2>2. QED BY <2>1, LeastExists
<1>5. \A k \in 1 .. Len(t) :
        t[i].active < t[k].active \/ (t[i].active = t[k].active /\ i <= k)
  <2> TAKE k \in 1 .. Len(t)
  <2>1. i \in 1 .. Len(t) /\ t[i].active = a
    BY <1>4
  <2>2. a <= t[k].active
    BY <1>3
  <2>3. t[k].active = a => i <= k
    BY <1>4
  <2>4. QED BY <1>2, <2>1, <2>2, <2>3
<1>6. \E j \in DOMAIN t : \A k \in DOMAIN t :
        t[j].active < t[k].active \/ (t[j].active = t[k].active /\ j <= k)
  BY <1>1, <1>4, <1>5
<1>7. QED BY <1>1, <1>6 DEF Oldest

(* What is left when one element is taken out, in the order it was in. *)
LEMMA RemoveAtLeaves ==
  ASSUME NEW S, NEW s \in Seq(S), NEW i \in 1 .. Len(s)
  PROVE  /\ RemoveAt(s, i) \in Seq(S) /\ Len(RemoveAt(s, i)) = Len(s) - 1
         /\ \A j \in 1 .. Len(s) - 1 : RemoveAt(s, i)[j] = IF j < i THEN s[j] ELSE s[j + 1]
<1> DEFINE a == SubSeq(s, 1, i - 1)
           b == SubSeq(s, i + 1, Len(s))
<1>0. Len(s) \in Nat /\ \A j \in 1 .. Len(s) : s[j] \in S
  BY ElementOfSeq
<1>1. /\ a \in Seq(S) /\ Len(a) = i - 1 /\ \A j \in 1 .. i - 1 : a[j] = s[j]
  <2>1. \A j \in 1 .. i - 1 : s[j] \in S
    BY <1>0
  <2>2. /\ a \in Seq(S) /\ Len(a) = IF 1 <= i - 1 THEN i - 1 - 1 + 1 ELSE 0
        /\ \A j \in 1 .. i - 1 - 1 + 1 : a[j] = s[1 + j - 1]
    BY <1>0, <2>1, SubSeqProperties
  <2>3. QED BY <1>0, <2>2
<1>2. /\ b \in Seq(S) /\ Len(b) = Len(s) - i /\ \A j \in 1 .. Len(s) - i : b[j] = s[i + j]
  <2>1. \A j \in i + 1 .. Len(s) : s[j] \in S
    BY <1>0
  <2>2. /\ b \in Seq(S) /\ Len(b) = IF i + 1 <= Len(s) THEN Len(s) - (i + 1) + 1 ELSE 0
        /\ \A j \in 1 .. Len(s) - (i + 1) + 1 : b[j] = s[(i + 1) + j - 1]
    BY <1>0, <2>1, SubSeqProperties
  <2>3. QED BY <1>0, <2>2
<1>3. RemoveAt(s, i) = a \o b
  BY DEF RemoveAt
<1> HIDE DEF a, b
<1>4. /\ a \o b \in Seq(S) /\ Len(a \o b) = Len(a) + Len(b)
      /\ \A j \in 1 .. Len(a) + Len(b) :
           (a \o b)[j] = IF j <= Len(a) THEN a[j] ELSE b[j - Len(a)]
  BY <1>1, <1>2, ConcatProperties
<1>5. ASSUME NEW j \in 1 .. Len(s) - 1
      PROVE  (a \o b)[j] = IF j < i THEN s[j] ELSE s[j + 1]
  <2>1. (a \o b)[j] = IF j <= i - 1 THEN a[j] ELSE b[j - (i - 1)]
    BY <1>0, <1>1, <1>2, <1>4
  <2>2. CASE j < i
    BY <1>0, <1>1, <2>1, <2>2
  <2>3. CASE j >= i
    <3>1. j - (i - 1) \in 1 .. Len(s) - i /\ i + (j - (i - 1)) = j + 1 /\ ~(j <= i - 1)
      BY <1>0, <2>3
    <3>2. b[j - (i - 1)] = s[j + 1]
      BY <1>2, <3>1
    <3>3. ~(j < i)
      BY <1>0, <2>3
    <3>4. QED BY <2>1, <3>1, <3>2, <3>3, Zenon
  <2>4. j < i \/ j >= i
    BY <1>0
  <2>5. QED BY <2>2, <2>3, <2>4, Zenon
<1>6. QED BY <1>0, <1>1, <1>2, <1>3, <1>4, <1>5

(* A slot is found by its key. *)
LEMMA AtFinds ==
  ASSUME NEW t \in Seq(Slots), NEW key \in Keys, NEW i \in 1 .. Len(t), t[i].key = key,
         Distinct(t)
  PROVE  At(t, key) = i /\ Index(t, key) = {i}
<1>1. DOMAIN t = 1 .. Len(t)
  OBVIOUS
<1>2. Index(t, key) = {i}
  BY <1>1 DEF Index, Distinct
<1>3. QED BY <1>2 DEF At

(* A key without a slot has no index. *)
LEMMA IndexEmpty ==
  ASSUME NEW t \in Seq(Slots), NEW key
  PROVE  Index(t, key) = {} <=> \A i \in 1 .. Len(t) : t[i].key # key
<1>1. DOMAIN t = 1 .. Len(t)
  OBVIOUS
<1>2. QED BY <1>1 DEF Index

(* Eviction makes room and leaves the other sessions as they are. *)
LEMMA EvictedSlots ==
  ASSUME NEW t \in Seq(Slots), Len(t) <= MaxSessions, Distinct(t)
  PROVE  /\ Evicted(t) \in Seq(Slots) /\ Len(Evicted(t)) < MaxSessions /\ Distinct(Evicted(t))
         /\ \A i \in 1 .. Len(Evicted(t)) : \E j \in 1 .. Len(t) : Evicted(t)[i] = t[j]
<1>0. Len(t) \in Nat
  OBVIOUS
<1>1. CASE Len(t) < MaxSessions
  BY <1>1 DEF Evicted
<1>2. CASE Len(t) = MaxSessions
  <2> DEFINE i == Oldest(t)
             r == RemoveAt(t, i)
  <2>1. i \in 1 .. Len(t)
    BY <1>0, <1>2, Sizes, OldestIsSlot
  <2>2. Evicted(t) = r
    BY <1>2, <1>0, Sizes DEF Evicted
  <2> HIDE DEF i
  <2>3. /\ r \in Seq(Slots) /\ Len(r) = Len(t) - 1
        /\ \A j \in 1 .. Len(t) - 1 : r[j] = IF j < i THEN t[j] ELSE t[j + 1]
    BY <2>1, RemoveAtLeaves
  <2> HIDE DEF r
  <2>4. Distinct(r)
    <3>1. SUFFICES ASSUME NEW j \in 1 .. Len(t) - 1, NEW k \in 1 .. Len(t) - 1,
                          r[j].key = r[k].key
                   PROVE  j = k
      BY <2>3 DEF Distinct
    <3> DEFINE u == IF j < i THEN j ELSE j + 1
               v == IF k < i THEN k ELSE k + 1
    <3>2. u \in 1 .. Len(t) /\ v \in 1 .. Len(t)
      BY <1>0
    <3>3. r[j] = t[u] /\ r[k] = t[v]
      BY <2>3
    <3>4. u = v
      BY <3>1, <3>2, <3>3 DEF Distinct
    <3>5. QED BY <1>0, <2>1, <3>4
  <2>5. \A j \in 1 .. Len(r) : \E k \in 1 .. Len(t) : r[j] = t[k]
    <3> TAKE j \in 1 .. Len(r)
    <3>1. j \in 1 .. Len(t) /\ j + 1 \in 1 .. Len(t)
      BY <1>0, <2>3
    <3>2. r[j] = t[j] \/ r[j] = t[j + 1]
      BY <2>3
    <3>3. QED BY <3>1, <3>2
  <2>6. QED BY <1>0, <1>2, <2>2, <2>3, <2>4, <2>5, Sizes
<1>3. QED BY <1>0, <1>1, <1>2, Sizes

(* What sea_session_get makes of the table: the session asked for has its  *)
(* one slot, begun afresh if it had none, and every other slot holds a     *)
(* session that was there before.                                          *)
LEMMA TouchedSlots ==
  ASSUME Types, TableInv, NEW key \in Keys
  PROVE  LET t == Touched(key)
             i == At(t, key) IN
         /\ t \in Seq(Slots) /\ Len(t) <= MaxSessions /\ Distinct(t)
         /\ i \in 1 .. Len(t) /\ t[i].key = key /\ t[i].active = now
         /\ \A k \in 1 .. Len(t) : k # i => \E j \in 1 .. Len(sessions) : t[k] = sessions[j]
         /\ \/ \E j \in 1 .. Len(sessions) :
                 /\ sessions[j].key = key
                 /\ t[i].history = sessions[j].history /\ t[i].summary = sessions[j].summary
            \/ Index(sessions, key) = {} /\ t[i].history = <<>> /\ t[i].summary = {}
<1>1. sessions \in Seq(Slots) /\ Len(sessions) \in Nat /\ DOMAIN sessions = 1 .. Len(sessions)
  BY DEF Types
<1>2. Len(sessions) <= MaxSessions /\ Distinct(sessions)
  BY DEF TableInv, Fits
<1>3. now \in 0 .. MaxNow /\ now \in Nat
  BY Sizes DEF Types
<1>4. CASE Known(key)
  <2>1. PICK i \in 1 .. Len(sessions) : sessions[i].key = key
    BY <1>1, <1>4, IndexEmpty DEF Known
  <2>2. At(sessions, key) = i
    BY <1>1, <1>2, <2>1, AtFinds
  <2> DEFINE s == [sessions[i] EXCEPT !.active = now]
             t == [sessions EXCEPT ![i] = s]
  <2>3. Touched(key) = t
    BY <1>4, <2>2 DEF Touched
  <2>4. sessions[i] \in Slots
    BY <1>1, <2>1, ElementOfSeq
  <2>5. /\ s \in Slots /\ s.key = key /\ s.active = now
        /\ s.history = sessions[i].history /\ s.summary = sessions[i].summary
    BY <1>3, <2>1, <2>4 DEF Slots
  <2> HIDE DEF s
  <2>6. /\ t \in Seq(Slots) /\ Len(t) = Len(sessions)
        /\ \A j \in 1 .. Len(sessions) : t[j] = IF j = i THEN s ELSE sessions[j]
    BY <1>1, <2>1, <2>5, ExceptSeq
  <2> HIDE DEF t
  <2>7. \A j \in 1 .. Len(t) : t[j].key = sessions[j].key
    BY <2>1, <2>5, <2>6
  <2>8. Distinct(t)
    BY <1>2, <2>6, <2>7 DEF Distinct
  <2>9. t[i] = s /\ i \in 1 .. Len(t)
    BY <2>1, <2>6
  <2>10. At(t, key) = i
    BY <2>5, <2>6, <2>8, <2>9, AtFinds
  <2>11. \A k \in 1 .. Len(t) : k # i => \E j \in 1 .. Len(sessions) : t[k] = sessions[j]
    BY <2>6
  <2>12. QED BY <1>2, <2>1, <2>3, <2>5, <2>6, <2>8, <2>9, <2>10, <2>11
<1>5. CASE ~Known(key)
  <2> DEFINE e == Evicted(sessions)
             f == Fresh(key)
             t == Append(e, f)
             i == Len(e) + 1
  <2>1. Touched(key) = t
    BY <1>5 DEF Touched, Created
  <2>2. /\ f \in Slots /\ f.key = key /\ f.active = now /\ f.history = <<>> /\ f.summary = {}
    BY <1>3 DEF Fresh, Slots
  <2>3. /\ e \in Seq(Slots) /\ Len(e) < MaxSessions /\ Distinct(e)
        /\ \A k \in 1 .. Len(e) : \E j \in 1 .. Len(sessions) : e[k] = sessions[j]
    BY <1>1, <1>2, EvictedSlots
  <2> HIDE DEF e, f
  <2>4. /\ t \in Seq(Slots) /\ Len(t) = i /\ t[i] = f /\ \A k \in 1 .. Len(e) : t[k] = e[k]
    BY <2>2, <2>3, AppendProperties
  <2>5. Len(e) \in Nat /\ i \in 1 .. i /\ \A k \in 1 .. i : k # i => k \in 1 .. Len(e)
    BY <2>3
  <2> HIDE DEF t, i
  <2>6. Index(sessions, key) = {} /\ \A j \in 1 .. Len(sessions) : sessions[j].key # key
    BY <1>1, <1>5, IndexEmpty DEF Known
  <2>7. \A k \in 1 .. i : k # i => \E j \in 1 .. Len(sessions) : t[k] = sessions[j]
    BY <2>3, <2>4, <2>5
  <2>8. \A k \in 1 .. i : k # i => t[k].key # key
    BY <2>6, <2>7
  <2>9. Distinct(t)
    <3>1. SUFFICES ASSUME NEW j \in 1 .. i, NEW k \in 1 .. i, t[j].key = t[k].key
                   PROVE  j = k
      BY <2>4 DEF Distinct
    <3>2. CASE j = i \/ k = i
      BY <2>2, <2>4, <2>8, <3>1, <3>2
    <3>3. CASE j # i /\ k # i
      <4>1. j \in 1 .. Len(e) /\ k \in 1 .. Len(e)
        BY <2>5, <3>3
      <4>2. e[j].key = e[k].key
        BY <2>4, <3>1, <4>1
      <4>3. QED BY <2>3, <4>1, <4>2 DEF Distinct
    <3>4. QED BY <3>2, <3>3
  <2>10. i \in 1 .. Len(t) /\ t[i].key = key
    BY <2>2, <2>4, <2>5
  <2>11. At(t, key) = i
    BY <2>4, <2>9, <2>10, AtFinds
  <2>12. Len(t) <= MaxSessions
    BY <2>3, <2>4, <2>5, Sizes DEF i
  <2>13. QED BY <2>1, <2>2, <2>4, <2>6, <2>7, <2>9, <2>10, <2>11, <2>12
<1>6. QED BY <1>4, <1>5

(* What is owed to a session goes with its slot. *)
LEMMA BegunAfterTouch ==
  ASSUME NEW t, NEW key \in Keys
  PROVE  BegunAfter(t)[key] = IF Index(t, key) = {} THEN <<>> ELSE begun[key]
BY DEF BegunAfter

-----------------------------------------------------------------------------
(* A window that ends all messages is a suffix of them. *)
LEMMA EndsIsSuffix ==
  ASSUME NEW h \in Seq(Ids), NEW all \in Seq(Ids), Ends(h, all)
  PROVE  IsSuffix(h, all)
<1>1. Len(h) \in Nat /\ Len(all) \in Nat /\ Len(h) <= Len(all)
  BY DEF Ends
<1> DEFINE r == Reverse(h)
           s == Reverse(all)
<1>2. /\ r = [i \in 1 .. Len(h) |-> h[(Len(h) - i) + 1]]
      /\ s = [i \in 1 .. Len(all) |-> all[(Len(all) - i) + 1]]
  BY DEF Reverse
<1>3. r \in Seq(Ids) /\ Len(r) = Len(h)
  <2>1. \A i \in 1 .. Len(h) : h[(Len(h) - i) + 1] \in Ids
    BY <1>1, ElementOfSeq
  <2>2. QED BY <1>1, <1>2, <2>1
<1>4. s \in Seq(Ids) /\ Len(s) = Len(all)
  <2>1. \A i \in 1 .. Len(all) : all[(Len(all) - i) + 1] \in Ids
    BY <1>1, ElementOfSeq
  <2>2. QED BY <1>1, <1>2, <2>1
<1>5. \A i \in 1 .. Len(h) : r[i] = s[i]
  <2> TAKE i \in 1 .. Len(h)
  <2>1. r[i] = h[(Len(h) - i) + 1] /\ s[i] = all[(Len(all) - i) + 1]
    BY <1>1, <1>2
  <2>2. /\ (Len(h) - i) + 1 \in 1 .. Len(h)
        /\ Len(all) - Len(h) + ((Len(h) - i) + 1) = (Len(all) - i) + 1
    BY <1>1
  <2>3. h[(Len(h) - i) + 1] = all[Len(all) - Len(h) + ((Len(h) - i) + 1)]
    BY <2>2 DEF Ends
  <2>4. QED BY <2>1, <2>2, <2>3
<1> HIDE DEF r, s
<1> DEFINE u == SubSeq(r, 1, Len(h))
           v == SubSeq(s, 1, Len(h))
<1>6. /\ u \in Seq(Ids) /\ v \in Seq(Ids) /\ Len(u) = Len(v)
      /\ \A i \in 1 .. Len(u) : u[i] = v[i]
  <2>1. \A i \in 1 .. Len(h) : r[i] \in Ids /\ s[i] \in Ids
    BY <1>1, <1>3, <1>4, ElementOfSeq
  <2>2. /\ u \in Seq(Ids) /\ Len(u) = IF 1 <= Len(h) THEN Len(h) - 1 + 1 ELSE 0
        /\ \A i \in 1 .. Len(h) - 1 + 1 : u[i] = r[1 + i - 1]
    BY <1>1, <2>1, SubSeqProperties
  <2>3. /\ v \in Seq(Ids) /\ Len(v) = IF 1 <= Len(h) THEN Len(h) - 1 + 1 ELSE 0
        /\ \A i \in 1 .. Len(h) - 1 + 1 : v[i] = s[1 + i - 1]
    BY <1>1, <2>1, SubSeqProperties
  <2> HIDE DEF u, v
  <2>4. Len(u) = Len(h) /\ Len(v) = Len(h)
    BY <1>1, <2>2, <2>3
  <2>5. \A i \in 1 .. Len(h) : u[i] = v[i]
    <3> TAKE i \in 1 .. Len(h)
    <3>1. i \in 1 .. Len(h) - 1 + 1 /\ 1 + i - 1 = i
      BY <1>1
    <3>2. QED BY <2>2, <2>3, <3>1, <1>5
  <2>6. QED BY <2>2, <2>3, <2>4, <2>5
<1>7. u = v
  <2> HIDE DEF u, v
  <2>1. QED BY <1>6, SeqEqual
<1>8. QED BY <1>1, <1>3, <1>4, <1>7 DEF IsSuffix, IsPrefix, r, s, u, v

(* The end of a window that ends all messages ends them too. *)
LEMMA EndOfEnd ==
  ASSUME NEW h \in Seq(Ids), NEW all \in Seq(Ids), Ends(h, all), NEW g \in Seq(Ids),
         Ends(g, h)
  PROVE  Ends(g, all)
<1>1. /\ Len(g) \in Nat /\ Len(h) \in Nat /\ Len(all) \in Nat
      /\ Len(g) <= Len(h) /\ Len(h) <= Len(all)
  BY DEF Ends
<1>2. ASSUME NEW i \in 1 .. Len(g) PROVE g[i] = all[Len(all) - Len(g) + i]
  <2>1. g[i] = h[Len(h) - Len(g) + i]
    BY DEF Ends
  <2>2. Len(h) - Len(g) + i \in 1 .. Len(h)
    BY <1>1
  <2>3. h[Len(h) - Len(g) + i] = all[Len(all) - Len(h) + (Len(h) - Len(g) + i)]
    BY <2>2 DEF Ends
  <2>4. Len(all) - Len(h) + (Len(h) - Len(g) + i) = Len(all) - Len(g) + i
    BY <1>1
  <2>5. QED BY <2>1, <2>3, <2>4
<1>3. QED BY <1>1, <1>2 DEF Ends

(* A message added to both keeps a window the end of all messages. *)
LEMMA EndsAppend ==
  ASSUME NEW h \in Seq(Ids), NEW all \in Seq(Ids), Ends(h, all), NEW m \in Ids
  PROVE  Ends(Append(h, m), Append(all, m))
<1> DEFINE g == Append(h, m)
           b == Append(all, m)
<1>1. Len(h) \in Nat /\ Len(all) \in Nat /\ Len(h) <= Len(all)
  BY DEF Ends
<1>2. /\ Len(g) = Len(h) + 1 /\ g[Len(h) + 1] = m /\ \A i \in 1 .. Len(h) : g[i] = h[i]
      /\ Len(b) = Len(all) + 1 /\ b[Len(all) + 1] = m /\ \A i \in 1 .. Len(all) : b[i] = all[i]
  BY AppendProperties
<1> HIDE DEF g, b
<1>3. ASSUME NEW i \in 1 .. Len(g) PROVE g[i] = b[Len(b) - Len(g) + i]
  <2>1. CASE i = Len(h) + 1
    <3>1. Len(b) - Len(g) + i = Len(all) + 1
      BY <1>1, <1>2, <2>1
    <3>2. QED BY <1>2, <2>1, <3>1
  <2>2. CASE i # Len(h) + 1
    <3>1. i \in 1 .. Len(h)
      BY <1>1, <1>2, <2>2
    <3>2. /\ Len(b) - Len(g) + i = Len(all) - Len(h) + i
          /\ Len(all) - Len(h) + i \in 1 .. Len(all)
      BY <1>1, <1>2, <3>1
    <3>3. h[i] = all[Len(all) - Len(h) + i]
      BY <3>1 DEF Ends
    <3>4. QED BY <1>2, <3>1, <3>2, <3>3
  <2>3. QED BY <2>1, <2>2
<1>4. Len(g) <= Len(b)
  BY <1>1, <1>2
<1>5. Ends(g, b)
  BY <1>3, <1>4 DEF Ends
<1>6. QED BY <1>5 DEF g, b

(* Without its first message a window still ends what it ended, and its    *)
(* messages are the first and those that are left.                         *)
LEMMA TailEnds ==
  ASSUME NEW h \in Seq(Ids), h # <<>>
  PROVE  /\ Tail(h) \in Seq(Ids) /\ Len(Tail(h)) = Len(h) - 1 /\ Ends(Tail(h), h)
         /\ Head(h) \in Range(h) /\ Range(h) = {Head(h)} \union Range(Tail(h))
<1> DEFINE g == Tail(h)
<1>1. /\ g \in Seq(Ids) /\ Len(g) = Len(h) - 1 /\ \A i \in 1 .. Len(g) : g[i] = h[i + 1]
  BY HeadTailProperties
<1>2. Len(h) \in Nat /\ Len(h) >= 1 /\ Head(h) = h[1]
  OBVIOUS
<1> HIDE DEF g
<1>3. Ends(g, h)
  <2>1. \A i \in 1 .. Len(g) : Len(h) - Len(g) + i = i + 1
    BY <1>1, <1>2
  <2>2. QED BY <1>1, <1>2, <2>1 DEF Ends
<1>4. Range(h) = {h[i] : i \in 1 .. Len(h)} /\ Range(g) = {g[i] : i \in 1 .. Len(g)}
  BY <1>1, RangeEquality
<1>5. Range(h) = {h[1]} \union Range(g)
  <2>1. \A i \in 1 .. Len(h) : i = 1 \/ (i - 1 \in 1 .. Len(g) /\ h[i] = g[i - 1])
    <3> TAKE i \in 1 .. Len(h)
    <3>1. CASE i # 1
      <4>1. i - 1 \in 1 .. Len(g) /\ (i - 1) + 1 = i
        BY <1>1, <1>2, <3>1
      <4>2. QED BY <1>1, <4>1
    <3>2. QED BY <3>1
  <2>2. \A i \in 1 .. Len(g) : i + 1 \in 1 .. Len(h) /\ g[i] = h[i + 1]
    BY <1>1, <1>2
  <2>3. 1 \in 1 .. Len(h)
    BY <1>2
  <2> DEFINE H == {h[i] : i \in 1 .. Len(h)}
             G == {g[i] : i \in 1 .. Len(g)}
  <2>4. H \subseteq {h[1]} \union G
    BY <2>1
  <2>5. {h[1]} \union G \subseteq H
    BY <2>2, <2>3
  <2>6. QED BY <1>4, <2>4, <2>5
<1>6. 1 \in 1 .. Len(h)
  BY <1>2
<1>7. QED BY <1>1, <1>2, <1>3, <1>4, <1>5, <1>6 DEF g

(* A window cut to its recent messages ends what it ended, and what it had *)
(* is those and the ones cut off before them.                              *)
LEMMA RecentEnds ==
  ASSUME NEW h \in Seq(Ids), Len(h) > KeepRecent
  PROVE  /\ Recent(h) \in Seq(Ids) /\ Len(Recent(h)) = KeepRecent /\ Ends(Recent(h), h)
         /\ Range(Recent(h)) \subseteq Range(h)
         /\ Range(h) \subseteq
              Range(SubSeq(h, 1, Len(h) - KeepRecent)) \union Range(Recent(h))
<1> DEFINE c == Len(h) - KeepRecent
           a == SubSeq(h, 1, c)
           g == SubSeq(h, c + 1, Len(h))
<1>1. Len(h) \in Nat /\ c \in 1 .. Len(h) /\ c + 1 \in 1 .. Len(h) + 1 /\ Len(h) - c = KeepRecent
  BY Sizes
<1>2. Recent(h) = g
  BY DEF Recent
<1>3. \A i \in 1 .. Len(h) : h[i] \in Ids
  BY ElementOfSeq
<1> HIDE DEF c
<1>4. /\ g \in Seq(Ids) /\ Len(g) = Len(h) - c
      /\ \A i \in 1 .. Len(h) - c : g[i] = h[c + i]
  <2>1. \A i \in c + 1 .. Len(h) : h[i] \in Ids
    BY <1>1, <1>3
  <2>2. /\ g \in Seq(Ids) /\ Len(g) = IF c + 1 <= Len(h) THEN Len(h) - (c + 1) + 1 ELSE 0
        /\ \A i \in 1 .. Len(h) - (c + 1) + 1 : g[i] = h[(c + 1) + i - 1]
    BY <1>1, <2>1, SubSeqProperties
  <2> HIDE DEF g
  <2>3. Len(h) - (c + 1) + 1 = Len(h) - c /\ (c + 1 <= Len(h) \/ Len(h) - c = 0)
    BY <1>1
  <2>4. \A i \in 1 .. Len(h) - c : (c + 1) + i - 1 = c + i
    BY <1>1
  <2>5. QED BY <2>2, <2>3, <2>4
<1>5. /\ a \in Seq(Ids) /\ Len(a) = c /\ \A i \in 1 .. c : a[i] = h[i]
  <2>1. \A i \in 1 .. c : h[i] \in Ids
    BY <1>1, <1>3
  <2>2. /\ a \in Seq(Ids) /\ Len(a) = IF 1 <= c THEN c - 1 + 1 ELSE 0
        /\ \A i \in 1 .. c - 1 + 1 : a[i] = h[1 + i - 1]
    BY <1>1, <2>1, SubSeqProperties
  <2> HIDE DEF a
  <2>3. c - 1 + 1 = c /\ 1 <= c
    BY <1>1
  <2>4. \A i \in 1 .. c : 1 + i - 1 = i
    BY <1>1
  <2>5. QED BY <2>2, <2>3, <2>4
<1> HIDE DEF g, a
<1>6. Ends(g, h)
  <2>1. \A i \in 1 .. Len(g) : Len(h) - Len(g) + i = c + i
    BY <1>1, <1>4
  <2>2. QED BY <1>1, <1>4, <2>1 DEF Ends
<1>7. /\ Range(h) = {h[i] : i \in 1 .. Len(h)} /\ Range(g) = {g[i] : i \in 1 .. Len(g)}
      /\ Range(a) = {a[i] : i \in 1 .. Len(a)}
  BY <1>4, <1>5, RangeEquality
<1>8. Range(g) \subseteq Range(h)
  <2>1. \A i \in 1 .. Len(g) : c + i \in 1 .. Len(h)
    BY <1>1, <1>4
  <2>2. QED BY <1>4, <1>7, <2>1
<1>9. Range(h) \subseteq Range(a) \union Range(g)
  <2>1. ASSUME NEW i \in 1 .. Len(h) PROVE h[i] \in Range(a) \union Range(g)
    <3>1. CASE i <= c
      BY <1>5, <1>7, <1>1, <3>1
    <3>2. CASE i > c
      <4>1. i - c \in 1 .. Len(g) /\ c + (i - c) = i
        BY <1>1, <1>4, <3>2
      <4>2. g[i - c] = h[i]
        BY <1>4, <4>1
      <4>3. QED BY <1>7, <4>1, <4>2
    <3>3. QED BY <1>1, <3>1, <3>2
  <2>2. QED BY <1>7, <2>1
<1>10. QED BY <1>1, <1>2, <1>4, <1>6, <1>8, <1>9 DEF a, c

-----------------------------------------------------------------------------
Replaced(t, i, s) == [t EXCEPT ![i] = s]

(* A slot replaced by one of the same key leaves every key where it is. *)
LEMMA SlotReplaced ==
  ASSUME NEW t \in Seq(Slots), Distinct(t), NEW i \in 1 .. Len(t), NEW s \in Slots,
         s.key = t[i].key
  PROVE  LET u == Replaced(t, i, s) IN
         /\ u \in Seq(Slots) /\ Len(u) = Len(t) /\ Distinct(u)
         /\ \A j \in 1 .. Len(t) : u[j] = IF j = i THEN s ELSE t[j]
         /\ \A j \in 1 .. Len(t) : u[j].key = t[j].key
         /\ \A k : Index(u, k) = {} <=> Index(t, k) = {}
<1> DEFINE u == Replaced(t, i, s)
<1>1. /\ u \in Seq(Slots) /\ Len(u) = Len(t)
      /\ \A j \in 1 .. Len(t) : u[j] = IF j = i THEN s ELSE t[j]
  BY ExceptSeq DEF Replaced
<1> HIDE DEF u
<1>2. \A j \in 1 .. Len(t) : u[j].key = t[j].key
  BY <1>1
<1>3. Distinct(u)
  BY <1>1, <1>2 DEF Distinct
<1>4. \A k : Index(u, k) = {} <=> Index(t, k) = {}
  <2> TAKE k
  <2>1. Index(u, k) = {} <=> \A j \in 1 .. Len(u) : u[j].key # k
    BY <1>1, IndexEmpty
  <2>2. Index(t, k) = {} <=> \A j \in 1 .. Len(t) : t[j].key # k
    BY IndexEmpty
  <2>3. QED BY <1>1, <1>2, <2>1, <2>2
<1>5. QED BY <1>1, <1>2, <1>3, <1>4 DEF u

(* The empty window of a session just begun. *)
LEMMA NothingShown ==
  ASSUME NEW s, s.history = <<>>, s.summary = {}, NEW lost
  PROVE  Shows(s, <<>>, lost) /\ Range(s.history) \union s.summary = {}
<1>1. Len(<<>>) = 0 /\ Range(<<>>) = {}
  <2>1. <<>> \in Seq(Ids) /\ Len(<<>>) = 0
    BY EmptySeq
  <2>2. Range(<<>>) = {<<>>[i] : i \in 1 .. Len(<<>>)}
    BY <2>1, RangeEquality
  <2>3. QED BY <2>1, <2>2
<1>2. Ends(<<>>, <<>>)
  BY <1>1 DEF Ends
<1>3. QED BY <1>1, <1>2 DEF Shows

(* sea_session_get keeps the table and all that is known of it in order. *)
LEMMA TouchedKeeps ==
  ASSUME Types, TableInv, Owned(sessions, owner), WindowInv, NEW key \in Keys
  PROVE  LET t == Touched(key)
             i == At(t, key) IN
         /\ t \in Seq(Slots) /\ Fits(t) /\ Owned(t, owner) /\ ShowsAll(t, BegunAfter(t), excused)
         /\ BegunAfter(t) \in [Keys -> Seq(Ids)]
         /\ i \in 1 .. Len(t) /\ t[i].key = key
<1> DEFINE t == Touched(key)
           i == At(t, key)
           b == BegunAfter(t)
<1>1. /\ t \in Seq(Slots) /\ Len(t) <= MaxSessions /\ Distinct(t)
      /\ i \in 1 .. Len(t) /\ t[i].key = key /\ t[i].active = now
      /\ \A k \in 1 .. Len(t) : k # i => \E j \in 1 .. Len(sessions) : t[k] = sessions[j]
      /\ \/ \E j \in 1 .. Len(sessions) :
              /\ sessions[j].key = key
              /\ t[i].history = sessions[j].history /\ t[i].summary = sessions[j].summary
         \/ Index(sessions, key) = {} /\ t[i].history = <<>> /\ t[i].summary = {}
  BY TouchedSlots
<1>2. \A j \in 1 .. Len(sessions) :
        Len(sessions[j].history) <= HistoryRoom /\ sessions[j].active <= now
  BY DEF TableInv, Fits
<1>3. now \in Nat /\ begun \in [Keys -> Seq(Ids)] /\ HistoryRoom \in Nat
  BY Sizes DEF Types
<1>4. b \in [Keys -> Seq(Ids)] /\ \A k \in Keys : b[k] = IF Index(t, k) = {} THEN <<>> ELSE begun[k]
  BY <1>3, EmptySeq DEF BegunAfter
<1> HIDE DEF t, i, b
<1>5. \A k \in 1 .. Len(t) : t[k].key \in Keys
  <2>1. \A k \in 1 .. Len(t) : t[k] \in Slots
    BY <1>1, ElementOfSeq
  <2>2. QED BY <2>1 DEF Slots
<1>6. \A k \in 1 .. Len(t) : b[t[k].key] = begun[t[k].key]
  <2> TAKE k \in 1 .. Len(t)
  <2>1. Index(t, t[k].key) # {}
    BY <1>1, IndexEmpty
  <2>2. QED BY <1>4, <1>5, <2>1
<1>7. ASSUME NEW k \in 1 .. Len(t)
      PROVE  /\ Len(t[k].history) <= HistoryRoom /\ t[k].active <= now
             /\ Range(t[k].history) \union t[k].summary \subseteq Added(owner, t[k].key)
             /\ Shows(t[k], b[t[k].key], excused)
  <2>1. ASSUME NEW j \in 1 .. Len(sessions), t[k].key = sessions[j].key,
               t[k].history = sessions[j].history, t[k].summary = sessions[j].summary
        PROVE  /\ Len(t[k].history) <= HistoryRoom
               /\ Range(t[k].history) \union t[k].summary \subseteq Added(owner, t[k].key)
               /\ Shows(t[k], b[t[k].key], excused)
    <3>1. Shows(sessions[j], begun[sessions[j].key], excused)
      BY DEF WindowInv, ShowsAll
    <3>2. Shows(t[k], begun[sessions[j].key], excused)
      BY <2>1, <3>1 DEF Shows
    <3>3. Range(sessions[j].history) \union sessions[j].summary \subseteq Added(owner, sessions[j].key)
      BY DEF Owned
    <3>4. QED BY <1>2, <1>6, <2>1, <3>2, <3>3
  <2>2. CASE k # i
    <3>1. PICK j \in 1 .. Len(sessions) : t[k] = sessions[j]
      BY <1>1, <2>2
    <3>2. QED BY <1>2, <2>1, <3>1
  <2>3. CASE k = i
    <3>1. t[k].active <= now
      BY <1>1, <1>3, <2>3
    <3>2. CASE \E j \in 1 .. Len(sessions) :
                 /\ sessions[j].key = key
                 /\ t[i].history = sessions[j].history /\ t[i].summary = sessions[j].summary
      BY <1>1, <2>1, <2>3, <3>1, <3>2
    <3>3. CASE Index(sessions, key) = {} /\ t[i].history = <<>> /\ t[i].summary = {}
      <4>1. b[t[k].key] = <<>>
        BY <1>1, <1>6, <2>3, <3>3 DEF WindowInv, ShowsAll
      <4>2. Shows(t[k], <<>>, excused) /\ Range(t[k].history) \union t[k].summary = {}
        BY <2>3, <3>3, NothingShown
      <4>3. Len(t[k].history) <= HistoryRoom
        BY <1>3, <2>3, <3>3
      <4>4. QED BY <3>1, <4>1, <4>2, <4>3
    <3>4. QED BY <1>1, <3>2, <3>3
  <2>4. QED BY <2>2, <2>3
<1>8. Fits(t)
  BY <1>1, <1>7 DEF Fits
<1>9. Owned(t, owner)
  BY <1>7 DEF Owned
<1>10. ShowsAll(t, b, excused)
  BY <1>4, <1>7 DEF ShowsAll
<1>11. QED BY <1>1, <1>4, <1>8, <1>9, <1>10 DEF t, i, b

(* What one message more does to a window, and to what it shows. *)
LEMMA WithMessageKeeps ==
  ASSUME NEW h \in Seq(Ids), Len(h) <= HistoryRoom, NEW m \in Ids, NEW all \in Seq(Ids),
         Ends(h, all), Len(h) < KeepRecent => h = all
  PROVE  LET w == WithMessage(h, m) IN
         /\ w \in Seq(Ids) /\ Len(w) <= HistoryRoom
         /\ Ends(w, Append(all, m)) /\ (Len(w) < KeepRecent => w = Append(all, m))
         /\ Range(w) \subseteq Range(h) \union {m}
         /\ Range(h) \union {m} \subseteq
              Range(w) \union (IF Len(h) < HistoryRoom THEN {} ELSE {Head(h)})
         /\ ~(Len(h) < HistoryRoom) => Head(h) \in Ids
<1> DEFINE w == WithMessage(h, m)
<1>0. /\ Len(h) \in Nat /\ HistoryRoom \in Nat /\ KeepRecent \in Nat
      /\ KeepRecent < HistoryRoom /\ HistoryRoom >= 1
  BY Sizes
<1>1. ASSUME NEW g \in Seq(Ids)
      PROVE  /\ Append(g, m) \in Seq(Ids) /\ Len(Append(g, m)) = Len(g) + 1
             /\ Range(Append(g, m)) = Range(g) \union {m}
  <2>1. Append(g, m) = g \o <<m>> /\ <<m>> \in Seq(Ids)
    BY AppendIsConcat
  <2>2. Range(g \o <<m>>) = Range(g) \union Range(<<m>>)
    BY <2>1, RangeConcatenation
  <2>3. Range(<<m>>) = {<<m>>[i] : i \in 1 .. Len(<<m>>)} /\ Len(<<m>>) = 1 /\ <<m>>[1] = m
    BY <2>1, RangeEquality
  <2>4. Range(<<m>>) = {m}
    BY <2>3
  <2>5. QED BY <2>1, <2>2, <2>4, AppendProperties
<1>2. Ends(Append(h, m), Append(all, m))
  BY EndsAppend
<1>3. CASE Len(h) < HistoryRoom
  <2>1. w = Append(h, m)
    BY <1>3 DEF WithMessage
  <2> HIDE DEF w
  <2>2. Len(w) < KeepRecent => w = Append(all, m)
    BY <1>0, <1>1, <2>1
  <2>3. QED BY <1>0, <1>1, <1>2, <1>3, <2>1, <2>2 DEF w
<1>4. CASE ~(Len(h) < HistoryRoom)
  <2> DEFINE g == Tail(h)
  <2>1. w = Append(g, m)
    BY <1>4 DEF WithMessage
  <2>2. Len(h) = HistoryRoom /\ h # <<>>
    BY <1>0, <1>4
  <2>3. /\ g \in Seq(Ids) /\ Len(g) = Len(h) - 1 /\ Ends(g, h)
        /\ Head(h) \in Range(h) /\ Range(h) = {Head(h)} \union Range(g)
    BY <2>2, TailEnds
  <2> HIDE DEF w, g
  <2>4. Ends(g, all)
    BY <2>3, EndOfEnd
  <2>5. Ends(Append(g, m), Append(all, m))
    BY <2>3, <2>4, EndsAppend
  <2>6. w \in Seq(Ids) /\ Len(w) = HistoryRoom /\ Range(w) = Range(g) \union {m}
    BY <1>0, <1>1, <2>1, <2>2, <2>3
  <2>7. ~(Len(w) < KeepRecent)
    BY <1>0, <2>6
  <2>8. Range(h) \in SUBSET Ids
    BY RangeOfSeq
  <2>9. /\ w \in Seq(Ids) /\ Len(w) <= HistoryRoom
        /\ Ends(w, Append(all, m)) /\ (Len(w) < KeepRecent => w = Append(all, m))
    BY <1>0, <2>1, <2>5, <2>6, <2>7
  <2>10. Range(w) \subseteq Range(h) \union {m} /\ Head(h) \in Ids
    BY <2>3, <2>6, <2>8
  <2>11. Range(h) \union {m} \subseteq
           Range(w) \union (IF Len(h) < HistoryRoom THEN {} ELSE {Head(h)})
    BY <1>4, <2>3, <2>6
  <2>12. QED BY <2>9, <2>10, <2>11 DEF w
<1>5. QED BY <1>3, <1>4

(* A message added belongs to its key, and nothing else changes hands. *)
LEMMA AddedGrows ==
  ASSUME owner \in Seq(Keys), NEW key \in Keys, owner' = Append(owner, key)
  PROVE  /\ Len(owner) + 1 \in Added(owner', key)
         /\ \A k : Added(owner, k) \subseteq Added(owner', k)
         /\ owner' \in Seq(Keys) /\ Len(owner') = Len(owner) + 1
<1>1. /\ Len(owner) \in Nat /\ Len(owner') = Len(owner) + 1 /\ owner' \in Seq(Keys)
      /\ owner'[Len(owner) + 1] = key /\ \A i \in 1 .. Len(owner) : owner'[i] = owner[i]
  BY AppendProperties
<1>2. Len(owner) + 1 \in Added(owner', key)
  BY <1>1 DEF Added
<1>3. ASSUME NEW k PROVE Added(owner, k) \subseteq Added(owner', k)
  <2>1. \A m \in 1 .. Len(owner) : m \in 1 .. Len(owner')
    BY <1>1
  <2>2. QED BY <1>1, <2>1 DEF Added
<1>4. QED BY <1>1, <1>2, <1>3

(* An insertion, and perhaps the request for a summary. *)
LEMMA AddStatements ==
  ASSUME NEW key \in Keys, NEW m \in Ids, NEW more \in BOOLEAN
  PROVE  LET q == <<[do |-> "insert", key |-> key, of |-> {m}]>> \o
                  (IF more THEN <<[do |-> "summarize", key |-> key, of |-> {}]>> ELSE <<>>) IN
         /\ q \in Seq(Statements)
         /\ \A i \in 1 .. Len(q) :
              /\ q[i].do \in {"insert", "summarize"} /\ q[i].key = key /\ q[i].of \subseteq {m}
<1> DEFINE a == [do |-> "insert", key |-> key, of |-> {m}]
           b == [do |-> "summarize", key |-> key, of |-> {}]
<1>1. a \in Statements /\ b \in Statements
  BY DEF Statements
<1>2. CASE more
  <2> DEFINE q == <<a>> \o <<b>>
  <2>1. /\ <<a>> \in Seq(Statements) /\ Len(<<a>>) = 1 /\ <<a>>[1] = a
        /\ <<b>> \in Seq(Statements) /\ Len(<<b>>) = 1 /\ <<b>>[1] = b
    <3> HIDE DEF a, b
    <3>1. QED BY <1>1
  <2>2. /\ q \in Seq(Statements) /\ Len(q) = 1 + 1
        /\ \A i \in 1 .. 1 + 1 : q[i] = IF i <= 1 THEN <<a>>[i] ELSE <<b>>[i - 1]
    <3> HIDE DEF a, b
    <3>1. QED BY <2>1, ConcatProperties
  <2> HIDE DEF q
  <2>3. \A i \in 1 .. Len(q) : q[i] = a \/ q[i] = b
    <3> HIDE DEF a, b
    <3>1. \A i \in 1 .. 1 + 1 : i = 1 \/ i = 2
      OBVIOUS
    <3>2. q[1] = a /\ q[2] = b
      BY <2>1, <2>2
    <3>3. QED BY <2>2, <3>1, <3>2
  <2>4. QED BY <1>2, <2>2, <2>3 DEF q
<1>3. CASE ~more
  <2>1. <<a>> \o <<>> = <<a>>
    OBVIOUS
  <2>2. <<a>> \in Seq(Statements)
    <3> HIDE DEF a
    <3>1. QED BY <1>1
  <2>3. Len(<<a>>) = 1 /\ <<a>>[1] = a
    OBVIOUS
  <2>4. \A i \in 1 .. 1 : i = 1
    OBVIOUS
  <2>5. QED BY <1>3, <2>1, <2>2, <2>3, <2>4
<1>4. QED BY <1>2, <1>3

-----------------------------------------------------------------------------
SessionInv == Types /\ TableInv /\ OwnInv /\ WindowInv

(* What a step that leaves the messages and the rows alone has to show. *)
LEMMA OwnInvByTable ==
  ASSUME OwnInv, UNCHANGED <<owner, rows, stored>>, Owned(sessions', owner'),
         \A i \in 1 .. Len(todo') : todo'[i].of \subseteq Added(owner, todo'[i].key)
  PROVE  OwnInv'
BY DEF OwnInv

LEMMA GetKeeps ==
  ASSUME SessionInv, NEW key \in Keys, Get(key)
  PROVE  SessionInv'
<1> DEFINE t == Touched(key)
           b == BegunAfter(t)
<1>1. /\ t \in Seq(Slots) /\ Fits(t) /\ Owned(t, owner) /\ ShowsAll(t, b, excused)
      /\ b \in [Keys -> Seq(Ids)]
  BY TouchedKeeps DEF SessionInv, OwnInv
<1>2. /\ sessions' = t /\ begun' = b
      /\ UNCHANGED <<now, up, todo, rows, stored, lives, owner, excused>>
  BY DEF Get, dbVars
<1> HIDE DEF t, b
<1>3. Types'
  BY <1>1, <1>2 DEF SessionInv, Types
<1>4. TableInv'
  BY <1>1, <1>2 DEF TableInv, Fits
<1>5. OwnInv'
  BY <1>1, <1>2 DEF SessionInv, OwnInv
<1>6. WindowInv'
  BY <1>1, <1>2 DEF WindowInv
<1>7. QED BY <1>3, <1>4, <1>5, <1>6 DEF SessionInv

LEMMA AddMessageKeeps ==
  ASSUME SessionInv, NEW key \in Keys, AddMessage(key)
  PROVE  SessionInv'
<1> DEFINE t == Touched(key)
           i == At(t, key)
           b == BegunAfter(t)
           m == Len(owner) + 1
           h == t[i].history
           w == WithMessage(h, m)
           s == [t[i] EXCEPT !.history = w]
           lost == IF Len(h) < HistoryRoom THEN excused ELSE excused \union {Head(h)}
           more == Len(sessions'[i].history) >= MaxHistory
           q == <<[do |-> "insert", key |-> key, of |-> {m}]>> \o
                  (IF more THEN <<[do |-> "summarize", key |-> key, of |-> {}]>> ELSE <<>>)
           c == [b EXCEPT ![key] = Append(@, m)]
<1>1. /\ t \in Seq(Slots) /\ Fits(t) /\ Owned(t, owner) /\ ShowsAll(t, b, excused)
      /\ b \in [Keys -> Seq(Ids)] /\ i \in 1 .. Len(t) /\ t[i].key = key
  BY TouchedKeeps DEF SessionInv, OwnInv
<1>2. /\ Len(owner) < MaxMessages /\ owner' = Append(owner, key) /\ begun' = c
      /\ excused' = lost /\ todo' = q
      /\ UNCHANGED <<now, up, rows, stored, lives>>
  BY DEF AddMessage, dbVars
<1>3. sessions' = [t EXCEPT ![i] = s]
  BY DEF AddMessage
<1>4. owner \in Seq(Keys) /\ Len(owner) \in Nat /\ m \in Ids /\ excused \in SUBSET Ids
  BY <1>2, Sizes DEF SessionInv, Types, Ids
<1> HIDE DEF t, i, b, m
<1>5. t[i] \in Slots /\ h \in Seq(Ids) /\ Len(h) <= HistoryRoom /\ b[key] \in Seq(Ids)
  <2>1. t[i] \in Slots
    BY <1>1, ElementOfSeq
  <2>2. QED BY <1>1, <2>1 DEF Slots, Fits
<1>6. Shows(t[i], b[key], excused)
  BY <1>1 DEF ShowsAll
<1>7. /\ Ends(h, b[key]) /\ (Len(h) < KeepRecent => h = b[key])
      /\ Range(b[key]) \subseteq Range(h) \union t[i].summary \union excused
  BY <1>6 DEF Shows
<1>8. /\ w \in Seq(Ids) /\ Len(w) <= HistoryRoom
      /\ Ends(w, Append(b[key], m)) /\ (Len(w) < KeepRecent => w = Append(b[key], m))
      /\ Range(w) \subseteq Range(h) \union {m}
      /\ Range(h) \union {m} \subseteq
           Range(w) \union (IF Len(h) < HistoryRoom THEN {} ELSE {Head(h)})
      /\ ~(Len(h) < HistoryRoom) => Head(h) \in Ids
  <2> HIDE DEF h
  <2>1. QED BY <1>4, <1>5, <1>7, WithMessageKeeps
<1> HIDE DEF h, w
<1>9. /\ s \in Slots /\ s.key = t[i].key /\ s.history = w
      /\ s.summary = t[i].summary /\ s.active = t[i].active
  BY <1>5, <1>8 DEF Slots
<1> HIDE DEF s
<1>10. /\ sessions' \in Seq(Slots) /\ Len(sessions') = Len(t) /\ Distinct(sessions')
       /\ \A j \in 1 .. Len(t) : sessions'[j] = IF j = i THEN s ELSE t[j]
       /\ \A j \in 1 .. Len(t) : sessions'[j].key = t[j].key
       /\ \A k : Index(sessions', k) = {} <=> Index(t, k) = {}
  <2>1. Distinct(t)
    BY <1>1 DEF Fits
  <2> DEFINE u == Replaced(t, i, s)
  <2>2. /\ u \in Seq(Slots) /\ Len(u) = Len(t) /\ Distinct(u)
        /\ \A j \in 1 .. Len(t) : u[j] = IF j = i THEN s ELSE t[j]
        /\ \A j \in 1 .. Len(t) : u[j].key = t[j].key
        /\ \A k : Index(u, k) = {} <=> Index(t, k) = {}
    BY <1>1, <1>9, <2>1, SlotReplaced
  <2>3. sessions' = u
    BY <1>3 DEF Replaced
  <2> HIDE DEF u
  <2>4. QED BY <2>2, <2>3
<1>11. lost \in SUBSET Ids /\ excused \subseteq lost
       /\ Range(h) \union {m} \subseteq Range(w) \union lost
  BY <1>4, <1>8
<1> HIDE DEF lost
<1>12. /\ q \in Seq(Statements)
       /\ \A j \in 1 .. Len(q) :
            /\ q[j].do \in {"insert", "summarize"} /\ q[j].key = key /\ q[j].of \subseteq {m}
  <2>1. more \in BOOLEAN
    OBVIOUS
  <2> HIDE DEF more
  <2>2. QED BY <1>4, <2>1, AddStatements
<1> HIDE DEF q
<1>13. /\ m \in Added(owner', key) /\ \A k : Added(owner, k) \subseteq Added(owner', k)
       /\ owner' \in Seq(Keys) /\ Len(owner') = m
  BY <1>2, <1>4, AddedGrows DEF m
<1>14. /\ c \in [Keys -> Seq(Ids)] /\ c[key] = Append(b[key], m)
       /\ \A k \in Keys : k # key => c[k] = b[k]
  <2>1. Append(b[key], m) \in Seq(Ids)
    BY <1>4, <1>5, AppendProperties
  <2>2. QED BY <1>1, <2>1
<1> HIDE DEF c
<1>15. Types'
  <2>1. m <= MaxMessages
    BY <1>4, Sizes DEF Ids
  <2>2. QED BY <1>2, <1>10, <1>11, <1>12, <1>13, <1>14, <2>1 DEF SessionInv, Types
<1>16. TableInv'
  <2>1. \A j \in 1 .. Len(t) : Len(t[j].history) <= HistoryRoom /\ t[j].active <= now
    BY <1>1 DEF Fits
  <2>2. \A j \in 1 .. Len(t) :
          Len(sessions'[j].history) <= HistoryRoom /\ sessions'[j].active <= now
    BY <1>1, <1>8, <1>9, <1>10, <2>1
  <2>3. QED BY <1>1, <1>2, <1>10, <2>2 DEF TableInv, Fits
<1>17. Owned(sessions', owner')
  <2>1. ASSUME NEW j \in 1 .. Len(t)
        PROVE  Range(sessions'[j].history) \union sessions'[j].summary
                 \subseteq Added(owner', sessions'[j].key)
    <3>1. Range(t[j].history) \union t[j].summary \subseteq Added(owner, t[j].key)
      BY <1>1 DEF Owned
    <3>2. Added(owner, t[j].key) \subseteq Added(owner', t[j].key)
      BY <1>13
    <3>3. CASE j = i
      <4>1. sessions'[j].history = w /\ sessions'[j].summary = t[i].summary
        BY <1>9, <1>10, <3>3
      <4>2. Range(w) \subseteq Range(t[i].history) \union {m}
        BY <1>8 DEF h
      <4>3. QED BY <1>1, <1>10, <1>13, <3>1, <3>2, <3>3, <4>1, <4>2
    <3>4. CASE j # i
      BY <1>10, <3>1, <3>2, <3>4
    <3>5. QED BY <3>3, <3>4
  <2>2. QED BY <1>10, <2>1 DEF Owned
<1>18. OwnInv'
  <2>1. \A k \in Keys :
          stored[k] \subseteq Added(owner', k) /\ (rows[k] = NoRow \/ rows[k] \subseteq Added(owner', k))
    BY <1>13 DEF SessionInv, OwnInv
  <2>2. \A j \in 1 .. Len(todo') : todo'[j].of \subseteq Added(owner', todo'[j].key)
    BY <1>2, <1>12, <1>13
  <2>3. QED BY <1>2, <1>17, <2>1, <2>2 DEF OwnInv
<1>19. WindowInv'
  <2>1. ASSUME NEW j \in 1 .. Len(t)
        PROVE  Shows(sessions'[j], c[sessions'[j].key], lost)
    <3>1. Shows(t[j], b[t[j].key], excused)
      BY <1>1 DEF ShowsAll
    <3>2. CASE j = i
      <4>1. sessions'[j] = s /\ sessions'[j].key = key
        BY <1>1, <1>9, <1>10, <3>2
      <4>2. Range(Append(b[key], m)) \subseteq Range(b[key]) \union {m}
        <5>1. Append(b[key], m) = b[key] \o <<m>> /\ <<m>> \in Seq(Ids)
          BY <1>4, <1>5, AppendIsConcat
        <5>2. Range(b[key] \o <<m>>) = Range(b[key]) \union Range(<<m>>)
          BY <1>5, <5>1, RangeConcatenation
        <5>3. Range(<<m>>) = {<<m>>[k] : k \in 1 .. Len(<<m>>)} /\ Len(<<m>>) = 1 /\ <<m>>[1] = m
          BY <5>1, RangeEquality
        <5>4. Range(<<m>>) = {m}
          BY <5>3
        <5>5. QED BY <5>1, <5>2, <5>4
      <4>3. Range(Append(b[key], m)) \subseteq Range(w) \union s.summary \union lost
        BY <1>7, <1>9, <1>11, <4>2
      <4>4. QED BY <1>8, <1>9, <1>14, <4>1, <4>3 DEF Shows
    <3>3. CASE j # i
      <4>1. sessions'[j] = t[j] /\ t[j].key # key
        BY <1>1, <1>10, <3>3 DEF Fits, Distinct
      <4>2. t[j].key \in Keys
        <5>1. t[j] \in Slots
          BY <1>1, ElementOfSeq
        <5>2. QED BY <5>1 DEF Slots
      <4>3. c[t[j].key] = b[t[j].key]
        BY <1>14, <4>1, <4>2
      <4>4. QED BY <1>11, <3>1, <4>1, <4>3 DEF Shows
    <3>4. QED BY <3>2, <3>3
  <2>2. ASSUME NEW k \in Keys, Index(sessions', k) = {} PROVE c[k] = <<>>
    <3>1. Index(t, k) = {}
      BY <1>10, <2>2
    <3>2. k # key
      BY <1>1, <3>1, IndexEmpty
    <3>3. QED BY <1>1, <1>14, <3>1, <3>2 DEF ShowsAll
  <2>3. QED BY <1>2, <1>10, <2>1, <2>2 DEF WindowInv, ShowsAll, Index
<1>20. QED BY <1>15, <1>16, <1>18, <1>19 DEF SessionInv

(* A new slot for a key: what has to be shown of the slot alone. *)
LEMMA SlotKeeps ==
  ASSUME SessionInv, NEW i \in 1 .. Len(sessions), NEW s \in Slots, s.key = sessions[i].key,
         s.active = sessions[i].active, Len(s.history) <= HistoryRoom,
         Range(s.history) \union s.summary \subseteq Added(owner, s.key),
         sessions' = Replaced(sessions, i, s),
         begun' \in [Keys -> Seq(Ids)], \A k \in Keys : k # s.key => begun'[k] = begun[k],
         excused \subseteq excused', Shows(s, begun'[s.key], excused'),
         UNCHANGED <<now, owner>>
  PROVE  /\ sessions' \in Seq(Slots) /\ TableInv' /\ Owned(sessions', owner') /\ WindowInv'
         /\ Len(sessions') = Len(sessions) /\ sessions'[i] = s
<1>1. sessions \in Seq(Slots) /\ Distinct(sessions)
  BY DEF SessionInv, Types, TableInv, Fits
<1>2. /\ sessions' \in Seq(Slots) /\ Len(sessions') = Len(sessions) /\ Distinct(sessions')
      /\ \A j \in 1 .. Len(sessions) : sessions'[j] = IF j = i THEN s ELSE sessions[j]
      /\ \A j \in 1 .. Len(sessions) : sessions'[j].key = sessions[j].key
      /\ \A k : Index(sessions', k) = {} <=> Index(sessions, k) = {}
  <2> DEFINE u == Replaced(sessions, i, s)
  <2>1. /\ u \in Seq(Slots) /\ Len(u) = Len(sessions) /\ Distinct(u)
        /\ \A j \in 1 .. Len(sessions) : u[j] = IF j = i THEN s ELSE sessions[j]
        /\ \A j \in 1 .. Len(sessions) : u[j].key = sessions[j].key
        /\ \A k : Index(u, k) = {} <=> Index(sessions, k) = {}
    BY <1>1, SlotReplaced
  <2> HIDE DEF u
  <2>2. sessions' = u
    BY DEF u
  <2>3. QED BY <2>1, <2>2
<1>3. TableInv'
  BY <1>2 DEF SessionInv, TableInv, Fits
<1>4. Owned(sessions', owner')
  BY <1>2 DEF SessionInv, OwnInv, Owned
<1>5. ASSUME NEW j \in 1 .. Len(sessions)
      PROVE  Shows(sessions'[j], begun'[sessions'[j].key], excused')
  <2>1. CASE j = i
    BY <1>2, <2>1
  <2>2. CASE j # i
    <3>1. sessions'[j] = sessions[j] /\ sessions[j].key # s.key
      BY <1>1, <1>2, <2>2 DEF Distinct
    <3>2. sessions[j].key \in Keys
      <4>1. sessions[j] \in Slots
        BY <1>1, ElementOfSeq
      <4>2. QED BY <4>1 DEF Slots
    <3>3. Shows(sessions[j], begun[sessions[j].key], excused)
      BY DEF SessionInv, WindowInv, ShowsAll
    <3>4. QED BY <3>1, <3>2, <3>3 DEF Shows
  <2>3. QED BY <2>1, <2>2
<1>6. ASSUME NEW k \in Keys, Index(sessions', k) = {} PROVE begun'[k] = <<>>
  <2>1. Index(sessions, k) = {}
    BY <1>2, <1>6
  <2>2. k # s.key
    <3>1. Index(sessions, k) = {} <=> \A j \in 1 .. Len(sessions) : sessions[j].key # k
      BY <1>1, IndexEmpty
    <3>2. QED BY <2>1, <3>1
  <2>3. QED BY <2>1, <2>2 DEF SessionInv, WindowInv, ShowsAll
<1>7. WindowInv'
  BY <1>2, <1>5, <1>6 DEF WindowInv, ShowsAll, Index
<1>8. QED BY <1>2, <1>3, <1>4, <1>7

(* The key a session is known by finds its slot. *)
LEMMA KnownSlot ==
  ASSUME SessionInv, NEW key \in Keys, Known(key)
  PROVE  /\ At(sessions, key) \in 1 .. Len(sessions)
         /\ sessions[At(sessions, key)] \in Slots
         /\ sessions[At(sessions, key)].key = key
<1>1. sessions \in Seq(Slots) /\ Distinct(sessions)
  BY DEF SessionInv, Types, TableInv, Fits
<1>2. PICK i \in 1 .. Len(sessions) : sessions[i].key = key
  BY <1>1, IndexEmpty DEF Known
<1>3. At(sessions, key) = i
  BY <1>1, <1>2, AtFinds
<1>4. QED BY <1>1, <1>2, <1>3, ElementOfSeq

LEMMA ClearKeeps ==
  ASSUME SessionInv, NEW key \in Keys, Clear(key)
  PROVE  SessionInv'
<1> DEFINE i == At(sessions, key)
           s == [sessions[i] EXCEPT !.history = <<>>, !.summary = {}]
           d == [do |-> "deleteMessages", key |-> key, of |-> {}]
           e == [do |-> "deleteSession", key |-> key, of |-> {}]
<1>1. i \in 1 .. Len(sessions) /\ sessions[i] \in Slots /\ sessions[i].key = key
  BY KnownSlot DEF Clear
<1>2. /\ todo' = <<d, e>> /\ begun' = [begun EXCEPT ![key] = <<>>]
      /\ UNCHANGED <<now, up, rows, stored, lives, owner, excused>>
  BY DEF Clear, dbVars
<1>3. sessions' = Replaced(sessions, i, s)
  BY DEF Clear, Replaced
<1> HIDE DEF i
<1>4. /\ s \in Slots /\ s.key = key /\ s.active = sessions[i].active
      /\ s.history = <<>> /\ s.summary = {}
  <2>1. <<>> \in Seq(Ids) /\ {} \in SUBSET Ids
    BY EmptySeq
  <2> DEFINE none == <<>>
             s2 == [sessions[i] EXCEPT !.history = none, !.summary = {}]
  <2>2. s2 = s
    OBVIOUS
  <2>3. none \in Seq(Ids)
    BY <2>1
  <2> HIDE DEF none
  <2>4. /\ s2 \in Slots /\ s2.key = key /\ s2.active = sessions[i].active
        /\ s2.history = none /\ s2.summary = {}
    BY <1>1, <2>1, <2>3 DEF Slots
  <2> HIDE DEF s2
  <2>5. QED BY <2>2, <2>4 DEF none
<1> HIDE DEF s
<1>5. begun \in [Keys -> Seq(Ids)] /\ HistoryRoom \in Nat
  BY Sizes DEF SessionInv, Types
<1>6. /\ begun' \in [Keys -> Seq(Ids)] /\ begun'[key] = <<>>
      /\ \A k \in Keys : k # key => begun'[k] = begun[k]
  BY <1>2, <1>5, EmptySeq
<1>7. Shows(s, <<>>, excused) /\ Range(s.history) \union s.summary = {}
  BY <1>4, NothingShown
<1>8. /\ sessions' \in Seq(Slots) /\ TableInv' /\ Owned(sessions', owner') /\ WindowInv'
  <2>1. /\ Len(s.history) <= HistoryRoom /\ s.key = sessions[i].key
        /\ Range(s.history) \union s.summary \subseteq Added(owner, s.key)
    BY <1>1, <1>4, <1>5, <1>7
  <2>2. Shows(s, begun'[s.key], excused') /\ excused \subseteq excused'
    BY <1>2, <1>4, <1>6, <1>7
  <2>3. /\ \A k \in Keys : k # s.key => begun'[k] = begun[k]
        /\ UNCHANGED <<now, owner>>
    BY <1>2, <1>4, <1>6
  <2>4. QED BY <1>1, <1>3, <1>4, <1>6, <2>1, <2>2, <2>3, SlotKeeps
<1>9. /\ todo' \in Seq(Statements)
      /\ \A j \in 1 .. Len(todo') : todo'[j].of \subseteq Added(owner', todo'[j].key)
  <2>1. d \in Statements /\ e \in Statements /\ d.of = {} /\ e.of = {}
    BY DEF Statements, Deletions
  <2> HIDE DEF d, e
  <2>2. <<d, e>> \in Seq(Statements) /\ Len(<<d, e>>) = 2 /\ <<d, e>>[1] = d /\ <<d, e>>[2] = e
    BY <2>1
  <2>3. \A j \in 1 .. 2 : j = 1 \/ j = 2
    OBVIOUS
  <2>4. QED BY <1>2, <2>1, <2>2, <2>3
<1>10. Types'
  BY <1>2, <1>6, <1>8, <1>9 DEF SessionInv, Types
<1>11. OwnInv'
  BY <1>2, <1>8, <1>9 DEF SessionInv, OwnInv
<1>12. QED BY <1>8, <1>10, <1>11 DEF SessionInv

(* Some of the first messages of a window are messages of it. *)
LEMMA FirstOfWindow ==
  ASSUME NEW h \in Seq(Ids), NEW n \in 0 .. Len(h)
  PROVE  Range(SubSeq(h, 1, n)) \subseteq Range(h) /\ Range(SubSeq(h, 1, n)) \subseteq Ids
<1> DEFINE a == SubSeq(h, 1, n)
<1>0. Len(h) \in Nat
  OBVIOUS
<1>1. a \in Seq(Ids) /\ Len(a) = n /\ \A i \in 1 .. n : a[i] = h[i]
  <2>1. \A i \in 1 .. n : h[i] \in Ids
    BY <1>0, ElementOfSeq
  <2>2. /\ a \in Seq(Ids) /\ Len(a) = IF 1 <= n THEN n - 1 + 1 ELSE 0
        /\ \A i \in 1 .. n - 1 + 1 : a[i] = h[1 + i - 1]
    BY <1>0, <2>1, SubSeqProperties
  <2> HIDE DEF a
  <2>3. Len(a) = n
    BY <1>0, <2>2
  <2>4. \A i \in 1 .. n : i \in 1 .. n - 1 + 1 /\ 1 + i - 1 = i
    BY <1>0
  <2>5. QED BY <2>2, <2>3, <2>4
<1> HIDE DEF a
<1>2. Range(a) = {a[i] : i \in 1 .. Len(a)} /\ Range(h) = {h[i] : i \in 1 .. Len(h)}
  BY <1>1, RangeEquality
<1>3. Range(a) \subseteq Range(h)
  BY <1>0, <1>1, <1>2
<1>4. Range(h) \in SUBSET Ids
  BY RangeOfSeq
<1>5. QED BY <1>3, <1>4 DEF a

LEMMA SummarizeKeeps ==
  ASSUME SessionInv, NEW fits \in {PromptRoom, HistoryRoom}, NEW answered \in BOOLEAN,
         Summarize(fits, answered)
  PROVE  SessionInv'
<1> DEFINE k == Head(todo).key
           i == At(sessions, k)
           h == sessions[i].history
           cut == Len(h) - KeepRecent
           few == IF fits < cut THEN fits ELSE cut
           told == Range(SubSeq(h, 1, few))
           gone == Range(SubSeq(h, 1, cut))
           held == sessions[i].summary \union told
           new == IF answered THEN held ELSE {}
           g == Recent(h)
           s == [sessions[i] EXCEPT !.summary = new, !.history = g]
           r == [do |-> "replace", key |-> k, of |-> new]
<1>1. k \in Keys
  <2>1. todo \in Seq(Statements) /\ todo # <<>>
    BY DEF SessionInv, Types, Summarize, Doing
  <2>2. Head(todo) \in Statements
    BY <2>1, HeadTailProperties
  <2>3. QED BY <2>2 DEF Statements
<1>2. /\ Known(k) /\ cut > 0 /\ todo' = <<r>>
      /\ excused' = excused \union (gone \ held) \union (held \ new)
      /\ UNCHANGED <<now, up, rows, stored, lives, owner, begun>>
  BY DEF Summarize, Session, dbVars
<1>3. i \in 1 .. Len(sessions) /\ sessions[i] \in Slots /\ sessions[i].key = k
  <2> HIDE DEF k
  <2>1. QED BY <1>1, <1>2, KnownSlot
<1>4. sessions' = Replaced(sessions, i, s)
  BY <1>3 DEF Summarize, Session, Replaced, Slots
<1> HIDE DEF k, r
<1> HIDE DEF i
<1>5. h \in Seq(Ids) /\ sessions[i].summary \subseteq Ids /\ Len(h) \in Nat
  BY <1>3 DEF Slots
<1>6. /\ Range(h) \union sessions[i].summary \subseteq Added(owner, k)
      /\ Shows(sessions[i], begun[k], excused)
  BY <1>3 DEF SessionInv, OwnInv, Owned, WindowInv, ShowsAll
<1>7. /\ Ends(h, begun[k])
      /\ Range(begun[k]) \subseteq Range(h) \union sessions[i].summary \union excused
  BY <1>6 DEF Shows
<1>8. begun \in [Keys -> Seq(Ids)] /\ excused \in SUBSET Ids
  BY DEF SessionInv, Types
<1> HIDE DEF h
<1>9. few \in 0 .. Len(h) /\ cut \in 0 .. Len(h) /\ Len(h) > KeepRecent
  BY <1>2, <1>5, Sizes
<1>10. /\ told \subseteq Range(h) /\ told \subseteq Ids
       /\ gone \subseteq Range(h) /\ gone \subseteq Ids
  <2> HIDE DEF few
  <2>1. told \subseteq Range(h) /\ told \subseteq Ids
    BY <1>5, <1>9, FirstOfWindow
  <2> HIDE DEF cut
  <2>2. gone \subseteq Range(h) /\ gone \subseteq Ids
    BY <1>5, <1>9, FirstOfWindow
  <2>3. QED BY <2>1, <2>2
<1>11. /\ g \in Seq(Ids) /\ Len(g) = KeepRecent /\ Ends(g, h) /\ Range(g) \subseteq Range(h)
       /\ Range(h) \subseteq gone \union Range(g)
  BY <1>5, <1>9, RecentEnds
<1> HIDE DEF told, gone, g, cut, few
<1>12. Ends(g, begun[k])
  BY <1>1, <1>5, <1>7, <1>8, <1>11, EndOfEnd
<1>13. held \subseteq Ids /\ new \subseteq Ids /\ new \subseteq held
       /\ held \subseteq Added(owner, k)
  BY <1>5, <1>6, <1>10
<1>14. /\ excused' \in SUBSET Ids /\ excused \subseteq excused'
       /\ Range(begun[k]) \subseteq Range(g) \union new \union excused'
  <2>1. excused' \in SUBSET Ids /\ excused \subseteq excused'
    BY <1>2, <1>8, <1>10, <1>13
  <2>2. gone \subseteq held \union excused' /\ held \subseteq new \union excused'
    BY <1>2
  <2>3. sessions[i].summary \subseteq held
    OBVIOUS
  <2> HIDE DEF held, new
  <2>4. QED BY <1>7, <1>11, <2>1, <2>2, <2>3
<1> HIDE DEF new, held
<1>15. /\ s \in Slots /\ s.key = k /\ s.active = sessions[i].active
       /\ s.history = g /\ s.summary = new
  BY <1>3, <1>11, <1>13 DEF Slots
<1> HIDE DEF s
<1>16. /\ sessions' \in Seq(Slots) /\ TableInv' /\ Owned(sessions', owner') /\ WindowInv'
  <2>1. /\ Len(s.history) <= HistoryRoom /\ s.key = sessions[i].key
        /\ Range(s.history) \union s.summary \subseteq Added(owner, s.key)
    BY <1>3, <1>6, <1>11, <1>13, <1>15, Sizes
  <2>2. ~(Len(g) < KeepRecent)
    BY <1>11, Sizes
  <2>3. Shows(s, begun'[s.key], excused')
    BY <1>2, <1>12, <1>14, <1>15, <2>2 DEF Shows
  <2>4. /\ begun' \in [Keys -> Seq(Ids)] /\ \A x \in Keys : x # s.key => begun'[x] = begun[x]
        /\ UNCHANGED <<now, owner>> /\ excused \subseteq excused'
    BY <1>2, <1>8, <1>14
  <2>5. QED BY <1>4, <1>3, <1>15, <2>1, <2>3, <2>4, SlotKeeps
<1>17. /\ todo' \in Seq(Statements)
       /\ \A j \in 1 .. Len(todo') : todo'[j].of \subseteq Added(owner', todo'[j].key)
  <2>1. r \in Statements /\ r.of = new /\ r.key = k
    BY <1>1, <1>13 DEF Statements, r
  <2>2. <<r>> \in Seq(Statements) /\ Len(<<r>>) = 1 /\ <<r>>[1] = r
    BY <2>1
  <2>3. QED BY <1>2, <1>13, <2>1, <2>2
<1>18. Types'
  BY <1>2, <1>8, <1>14, <1>16, <1>17 DEF SessionInv, Types
<1>19. OwnInv'
  BY <1>2, <1>16, <1>17 DEF SessionInv, OwnInv
<1>20. QED BY <1>16, <1>18, <1>19 DEF SessionInv

-----------------------------------------------------------------------------
(* The statement at work, and those after it. *)
LEMMA FirstStatement ==
  ASSUME todo \in Seq(Statements), todo # <<>>
  PROVE  /\ Head(todo) = todo[1] /\ 1 \in 1 .. Len(todo) /\ todo[1] \in Statements
         /\ Tail(todo) \in Seq(Statements) /\ Len(Tail(todo)) = Len(todo) - 1
         /\ \A i \in 1 .. Len(Tail(todo)) :
              i + 1 \in 1 .. Len(todo) /\ Tail(todo)[i] = todo[i + 1]
<1>1. Len(todo) \in Nat /\ Len(todo) >= 1 /\ Head(todo) = todo[1]
  OBVIOUS
<1>2. /\ Tail(todo) \in Seq(Statements) /\ Len(Tail(todo)) = Len(todo) - 1
      /\ \A i \in 1 .. Len(Tail(todo)) : Tail(todo)[i] = todo[i + 1]
  BY HeadTailProperties
<1>3. 1 \in 1 .. Len(todo) /\ todo[1] \in Statements
  BY <1>1, ElementOfSeq
<1>4. \A i \in 1 .. Len(Tail(todo)) : i + 1 \in 1 .. Len(todo)
  BY <1>1, <1>2
<1>5. QED BY <1>1, <1>2, <1>3, <1>4

(* One statement done: the table stays, and each key's rows stay its own. *)
LEMMA StatementKeeps ==
  ASSUME SessionInv,
         Insert \/ Replace \/ DeleteMessages \/ DeleteSession \/ SummaryFails
  PROVE  SessionInv'
<1> DEFINE k == todo[1].key
<1>1. /\ todo \in Seq(Statements) /\ todo # <<>> /\ todo' = Tail(todo)
      /\ rows \in [Keys -> (SUBSET Ids) \union {NoRow}] /\ stored \in [Keys -> SUBSET Ids]
      /\ UNCHANGED <<now, up, sessions, lives, owner, begun, excused>>
  BY DEF SessionInv, Types, Insert, Replace, DeleteMessages, DeleteSession, SummaryFails, Doing,
         dbVars, historyVars
<1>2. /\ Head(todo) = todo[1] /\ 1 \in 1 .. Len(todo) /\ todo[1] \in Statements
      /\ todo' \in Seq(Statements)
      /\ \A i \in 1 .. Len(todo') : i + 1 \in 1 .. Len(todo) /\ todo'[i] = todo[i + 1]
  BY <1>1, FirstStatement
<1>3. /\ k \in Keys /\ todo[1].of \in SUBSET Ids /\ todo[1].of \subseteq Added(owner, k)
  <2>1. todo[1].of \subseteq Added(owner, k)
    BY <1>2 DEF SessionInv, OwnInv
  <2>2. QED BY <1>2, <2>1 DEF Statements
<1>4. \A x \in Keys :
        stored[x] \subseteq Added(owner, x) /\ (rows[x] = NoRow \/ rows[x] \subseteq Added(owner, x))
  BY DEF SessionInv, OwnInv
<1>5. \/ rows' = rows /\ stored' = stored
      \/ rows' = rows /\ stored' = [stored EXCEPT ![k] = @ \union todo[1].of]
      \/ stored' = stored /\ rows' = [rows EXCEPT ![k] = todo[1].of]
      \/ rows' = rows /\ stored' = [stored EXCEPT ![k] = {}]
      \/ stored' = stored /\ rows' = [rows EXCEPT ![k] = NoRow]
  <2>1. CASE Insert
    BY <1>2, <2>1 DEF Insert
  <2>2. CASE Replace
    BY <1>2, <2>2 DEF Replace
  <2>3. CASE DeleteMessages
    BY <1>2, <2>3 DEF DeleteMessages
  <2>4. CASE DeleteSession
    BY <1>2, <2>4 DEF DeleteSession
  <2>5. CASE SummaryFails
    BY <2>5 DEF SummaryFails, dbVars
  <2>6. QED BY <2>1, <2>2, <2>3, <2>4, <2>5
<1> DEFINE of == todo[1].of
<1> HIDE DEF k, of
<1>6. /\ rows' \in [Keys -> (SUBSET Ids) \union {NoRow}] /\ stored' \in [Keys -> SUBSET Ids]
      /\ \A x \in Keys :
           /\ stored'[x] \subseteq Added(owner, x)
           /\ rows'[x] = NoRow \/ rows'[x] \subseteq Added(owner, x)
  <2>0. of \in SUBSET Ids /\ of \subseteq Added(owner, k) /\ k \in Keys
    BY <1>3 DEF of
  <2>1. CASE rows' = rows /\ stored' = stored
    BY <1>1, <1>4, <2>1
  <2>2. CASE rows' = rows /\ stored' = [stored EXCEPT ![k] = @ \union of]
    BY <1>1, <1>4, <2>0, <2>2
  <2>3. CASE stored' = stored /\ rows' = [rows EXCEPT ![k] = of]
    BY <1>1, <1>4, <2>0, <2>3
  <2>4. CASE rows' = rows /\ stored' = [stored EXCEPT ![k] = {}]
    BY <1>1, <1>4, <2>0, <2>4
  <2>5. CASE stored' = stored /\ rows' = [rows EXCEPT ![k] = NoRow]
    BY <1>1, <1>4, <2>0, <2>5
  <2>6. QED BY <1>5, <2>1, <2>2, <2>3, <2>4, <2>5 DEF of
<1>7. Types'
  BY <1>1, <1>2, <1>6 DEF SessionInv, Types
<1>8. OwnInv'
  <2>1. Owned(sessions', owner')
    BY <1>1 DEF SessionInv, OwnInv
  <2>2. \A i \in 1 .. Len(todo') : todo'[i].of \subseteq Added(owner', todo'[i].key)
    BY <1>1, <1>2 DEF SessionInv, OwnInv
  <2>3. QED BY <1>1, <1>6, <2>1, <2>2 DEF OwnInv
<1>9. TableInv' /\ WindowInv'
  BY <1>1 DEF SessionInv, TableInv, Fits, WindowInv
<1>10. QED BY <1>7, <1>8, <1>9 DEF SessionInv

(* A summary asked for, or the save of every session. *)
LEMMA AskKeeps ==
  ASSUME SessionInv, SaveAll \/ \E key \in Keys : AskSummary(key)
  PROVE  SessionInv'
<1>1. UNCHANGED <<now, up, sessions, rows, stored, lives, owner, begun, excused>>
  BY DEF SaveAll, AskSummary, dbVars, historyVars
<1>2. /\ todo' \in Seq(Statements)
      /\ \A i \in 1 .. Len(todo') : todo'[i].of \subseteq Added(owner, todo'[i].key)
  <2>1. CASE \E key \in Keys : AskSummary(key)
    <3>1. PICK key \in Keys : AskSummary(key)
      BY <2>1
    <3> DEFINE a == [do |-> "summarize", key |-> key, of |-> {}]
    <3>2. todo' = <<a>>
      BY <3>1 DEF AskSummary
    <3>3. a \in Statements /\ a.of = {}
      BY DEF Statements
    <3> HIDE DEF a
    <3>4. <<a>> \in Seq(Statements) /\ Len(<<a>>) = 1 /\ <<a>>[1] = a
      BY <3>3
    <3>5. QED BY <3>2, <3>3, <3>4
  <2>2. CASE SaveAll
    <3> DEFINE n == Len(sessions)
    <3>1. /\ sessions \in Seq(Slots) /\ n \in Nat /\ DOMAIN sessions = 1 .. n
          /\ \A i \in 1 .. n : sessions[i] \in Slots
      BY ElementOfSeq DEF SessionInv, Types
    <3>2. todo' = [i \in 1 .. n |->
                     [do |-> "replace", key |-> sessions[i].key, of |-> sessions[i].summary]]
      BY <2>2, <3>1 DEF SaveAll
    <3>3. \A i \in 1 .. n :
            [do |-> "replace", key |-> sessions[i].key, of |-> sessions[i].summary] \in Statements
      BY <3>1 DEF Slots, Statements
    <3>4. todo' \in [1 .. n -> Statements]
      BY <3>2, <3>3
    <3>5. todo' \in Seq(Statements) /\ Len(todo') = n
      BY <3>1, <3>4
    <3>6. \A i \in 1 .. n : sessions[i].summary \subseteq Added(owner, sessions[i].key)
      BY DEF SessionInv, OwnInv, Owned
    <3>7. \A i \in 1 .. n :
            todo'[i].of = sessions[i].summary /\ todo'[i].key = sessions[i].key
      BY <3>2
    <3>8. QED BY <3>5, <3>6, <3>7
  <2>3. QED BY <2>1, <2>2
<1>3. Types'
  BY <1>1, <1>2 DEF SessionInv, Types
<1>4. OwnInv'
  BY <1>1, <1>2 DEF SessionInv, OwnInv
<1>5. TableInv' /\ WindowInv'
  BY <1>1 DEF SessionInv, TableInv, Fits, WindowInv
<1>6. QED BY <1>3, <1>4, <1>5 DEF SessionInv

LEMMA EmptyTable ==
  ASSUME sessions = <<>>, begun = [k \in Keys |-> <<>>]
  PROVE  TableInv /\ Owned(sessions, owner) /\ WindowInv /\ begun \in [Keys -> Seq(Ids)]
<1>1. /\ sessions \in Seq(Slots) /\ Len(sessions) = 0 /\ 1 .. Len(sessions) = {}
  BY EmptySeq
<1>2. TableInv
  BY <1>1, Sizes DEF TableInv, Fits, Distinct
<1>3. Owned(sessions, owner) /\ WindowInv
  BY <1>1 DEF Owned, WindowInv, ShowsAll
<1>4. QED BY <1>2, <1>3, EmptySeq

LEMMA DownKeeps ==
  ASSUME SessionInv, Down
  PROVE  SessionInv'
<1>1. /\ sessions' = <<>> /\ todo' = <<>> /\ up' = FALSE
      /\ UNCHANGED <<now, rows, stored, lives, owner, excused>>
      /\ begun' = [k \in Keys |-> <<>>]
  BY DEF Down, dbVars
<1>2. /\ sessions' \in Seq(Slots) /\ Len(sessions') = 0 /\ 1 .. Len(sessions') = {}
      /\ todo' \in Seq(Statements) /\ Len(todo') = 0 /\ 1 .. Len(todo') = {}
  BY <1>1, EmptySeq
<1>3. TableInv'
  BY <1>2, Sizes DEF TableInv, Fits, Distinct
<1>4. Owned(sessions', owner') /\ WindowInv'
  BY <1>1, <1>2 DEF Owned, WindowInv, ShowsAll
<1>5. begun' \in [Keys -> Seq(Ids)]
  BY <1>1, EmptySeq
<1>6. Types'
  BY <1>1, <1>2, <1>5 DEF SessionInv, Types
<1>7. OwnInv'
  BY <1>1, <1>2, <1>4 DEF SessionInv, OwnInv
<1>8. QED BY <1>3, <1>4, <1>6, <1>7 DEF SessionInv

LEMMA SessionInvInit == Init => SessionInv
<1> SUFFICES ASSUME Init PROVE SessionInv
  OBVIOUS
<1>1. /\ sessions = <<>> /\ todo = <<>> /\ owner = <<>> /\ excused = {} /\ now = 0 /\ up = TRUE
      /\ lives = 1 /\ rows = [k \in Keys |-> NoRow] /\ stored = [k \in Keys |-> {}]
      /\ begun = [k \in Keys |-> <<>>]
  BY DEF Init
<1>2. TableInv /\ Owned(sessions, owner) /\ WindowInv /\ begun \in [Keys -> Seq(Ids)]
  BY <1>1, EmptyTable
<1>3. /\ sessions \in Seq(Slots) /\ todo \in Seq(Statements) /\ Len(todo) = 0
      /\ owner \in Seq(Keys) /\ Len(owner) = 0
  BY <1>1, EmptySeq
<1>4. now \in 0 .. MaxNow /\ lives \in 1 .. MaxLives /\ Len(owner) <= MaxMessages
  BY <1>1, <1>3, Sizes
<1>5. rows \in [Keys -> (SUBSET Ids) \union {NoRow}] /\ stored \in [Keys -> SUBSET Ids]
  BY <1>1
<1>6. Types
  BY <1>1, <1>2, <1>3, <1>4, <1>5 DEF Types
<1>7. OwnInv
  BY <1>1, <1>2, <1>3 DEF OwnInv
<1>8. QED BY <1>2, <1>6, <1>7 DEF SessionInv

LEMMA SessionInvStep == SessionInv /\ [Next]_vars => SessionInv'
<1> SUFFICES ASSUME SessionInv, [Next]_vars PROVE SessionInv'
  OBVIOUS
<1>1. ASSUME NEW key \in Keys, Get(key) \/ AddMessage(key) \/ AskSummary(key) \/ Clear(key)
      PROVE  SessionInv'
  BY <1>1, GetKeeps, AddMessageKeeps, AskKeeps, ClearKeeps
<1>2. CASE Insert \/ Replace \/ DeleteMessages \/ DeleteSession \/ SummaryFails
  BY <1>2, StatementKeeps
<1>3. CASE SaveAll
  BY <1>3, AskKeeps
<1>4. ASSUME NEW fits \in {PromptRoom, HistoryRoom}, NEW answered \in BOOLEAN,
             Summarize(fits, answered)
      PROVE  SessionInv'
  BY <1>4, SummarizeKeeps
<1>5. CASE Down
  BY <1>5, DownKeeps
<1>6. CASE Start
  <2>1. lives' \in 1 .. MaxLives
    BY <1>6, Sizes DEF SessionInv, Types, Start
  <2>2. /\ up' = TRUE
        /\ UNCHANGED <<now, sessions, todo, rows, stored, owner, begun, excused>>
    BY <1>6 DEF Start, dbVars, historyVars
  <2>3. QED BY <2>1, <2>2 DEF SessionInv, Types, TableInv, Fits, OwnInv, WindowInv
<1>7. CASE Clock
  <2>1. now' \in 0 .. MaxNow /\ now \in Nat /\ now' = now + 1
    BY <1>7, Sizes DEF SessionInv, Types, Clock
  <2>2. UNCHANGED <<up, sessions, todo, rows, stored, lives, owner, begun, excused>>
    BY <1>7 DEF Clock, dbVars, historyVars
  <2>3. Types'
    BY <2>1, <2>2 DEF SessionInv, Types
  <2>4. TableInv'
    <3>1. \A i \in 1 .. Len(sessions) : sessions[i].active \in Nat
      <4>1. \A i \in 1 .. Len(sessions) : sessions[i] \in Slots
        BY ElementOfSeq DEF SessionInv, Types
      <4>2. \A s \in Slots : s.active \in Nat
        BY Sizes DEF Slots
      <4>3. QED BY <4>1, <4>2
    <3>2. \A i \in 1 .. Len(sessions) : sessions[i].active <= now'
      BY <2>1, <3>1 DEF SessionInv, TableInv, Fits
    <3>3. QED BY <2>2, <3>2 DEF SessionInv, TableInv, Fits
  <2>5. OwnInv' /\ WindowInv'
    BY <2>2 DEF SessionInv, OwnInv, WindowInv
  <2>6. QED BY <2>3, <2>4, <2>5 DEF SessionInv
<1>8. CASE UNCHANGED vars
  BY <1>8 DEF vars, dbVars, historyVars, SessionInv, Types, TableInv, Fits, OwnInv, WindowInv
<1>9. QED BY <1>1, <1>2, <1>3, <1>4, <1>5, <1>6, <1>7, <1>8 DEF Next

(* The inductive invariant of the sessions. *)
LEMMA SessionInvariant == Spec => []SessionInv
<1>1. QED BY SessionInvInit, SessionInvStep, PTL DEF Spec

(* Every variable keeps its type, and no key ever has two slots. *)
THEOREM SessionTypes == Spec => []TypeOK
<1>1. SessionInv => TypeOK
  <2> SUFFICES ASSUME SessionInv PROVE TypeOK
    OBVIOUS
  <2>1. sessions \in Seq(Slots) /\ DOMAIN sessions = 1 .. Len(sessions)
    BY DEF SessionInv, Types
  <2>2. ASSUME NEW i \in DOMAIN sessions
        PROVE  /\ sessions[i].key \in Keys /\ Index(sessions, sessions[i].key) = {i}
               /\ sessions[i].history \in Seq(Ids) /\ Len(sessions[i].history) <= HistoryRoom
               /\ sessions[i].summary \subseteq Ids /\ sessions[i].active \in 0 .. now
    <3>1. sessions[i] \in Slots /\ Len(sessions[i].history) <= HistoryRoom /\ sessions[i].active <= now
      BY <2>1, ElementOfSeq DEF SessionInv, TableInv, Fits
    <3>2. Index(sessions, sessions[i].key) = {i}
      BY <2>1 DEF SessionInv, TableInv, Fits, Distinct, Index
    <3>3. now \in Nat
      BY Sizes DEF SessionInv, Types
    <3>4. sessions[i].active \in 0 .. now
      BY <3>1, <3>3, Sizes DEF Slots
    <3>5. QED BY <3>1, <3>2, <3>4 DEF Slots
  <2>3. QED BY <2>2 DEF TypeOK, SessionInv, Types, TableInv, Fits
<1>2. QED BY <1>1, SessionInvariant, PTL

(* The window of every session is the latest of its messages, without a gap. *)
THEOREM WindowsAreLatest == Spec => []HistoryIsLatest
<1>1. SessionInv => HistoryIsLatest
  <2> SUFFICES ASSUME SessionInv, NEW i \in DOMAIN sessions
               PROVE  /\ IsSuffix(sessions[i].history, begun[sessions[i].key])
                      /\ Len(sessions[i].history) < KeepRecent =>
                           sessions[i].history = begun[sessions[i].key]
    BY DEF HistoryIsLatest
  <2>1. /\ sessions \in Seq(Slots) /\ i \in 1 .. Len(sessions)
        /\ begun \in [Keys -> Seq(Ids)]
    BY DEF SessionInv, Types
  <2>2. sessions[i].history \in Seq(Ids) /\ begun[sessions[i].key] \in Seq(Ids)
    <3>1. sessions[i] \in Slots
      BY <2>1, ElementOfSeq
    <3>2. QED BY <2>1, <3>1 DEF Slots
  <2>3. Shows(sessions[i], begun[sessions[i].key], excused)
    BY <2>1 DEF SessionInv, WindowInv, ShowsAll
  <2>4. QED BY <2>2, <2>3, EndsIsSuffix DEF Shows
<1>2. QED BY <1>1, SessionInvariant, PTL

(* Every message of a session is in its window, in its summary, or one for *)
(* which no prompt had room or the provider failed.                        *)
THEOREM MessagesAreKept == Spec => []NothingForgotten
<1>1. SessionInv => NothingForgotten
  <2>1. SessionInv => DOMAIN sessions = 1 .. Len(sessions)
    BY DEF SessionInv, Types
  <2>2. QED BY <2>1 DEF SessionInv, WindowInv, ShowsAll, Shows, NothingForgotten
<1>2. QED BY <1>1, SessionInvariant, PTL

(* No message reaches the window, the summary or the rows of another key. *)
THEOREM SessionsStayApart == Spec => []Isolated
<1>1. SessionInv => Isolated
  <2> SUFFICES ASSUME SessionInv PROVE Isolated
    OBVIOUS
  <2>1. DOMAIN sessions = 1 .. Len(sessions)
    BY DEF SessionInv, Types
  <2>2. ASSUME NEW i \in DOMAIN sessions,
               NEW m \in Range(sessions[i].history) \union sessions[i].summary
        PROVE  owner[m] = sessions[i].key
    BY <2>1 DEF SessionInv, OwnInv, Owned, Added
  <2>3. ASSUME NEW k \in Keys, NEW m \in stored[k] \union (rows[k] \ NoRow)
        PROVE  owner[m] = k
    BY DEF SessionInv, OwnInv, Added
  <2>4. QED BY <2>2, <2>3 DEF Isolated
<1>2. QED BY <1>1, SessionInvariant, PTL

-----------------------------------------------------------------------------
(* No deletion is left to do unless one is at work. *)
LEMMA DeletionsComeFirst ==
  ASSUME ClearInv, todo \in Seq(Statements), todo # <<>>, todo[1].do \notin Deletions
  PROVE  \A i \in 1 .. Len(todo) : todo[i].do \notin Deletions
<1> SUFFICES ASSUME NEW i \in 1 .. Len(todo), todo[i].do \in Deletions PROVE FALSE
  OBVIOUS
<1>1. /\ todo[i].do = "deleteMessages" => i = 1
      /\ todo[i].do = "deleteSession" => i = 1 \/ todo[1].do = "deleteMessages"
  BY DEF ClearInv
<1>2. QED BY <1>1 DEF Deletions

(* When the messages of a key are deleted its row is still to be. *)
LEMMA RowIsStillToGo ==
  ASSUME ClearInv, todo \in Seq(Statements), todo # <<>>, todo[1].do = "deleteMessages"
  PROVE  Tail(todo) # <<>>
<1>1. /\ 1 \in 1 .. Len(todo) /\ Tail(todo) \in Seq(Statements)
      /\ Len(Tail(todo)) = Len(todo) - 1
  BY FirstStatement
<1>2. Len(todo) = 2
  BY <1>1 DEF ClearInv, Deletions
<1>3. Tail(todo) = <<>> => Len(Tail(todo)) = 0
  BY EmptySeq
<1> DEFINE n == Len(Tail(todo))
           l == Len(todo)
<1>4. n = l - 1 /\ l = 2 /\ (Tail(todo) = <<>> => n = 0)
  BY <1>1, <1>2, <1>3
<1> HIDE DEF n, l
<1>5. n # 0
  BY <1>4
<1>6. QED BY <1>4, <1>5

(* Without a deletion there is nothing to show. *)
LEMMA NothingToClear ==
  ASSUME \A i \in 1 .. Len(todo') : todo'[i].do \notin Deletions
  PROVE  ClearInv'
BY DEF ClearInv

LEMMA ClearInvStep == SessionInv /\ ClearInv /\ [Next]_vars => ClearInv'
<1> SUFFICES ASSUME SessionInv, ClearInv, [Next]_vars PROVE ClearInv'
  OBVIOUS
<1>0. todo \in Seq(Statements) /\ stored \in [Keys -> SUBSET Ids] /\ Len(todo) \in Nat
  BY DEF SessionInv, Types
<1>1. ASSUME UNCHANGED <<sessions, todo, stored>> PROVE ClearInv'
  BY <1>1 DEF ClearInv
<1>2. ASSUME todo' = <<>> PROVE ClearInv'
  <2>1. 1 .. Len(todo') = {}
    BY <1>2, EmptySeq
  <2>2. QED BY <2>1, NothingToClear
<1>3. ASSUME NEW key \in Keys, Get(key) PROVE ClearInv'
  BY <1>3, <1>2 DEF Get, Idle
<1>4. ASSUME NEW key \in Keys, AddMessage(key) PROVE ClearInv'
  <2> DEFINE m == Len(owner) + 1
             more == Len(sessions'[At(Touched(key), key)].history) >= MaxHistory
  <2>1. /\ todo' = <<[do |-> "insert", key |-> key, of |-> {m}]>> \o
                     (IF more THEN <<[do |-> "summarize", key |-> key, of |-> {}]>> ELSE <<>>)
        /\ Len(owner) < MaxMessages
    BY <1>4 DEF AddMessage
  <2>2. m \in Ids /\ more \in BOOLEAN
    BY <2>1, Sizes DEF SessionInv, Types, Ids
  <2> HIDE DEF m, more
  <2> DEFINE q == <<[do |-> "insert", key |-> key, of |-> {m}]>> \o
                  (IF more THEN <<[do |-> "summarize", key |-> key, of |-> {}]>> ELSE <<>>)
  <2>3. \A i \in 1 .. Len(q) : q[i].do \in {"insert", "summarize"}
    BY <2>2, AddStatements
  <2>4. \A i \in 1 .. Len(todo') : todo'[i].do \notin Deletions
    <3>1. todo' = q
      BY <2>1
    <3> HIDE DEF q
    <3>2. QED BY <2>3, <3>1 DEF Deletions
  <2>5. QED BY <2>4, NothingToClear
<1>5. ASSUME NEW key \in Keys, AskSummary(key) PROVE ClearInv'
  <2> DEFINE a == [do |-> "summarize", key |-> key, of |-> {}]
  <2>1. todo' = <<a>>
    BY <1>5 DEF AskSummary
  <2>2. a.do \notin Deletions
    BY DEF Deletions
  <2> HIDE DEF a
  <2>3. \A i \in 1 .. Len(todo') : todo'[i] = a
    BY <2>1
  <2>4. QED BY <2>2, <2>3, NothingToClear
<1>6. ASSUME NEW key \in Keys, Clear(key) PROVE ClearInv'
  <2> DEFINE i == At(sessions, key)
             s == [sessions[i] EXCEPT !.history = <<>>, !.summary = {}]
             d == [do |-> "deleteMessages", key |-> key, of |-> {}]
             e == [do |-> "deleteSession", key |-> key, of |-> {}]
  <2>1. i \in 1 .. Len(sessions) /\ sessions[i] \in Slots /\ sessions[i].key = key
    BY <1>6, KnownSlot DEF Clear
  <2>2. todo' = <<d, e>> /\ sessions' = [sessions EXCEPT ![i] = s]
    BY <1>6 DEF Clear
  <2> HIDE DEF i
  <2>3. s \in Slots /\ s.key = key /\ s.history = <<>> /\ s.summary = {}
    <3> DEFINE none == <<>>
    <3>1. none \in Seq(Ids)
      BY EmptySeq
    <3> HIDE DEF none
    <3>2. LET s2 == [sessions[i] EXCEPT !.history = none, !.summary = {}]
          IN  s2 \in Slots /\ s2.key = key /\ s2.history = none /\ s2.summary = {}
      BY <2>1, <3>1 DEF Slots
    <3>3. QED BY <3>2 DEF none
  <2> HIDE DEF s
  <2>4. sessions'[i] = s /\ i \in 1 .. Len(sessions')
    <3>1. sessions \in Seq(Slots)
      BY DEF SessionInv, Types
    <3> DEFINE u == [sessions EXCEPT ![i] = s]
    <3>2. Len(u) = Len(sessions) /\ u[i] = s
      BY <2>1, <2>3, <3>1, ExceptSeq
    <3>3. sessions' = u
      BY <2>2
    <3> HIDE DEF u
    <3>4. QED BY <2>1, <3>2, <3>3
  <2>5. Emptied(sessions', key)
    <3>1. \E j \in 1 .. Len(sessions') :
            sessions'[j].key = key /\ sessions'[j].history = <<>> /\ sessions'[j].summary = {}
      BY <2>3, <2>4
    <3>2. QED BY <3>1 DEF Emptied
  <2>6. /\ d.do = "deleteMessages" /\ e.do = "deleteSession" /\ d.key = key /\ e.key = key
        /\ d.do # e.do
    OBVIOUS
  <2> HIDE DEF d, e
  <2>7. Len(todo') = 2 /\ todo'[1] = d /\ todo'[2] = e /\ \A j \in 1 .. 2 : j = 1 \/ j = 2
    BY <2>2
  <2>8. QED BY <2>5, <2>6, <2>7 DEF ClearInv
<1>7. CASE SaveAll
  <2>1. DOMAIN sessions = 1 .. Len(sessions) /\ Len(sessions) \in Nat
    BY DEF SessionInv, Types
  <2>2. todo' = [i \in 1 .. Len(sessions) |->
                   [do |-> "replace", key |-> sessions[i].key, of |-> sessions[i].summary]]
    BY <1>7, <2>1 DEF SaveAll
  <2>3. Len(todo') = Len(sessions)
    BY <2>1, <2>2
  <2>4. \A i \in 1 .. Len(todo') : todo'[i].do \notin Deletions
    BY <2>2, <2>3 DEF Deletions
  <2>5. QED BY <2>4, NothingToClear
<1>8. CASE Insert \/ Replace \/ SummaryFails
  <2>1. todo # <<>> /\ todo' = Tail(todo) /\ Head(todo).do \notin Deletions
    BY <1>8 DEF Insert, Replace, SummaryFails, Doing, Deletions
  <2>2. /\ Head(todo) = todo[1]
        /\ \A i \in 1 .. Len(todo') : i + 1 \in 1 .. Len(todo) /\ todo'[i] = todo[i + 1]
    BY <1>0, <2>1, FirstStatement
  <2>3. \A i \in 1 .. Len(todo) : todo[i].do \notin Deletions
    BY <1>0, <2>1, <2>2, DeletionsComeFirst
  <2>4. \A i \in 1 .. Len(todo') : todo'[i].do \notin Deletions
    BY <2>2, <2>3
  <2>5. QED BY <2>4, NothingToClear
<1>9. CASE DeleteMessages
  <2>1. /\ todo # <<>> /\ todo' = Tail(todo) /\ Head(todo).do = "deleteMessages"
        /\ stored' = [stored EXCEPT ![Head(todo).key] = {}] /\ sessions' = sessions
    BY <1>9 DEF DeleteMessages, Doing
  <2>2. /\ Head(todo) = todo[1] /\ 1 \in 1 .. Len(todo) /\ todo[1] \in Statements
        /\ Len(todo') = Len(todo) - 1
        /\ \A i \in 1 .. Len(todo') : todo'[i] = todo[i + 1]
    BY <1>0, <2>1, FirstStatement
  <2>3. /\ Emptied(sessions, todo[1].key) /\ Len(todo) = 2
        /\ todo[2].do = "deleteSession" /\ todo[2].key = todo[1].key
    BY <2>1, <2>2 DEF ClearInv, Deletions
  <2>4. Len(todo') = 1 /\ todo'[1] = todo[2] /\ \A i \in 1 .. 1 : i = 1
    <3>1. Len(todo') = 1
      <4>1. Len(todo') = Len(todo) - 1 /\ Len(todo) = 2
        BY <2>2, <2>3
      <4>2. QED BY <4>1
    <3>2. 1 \in 1 .. Len(todo') /\ 1 + 1 = 2
      BY <3>1
    <3>3. todo'[1] = todo[1 + 1]
      BY <2>2, <3>2
    <3>4. QED BY <3>1, <3>2, <3>3
  <2>5. stored'[todo[2].key] = {}
    BY <1>0, <2>1, <2>2, <2>3 DEF Statements
  <2>6. Emptied(sessions', todo'[1].key)
    BY <2>1, <2>3, <2>4 DEF Emptied
  <2>7. QED BY <2>3, <2>4, <2>5, <2>6 DEF ClearInv
<1>10. CASE DeleteSession
  <2>1. todo # <<>> /\ todo' = Tail(todo) /\ Head(todo).do = "deleteSession"
    BY <1>10 DEF DeleteSession, Doing
  <2>2. /\ Head(todo) = todo[1] /\ 1 \in 1 .. Len(todo)
        /\ todo' \in Seq(Statements) /\ Len(todo') = Len(todo) - 1
    BY <1>0, <2>1, FirstStatement
  <2>3. Len(todo) = 1
    BY <2>1, <2>2 DEF ClearInv, Deletions
  <2>4. todo' = <<>>
    BY <2>2, <2>3
  <2>5. QED BY <1>2, <2>4
<1>11. ASSUME NEW fits \in {PromptRoom, HistoryRoom}, NEW answered \in BOOLEAN,
              Summarize(fits, answered)
       PROVE  ClearInv'
  <2>1. PICK k, of : todo' = <<[do |-> "replace", key |-> k, of |-> of]>>
    BY <1>11 DEF Summarize
  <2> DEFINE a == [do |-> "replace", key |-> k, of |-> of]
  <2>2. a.do \notin Deletions
    BY DEF Deletions
  <2>3. todo' = <<a>>
    BY <2>1
  <2> HIDE DEF a
  <2>4. \A i \in 1 .. Len(todo') : todo'[i] = a
    BY <2>3
  <2>5. QED BY <2>2, <2>4, NothingToClear
<1>12. CASE Down
  BY <1>2, <1>12 DEF Down
<1>13. CASE Start \/ Clock \/ UNCHANGED vars
  BY <1>1, <1>13 DEF Start, Clock, vars, dbVars
<1>14. QED BY <1>3, <1>4, <1>5, <1>6, <1>7, <1>8, <1>9, <1>10, <1>11, <1>12, <1>13 DEF Next

LEMMA ClearInvariant == Spec => []IInv
<1>1. Init => ClearInv
  <2>1. Init => 1 .. Len(todo) = {}
    BY EmptySeq DEF Init
  <2>2. QED BY <2>1 DEF ClearInv
<1>2. SessionInv /\ ClearInv <=> IInv
  BY DEF SessionInv, IInv
<1>3. QED BY <1>1, <1>2, SessionInvInit, SessionInvStep, ClearInvStep, PTL DEF Spec

(* When a clear is done there are neither rows nor messages of its key, in *)
(* memory or in the database.                                              *)
THEOREM ClearLeavesNothing == Spec => ClearedIsGone
<1> DEFINE Gone(k) ==
      up /\ todo' = <<>> /\ up' /\ todo # <<>> /\ Head(todo).key = k
         /\ Head(todo).do \in {"deleteSession", "deleteMessages"}
       => /\ rows'[k] = NoRow /\ stored'[k] = {}
          /\ Session(k).history = <<>> /\ Session(k).summary = {}
<1>1. ASSUME IInv, [Next]_vars, NEW k \in Keys PROVE Gone(k)
  <2> SUFFICES ASSUME up, todo' = <<>>, up', todo # <<>>, Head(todo).key = k,
                      Head(todo).do \in {"deleteSession", "deleteMessages"}
               PROVE  /\ rows'[k] = NoRow /\ stored'[k] = {}
                      /\ Session(k).history = <<>> /\ Session(k).summary = {}
    OBVIOUS
  <2>0. /\ SessionInv /\ ClearInv /\ todo \in Seq(Statements) /\ Len(todo) \in Nat
        /\ rows \in [Keys -> (SUBSET Ids) \union {NoRow}] /\ stored \in [Keys -> SUBSET Ids]
    <3>1. SessionInv /\ ClearInv
      BY <1>1 DEF IInv, SessionInv
    <3>2. /\ todo \in Seq(Statements)
          /\ rows \in [Keys -> (SUBSET Ids) \union {NoRow}] /\ stored \in [Keys -> SUBSET Ids]
      BY <3>1 DEF SessionInv, Types
    <3>3. Len(todo) \in Nat
      BY <3>2, LenProperties
    <3>4. QED BY <3>1, <3>2, <3>3
  <2>1. /\ Head(todo) = todo[1] /\ 1 \in 1 .. Len(todo)
        /\ Tail(todo) \in Seq(Statements) /\ Len(Tail(todo)) = Len(todo) - 1
    BY <2>0, FirstStatement
  <2>2. DeleteMessages \/ DeleteSession
    <3>1. CASE Insert \/ Replace \/ SummaryFails
      BY <3>1 DEF Insert, Replace, SummaryFails, Doing
    <3>2. ASSUME NEW fits \in {PromptRoom, HistoryRoom}, NEW answered \in BOOLEAN,
                 Summarize(fits, answered)
          PROVE  FALSE
      BY <3>2 DEF Summarize, Doing
    <3>3. ASSUME NEW key \in Keys, Get(key) \/ AddMessage(key) \/ AskSummary(key) \/ Clear(key)
          PROVE  FALSE
      BY <3>3 DEF Get, AddMessage, AskSummary, Clear, Idle
    <3>4. CASE SaveAll \/ Down \/ Start \/ Clock \/ UNCHANGED vars
      BY <3>4 DEF SaveAll, Idle, Down, Start, Clock, vars
    <3>5. QED BY <1>1, <3>1, <3>2, <3>3, <3>4 DEF Next
  <2>3. Emptied(sessions, k)
    BY <2>0, <2>1 DEF ClearInv, Deletions
  <2>4. Session(k).history = <<>> /\ Session(k).summary = {}
    <3>1. PICK i \in 1 .. Len(sessions) :
            sessions[i].key = k /\ sessions[i].history = <<>> /\ sessions[i].summary = {}
      BY <2>3 DEF Emptied
    <3>2. sessions \in Seq(Slots) /\ Distinct(sessions)
      BY <2>0 DEF SessionInv, Types, TableInv, Fits
    <3>3. At(sessions, k) = i
      BY <3>1, <3>2, AtFinds
    <3>4. QED BY <3>1, <3>3 DEF Session
  <2>5. CASE DeleteMessages
    <3>1. todo' = Tail(todo) /\ Head(todo).do = "deleteMessages"
      BY <2>5 DEF DeleteMessages, Doing
    <3>2. Tail(todo) # <<>>
      BY <2>0, <2>1, <3>1, RowIsStillToGo
    <3>3. QED BY <3>1, <3>2
  <2>6. CASE DeleteSession
    <3>1. /\ Head(todo).do = "deleteSession" /\ stored' = stored
          /\ rows' = IF stored[k] = {} THEN [rows EXCEPT ![k] = NoRow] ELSE rows
      BY <2>6 DEF DeleteSession, Doing
    <3>2. stored[k] = {}
      BY <2>0, <2>1, <3>1 DEF ClearInv, Deletions
    <3>3. QED BY <2>0, <2>4, <3>1, <3>2
  <2>7. QED BY <2>2, <2>5, <2>6
<1>2. IInv /\ [Next]_vars => [\A k \in Keys : Gone(k)]_vars
  BY <1>1
<1>3. QED BY <1>2, ClearInvariant, PTL DEF Spec, ClearedIsGone

=============================================================================

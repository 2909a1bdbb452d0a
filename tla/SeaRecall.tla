------------------------------ MODULE SeaRecall -----------------------------
(***************************************************************************)
(* The index of facts (src/recall/sea_recall.c) with the tool that fills   *)
(* and empties it (src/hands/impl/tool_recall.c): rows of a table, scored  *)
(* for a question by the words they share with it, their importance and    *)
(* how long ago they were last used; the best of them go into the prompt.  *)
(*                                                                         *)
(* Every use makes a fact newer, and only the newest are looked at: what   *)
(* was not used for long is not found by any question.  A look-up of the   *)
(* database may fail and end early, and the strings of a row are copied    *)
(* into the arena of the request, where each of them may find no room.     *)
(***************************************************************************)
EXTENDS Integers, Sequences, FiniteSets, SequencesExt, SeaSort

CONSTANTS
  Contents,       \* the texts of facts
  WordsOf,        \* WordsOf[c]: the words a question may have in common with c
  Questions,      \* sets of words, {} among them: "list" asks with no word
  Categories,     \* what a fact may be stored as; "user" and "identity" count more
  Labels,         \* bound: categories and importances, in any range, the model gives
  Decay,          \* Decay[n + 1]: percent of a score that is left after n days
  MaxCandidates,  \* the LIMIT of the query
  ToolFacts,      \* facts "recall" asks for (10)
  ListFacts,      \* facts "list" asks for (20)
  PromptFacts,    \* facts the prompt asks for (20)
  PromptLines,    \* facts the budget of the prompt has room for
  ZeroLines,      \* lines on which a fact without a score is still shown (4)
  Losable,        \* bound: the strings of a row that find no room together
  MaxMishaps,     \* bound: what goes wrong in a query
  MaxDay,         \* bound: days
  MaxFacts        \* bound: facts ever stored

ASSUME RecallAssumption ==
  /\ MaxCandidates \in Nat /\ ToolFacts \in Nat /\ ListFacts \in Nat /\ PromptFacts \in Nat
  /\ MaxMishaps \in Nat /\ PromptLines \in Nat /\ ZeroLines \in Nat /\ MaxDay \in Nat /\ MaxFacts \in Nat
  /\ \A n \in 1..MaxDay + 1 : Decay[n] \in 1..100
  /\ Labels \subseteq [category : Categories, importance : Int]
  /\ \A c \in Contents : IsFiniteSet(WordsOf[c])

VARIABLES
  today,      \* the date
  up,         \* whether the program runs
  facts,      \* recall_facts
  nextId,     \* its AUTOINCREMENT
  found,      \* what the last query returned, with the scores
  prompt,     \* what the last prompt shows of it
  asked,      \* history: the question, how many, of which table, what of it was read
  remembered, \* history: what was stored and not forgotten, by number
  missed      \* history: look-ups of a content that failed although it was there

storedVars == <<nextId, remembered, missed>>
answerVars == <<found, prompt, asked>>
recallVars == <<today, up, facts, storedVars, answerVars>>

NothingAsked == [words |-> {}, max |-> 0, table |-> {}, limit |-> 0, lost |-> <<>>]

(* What was found is in the arena of the request that asked for it, and of *)
(* no use to the next call.                                                *)
Unasked == up /\ asked = NothingAsked
ArenaGone == found' = <<>> /\ prompt' = <<>> /\ asked' = NothingAsked

RecallInit ==
  /\ today = 0 /\ up = TRUE /\ facts = {} /\ nextId = 1
  /\ found = <<>> /\ prompt = <<>> /\ asked = NothingAsked
  /\ remembered = {} /\ missed = [c \in Contents |-> 0]

NewDay ==
  /\ Unasked /\ today < MaxDay
  /\ today' = today + 1
  /\ UNCHANGED <<up, facts, storedVars, answerVars>>

RequestEnds ==
  /\ up /\ asked # NothingAsked
  /\ ArenaGone /\ UNCHANGED <<today, up, facts, storedVars>>

Refresh(ids) ==
  {IF f.id \in ids THEN [f EXCEPT !.accessed = today] ELSE f : f \in facts}

Clamp(importance) == IF importance < 1 THEN 1 ELSE IF importance > 10 THEN 10 ELSE importance

Twins(content) == {f \in facts : f.content = content}

Insert(content, label) ==
  /\ nextId <= MaxFacts
  /\ facts' = facts \union {[id |-> nextId, content |-> content, category |-> label.category,
                              importance |-> Clamp(label.importance), accessed |-> today]}
  /\ remembered' =
       remembered \union {[id |-> nextId, content |-> content, category |-> label.category]}
  /\ nextId' = nextId + 1

(* Mutant: only a fact of the same category counts as the same. *)
StoreByCategory(content, label) ==
  LET twins == {f \in Twins(content) : f.category = label.category} IN
  /\ Unasked
  /\ IF twins # {}
     THEN facts' = Refresh({f.id : f \in twins}) /\ UNCHANGED <<nextId, remembered>>
     ELSE Insert(content, label)
  /\ UNCHANGED <<today, up, missed, answerVars>>

(* sea_recall_store: a content that is there already is only made newer,   *)
(* in one of its rows; the category and the importance it is now given are *)
(* dropped.  The call succeeds, as it does when that update fails.  A      *)
(* look-up that fails finds no row, and the content is inserted next to    *)
(* its others.  When the insertion fails so does the call.                 *)
Store(content, label) ==
  /\ Unasked
  /\ \/ \E twin \in Twins(content) :
          facts' \in {facts, Refresh({twin.id})} /\ UNCHANGED storedVars
     \/ /\ Insert(content, label)
        /\ missed' = IF Twins(content) = {} THEN missed
                     ELSE [missed EXCEPT ![content] = @ + 1]
     \/ UNCHANGED <<facts, storedVars>>
  /\ UNCHANGED <<today, up, answerVars>>

-----------------------------------------------------------------------------
(* The query.                                                              *)

(* The words of three letters and more that say something.                 *)
Overlap(fact, words) == Cardinality(words \intersect WordsOf[fact.content])
Recency(fact) == Decay[today - fact.accessed + 1]

(* The strings of a row that are used once they are copied, other than its *)
(* category.                                                               *)
Copies == {"content", "keywords", "accessed"}

(* Hundredths of the score in the code, of a row without some of its       *)
(* strings: without keywords it shares no word, without a date it is as if *)
(* used some days ago.                                                     *)
Score(fact, words, lost) ==
  LET overlap == IF "keywords" \in lost THEN 0 ELSE Overlap(fact, words)
      recency == IF "accessed" \in lost THEN 50 ELSE Recency(fact)
  IN  (IF overlap = 0 /\ fact.importance >= 8 THEN 2 * recency
       ELSE overlap * (5 + fact.importance) * recency)
      + (IF fact.category \in {"user", "identity"} THEN 100 ELSE 0)

Upto(n, s) == SubSeq(s, 1, IF n < Len(s) THEN n ELSE Len(s))

(* The rows the query returns before that of a fact: the newer ones, and   *)
(* those of the same moment that come before it in the table.              *)
Ahead(fact) ==
  {f \in facts : \/ f.accessed > fact.accessed
                 \/ f.accessed = fact.accessed /\ f.id < fact.id}

(* The fact in row n of them. *)
RowOf(n) == CHOOSE f \in facts : Cardinality(Ahead(f)) = n - 1

Least(n, k) == IF n < k THEN n ELSE k
ReadRow(fact, words, lost) ==
  [fact |-> fact, score |-> Score(fact, words, lost), blank |-> "content" \in lost]

(* Mutant: the rows that were not used for longest are taken. *)
OldestFirst(words, limit, lost) ==
  [n \in 1..Least(limit, Cardinality(facts)) |->
     LET f == RowOf(Cardinality(facts) + 1 - n) IN ReadRow(f, words, lost[f])]

(* As many of the newest rows as are looked at. *)
Candidates(words, limit, lost) ==
  [n \in 1..Least(limit, Cardinality(facts)) |-> ReadRow(RowOf(n), words, lost[RowOf(n)])]

(* The insertion sort, highest scores first. *)
Ranked(rows) ==
  LET order == Order([i \in DOMAIN rows |-> 0 - rows[i].score])
  IN [k \in DOMAIN rows |-> rows[order[k]]]

Best(words, max, limit, lost) == Upto(max, Ranked(Candidates(words, limit, lost)))

(* The rows end at the limit, or before it where the statement fails. *)
Limits == 0..MaxCandidates
Losses ==
  UNION {{[f \in facts |-> IF f \in short THEN loss[f] ELSE {}] : loss \in [short -> Losable]} :
           short \in {s \in SUBSET facts : Cardinality(s) <= MaxMishaps}}
Mishaps(limit, lost, failed) ==
  (IF limit < MaxCandidates THEN 1 ELSE 0) + Cardinality({f \in facts : lost[f] # {}})
    + Cardinality(failed)

(* sea_recall_query: what is returned with a score is made newer, row by   *)
(* row; whether that worked is not looked at.                              *)
Query(words, max) ==
  /\ Unasked
  /\ \E limit \in Limits, lost \in Losses, failed \in SUBSET {f.id : f \in facts} :
       /\ Mishaps(limit, lost, failed) <= MaxMishaps
       /\ found' = Best(words, max, limit, lost)
       /\ asked' = [words |-> words, max |-> max, table |-> facts, limit |-> limit, lost |-> lost]
       /\ LET used == {i \in DOMAIN found' : found'[i].score > 0}
          IN facts' = Refresh({found'[i].fact.id : i \in used} \ failed)
  /\ UNCHANGED <<today, up, storedVars>>

(* A row whose category found no room ends the program: the category is    *)
(* compared without a look at whether there is one.                        *)
QueryCrashes ==
  /\ Unasked /\ facts # {} /\ MaxCandidates > 0
  /\ up' = FALSE /\ UNCHANGED <<today, facts, storedVars, answerVars>>

RecallRestarts == ~up /\ up' = TRUE /\ UNCHANGED <<today, facts, storedVars, answerVars>>

(* "recall", and "list", which shows those of one category.                *)
Recall(words) == Query(words, ToolFacts) /\ prompt' = <<>>
List == Query({}, ListFacts) /\ prompt' = <<>>

(* sea_recall_build_context: line by line until one has no score, after    *)
(* the first lines, or finds no room.                                      *)
Shown(results) ==
  LET cut == {i \in DOMAIN results : i > ZeroLines /\ results[i].score <= 0}
      upto == IF cut = {} THEN Len(results) ELSE (CHOOSE i \in cut : \A k \in cut : i <= k) - 1
  IN  Upto(PromptLines, Upto(upto, results))

(* Without room for the lines there is nothing in the prompt. *)
BuildContext(words) ==
  Query(words, PromptFacts) /\ (prompt' = Shown(found') \/ prompt' = <<>>)

-----------------------------------------------------------------------------
(* Forgetting.                                                             *)

(* A deletion may fail. *)
ForgetAll(gone) ==
  /\ Unasked
  /\ \/ /\ facts' = facts \ gone
        /\ remembered' = {r \in remembered : \A f \in gone : f.id # r.id}
     \/ UNCHANGED <<facts, remembered>>
  /\ missed' = [c \in Contents |-> IF \E f \in facts' : f.content = c THEN missed[c] ELSE 0]
  /\ UNCHANGED <<today, up, nextId, answerVars>>

Forget(id) == ForgetAll({f \in facts : f.id = id})
ForgetCategory(category) == ForgetAll({f \in facts : f.category = category})

(* tool_recall. *)
RecallTool ==
  \/ \E content \in Contents, label \in Labels : Store(content, label)
  \/ \E words \in Questions : Recall(words)
  \/ List
  \/ \E id \in 1..nextId : Forget(id)
  \/ \E category \in Categories : ForgetCategory(category)

RecallNext ==
  \/ NewDay \/ RequestEnds \/ RecallTool \/ QueryCrashes \/ RecallRestarts
  \/ \E words \in Questions : BuildContext(words)

RecallSpec == RecallInit /\ [][RecallNext]_recallVars

-----------------------------------------------------------------------------
(* What was stored is in the table under the category and the number it    *)
(* was given, until one of the two is forgotten, and a content in no more  *)
(* rows than one and those a failed look-up added - also when it was       *)
(* stored again as something else: forgetting what it was last stored as   *)
(* then leaves it there.  No number is given twice.                        *)
FactsKept ==
  /\ {[id |-> f.id, content |-> f.content, category |-> f.category] : f \in facts} = remembered
  /\ \A f, g \in facts : f.id = g.id => f = g
  /\ \A c \in Contents : Cardinality(Twins(c)) <= 1 + missed[c]
  /\ \A f \in facts : f.id < nextId /\ f.importance \in 1..10

(* A question gets the facts that score best, best first, and the prompt   *)
(* the first of them: what is missing scores no better than what is there, *)
(* or there are as many newer facts as rows were read.  A row that lost    *)
(* strings is ranked by what is left of it.  A fact with a score is never  *)
(* missing from the prompt because of one without.                         *)
BestFirst ==
  LET ids == {found[i].fact.id : i \in DOMAIN found}
      old(f) == Cardinality({g \in asked.table : g.accessed >= f.accessed /\ g # f})
                  >= asked.limit
  IN  /\ \A i, k \in DOMAIN found : i < k => found[i].score >= found[k].score
      /\ \A f \in asked.table : f.id \notin ids =>
           \/ old(f)
           \/ /\ Len(found) = asked.max
              /\ \A i \in DOMAIN found : found[i].score >= Score(f, asked.words, asked.lost[f])
      /\ prompt # <<>> => IsPrefix(prompt, found)
      /\ \A i \in DOMAIN found :
           prompt # <<>> /\ found[i].score > 0 => i <= Len(prompt) \/ Len(prompt) = PromptLines
=============================================================================

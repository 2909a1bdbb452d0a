------------------------------ MODULE SeaSort -------------------------------
(***************************************************************************)
(* The insertion sort of the program, as the redaction of personal data    *)
(* (src/pii/sea_pii.c) and the index of facts (src/recall/sea_recall.c)    *)
(* write it out: what is sorted moves up until it is behind one that ranks *)
(* no higher.                                                              *)
(***************************************************************************)
EXTENDS Integers, Sequences

(* Where the round of element i ends: the last of those placed so far that *)
(* does not rank higher, 0 if all do.                                      *)
Place(order, ranks, i) ==
  CHOOSE p \in 0..i - 1 : /\ p = 0 \/ ranks[order[p]] <= ranks[i]
                          /\ \A k \in p + 1..i - 1 : ranks[order[k]] > ranks[i]

(* One round: those behind that place move up by one. *)
Placed(order, ranks, i) ==
  LET p == Place(order, ranks, i)
  IN [k \in 1..i |-> IF k <= p THEN order[k] ELSE IF k = p + 1 THEN i ELSE order[k - 1]]

(* What is where in the end, by its number before the sort. *)
Order(ranks) ==
  LET rounds[i \in 0..Len(ranks)] ==
        IF i = 0 THEN <<>> ELSE Placed(rounds[i - 1], ranks, i)
  IN rounds[Len(ranks)]
=============================================================================

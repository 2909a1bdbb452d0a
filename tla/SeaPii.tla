------------------------------- MODULE SeaPii -------------------------------
(***************************************************************************)
(* Redaction of personal data (src/pii/sea_pii.c).  The scanners run one   *)
(* after the other over the whole text, so their matches come in no order  *)
(* of the text and may overlap: the digits of a card are also a phone      *)
(* number.  What a scanner takes for a match is not modelled: a match is a *)
(* place in the text and a length.                                         *)
(***************************************************************************)
EXTENDS Integers, Sequences, FiniteSets, SeaSort

CONSTANTS
  MaxMatches,   \* SEA_PII_MAX_MATCHES
  MarkerUnits   \* the length of "[REDACTED]"

ASSUME PiiAssumption == MaxMatches \in Nat /\ MarkerUnits \in Nat

(* sea_pii_scan: what the scanners find beyond the room of the result is   *)
(* not found.                                                              *)
Scan(found) == SubSeq(found, 1, IF Len(found) < MaxMatches THEN Len(found) ELSE MaxMatches)

(* Mutant: the matches are taken in the order of the scanners. *)
AsScanned(matches) == matches

(* The insertion sort by offset. *)
Sorted(matches) ==
  LET order == Order([i \in DOMAIN matches |-> matches[i].at])
  IN [k \in DOMAIN matches |-> matches[order[k]]]

(* One match.  One that begins inside the last is passed over whole, what  *)
(* lies of it behind that one's end included.                              *)
Passed(made, m) ==
  IF m.at < made.src THEN made
  ELSE [src |-> m.at + m.length, markers |-> made.markers + 1,
        hidden |-> made.hidden \union (m.at..m.at + m.length - 1)]

(* How far the copy of the text has come, the markers in it, and what of   *)
(* the text they stand for.                                                *)
Redaction(found) ==
  LET matches == Sorted(Scan(found))
      after[k \in 0..Len(matches)] ==
        IF k = 0 THEN [src |-> 1, markers |-> 0, hidden |-> {}]
        ELSE Passed(after[k - 1], matches[k])
  IN after[Len(matches)]

(* The room asked for, and the length of what it is needed for.            *)
RedactionRoom(length, found) == length + MarkerUnits * Len(Scan(found))
RedactedLength(length, redaction) ==
  length - Cardinality(redaction.hidden \intersect 1..length) + MarkerUnits * redaction.markers

(* Of every match the scanners had room for, at least the first unit is    *)
(* hidden - and the whole of it unless it overlaps one that begins before  *)
(* or where it does -, nothing is hidden that is not part of a match, and  *)
(* the copy is never longer than the room that was asked for.              *)
RedactionRight(length, found, hidden, newLength) ==
  LET matches == Scan(found)
      Part(m) == m.at..m.at + m.length - 1
  IN  /\ \A i \in DOMAIN matches :
           /\ matches[i].at \in hidden
           /\ \/ Part(matches[i]) \subseteq hidden
              \/ \E k \in DOMAIN matches \ {i} :
                   matches[k].at <= matches[i].at /\ matches[i].at \in Part(matches[k])
      /\ hidden \subseteq UNION {Part(matches[i]) : i \in DOMAIN matches}
      /\ newLength <= RedactionRoom(length, found)
=============================================================================

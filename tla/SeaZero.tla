------------------------------ MODULE SeaZero -------------------------------
(***************************************************************************)
(* The bridge to Agent Zero (seazero/bridge/sea_zero.c): a task goes out   *)
(* over HTTP, what comes back is measured, shielded and redacted before a  *)
(* copy of it reaches the model as the result of a tool.  Of an error that *)
(* comes back none of this is done: its words reach the model as they are, *)
(* after those that say that the task failed.  All copies are taken from   *)
(* the arena of the request, which may be full at any of them; copying a   *)
(* text takes as many units as the text is long.                           *)
(***************************************************************************)
EXTENDS Integers, Sequences, SeaPii

CONSTANTS
  ArenaUnits,    \* units of the arena of a request
  MaxTaskLen,    \* SEAZERO_MAX_TASK_LEN
  MaxOutputLen,  \* SEAZERO_MAX_OUTPUT_LEN
  NoticeMax,     \* error text that msg of tool_agent_zero has room for
  Lengths,       \* bound: lengths of tasks and texts
  Findings,      \* bound: what the scanners of personal data report of a text
  MaxTasks       \* bound: tasks

ASSUME ZeroAssumption ==
  /\ ArenaUnits \in Nat /\ MaxTaskLen \in Nat /\ MaxOutputLen \in Nat
  /\ NoticeMax \in Nat \ {0} /\ Lengths \subseteq Nat /\ MaxTasks \in Nat
  /\ Findings \subseteq Seq([at : Nat \ {0}, length : Nat \ {0}])

VARIABLES
  enabled,   \* s_zero_cfg.enabled
  units,     \* what is left of the arena
  task,      \* the task being delegated: its stage, its length, its number
  reply,     \* what Agent Zero answered
  verdict,   \* the SeaZeroResult
  output,    \* the output of the tool
  tight,     \* history: whether the redacted copy would not have found room
  done,      \* history: tasks Agent Zero carried out
  taskCount  \* history: tasks so far

zeroVars == <<enabled, units, task, reply, verdict, output, tight, done, taskCount>>

(* A text: where it is from, how long it is, whether it holds what the     *)
(* shield looks for, the personal data the scanners find in it, and what   *)
(* of the text it was made from is hidden.                                 *)
NoText == [from |-> "none", length |-> 0, dirty |-> FALSE, found |-> <<>>, hidden |-> {}]
Ours(length) == [NoText EXCEPT !.from = "ours", !.length = length]
PeerTexts == {NoText} \union
  {t \in [from : {"peer"}, length : Lengths \ {0}, dirty : BOOLEAN, found : Findings, hidden : {{}}] :
     \A i \in DOMAIN t.found : t.found[i].at + t.found[i].length - 1 <= t.length}
NoReply == [parses |-> FALSE, result |-> NoText, error |-> NoText]
Replies == {NoReply} \union [parses : {TRUE}, result : PeerTexts, error : PeerTexts]
NoVerdict == [success |-> FALSE, text |-> NoText, room |-> 0]
Failed == [success |-> FALSE, text |-> Ours(1), room |-> 0]
NoTask == [stage |-> "none", length |-> 0, number |-> 0]

ZeroInit ==
  /\ enabled = FALSE /\ units = ArenaUnits /\ task = NoTask /\ reply = NoReply
  /\ verdict = NoVerdict /\ output = NoText /\ tight = FALSE /\ done = {} /\ taskCount = 0

(* sea_zero_init with sea_zero_register_tool. *)
Configure ==
  /\ task.stage = "none" /\ ~enabled
  /\ enabled' = TRUE
  /\ UNCHANGED <<units, task, reply, verdict, output, tight, done, taskCount>>

(* The next call finds an arena with any room left. *)
NextCall ==
  /\ task.stage = "told" /\ taskCount < MaxTasks
  /\ task' = NoTask /\ reply' = NoReply /\ verdict' = NoVerdict /\ output' = NoText
  /\ \E left \in 0..ArenaUnits : units' = left
  /\ UNCHANGED <<enabled, tight, done, taskCount>>

(* The request of sea_zero_delegate, or its refusal. *)
Delegated(length) ==
  [stage |-> IF length <= MaxTaskLen THEN "sent" ELSE "judged", length |-> length,
   number |-> taskCount + 1]

(* tool_agent_zero cuts its arguments to the longest task there is, so     *)
(* that the check of sea_zero_delegate never turns one down.               *)
ToolCalled(length) ==
  /\ task.stage = "none" /\ taskCount < MaxTasks
  /\ taskCount' = taskCount + 1
  /\ IF ~enabled \/ length = 0
     THEN /\ output' = Ours(1)
          /\ task' = [stage |-> "told", length |-> 0, number |-> taskCount + 1]
     ELSE /\ task' = Delegated(IF length < MaxTaskLen THEN length ELSE MaxTaskLen)
          /\ UNCHANGED output
  /\ verdict' = IF task'.stage = "judged" THEN Failed ELSE verdict
  /\ UNCHANGED <<enabled, units, reply, tight, done>>

(* Agent Zero carries the task out, whether it is heard or not. *)
Works ==
  /\ task.stage = "sent"
  /\ task' = [task EXCEPT !.stage = "worked"]
  /\ done' = done \union {task.number}
  /\ \E r \in Replies : reply' = r
  /\ UNCHANGED <<enabled, units, verdict, output, tight, taskCount>>

(* It is not reached or not heard, answers with another status than 200,   *)
(* or with more than the arena holds.                                      *)
Fails ==
  /\ task.stage \in {"sent", "worked"}
  /\ task' = [task EXCEPT !.stage = "judged"]
  /\ reply' = NoReply /\ verdict' = Failed
  /\ \E left \in 0..units : units' = left
  /\ UNCHANGED <<enabled, output, tight, done, taskCount>>

Size(r) == r.result.length + r.error.length
FitsPlain(text, left) == text.length < left  \* with the NUL at its end

(* sea_pii_redact. *)
FitsRedacted(text, left) == RedactionRoom(text.length, text.found) < left
Redacted(text) ==
  LET redaction == Redaction(text.found) IN
  [text EXCEPT !.hidden = redaction.hidden, !.length = RedactedLength(text.length, redaction)]

(* What sea_zero_delegate turns down. *)
Refused(text) == text.length = 0 \/ text.length > MaxOutputLen \/ text.dirty

(* The redacted copy if there is something to redact and it finds room;    *)
(* the text itself if it does not - or does not need it.                   *)
Copied(text, left) ==
  IF text.found # <<>> /\ FitsRedacted(text, left)
  THEN [success |-> TRUE, text |-> Redacted(text),
        room |-> RedactionRoom(text.length, text.found) + 1]
  ELSE IF FitsPlain(text, left) THEN [success |-> TRUE, text |-> text, room |-> text.length + 1]
  ELSE Failed

(* The error of Agent Zero comes before its result, and nothing is looked  *)
(* for in it.                                                              *)
Judge(left) ==
  IF ~reply.parses THEN Failed
  ELSE IF reply.error.length > 0
  THEN IF FitsPlain(reply.error, left) THEN [Failed EXCEPT !.text = reply.error, !.room = reply.error.length + 1]
       ELSE Failed
  ELSE IF Refused(reply.result) THEN Failed ELSE Copied(reply.result, left)

(* The body and its tree are in the arena before the text is copied. *)
Judges ==
  /\ task.stage = "worked" /\ Size(reply) < units
  /\ LET left == units - Size(reply) IN
     /\ verdict' = Judge(left) /\ units' = left - verdict'.room
     /\ tight' = ~FitsRedacted(reply.result, left)
  /\ task' = [task EXCEPT !.stage = "judged"]
  /\ UNCHANGED <<enabled, reply, output, done, taskCount>>

(* An error is formatted into a buffer of its own first.  One that is too  *)
(* long for it is told at its full length all the same: its end is lost,   *)
(* and what lies beyond the buffer told in its place.                      *)
Told(text) ==
  IF text.length <= NoticeMax THEN text ELSE [text EXCEPT !.from = "overrun"]

(* tool_agent_zero copies the result, or the error after words of its own. *)
Tells ==
  /\ task.stage = "judged"
  /\ task' = [task EXCEPT !.stage = "told"]
  /\ output' = IF verdict.text.length > units THEN Ours(0)
               ELSE IF verdict.success THEN verdict.text ELSE Told(verdict.text)
  /\ units' = IF verdict.text.length <= units THEN units - verdict.text.length ELSE units
  /\ UNCHANGED <<enabled, reply, verdict, tight, done, taskCount>>

(* sea_zero_health takes room and leaves nothing else. *)
AsksHealth ==
  /\ task.stage = "none" /\ enabled
  /\ \E left \in 0..units : units' = left
  /\ UNCHANGED <<enabled, task, reply, verdict, output, tight, done, taskCount>>

ZeroNext ==
  \/ Configure \/ NextCall
  \/ \E length \in Lengths : ToolCalled(length)
  \/ Works \/ Fails \/ Judges \/ Tells \/ AsksHealth

ZeroSpec == ZeroInit /\ [][ZeroNext]_zeroVars

-----------------------------------------------------------------------------
(* What reaches the model of a result is what may: nothing the shield      *)
(* looks for, nothing longer than the limit, never a result beside an      *)
(* error, and every match of personal data hidden from its first unit on   *)
(* unless the redacted copy found no room where the text itself did.  What *)
(* is called a success was carried out.  An error is told as one, in Agent *)
(* Zero's own words: neither the shield nor the redaction sees them, and   *)
(* nothing but such an error is told past the end of its buffer.           *)
DeliveredIsFit ==
  /\ output.from = "peer" /\ verdict.success =>
       /\ ~output.dirty /\ reply.result.length <= MaxOutputLen /\ reply.error.length = 0
       /\ ~tight => RedactionRight(reply.result.length, output.found, output.hidden, output.length)
  /\ verdict.success => task.number \in done
  /\ output.from \in {"peer", "overrun"} /\ ~verdict.success =>
       reply.error.length > 0 /\ [output EXCEPT !.from = "peer"] = reply.error
  /\ output.from = "overrun" => ~verdict.success /\ reply.error.length > NoticeMax
=============================================================================

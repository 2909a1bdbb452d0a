------------------------------ MODULE SeaAgent ------------------------------
(***************************************************************************)
(* The agent loop of src/brain/sea_agent.c and what its callers in main.c  *)
(* and tool_spawn.c make of it: rounds of one request each, providers      *)
(* tried in turn, tools run for the model, sub-agents run by the tool      *)
(* spawn on the stack of the chat that called it, and the chat log.        *)
(*                                                                         *)
(* What a provider or a tool answers is a choice.  So is the failure of an *)
(* allocation: the arena of a request serves the chat and all the agents   *)
(* it spawns, and is reset when the chat is over.  So is the failure of    *)
(* the database, which need not be there at all: a row it refuses is not   *)
(* asked for again.  And the process may be lost at any time.              *)
(***************************************************************************)
EXTENDS Integers, Sequences, FiniteSets, SequencesExt

CONSTANTS
  Rounds,       \* max_tool_rounds
  Fallbacks,    \* fallback_count
  ExtraRoom,    \* MAX_EXTRA_MSGS
  Window,       \* rows of the chat log that go into a request
  CompactFrom,  \* rows of the chat log that /compact asks for
  MaxChats,     \* bound: chats and compactions
  MaxDepth,     \* bound: how deep agents spawn agents
  MaxShortages, \* bound: allocations that fail
  MaxRefusals   \* bound: rows the database does not write or read

ASSUME AgentAssumption ==
  /\ Rounds \in Nat \ {0} /\ Fallbacks \in Nat /\ ExtraRoom \in Nat
  /\ Window \in Nat /\ CompactFrom \in Nat
  /\ MaxChats \in Nat /\ MaxDepth \in Nat \ {0}
  /\ MaxShortages \in Nat /\ MaxRefusals \in Nat
  /\ 2 * Rounds <= ExtraRoom  \* 5 and 16: a call and its result for each round
  /\ Window % 2 = 0            \* 20: whole turns

VARIABLES
  stack,      \* the chats under way, the outermost first
  db,         \* s_db: there is a database
  log,        \* chat_history: the rows of the conversation
  broken,     \* history: the chats of which a row was refused, or cut off by the
              \* loss of the process, since the log was last cleared
  chats,      \* chats and compactions so far
  started,    \* history: tools run since the last chat began
  audited,    \* rows of the audit log (trajectory) written for them
  unaudited,  \* history: those for which there was no database, or no row
  lost,       \* history: those under way when the process was lost
  shortages,  \* allocations that have failed
  refused,    \* rows the database did not write or read
  outcome     \* history: how the last chat ended, for its user

(* What a chat changes besides its own frame, and what its tools leave. *)
logVars == <<log, broken>>
toolVars == <<started, audited, unaudited, lost>>
vars == <<stack, db, logVars, chats, toolVars, shortages, refused, outcome>>

Message(role, id, n, what) == [role |-> role, of |-> id, n |-> n, what |-> what]
Question(id) == Message("user", id, 0, "question")

Top == stack[Len(stack)]
Replace(frame) == stack' = [stack EXCEPT ![Len(stack)] = frame]
At(pc) == stack # <<>> /\ Top.pc = pc

Latest(s, n) == IF Len(s) <= n THEN s ELSE SubSeq(s, Len(s) - n + 1, Len(s))

(* An allocation succeeds, or fails for want of room. *)
Enough == UNCHANGED shortages
Short == shortages < MaxShortages /\ shortages' = shortages + 1

(* The database does what it is asked, or does not. *)
Obeys == UNCHANGED refused
Refuses == db /\ refused < MaxRefusals /\ refused' = refused + 1

NoOutcome == [error |-> "OK", text |-> "none", tried |-> {}]

Init ==
  /\ stack = <<>> /\ db \in BOOLEAN /\ log = <<>> /\ broken = {} /\ chats = 0
  /\ started = 0 /\ audited = 0 /\ unaudited = 0 /\ lost = 0
  /\ shortages = 0 /\ refused = 0
  /\ outcome = NoOutcome

-----------------------------------------------------------------------------
(***************************************************************************)
(* A chat under way: the task it was given, the history that came with it, *)
(* the messages of its tool rounds, how many of the messages of its        *)
(* request went into it, and where it is.                                  *)
(***************************************************************************)
Frame(kind, id, hist) ==
  [kind |-> kind, id |-> id, hist |-> hist, extra |-> <<>>, input |-> Question(id),
   limit |-> IF kind = "compact" THEN 0 ELSE Rounds, sent |-> 0,
   pc |-> "build", round |-> 0, k |-> 0, last |-> "none", tried |-> {}, ran |-> 0]

Begins(kind, hist) ==
  /\ stack = <<>> /\ chats < MaxChats
  /\ chats' = chats + 1
  /\ stack' = <<Frame(kind, <<chats', 1>>, hist)>>
  /\ started' = 0 /\ audited' = 0 /\ unaudited' = 0 /\ lost' = 0 /\ outcome' = NoOutcome
  /\ UNCHANGED <<db, logVars>>

(* A message of the user: the chat gets the latest rows of the log, those  *)
(* that can be read; a text there is no room for becomes none.             *)
StartChat ==
  LET rows == Latest(log, Window) IN
  \/ Enough /\ Obeys /\ Begins("chat", rows)
  \/ Enough /\ Refuses /\ \E n \in 0 .. Len(rows) - 1 : Begins("chat", SubSeq(rows, 1, n))
  \/ Short /\ Obeys /\ \E i \in DOMAIN rows : Begins("chat", [rows EXCEPT ![i].what = "nothing"])

(* A role there is no room for is read all the same. *)
HistoryCrashes ==
  /\ stack = <<>> /\ chats < MaxChats /\ Latest(log, Window) # <<>>
  /\ chats' = chats + 1
  /\ started' = 0 /\ audited' = 0 /\ unaudited' = 0 /\ lost' = 0
  /\ outcome' = [NoOutcome EXCEPT !.error = "CRASH"]
  /\ Short
  /\ UNCHANGED <<stack, db, logVars, refused>>

(* /compact: the history is in the prompt, and no round is allowed. *)
StartCompact ==
  /\ Len(log) >= CompactFrom
  /\ Enough /\ Obeys /\ Begins("compact", <<>>)

(* /session clear *)
ClearLog ==
  /\ stack = <<>> /\ log # <<>>
  /\ log' = <<>> /\ broken' = {}
  /\ UNCHANGED <<stack, db, chats, toolVars, shortages, refused, outcome>>

(* Mutant: the turn is logged whatever became of the chat. *)
ToBeLoggedWhatever(error) == db

ToBeLogged(error) == db /\ error = "OK"

(***************************************************************************)
(* The chat ends.  A sub-agent's text becomes the output of the tool that  *)
(* spawned it, also when it is an error; without room for it the tool      *)
(* says OK and leaves its output unset.                                    *)
(***************************************************************************)
ReturnAfter(failed, error, text) ==
  /\ IF Len(stack) = 1
     THEN /\ stack' = IF ToBeLogged(error)
                      THEN <<[Frame(Top.kind, Top.id, <<>>) EXCEPT !.pc = "asked"]>>
                      ELSE <<>>
          /\ outcome' = [error |-> error, text |-> text, tried |-> Top.tried]
          /\ shortages' = shortages + failed
     ELSE /\ \E what \in {"ok", "unset"} :
               /\ stack' = [Front(stack) EXCEPT ![Len(stack) - 1].pc = what]
               /\ shortages' = shortages + failed + (IF what = "unset" THEN 1 ELSE 0)
          /\ UNCHANGED outcome
  /\ shortages' <= MaxShortages
  /\ UNCHANGED <<db, logVars, chats, toolVars, refused>>

Return(error, text) == ReturnAfter(0, error, text)

(* The two rows of a turn, each by itself; a compaction clears the log and *)
(* leaves its summary.                                                     *)
LogsQuestion ==
  /\ At("asked")
  /\ Replace([Top EXCEPT !.pc = "answered"])
  /\ \/ /\ Obeys /\ UNCHANGED broken
        /\ log' = IF Top.kind = "chat" THEN Append(log, Question(Top.id)) ELSE <<>>
     \/ Refuses /\ broken' = broken \union {Top.id} /\ UNCHANGED log
  /\ UNCHANGED <<db, chats, toolVars, shortages, outcome>>

LogsAnswer ==
  LET role == IF Top.kind = "chat" THEN "assistant" ELSE "system" IN
  /\ At("answered")
  /\ stack' = <<>>
  /\ \/ /\ Obeys /\ UNCHANGED broken
        /\ log' = Append(log, Message(role, Top.id, 0, outcome.text))
     \/ Refuses /\ broken' = broken \union {Top.id} /\ UNCHANGED log
  /\ UNCHANGED <<db, chats, toolVars, shortages, outcome>>

(* The process is gone, and started again. *)
Running == {i \in DOMAIN stack : stack[i].pc \in {"tool", "waits", "ok", "unset"}}
Lose(running) ==
  /\ stack' = <<>>
  /\ lost' = lost + running
  /\ outcome' = [outcome EXCEPT !.error = "CRASH", !.text = "none"]
  /\ UNCHANGED <<db, log, chats, started>>

(* A null pointer is read. *)
Crash == Lose(Cardinality(Running)) /\ UNCHANGED <<broken, audited, unaudited, refused>>

(* Somebody or something ends the process. *)
Killed ==
  /\ stack # <<>>
  /\ broken' = IF Top.pc = "answered" THEN broken \union {Top.id} ELSE broken
  /\ Lose(Cardinality(Running))
  /\ UNCHANGED <<audited, unaudited, shortages, refused>>

-----------------------------------------------------------------------------
(***************************************************************************)
(* One round: history and tool messages are combined, the request built.   *)
(* What is appended when its buffer cannot grow is left out, and what is   *)
(* left of the buffer is shorter than a message: a beginning of the        *)
(* messages is in the request, and perhaps a part of the next one.         *)
(***************************************************************************)
Request(f) == f.hist \o f.extra \o <<f.input>>

Sends(frame) ==
  \/ Enough /\ Replace([frame EXCEPT !.pc = "ask", !.sent = Len(Request(frame))])
  \/ Short /\ \E n \in 0 .. Len(Request(frame)) - 1 :
       Replace([frame EXCEPT !.pc = "ask", !.sent = n])

BuildRequest ==
  /\ At("build") /\ Top.round < Top.limit
  /\ Sends(Top)
  /\ UNCHANGED <<db, logVars, chats, toolVars, refused, outcome>>

(* The copy of the history failed, and the request is built from it.       *)
BuildCrashes ==
  /\ At("build") /\ Top.round < Top.limit
  /\ Len(Top.hist \o Top.extra) > 0
  /\ Short /\ Crash

BuildFails ==
  /\ At("build") /\ Top.round < Top.limit
  /\ ReturnAfter(1, "OOM", "none")

RoundsExhausted ==
  /\ At("build") /\ Top.round >= Top.limit
  /\ Return("TIMEOUT", "none")

-----------------------------------------------------------------------------
(* Mutant: the same provider is asked again. *)
ProviderFailsAgain(how) ==
  /\ At("ask")
  /\ Replace([Top EXCEPT !.last = how, !.tried = @ \union {Top.k}])
  /\ UNCHANGED <<db, logVars, chats, toolVars, shortages, refused, outcome>>

(* No connection, or a status other than 200: the next one is tried.       *)
ProviderFails(how) ==
  /\ At("ask")
  /\ Replace([Top EXCEPT !.pc = "fallback", !.k = @ + 1, !.last = how, !.tried = @ \union {Top.k}])
  /\ UNCHANGED <<db, logVars, chats, toolVars, shortages, refused, outcome>>

(* Its request is built anew. *)
FallbackRequest ==
  /\ At("fallback") /\ Top.k <= Fallbacks
  /\ Sends(Top)
  /\ UNCHANGED <<db, logVars, chats, toolVars, refused, outcome>>

(* No room for the request to a fallback: it is passed over. *)
FallbackSkipped ==
  /\ At("fallback") /\ Top.k <= Fallbacks
  /\ Short
  /\ Replace([Top EXCEPT !.k = @ + 1])
  /\ UNCHANGED <<db, logVars, chats, toolVars, refused, outcome>>

(* Mutant: the last fallback is forgotten. *)
AllFailedEarly ==
  /\ At("fallback") /\ Top.k >= Fallbacks
  /\ \/ Top.last = "http" /\ Return("OK", "errorPage")
     \/ Top.last = "net" /\ Return("IO", "none")

(* A status other than 200 from the last one leaves the error at SEA_OK.   *)
AllFailed ==
  /\ At("fallback") /\ Top.k > Fallbacks
  /\ \/ Top.last = "http" /\ Return("OK", "errorPage")
     \/ Top.last = "net" /\ Return("IO", "none")

(* No tool is called: an answer (an empty one when the response could not  *)
(* be read), or a text that the shield rejects.                            *)
Answer ==
  /\ At("ask")
  /\ \/ Return("OK", "answer")
     \/ Return("INVALID", "rejected")

(* A name the shield rejects ends the chat, one there is no room for ends  *)
(* the process.                                                            *)
ToolRejected ==
  /\ At("ask")
  /\ Return("INVALID", "rejected")

ToolNameCrashes ==
  /\ At("ask")
  /\ Short /\ Crash

-----------------------------------------------------------------------------
(* The answer calls a tool: what this round held of requests and providers *)
(* is not looked at again.                                                 *)
ToolCalled ==
  /\ At("ask")
  /\ started' = started + 1
  /\ Replace([Top EXCEPT !.pc = "tool", !.ran = @ + 1,
                         !.sent = 0, !.k = 0, !.last = "none", !.tried = {}])
  /\ UNCHANGED <<db, logVars, chats, audited, unaudited, lost, shortages, refused, outcome>>

(***************************************************************************)
(* After the tool: its row in the audit trail, if there is a database that *)
(* takes it, the pair of messages for the next request, and the prompt     *)
(* that takes the place of the question.  A tool that fails leaves its     *)
(* output unset, and the size of the message is computed from it: there    *)
(* may or may not be room.                                                 *)
(***************************************************************************)
NextInput == Message("user", Top.id, Top.round + 1, "giveAnswer")

Call(frame) == Message("call", frame.id, frame.ran, "call")
Result(frame) == Message("result", frame.id, frame.ran, "result")
HasRoom(frame) == Len(frame.extra) < ExtraRoom - 1

(* Mutant: the messages of the earlier rounds are dropped. *)
WithResultOnly(frame) == [frame EXCEPT !.extra = <<Call(frame), Result(frame)>>]

WithResult(frame) ==
  IF HasRoom(frame) THEN [frame EXCEPT !.extra = @ \o <<Call(frame), Result(frame)>>] ELSE frame

WithoutResult(frame) ==
  IF HasRoom(frame) THEN [frame EXCEPT !.extra = Append(@, Call(frame))] ELSE frame

NextRound(frame) ==
  Replace([frame EXCEPT !.pc = "build", !.round = @ + 1, !.input = NextInput])

Audits ==
  \/ db /\ Obeys /\ audited' = audited + 1 /\ UNCHANGED unaudited
  \/ Refuses /\ unaudited' = unaudited + 1 /\ UNCHANGED audited
  \/ ~db /\ Obeys /\ unaudited' = unaudited + 1 /\ UNCHANGED audited

(* Mutant: only what succeeded is written to the audit trail. *)
ToolFailsUnaudited ==
  /\ At("tool")
  /\ UNCHANGED <<db, logVars, chats, toolVars, shortages, refused, outcome>>
  /\ \/ NextRound(WithResult(Top))
     \/ NextRound(WithoutResult(Top))

(* The tool is known and returns, or was spawn and its agent has ended.    *)
ToolEnds ==
  /\ stack # <<>> /\ Top.pc \in {"tool", "ok", "unset"}
  /\ Audits
  /\ \/ Enough /\ NextRound(WithResult(Top))
     \/ Short /\ HasRoom(Top) /\ NextRound(WithoutResult(Top))
  /\ UNCHANGED <<db, logVars, chats, started, lost, outcome>>

(* The unset output of a tool that says OK is read, after its row. *)
ToolCrashes ==
  /\ At("unset")
  /\ Audits
  /\ Lose(Cardinality(Running) - 1)
  /\ UNCHANGED <<broken, shortages>>

(* The tool is not in the registry, or fails. *)
ToolFails ==
  /\ At("tool")
  /\ Audits
  /\ \/ NextRound(WithResult(Top))
     \/ NextRound(WithoutResult(Top))
  /\ UNCHANGED <<db, logVars, chats, started, lost, shortages, outcome>>

(* spawn: a chat of its own in the middle of this one. *)
ToolSpawns ==
  LET id == <<chats, Len(stack) + 1>> IN
  /\ At("tool") /\ Len(stack) < MaxDepth
  /\ stack' = Append([stack EXCEPT ![Len(stack)].pc = "waits"],
                     Frame("spawn", id, <<Message("system", id, 0, "sub-agent")>>))
  /\ UNCHANGED <<db, logVars, chats, toolVars, shortages, refused, outcome>>

-----------------------------------------------------------------------------
Start == StartChat \/ HistoryCrashes \/ StartCompact \/ ClearLog

Step ==
  \/ BuildRequest \/ BuildCrashes \/ BuildFails \/ RoundsExhausted
  \/ \E how \in {"net", "http"} : ProviderFails(how)
  \/ FallbackRequest \/ FallbackSkipped \/ AllFailed \/ Answer
  \/ ToolRejected \/ ToolNameCrashes \/ ToolCalled
  \/ ToolEnds \/ ToolCrashes \/ ToolFails \/ ToolSpawns
  \/ LogsQuestion \/ LogsAnswer

Next == Start \/ Step \/ Killed

(* A request ends by its timeout (120 seconds, sea_http.c), and tools end. *)
Spec == Init /\ [][Next]_vars
FairSpec == Spec /\ WF_vars(Step)

-----------------------------------------------------------------------------
Ids == (1 .. MaxChats) \X (1 .. MaxDepth)
Rows == [role : {"user", "assistant", "system"}, of : Ids, n : 0 .. Rounds,
         what : {"question", "giveAnswer", "sub-agent", "answer", "errorPage", "nothing"}]
Messages == Rows \union
            [role : {"call", "result"}, of : Ids, n : 0 .. Rounds,
             what : {"call", "result"}]
Pcs == {"build", "ask", "fallback", "tool", "waits", "ok", "unset", "asked", "answered"}

(* Only the innermost chat is at work: those below it wait for their tool. *)
TypeOK ==
  /\ Len(stack) <= MaxDepth
  /\ \A i \in DOMAIN stack :
       LET f == stack[i] IN
       /\ f.id = <<chats, i>> /\ f.pc \in Pcs
       /\ (f.pc = "waits") <=> (i < Len(stack))
       /\ f.input \in Messages
       /\ f.round \in 0 .. f.limit /\ f.k \in 0 .. Fallbacks + 1 /\ f.tried \subseteq 0 .. Fallbacks
       /\ f.sent \in 0 .. Len(Request(f))
       /\ Len(f.extra) <= ExtraRoom /\ \A m \in Range(f.extra) : m \in Messages
       /\ \A m \in Range(f.hist) : m \in Rows
  /\ \A m \in Range(log) : m \in Rows
  /\ db \in BOOLEAN /\ broken \subseteq Ids
  /\ chats \in 0 .. MaxChats /\ shortages \in 0 .. MaxShortages /\ refused \in 0 .. MaxRefusals
  /\ started \in Nat /\ audited \in Nat /\ unaudited \in Nat /\ lost \in Nat

(* "Build prompt (system + history + input) ... Tool call found? Yes:      *)
(* execute tool, append result, loop" (FAQ.md): every request of a chat    *)
(* holds the question it is to answer.                                     *)
QuestionStays == At("ask") => Question(Top.id) \in Range(Request(Top))

(* "All tool outputs are ... fed back into the next LLM call as part of    *)
(* the message history" (FAQ.md): a request whose buffer could grow holds  *)
(* every call of its chat, one for each round before it, and one that was  *)
(* cut (build_request_json, strbuf_append) none without all the earlier    *)
(* ones; in the order they were made, and each result directly after its   *)
(* call, also when a sub-agent used the arena in between.                  *)
Sent(f) == SubSeq(Request(f), 1, f.sent)
Calls(s) == {i \in DOMAIN s : s[i].role = "call"}
ResultsFollowCalls ==
  At("ask") =>
    LET sent == Sent(Top)
        whole == Top.sent = Len(Request(Top))
    IN  /\ whole \/ shortages > 0
        /\ whole => {sent[i].n : i \in Calls(sent)} = 1 .. Top.round /\ Top.ran = Top.round
        /\ \A i \in Calls(sent) : \A n \in 1 .. sent[i].n - 1 :
             \E j \in Calls(sent) : j < i /\ sent[j].n = n
        /\ \A i, j \in Calls(sent) : i < j => sent[i].n < sent[j].n
        /\ \A i \in DOMAIN sent : sent[i].role = "result" =>
             i > 1 /\ sent[i - 1] = Message("call", Top.id, sent[i].n, "call")

(* Every tool that was run has its row in the audit trail, whether it      *)
(* succeeded, failed or was unknown, and whatever became of the chat,      *)
(* except for the tools that were under way when the process was lost, and *)
(* those whose row the database refused.  Without a database there are     *)
(* none.                                                                   *)
ToolsAudited ==
  /\ started = audited + unaudited + lost + Cardinality(Running)
  /\ IF db THEN unaudited <= refused ELSE audited = 0

(* The user is told that the providers failed only when each of them was   *)
(* asked in that round, except for those there was no room to ask.         *)
FailoverComplete ==
  (outcome.error = "IO" \/ outcome.text = "errorPage") =>
    Cardinality((0 .. Fallbacks) \ outcome.tried) <= shortages

(* The chat log is a sequence of turns: each question directly before its  *)
(* own answer, in the order of the chats, and nothing of a failed chat, of *)
(* a sub-agent or of a compaction.  One of the two is missing only when    *)
(* its row was refused, the process was lost between them or it is to      *)
(* come; so, if none was refused or lost, the window of a chat, an even    *)
(* number of rows, begins with a question.                                 *)
IsQuestion(row) == row = Question(row.of)
IsAnswer(row) == row.role = "assistant" /\ row.what \in {"answer", "errorPage"}
OneTurn(i) == log[i].of = log[i + 1].of /\ IsQuestion(log[i]) /\ IsAnswer(log[i + 1])
IsOpen(i) == i = Len(log) /\ IsQuestion(log[i]) /\ At("answered") /\ log[i].of = Top.id

LogIsTurns ==
  /\ \A i \in DOMAIN log :
       /\ log[i].of[2] = 1 /\ (IsQuestion(log[i]) \/ IsAnswer(log[i]))
       /\ \A k \in i + 1 .. Len(log) :
            log[k].of[1] > log[i].of[1] \/ (k = i + 1 /\ OneTurn(i))
       /\ \/ log[i].of \in broken \/ IsOpen(i)
          \/ i < Len(log) /\ OneTurn(i)
          \/ i > 1 /\ OneTurn(i - 1)
  /\ broken = {} => \A i \in DOMAIN stack :
       stack[i].kind = "chat" /\ stack[i].hist # <<>> => stack[i].hist[1].role = "user"

(* Every chat ends, with an answer, an error or the loss of the process,   *)
(* as long as agents do not spawn agents for ever.                         *)
ChatsEnd == []<>(stack = <<>>)
=============================================================================

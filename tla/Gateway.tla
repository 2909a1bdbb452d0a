------------------------------ MODULE Gateway ------------------------------
(***************************************************************************)
(* Gateway mode (run_gateway of src/main.c): the Telegram channel and its  *)
(* detached poll thread (sea_channel.c, channel_telegram.c,                *)
(* sea_telegram.c), the agent thread, the dispatcher, the main thread that *)
(* starts and stops them, and the Telegram server they talk to.            *)
(*                                                                         *)
(* The two queues of the bus are the bounded queues SeaBus implements; of  *)
(* its arena only the number of strings it still has room for is kept.     *)
(* The process may die at any step and be started again: the chat history  *)
(* in the database, the chat itself and what the server has not been told  *)
(* to forget survive, everything else starts from nothing.                 *)
(***************************************************************************)
EXTENDS Integers, FiniteSets, Sequences, SequencesExt, FiniteSetsExt

CONSTANTS
  Updates,    \* Updates[u]: what update u of the server is: a "text" for the
              \*   agent, or "other": answered by the poll thread itself (an
              \*   injection) or passed over (another chat, no text)
  Limit,      \* updates one getUpdates returns at most (10 in the code)
  Capacity,   \* SEA_BUS_QUEUE_SIZE
  Rooms,      \* strings the arena of a fresh bus may have room for: how many
              \*   it is depends on how long they are
  MaxMishaps  \* bound: restarts and failed writes to the database, together

ASSUME GatewayAssumption ==
  /\ Updates \in Seq({"text", "other"})
  /\ Limit \in Nat \ {0} /\ Capacity \in Nat \ {0}
  /\ Rooms \subseteq Nat /\ Rooms # {} /\ IsFiniteSet(Rooms)
  /\ MaxMishaps \in Nat

VARIABLES
  running,    \* s_running, cleared by the signal handler
  main,       \* where run_gateway is; "dead" when the process has been lost
  chan,       \* SeaChannel.state
  poller,     \* where the poll thread is
  last,       \* SeaTelegram.last_update_id
  batch,      \* the updates of the last response still to be handled
  inbound,    \* the inbound queue of the bus
  outbound,   \* the outbound queue
  room,       \* strings the arena of the bus still has room for
  agent,      \* where the agent thread is
  turn,       \* the message it works on
  disp,       \* where the dispatcher is
  reply,      \* the message it sends
  fault,      \* why the process died: "none", "null" or "stale" pointer, "kill"
  lives,      \* how often the process was started
  arrived,    \* updates that have reached the Telegram server
  acked,      \* updates it has been told to forget
  lostRows,   \* rows the database failed to write
  chatLog,    \* rows of the chat history, as sea_db_chat_log wrote them
  delivered,  \* history: replies of the dispatcher in the chat, of this life
  handled,    \* history: updates the poll thread has handled, of all lives
  before,     \* history: how many of them in earlier lives
  accepted,   \* history: updates put into the inbound queue in this life
  answered    \* history: messages the agent has replied to in this life

mainVars == <<running, main>>
pollVars == <<chan, poller, last, batch, acked, handled, accepted, inbound>>
agentVars == <<agent, turn, chatLog, lostRows, answered>>
dispVars == <<disp, reply, delivered>>
lifeVars == <<fault, lives, before>>
vars == <<mainVars, pollVars, agentVars, dispVars, lifeVars, outbound, room, arrived>>

Alive == main \notin {"dead", "done"}
BusDestroyed == main \in {"join", "free", "exit"}
ChannelFreed == main = "exit"

NoMessage == [n |-> 0, strings |-> "none"]

MaxOf(a, b) == IF a > b THEN a ELSE b

Init ==
  /\ running = TRUE /\ main = "start" /\ fault = "none"
  /\ chan = "STOPPED" /\ poller = "none" /\ last = 0 /\ batch = <<>>
  /\ inbound = <<>> /\ outbound = <<>> /\ room \in Rooms
  /\ agent = "none" /\ turn = NoMessage
  /\ disp = "none" /\ reply = NoMessage
  /\ delivered = <<>> /\ accepted = <<>> /\ answered = <<>>
  /\ lives = 1 /\ before = 0
  /\ arrived = 0 /\ acked = 0
  /\ chatLog = <<>> /\ lostRows = 0 /\ handled = <<>>

-----------------------------------------------------------------------------
(* The main thread: run_gateway and the channel manager.                   *)

(* start_all: tg_init, tg_start or pthread_create may fail. *)
StartChannel ==
  /\ main = "start"
  /\ main' = "launch"
  /\ \/ chan' = "ERROR" /\ UNCHANGED poller
     \/ chan' = "STARTING" /\ poller' = "created"
  /\ UNCHANGED <<running, last, batch, acked, handled, accepted, inbound, agentVars,
                 dispVars, lifeVars, outbound, room, arrived>>

LaunchThreads ==
  /\ main = "launch"
  /\ main' = "wait"
  /\ agent' = "loop" /\ disp' = "loop"
  /\ UNCHANGED <<running, pollVars, turn, chatLog, lostRows, answered, reply, delivered, lifeVars,
                 outbound, room, arrived>>

(* SIGINT or SIGTERM. *)
Signal ==
  /\ Alive /\ running
  /\ running' = FALSE
  /\ UNCHANGED <<main, pollVars, agentVars, dispVars, lifeVars, outbound, room, arrived>>

(* stop_all stops the channel if it is RUNNING, and only then. *)
StopAll ==
  /\ main = "wait" /\ ~running
  /\ main' = "destroy"
  /\ chan' = IF chan = "RUNNING" THEN "STOPPED" ELSE chan
  /\ UNCHANGED <<running, poller, last, batch, acked, handled, accepted, inbound,
                 agentVars, dispVars, lifeVars, outbound, room, arrived>>

(* sea_bus_destroy comes before the threads that use the bus are joined.    *)
(* The queues stay as they are; the strings they point to are gone.        *)
DestroyBus ==
  /\ main = "destroy"
  /\ main' = "join"
  /\ room' = 0
  /\ UNCHANGED <<running, pollVars, agentVars, dispVars, lifeVars, outbound, arrived>>

JoinThreads ==
  /\ main = "join"
  /\ agent = "ended" /\ disp = "ended"
  /\ main' = "free"
  /\ UNCHANGED <<running, pollVars, agentVars, dispVars, lifeVars, outbound, room, arrived>>

(* The channel is freed; its poll thread is detached and was not joined. *)
FreeChannel ==
  /\ main = "free"
  /\ main' = "exit"
  /\ UNCHANGED <<running, pollVars, agentVars, dispVars, lifeVars, outbound, room, arrived>>

(* The process is gone, and what only its memory knew with it. *)
Forget ==
  /\ running' = TRUE
  /\ chan' = "STOPPED" /\ poller' = "none" /\ last' = 0 /\ batch' = <<>>
  /\ inbound' = <<>> /\ outbound' = <<>> /\ room' \in Rooms
  /\ agent' = "none" /\ turn' = NoMessage
  /\ disp' = "none" /\ reply' = NoMessage
  /\ delivered' = <<>> /\ accepted' = <<>> /\ answered' = <<>>
  /\ before' = Len(handled)
  /\ UNCHANGED <<lives, arrived, acked, chatLog, lostRows, handled>>

Exit == main = "exit" /\ main' = "done" /\ Forget /\ UNCHANGED fault

Die(why) == main' = "dead" /\ fault' = why /\ Forget

Kill == Alive /\ Die("kill")

Restart ==
  /\ ~Alive /\ lives + lostRows <= MaxMishaps
  /\ main' = "start" /\ fault' = "none"
  /\ lives' = lives + 1
  /\ UNCHANGED <<running, pollVars, agentVars, dispVars, before, outbound, room, arrived>>

-----------------------------------------------------------------------------
(***************************************************************************)
(* The arena of the bus: a message's channel string is copied first, then  *)
(* its content; what does not fit is a NULL pointer in an accepted message. *)
(* Strings count the same here, so an arena that had no room for one has   *)
(* none for the next.                                                      *)
(***************************************************************************)
Strings == IF room >= 2 THEN "all" ELSE IF room = 1 THEN "channel" ELSE "none"
UseRoom == room' = IF room >= 2 THEN room - 2 ELSE 0

(* The poll thread. *)

PollThreadRuns ==
  /\ Alive /\ poller = "created" /\ ~ChannelFreed
  /\ chan' = "RUNNING"
  /\ poller' = "looping"
  /\ UNCHANGED <<mainVars, last, batch, acked, handled, accepted, inbound, agentVars,
                 dispVars, lifeVars, outbound, room, arrived>>

Polling == Alive /\ ~ChannelFreed /\ poller = "looping" /\ chan = "RUNNING"

(* After the last update of a response the loop of the thread goes round. *)
Remaining == IF batch' = <<>> THEN "looping" ELSE "handling"

(* Mutant: getUpdates asks from the last update on, not from the next one. *)
FetchLastAgain ==
  /\ Polling
  /\ acked' = MaxOf(acked, last - 1)
  /\ batch' = [i \in 1 .. Min({Limit, arrived - acked'}) |-> acked' + i]
  /\ poller' = Remaining
  /\ UNCHANGED <<mainVars, chan, last, handled, accepted, inbound, agentVars, dispVars,
                 lifeVars, outbound, room, arrived>>

(***************************************************************************)
(* getUpdates with offset last + 1: the server forgets the updates before  *)
(* the offset and answers with the first ones it still has.                *)
(***************************************************************************)
Fetch ==
  /\ Polling
  /\ acked' = MaxOf(acked, last)
  /\ batch' = [i \in 1 .. Min({Limit, arrived - acked'}) |-> acked' + i]
  /\ poller' = Remaining
  /\ UNCHANGED <<mainVars, chan, last, handled, accepted, inbound, agentVars, dispVars,
                 lifeVars, outbound, room, arrived>>

(* The request, or only its answer, is lost. *)
FetchFails ==
  /\ Polling
  /\ acked' = MaxOf(acked, last)
  /\ UNCHANGED <<mainVars, chan, poller, last, batch, handled, accepted, inbound, agentVars,
                 dispVars, lifeVars, outbound, room, arrived>>

(***************************************************************************)
(* One update of the response, with tg_bus_handler: a text goes to the     *)
(* inbound queue if that has room.                                         *)
(***************************************************************************)
HandleUpdate ==
  LET u == Head(batch) IN
  /\ Alive /\ ~ChannelFreed /\ poller = "handling" /\ batch # <<>>
  /\ last' = MaxOf(last, u)
  /\ batch' = Tail(batch)
  /\ handled' = Append(handled, u)
  /\ IF Updates[u] = "text" /\ Len(inbound) < Capacity
     THEN /\ inbound' = Append(inbound, [n |-> u, strings |-> Strings])
          /\ UseRoom
          /\ accepted' = Append(accepted, u)
     ELSE UNCHANGED <<inbound, room, accepted>>
  /\ poller' = Remaining
  /\ UNCHANGED <<mainVars, chan, acked, agentVars, dispVars, lifeVars, outbound, arrived>>

PollThreadEnds ==
  /\ Alive /\ ~ChannelFreed /\ poller = "looping" /\ chan # "RUNNING"
  /\ poller' = "ended"
  /\ UNCHANGED <<mainVars, chan, last, batch, acked, handled, accepted, inbound, agentVars,
                 dispVars, lifeVars, outbound, room, arrived>>

(* Any step of a poll thread that is left reads the channel main has freed. *)
PollThreadStale ==
  /\ ChannelFreed /\ poller \in {"created", "looping", "handling"}
  /\ Die("stale")

-----------------------------------------------------------------------------
(* The agent thread. *)

AgentLoop ==
  /\ Alive /\ agent = "loop"
  /\ agent' = IF running THEN "consuming" ELSE "ended"
  /\ UNCHANGED <<mainVars, pollVars, turn, chatLog, lostRows, answered, dispVars, lifeVars, outbound,
                 room, arrived>>

AgentConsume ==
  /\ Alive /\ agent = "consuming" /\ ~BusDestroyed
  /\ inbound # <<>>
  /\ turn' = Head(inbound)
  /\ inbound' = Tail(inbound)
  /\ agent' = "working"
  /\ UNCHANGED <<mainVars, chan, poller, last, batch, acked, handled, accepted, chatLog,
                 lostRows, answered, dispVars, lifeVars, outbound, room, arrived>>

(* Mutant: a wait that times out ends the loop. *)
AgentGetsNothingAndEnds ==
  /\ Alive /\ agent = "consuming"
  /\ inbound = <<>> \/ BusDestroyed
  /\ agent' = "ended"
  /\ UNCHANGED <<mainVars, pollVars, turn, chatLog, lostRows, answered, dispVars, lifeVars, outbound,
                 room, arrived>>

(* Mutant: the wait is repeated without a look at s_running. *)
AgentGetsNothingAndWaits ==
  /\ Alive /\ agent = "consuming"
  /\ inbound = <<>> \/ BusDestroyed
  /\ agent' = "consuming"
  /\ UNCHANGED <<mainVars, pollVars, turn, chatLog, lostRows, answered, dispVars, lifeVars, outbound,
                 room, arrived>>

(* SEA_ERR_TIMEOUT, or SEA_ERR_EOF from a bus that was stopped; the loop   *)
(* goes round.                                                             *)
AgentGetsNothing ==
  /\ Alive /\ agent = "consuming"
  /\ inbound = <<>> \/ BusDestroyed
  /\ agent' = IF running THEN "consuming" ELSE "ended"
  /\ UNCHANGED <<mainVars, pollVars, turn, chatLog, lostRows, answered, dispVars, lifeVars, outbound,
                 room, arrived>>

(* The result of sea_bus_publish_outbound is not looked at: in a full      *)
(* queue the reply is lost.                                                *)
PublishReply ==
  /\ answered' = Append(answered, turn.n)
  /\ IF Len(outbound) < Capacity
     THEN outbound' = Append(outbound, [n |-> turn.n, strings |-> Strings]) /\ UseRoom
     ELSE UNCHANGED <<outbound, room>>

(* Mutant: a message the shield refuses is dropped. *)
AgentRefusesSilently ==
  /\ Alive /\ agent = "working" /\ ~BusDestroyed /\ turn.strings = "all"
  /\ agent' = "loop" /\ turn' = NoMessage
  /\ UNCHANGED <<mainVars, pollVars, chatLog, lostRows, answered, dispVars, lifeVars, outbound,
                 room, arrived>>

(* Refused by the shield, no model configured, or an agent error: the      *)
(* sender is told and nothing is remembered.                               *)
AgentRefuses ==
  /\ Alive /\ agent = "working" /\ ~BusDestroyed /\ turn.strings = "all"
  /\ PublishReply
  /\ agent' = "loop" /\ turn' = NoMessage
  /\ UNCHANGED <<mainVars, pollVars, chatLog, lostRows, dispVars, lifeVars, arrived>>

AgentAnswers ==
  /\ Alive /\ agent = "working" /\ ~BusDestroyed /\ turn.strings = "all"
  /\ PublishReply
  /\ agent' = "logUser"
  /\ UNCHANGED <<mainVars, pollVars, turn, chatLog, lostRows, dispVars, lifeVars, arrived>>

(* sea_db_chat_log, once for each side of the turn; a row that cannot be   *)
(* written is passed over.                                                 *)
WriteRow(who) ==
  \/ chatLog' = Append(chatLog, [role |-> who, n |-> turn.n]) /\ UNCHANGED lostRows
  \/ lives + lostRows <= MaxMishaps /\ lostRows' = lostRows + 1 /\ UNCHANGED chatLog

LogUser ==
  /\ Alive /\ agent = "logUser" /\ ~BusDestroyed
  /\ WriteRow("user")
  /\ agent' = "logAssistant"
  /\ UNCHANGED <<mainVars, pollVars, turn, answered, dispVars, lifeVars, outbound, room, arrived>>

(* Mutant: a failed write is tried again, with the wrong side of the turn. *)
LogAssistantAsUser ==
  /\ Alive /\ agent = "logAssistant"
  /\ WriteRow("user")
  /\ agent' = "loop" /\ turn' = NoMessage
  /\ UNCHANGED <<mainVars, pollVars, answered, dispVars, lifeVars, outbound, room, arrived>>

LogAssistant ==
  /\ Alive /\ agent = "logAssistant"
  /\ WriteRow("assistant")
  /\ agent' = "loop" /\ turn' = NoMessage
  /\ UNCHANGED <<mainVars, pollVars, answered, dispVars, lifeVars, outbound, room, arrived>>

(* The shield reads the content the arena had no room for. *)
AgentReadsNull ==
  /\ Alive /\ agent = "working" /\ ~BusDestroyed /\ turn.strings # "all"
  /\ Die("null")

(* The channel name or the content is read after the arena was unmapped. *)
AgentStale ==
  /\ BusDestroyed /\ agent \in {"working", "logUser"}
  /\ Die("stale")

-----------------------------------------------------------------------------
(* The dispatcher. *)

(* s_running is tested at the start and whenever nothing is left to send. *)
DispLoop ==
  /\ Alive
  /\ disp = "loop" \/ (disp = "draining" /\ outbound = <<>>)
  /\ disp' = IF running THEN "draining" ELSE "ended"
  /\ UNCHANGED <<mainVars, pollVars, agentVars, reply, delivered, lifeVars, outbound, room, arrived>>

DispTake ==
  /\ Alive /\ disp = "draining" /\ outbound # <<>>
  /\ reply' = Head(outbound)
  /\ outbound' = Tail(outbound)
  /\ disp' = "sending"
  /\ UNCHANGED <<mainVars, pollVars, agentVars, delivered, lifeVars, room, arrived>>

(* No channel of that name (its string is NULL), one that is not running,  *)
(* or a send that fails: the reply is dropped.                             *)
DispDrop ==
  /\ Alive /\ disp = "sending"
  /\ BusDestroyed => reply.strings = "none"
  /\ reply.strings = "channel" => chan # "RUNNING"
  /\ disp' = "draining" /\ reply' = NoMessage
  /\ UNCHANGED <<mainVars, pollVars, agentVars, delivered, lifeVars, outbound, room, arrived>>

DispSend ==
  /\ Alive /\ disp = "sending" /\ ~BusDestroyed
  /\ reply.strings = "all" /\ chan = "RUNNING"
  /\ delivered' = Append(delivered, reply.n)
  /\ disp' = "draining" /\ reply' = NoMessage
  /\ UNCHANGED <<mainVars, pollVars, agentVars, lifeVars, outbound, room, arrived>>

(* tg_send copies text_len bytes from a content that is NULL. *)
DispReadsNull ==
  /\ Alive /\ disp = "sending" /\ ~BusDestroyed
  /\ reply.strings = "channel" /\ chan = "RUNNING"
  /\ Die("null")

DispStale ==
  /\ BusDestroyed /\ disp = "sending" /\ reply.strings # "none"
  /\ Die("stale")

-----------------------------------------------------------------------------
(* Somebody writes to the bot. *)
Arrive ==
  /\ arrived < Len(Updates)
  /\ arrived' = arrived + 1
  /\ UNCHANGED <<mainVars, pollVars, agentVars, dispVars, lifeVars, outbound, room>>

MainStep == StartChannel \/ LaunchThreads \/ StopAll \/ DestroyBus \/ JoinThreads \/ FreeChannel \/ Exit
PollStep == PollThreadRuns \/ Fetch \/ HandleUpdate \/ PollThreadEnds \/ PollThreadStale
AgentStep == \/ AgentLoop \/ AgentConsume \/ AgentGetsNothing \/ AgentRefuses \/ AgentAnswers
             \/ LogUser \/ LogAssistant \/ AgentReadsNull \/ AgentStale
DispStep == DispLoop \/ DispTake \/ DispDrop \/ DispSend \/ DispReadsNull \/ DispStale

Next == \/ MainStep \/ PollStep \/ AgentStep \/ DispStep
        \/ FetchFails \/ Signal \/ Kill \/ Restart \/ Arrive

(***************************************************************************)
(* Every thread keeps running, and a call to Telegram or to the model ends *)
(* in the end, as their timeouts see to.  No fairness is asked of signals, *)
(* messages, the loss of the process or of a request.                      *)
(***************************************************************************)
Fairness == WF_vars(MainStep) /\ WF_vars(PollStep) /\ WF_vars(AgentStep) /\ WF_vars(DispStep)

Spec == Init /\ [][Next]_vars
FairSpec == Spec /\ Fairness

-----------------------------------------------------------------------------
Queued == [n : 1 .. Len(Updates), strings : {"all", "channel", "none"}]
Rows == [role : {"user", "assistant"}, n : 1 .. Len(Updates)]

TypeOK ==
  /\ running \in BOOLEAN
  /\ main \in {"start", "launch", "wait", "destroy", "join", "free", "exit", "done", "dead"}
  /\ chan \in {"STOPPED", "STARTING", "RUNNING", "ERROR"}
  /\ poller \in {"none", "created", "looping", "handling", "ended"}
  /\ last \in 0 .. arrived /\ batch \in Seq(1 .. arrived)
  /\ inbound \in Seq(Queued) /\ Len(inbound) <= Capacity
  /\ outbound \in Seq(Queued) /\ Len(outbound) <= Capacity
  /\ room \in 0 .. Max(Rooms)
  /\ agent \in {"none", "loop", "consuming", "working", "logUser", "logAssistant", "ended"}
  /\ turn \in Queued \union {NoMessage}
  /\ disp \in {"none", "loop", "draining", "sending", "ended"}
  /\ reply \in Queued \union {NoMessage}
  /\ fault \in {"none", "null", "stale", "kill"}
  /\ lives + lostRows \in 1 .. MaxMishaps + 1 /\ lives \in Nat /\ lostRows \in Nat
  /\ arrived \in 0 .. Len(Updates) /\ acked \in 0 .. arrived
  /\ chatLog \in Seq(Rows)
  /\ delivered \in Seq(1 .. Len(Updates)) /\ handled \in Seq(1 .. arrived)
  /\ before \in 0 .. Len(handled)
  /\ accepted \in Seq(1 .. Len(Updates)) /\ answered \in Seq(1 .. Len(Updates))

Earlier == SubSeq(handled, 1, before)
Current == SubSeq(handled, before + 1, Len(handled))
Latest(s) == Max({0} \union Range(s))

(* Whatever is lost on the way, a process handles the updates one after    *)
(* the other, none twice and none left out, and a new process leaves out   *)
(* none that the one before it had not handled.                            *)
UpdatesInOrder ==
  /\ \A i \in 1 .. Len(Current) - 1 : Current[i + 1] = Current[i] + 1
  /\ Current # <<>> => Current[1] <= Latest(Earlier) + 1

(* The update id is confirmed only with the next request, so no update is  *)
(* forgotten by the server before it was handled; the price is that a new  *)
(* process may see updates again, but no more than one response of them.   *)
RedeliveryBounded ==
  /\ acked <= Latest(handled)
  /\ Current # <<>> => Current[1] > Latest(Earlier) - Limit

(* Across losses and restarts the updates are handled in order, and seen   *)
(* again within one response only.                                         *)
HandledInOrder == UpdatesInOrder /\ RedeliveryBounded

InHand == IF agent = "working" THEN <<turn.n>> ELSE <<>>
Numbers(q) == [i \in 1 .. Len(q) |-> q[i].n]

(* A message put into the inbound queue is waiting, or in the agent's      *)
(* hands, or has been replied to, exactly once and in the order of arrival.*)
EachAnsweredOnce == accepted = answered \o InHand \o Numbers(inbound)

(* The replies that reach the chat do so in the order of the questions,    *)
(* each at most once, however many were dropped between them.              *)
RepliesInOrder ==
  /\ \A i, j \in 1 .. Len(delivered) : i < j => delivered[i] < delivered[j]
  /\ Range(delivered) \subseteq Range(answered)

(* From the question in the inbound queue to the reply in the chat nothing *)
(* is repeated and nothing overtakes, whatever is refused or dropped.      *)
AnswersFollow == EachAnsweredOnce /\ RepliesInOrder

Question(i) == i \in DOMAIN chatLog /\ chatLog[i].role = "user"
Answer(i) == i \in DOMAIN chatLog /\ chatLog[i].role = "assistant"
Unpaired == {i \in DOMAIN chatLog :
               ~ \/ Question(i) /\ Answer(i + 1) /\ chatLog[i].n = chatLog[i + 1].n
                 \/ Answer(i) /\ Question(i - 1) /\ chatLog[i].n = chatLog[i - 1].n}

(* The history the next prompt is built from: questions and answers come   *)
(* in pairs.  A row without its other half is one a failed write or the    *)
(* loss of a process explains, or the turn is still being logged.          *)
HistoryPaired ==
  Cardinality(Unpaired) <=
    lostRows + (IF agent = "logAssistant" \/ main = "dead" THEN lives ELSE lives - 1)

(* "Graceful shutdown" (main.c): it ends the process, it does not crash it. *)
GracefulShutdown == fault # "stale"

(* No accepted message is left waiting for ever: time and again every one  *)
(* of them has been replied to, unless the process is told to stop first.  *)
AcceptedIsAnswered == []<>(accepted = answered \/ ~running \/ ~Alive)

(* A signal ends the process, whatever its threads are doing. *)
SignalEndsProcess == (Alive /\ ~running) ~> ~Alive
=============================================================================

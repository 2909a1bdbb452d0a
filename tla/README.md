# SeaClaw in TLA+

A formal model of [SeaClaw](../src/README.md), the C agent platform in `src/`:
TLA+ modules of its concurrent and stateful parts, TLC configurations that check
them on small instances, and theorems about them that the TLA+ proof system
(TLAPS) checks for every instance. Source references are to `src/src/<file>:<line>`
unless another path is given; `PROJECT.json` maps every definition to its lines.

Contents: [the system](#the-system), [the plan](#the-plan),
[the modules](#the-modules), [the runs](#the-runs), [fairness](#fairness),
[the proofs](#the-proofs), [findings and observations](#findings-and-observations),
[what is not modelled](#what-is-not-modelled).

## The system

SeaClaw is one C11 process. In gateway mode (`run_gateway`, main.c:883) it has a
main thread, an agent thread, a dispatch thread and one poll thread per channel;
in its Telegram and terminal modes one thread does everything. The proxy for Agent
Zero brings a thread of its own. All state is in memory in arenas of fixed size, in
markdown files, and, for what else is meant to last, in SQLite databases.

    Telegram ---getUpdates---> poll thread --publish--> [inbound ring] --consume--> agent thread
       ^                      (sea_channel.c,             sea_bus.c                (main.c, sea_agent.c)
       |                       sea_telegram.c)                                    |  |  \
       |                                                                          |  |   tools, spawn, memory,
       +--sendMessage-- dispatch thread <--consume-- [outbound ring] <--publish---+  |   recall, peers, mesh,
                        (main.c)                                                     |   Agent Zero, providers
                                                     chat_history, trajectory  <-----+ (sea_db.c)

### Inventory

| Component | Sources | State | Operations | What is hard, and what must hold |
|---|---|---|---|---|
| Message bus | bus/sea_bus.c | two rings of 256, a mutex each, a condition variable, one arena for the strings of both | publish and consume, inbound and outbound; consume for one channel; destroy; reset the arena | Threads interleave; removal from the middle of a wrapped ring; lost wakeups; the arena is under neither mutex. Each direction is a bounded FIFO, a message's strings stay its own. |
| Arena | core/sea_arena.c | base, offset, high water | create, alloc, reset | offset is loaded and stored without a lock; reset leaves old pointers behind. |
| Gateway | main.c | `s_running`, the threads | start, agent loop, dispatch loop, signal, stop | Order of stop, destroy, join, free; a full queue; a process lost between a reply and its log. Each accepted message is answered once and in order; a signal ends the process. |
| Channels | channels/ | state per channel, thread handle (detached) | register, start_all, stop_all, send, destroy | STARTING to RUNNING is set by the thread without asking; a detached thread outlives its channel. |
| Telegram client | telegram/sea_telegram.c | `last_update_id`, poll arena | poll, send | Requests and answers are lost; the offset lives in memory only; two threads save and restore one arena's offset. No update is left out, and each keeps its memory until it is handled. |
| Cron scheduler | cron/sea_cron.c | array of 64 jobs, table `cron_jobs` | add, remove, pause, resume, tick, save, load | The array moves under the tick that executes a job; ids, positions and rows are three numberings. |
| Sessions | session/sea_session.c | table of 64 with windows of 50 and summaries; two tables in the database | get, add message, summarize, clear, save, load, evict | Windows cut by limit and by summaries that may fail; eviction moves slots; foreign keys. |
| Agent loop | brain/sea_agent.c, hands/impl/tool_spawn.c | messages of the tool rounds, current input, provider being asked | chat, compact | Rounds, fallbacks and tools that fail; agents that spawn agents in the same arena; allocations that fail, also where nobody asks; rows that are not written. |
| Database | core/sea_db.c | SQLite file (WAL, foreign keys on) | log, read, clear per table | Statements of one operation are separate; the process may end between them; results are often ignored. |
| Mesh | mesh/sea_mesh.c | table of 64 nodes, the last result's pointer into it | register, heartbeat, remove, list, route, dispatch | Late messages against removals, staleness that only a listing notices, an answer lost after the work was done. What the captain says of a task is true. |
| A2A | a2a/sea_a2a.c | none that lasts | discover, delegate, heartbeat, /delegate | A full arena means something else at each allocation. Only what the shield passed is shown as a result, only what was carried out is a success; a peer's own error text is shown, unchecked, as an error. |
| SeaZero bridge | ../seazero/bridge/sea_proxy.c, sea_zero.c | proxy thread, listening socket, log of tokens; configuration | start, stop, serve; delegate, health | Budget checked before a request and charged after it; a socket closed under a thread inside accept(). |
| SeaZero workspace | ../seazero/bridge/sea_workspace.c | directories | create, list, clean up | Files only. |
| Usage tracker | usage/sea_usage.c | 8 providers, 30 days, table `usage_stats` | record, save, load | Counters of a process saved as a day's row. |
| Recall | recall/sea_recall.c | table of facts | store, query, forget, context | Use makes a fact newer and only the newest are looked at; a content is stored once whatever it is stored as, unless the look-up for it fails; a copy of any column may find no room. |
| Memory files | memory/sea_memory.c | markdown files, one arena of 128 KB | read, write, append, notes, bootstrap, context | A reading empties the arena, or does not; an overwriting empties the file first; results of writing are not looked at, and the process may end in between. |
| Shield | shield/ | tables built when needed | classify | A classifier of texts. |
| PII filter | pii/sea_pii.c | none | scan, redact | Matches out of order and overlapping. |
| JSON parser | senses/sea_json.c | the arena | parse, get | Growth leaves blocks behind, room may end at any element. |
| HTTP client | senses/sea_http.c | the growing buffer | get, post | A wrapper of libcurl. |
| Tools registry, tools | hands/ | table of 58 tools | lookup, execute | Input and output on files, network and shell. |
| Skills | skills/sea_skill.c | table, arena | load, register, enable, find, prompt | One bad file among good ones; names and triggers that are there twice. |
| Configuration, log, main | core/sea_config.c, main.c | `SeaConfig`, `s_agent_cfg`, what is up | load, start, doctor, end | Strings that find no room, each by itself; names of providers nobody knows; four places a key can come from; the order of taking down. |
| Installers | ../*.sh | - | - | Not part of the program. |

### How the parts interact

* Poll threads, the agent thread and the dispatch thread share the bus, the
  channel's `state`, `s_running`, and the arena of the Telegram client.
* The agent thread calls the agent loop, which calls providers over HTTP, tools,
  and through `tool_spawn` itself; it reads the memory files and asks recall for every
  prompt, writes `trajectory` rows itself, and its caller writes the two
  `chat_history` rows of a turn after the answer.
* Tools reach Agent Zero, the memory files, recall and the scheduler; the command
  /delegate reaches A2A. Agent Zero reaches the providers through the proxy.
* The scheduler calls shell, tools (one of which, `cron_manage`, calls the
  scheduler) or the bus.
* Sessions call the agent loop for a summary. Sessions, the tick of the scheduler,
  `sea_bus_consume_outbound_for`, `sea_bus_reset_arena`, `sea_usage_record`, the
  discovery of peers, the proxy's start and stop, the mesh but for its start, and the skills
  but for their loading have no caller in the program yet, at most in its tests; they
  are modelled as the API they are: any sequence of calls.

### Hazards

`PROJECT.json` lists under "hazards" each place where this code can go wrong in a
way tests hardly reach, with its line and the properties aimed at it. The
groups are: races on the bus (arena, wakeup, shutdown) and in the client's arena, the order
of the gateway's shutdown and of the proxy's, crashes and lost requests around the update
offset, the chat log and the files of memory, queues, tables and arenas at their
limits, the scheduler's array under its own tick, ids that stop matching rows, statements
of one operation cut in two by a crash, what is left in a request after several tool
rounds and failures, and answers of peers that are lost, late, too long or unfit. One that no property covers:
the scheduler looks at the result of no SQL statement (cron/sea_cron.c:204 and after), and a
quote in a job's name makes its INSERT fail; see [not modelled](#what-is-not-modelled).

## The plan

Modules are ordered by how much of the running program depends on them; all of
these exist.

1. `BusRing`, `FifoQueue`, `SeaBus`: the rings, the abstract queue, the bus
   with its threads; the bus's safety properties as theorems.
2. `Gateway`: the threads of gateway mode on top of what the bus promises,
   with the Telegram server, crashes and restarts.
3. `SeaCron`, `SeaAgent`, `SeaSession`.
4. `SeaTelegram`: the client in both modes, with its arena.
5. `SeaMesh`, `SeaA2A`, `SeaZero` with `SeaSort` and `SeaPii`, `SeaProxy`: what talks to other
   agents.
6. `SeaRecall`, `SeaMemory`, `SeaUsage`, `SeaSkill`: what lasts beside the database's log.
7. `SeaJson`, `SeaStart`: what everything begins with.

Theorems: every safety property of a passing run is proved, types included; the outbound queue with removal
by channel, as far as the arena has room for the channels' names.

## The modules

| Module | Models | Extends / instantiates |
|---|---|---|
| `BusRing` | one ring as a record and the operators on it | - |
| `FifoQueue` | the abstract specification of one direction of the bus | - |
| `SeaBus` | sea_bus.c with its threads and the arena | `BusRing`; `FifoQueue` twice, with a refinement mapping |
| `MCSeaBus` | sizes of strings for TLC | `SeaBus` |
| `SeaBusProofs` | lemmas on rings; the inductive invariant of the bus; both refinements of `FifoQueue`, wakeups, the strings in the arena | `BusRing`, `SeaBus` |
| `Gateway`, `MCGateway` | run_gateway, the Telegram channel, the server | - |
| `GatewayProofs` | order of updates and answers, pairs of rows | `Gateway` |
| `SeaCron` | sea_cron.c with its table | - |
| `SeaCronProofs` | runs, intervals and rows of jobs | `SeaCron` |
| `SeaAgent` | sea_agent.c, tool_spawn.c, their callers in main.c | - |
| `SeaAgentProofs` | requests, audit, failover and log | `SeaAgent` |
| `SeaSession`, `MCSeaSession` | sea_session.c with its tables | - |
| `SeaSessionProofs` | windows, summaries, rows and clears | `SeaSession` |
| `SeaTelegram` | sea_telegram.c in both modes, the arena of a poll, the buffer of sea_http.c | - |
| `SeaTelegramProofs` | windows into the arena of a poll | `SeaTelegram` |
| `SeaMesh` | the captain of sea_mesh.c, its nodes and the wire | - |
| `SeaA2A` | sea_a2a.c and /delegate | - |
| `SeaSort` | the insertion sort that sea_pii.c and sea_recall.c both write out | - |
| `SeaPii`, `SeaZero` | redaction of sea_pii.c; sea_zero.c with its tool | `SeaPii` extends `SeaSort`, `SeaZero` extends `SeaPii` |
| `SeaProxy` | sea_proxy.c with its thread | - |
| `SeaRecall` | sea_recall.c and its tool | `SeaSort` |
| `SeaMemory` | sea_memory.c, its tool, and the agent's reading of it | - |
| `SeaServicesProofs` | the inductive invariants of six of the parts | `SeaProxy`, `SeaMesh`, `SeaMemory`, `SeaA2A`, `SeaStart`, `SeaUsage` |
| `SeaUsage` | sea_usage.c with its table | - |
| `SeaSkill` | sea_skill.c | - |
| `SeaPromptProofs` | the sort; answers of Agent Zero, redaction, recall and skills; the JSON parser | `SeaZero`, `SeaRecall`, `SeaSkill`, `SeaJson` |
| `SeaJson` | sea_json.c, and the texts of JSON it is compared with | - |
| `SeaStart`, `MCSeaStart` | main from the command line to the last cleanup, sea_config.c | - |
| `MCServices` | the eleven parts from `SeaMesh` to `SeaStart`, one in each behaviour (`SeaPii` with `SeaZero`, `SeaSort` with both it and `SeaRecall`) | all of them |

Definitions carry the names of the code where they can. A definition whose comment
begins with "Mutant:" is not part of the model: it is a variant of the definition
after it with a plausible bug, and "mutants" in `PROJECT.json` says which property
notices the variant.

### SeaBus

`ring[d]` is the circular buffer of direction `d` (`inbound`/`in_head`/`in_tail`/
`in_count` and the outbound four), `lock[d]` its mutex, `offset` and `memory` the
arena. `memory[a]` says whose string, and which byte of it, is at address `a`:
that is all a property needs to tell whether a pointer still leads to its own text.

A publish (sea_bus.c:88 and :167) is: take the mutex and test for room
(`PublishBegin`, `PublishFull`); for each string a load of the arena's offset
(`AllocLoad`) and a store of it with the copy (`AllocStore`), which is
`sea_arena_alloc` (core/sea_arena.c:37) split where another thread may get in
between; write the slot, signal, release (`PublishEnd`). A string that does not fit
leaves a NULL pointer in a message that is published all the same, as in the code.
A consumer tests under the mutex (`ConsumeMessage`, `ConsumeDecidesToWait`), gives
the mutex up and sleeps in one step (`ConsumeWait`, which is what
`pthread_cond_timedwait` promises), and wakes by a signal, spuriously or by timeout.
Timeout means no second look at the queue, as in the code. The steps between test
and sleep are separate because `sea_bus_destroy` writes `running` without the mutex.
Outbound messages are taken in one step, since nothing outside the mutex is read.

### Gateway

The main thread walks through start, launch, wait, destroy, join, free and exit; the
poll thread, the agent thread and the dispatcher each have a program counter with
one step per access to what threads share. The bus is what `SeaBus` has been shown
to implement, a bounded queue per direction, and of its arena only `room` is kept:
the number of strings it still has room for, each counting the same. So a message is its number and which of its
strings exist. The server keeps `arrived` and `acked`, and a request with
offset `last + 1` makes it forget what is before, also when the answer is lost.

`Die` ends the process, with `fault` saying why: killed, a NULL string dereferenced
(`AgentReadsNull`, `DispReadsNull`), or memory read after main freed it
(`AgentStale`, `DispStale`, `PollThreadStale`). Reading freed memory is undefined
behaviour; the model takes the outcome that munmap produces for the bus arena, a
crash. `Restart` starts again with the database and the server as they were.

### SeaCron

`slots` keeps the whole array, also what a removal leaves behind `count`, because
`execute_job` writes through a pointer after its tool has returned, whatever lies
there by then. `tick` is the position, the time taken once at the start, and
whether a job is being executed. `Manageable` states when add, remove, pause and
resume can run: between two ticks, or out of the job that is being executed when
that job is a tool call. `rows` is the table, `sequence` its AUTOINCREMENT. `Stop`
saves with INSERT OR REPLACE under the array's ids; `Restart` loads nothing, because
`sea_cron_load` (sea_cron.c:418) is a placeholder. Shell commands, tools and bus
messages are the same to the scheduler but for the tool that calls back. Statements
are taken to succeed: their text is not modelled. Schedules are an interval and
whether they fire once.

### SeaAgent

`stack` holds the chats under way: `tool_spawn` calls `sea_agent_chat` on the C stack
of the chat that called the tool, so only the innermost chat takes steps. A frame has
the history it was given, the messages of its tool rounds (`extra`, at most
`MAX_EXTRA_MSGS`), the current input, the round, and the provider being asked. One
round is: combine and build (`BuildRequest`, `BuildCrashes`, `BuildFails`), ask the
primary provider and then each fallback (`ProviderFails`, `FallbackSkipped`,
`AllFailed`), and then an answer, a rejection or a tool call. `ToolEnds` and
`ToolFails` include the audit row and the messages for the next round. An allocation
that fails is a choice bounded by `MaxShortages`, because agents share one arena of
fixed size whose use depends on lengths of texts; what the code does then is modelled
at each place: return an error, pass over a fallback, leave a message out, dereference NULL
(also of a role of the history, `HistoryCrashes`), or go on with less. The last is what
`strbuf_append` does (brain/sea_agent.c:173): when the buffer of a request cannot grow, what should be
appended is dropped without a word and the request is sent. `Sends` keeps of such a request its first `sent` messages, any number
of them: every message is longer than what is left of a buffer that could not take one. This
holds of the first request of a round and of those to the fallbacks (`FallbackRequest`). A tool that fails leaves its output unset:
the size computed from it is arbitrary, so the result message may or may not find room.

`db` says whether there is a database; without one nothing is logged, audited or read. With one, any row may be refused
(`Refuses`, bounded by `MaxRefusals`), which no caller looks at: an audit row (`unaudited`), each of the two
rows of a turn, which are steps of their own (`LogsQuestion`, `LogsAnswer`), and the reading of the history, which may end early.
`Killed` ends the process between any two steps. `broken` are the chats of which a row is missing, or was cut off.
`MaxDepth` bounds how deep agents spawn agents; the code has no such bound.

### SeaSession

`sessions` is the table (as long as the manager's count), `todo` the statements, and
possibly the summary, that remain of the operation at work; each is a step, and the
process may be lost between them (`Down`). A text is known by the messages it
holds: a summary is the set of messages whose text its prompt held. That is enough
to tell whether something was forgotten or went to another key, and keeps the
model small. The reply of the model is trusted to summarise its prompt; the page of a
provider that failed is taken by the code as a summary and is modelled as one that holds
nothing. Foreign keys are on, so a message without a session row is not stored and a
session with messages is not deleted.

### SeaTelegram

`mem[i]` is what unit `i` of the poll arena was last written for, `offset` where the next
allocation goes. A poll saves the offset, makes the request, grows the body through
buffers of doubled size, parses, hands the updates over one after the other, and
restores what it saved (telegram/sea_telegram.c:104 to :190); a send saves and restores
as well. `open` is the stack of these windows and `crossed` says that one was closed
out of order or entered by another thread's allocation. `direct` chooses the mode:
in the direct mode of main the handler works inside the poll, and /model set leaves a
name in its arena. An allocation is one step here; `SeaBus` has it in two. An update
whose memory is no longer its own is `Misread` as anything.

### The parts around the agent

`SeaMesh`: `nodes` keeps all slots, also behind the count, since a removal moves slots
down and clears none while a result points into them. Registrations and heartbeats
are `wire`, which may hold, lose and reorder them. A dispatch is `Dispatch`,
`NodeExecutes` and one of `DispatchFails` and `DispatchReturns`: an answer may be lost
after the work was done. `executed` is what was really done.

`SeaA2A`: every allocation of a delegation is at its place, in an arena of `A2ARoom` units of
which any part may be gone (`Fits`, `Taken`). `outcome`, `audit` and `told` are what
the caller, the log and the user hear of `performed`. What /delegate answers is `Response`: the verified result, the
shield's notice, the failure in words of the program's own, or the peer's own error text ("peerError"), which the shield
never saw; a text longer than the buffer of the command is "overrun". The audit row may be missing.

`SeaZero` and `SeaPii`: an answer has a length, whether the shield would object, and
matches of personal data; an error text of Agent Zero is a text like its results. Copies need as many units as the text is long. An error is
told through a buffer of `NoticeMax` (`Told`), in Agent Zero's own words, and past the buffer's end if it is longer. `SeaPii` has the
collection, the sort and the redaction of matches as operators, for matches in any
place; which text is a match is not modelled. The sort (`Order` of `SeaSort`) is a function of the rounds of
the loop, and says which of the matches, by its number before, comes where.

`SeaProxy`: `thread` is where the proxy's thread is, `backlog` what the kernel has accepted for
it, `owner` how far a stop has come. `logged` is the sum of the log, which outlives the
process (`ProxyLost`) and every restart.

`SeaRecall`: texts are sets of words, scores are computed as in the code from shared words,
importance and age, with ages in days and the decay as a table. The statement's ORDER BY is in `RowOf`: a fact is
in the row after as many as are ahead of it (`Ahead`). `remembered` are the facts stored and not forgotten, each with its
number. A look-up of a content may fail, and a second row is then inserted (`missed` counts these); updates and deletions may fail; the rows of a query may end early
(`limit`), and of each row any strings of `Losable` may find no room (`lost`): without keywords it shares no word, without a date it counts
as some days old, without content it is blank. A category that finds no room is compared all the same (`QueryCrashes`).

`SeaMemory`: files are sequences of pieces; readings of the code take as many units of the one arena as
the file is long, and a reading of MEMORY.md empties it. A write opens the file (`WriteBegins`), puts piece after piece, each of which the disk takes or
not (`Puts`), and tells its caller (`WriteEnds`); the end of the process may come between any two of these (`Restart`). Of what the
tool is asked to write its buffer holds `TextMax` pieces, and the rest is cut off (`Held`). `fates` says what became of each write.

`SeaUsage`: the counters of a life, `rows` of the table, and `ledger`, every request there was.
`SavesAndRestarts` may miss any row, as no result is looked at.

`SeaSkill`: a file is its size, whether its front matter closes, and the lines of it, each a
name, a trigger or another. The table and the arena fill up in the order of the directory.

`SeaJson`: the recursive descent is a stack of the containers begun (`stack`), one action per token. `wants` is
what the parser looks for next. `Texts` is the reference: the texts of JSON up to a size, built from
the grammar, with the value, the room and the first value of each key of each.

`SeaStart`: `mainAt` walks through main. A setting is what it is for and where it came from, so a property can tell
the key of one provider from that of another. `Loaded` reads config.json with any set of its strings lost, the
name, the key, the URL and the model of each entry and the token, as their lengths are arbitrary and the parse tree and the copies share 8 KB
(core/sea_config.c:76); `said` remembers what the file had. A name `parse_provider` does not know (`Unheard`) is read as the first provider,
as is none at all. Any part may fail to come up; `alive` is what is up.

## The runs

| Run | Module, configuration | Question |
|---|---|---|
| `bus_outbound` | `MCSeaBus`, `MCSeaBusOutbound.cfg` | Two publishers, takers from the head and from the middle: are the rings well formed, is the direction a FIFO but for the removals by channel? |
| `bus_wakeup` | `MCSeaBus`, `MCSeaBusWakeup.cfg` | The threads of the gateway with two consumers, and destroy: does each mutex cover its section, do strings stay intact unless two allocations race, is a wakeup ever lost, is everything served, does everybody get out? |
| `bus_race` | `MCSeaBus`, `MCSeaBusRace.cfg` | *Violation*: "Thread-safe ... valid until the next arena reset" (sea_bus.h). |
| `gateway` | `MCGateway`, `MCGateway.cfg` | Updates, queues, replies and history through crashes, lost requests and shutdown. |
| `gateway_shutdown` | `MCGateway`, `MCGatewayShutdown.cfg` | *Violation*: "Graceful shutdown" (main.c). |
| `cron` | `SeaCron`, `MCSeaCron.cfg` | Jobs under a tick whose tool changes the array, save, crash and restart. |
| `agent` | `SeaAgent`, `MCSeaAgent.cfg` | Rounds, failover, tools, sub-agents, audit and log. |
| `agent_question` | `SeaAgent`, `MCSeaAgentQuestion.cfg` | *Violation*: the loop of FAQ.md keeps the question in the prompt. |
| `session` | `MCSeaSession`, `MCSeaSession.cfg` | Windows, summaries, eviction, isolation, clear, restart. |
| `telegram` | `SeaTelegram`, `MCSeaTelegram.cfg` | Do updates keep their memory and does every one get handled, in both modes, with failing requests and a second thread that sends? |
| `services` | `MCServices`, `MCServices.cfg` | For each part around the agent: is what it reports, counts, keeps or takes what happened or was there? |
| `start_environment` | `MCSeaStart`, `MCSeaStartEnvironment.cfg` | *Violation*: "Environment variables always take precedence" (docs/FAQ.md). |

### What each property says

*Bus.* `LockDiscipline`: whoever is between the halves of a critical section holds its
mutex, and the room or emptiness it saw is still so. `RingsWellFormed`: head, tail and
count agree and what lies between is messages. `InboundIsFifo`, `OutboundIsFifo`: the ring
implements `FifoQueue`. `NoLostWakeup`: while somebody sleeps, every queued message has
a woken consumer. `InboundServed`: a queued message is handed out or the bus stops; no
timeout is assumed. `StopReleasesConsumers`: after destroy all consumers return, which
holds only because of the timeout, since the broadcast can be missed.
`IntactUnlessRaced`: nothing but a race of two allocations spoils the strings of a message.

*Gateway.* `HandledInOrder`: at-least-once delivery of updates, in order, with
at most one response repeated per restart. `AnswersFollow`: what was accepted equals
what was answered, then what the agent has in hand, then the queue; and however many replies
are dropped, those sent are in order and never twice. `HistoryPaired`: rows of the history come
in pairs but for failed writes and lost processes. `AcceptedIsAnswered`, `SignalEndsProcess`: liveness.

*Cron.* `RunsRight`: the job's own counters agree with what was executed, and a one-shot
job fires once, unless a removal moved the array under an execution. `IntervalKept`: at
least an interval between two executions. `RowsFollowJobs`: the table mirrors the array while
ids and rows agree. `DueJobsRun`: no due job is passed over for ever.

*Agent.* `ResultsFollowCalls`: a request holds the calls of its chat in order with
each result behind its call, whatever sub-agents did in between: all of them, or, if an allocation failed, none without the ones before it.
`ToolsAudited`: each tool run has an audit row, but for those under way in a crash and those whose row the database refused; without a
database there is none. `FailoverComplete`: the
user hears of failure only when every provider was asked that round, but for those there was no room to ask. A page that came with another
status than 200 from the last provider counts as failure there, and as an answer in the log, which is what the code makes of it. `LogIsTurns`: the
chat log is a sequence of turns, each question directly before its answer, in the order of the chats; one of the two is missing only when its row was refused
or the process was lost between them, and as long as that never happened a window begins with a question.
`ChatsEnd`: liveness.

*Sessions.* `HistoryIsLatest`: the window is the latest suffix of the session's messages.
`NothingForgotten`: what is cut off was in a prompt, or is among the losses the code
accepts. `Isolated`: no message reaches another key. `ClearedIsGone`: when a clear is
done nothing of the session is left in memory or in the database.

*Telegram.* `PollArenaHolds`: as long as no windows cross, which the direct mode never does, every
update keeps its text and nodes until it is handled; the arena is given back after whatever failed;
a model name left in it is intact until the next response. `EveryUpdateHandled`: liveness, unless
the response can never fit, in which case the same request is made for ever.

*Services.* `MeshTruthful`: no name twice, health no older than the last look at the whole table, no
success that was not executed, and results that name their node as long as no node before it is removed.
`A2ATruthful`: nothing unverified is shown as a result; a peer's words on an error are shown, but only as the error of a delegation that
failed, and only such words or a result run past the buffer; nothing is called a success or logged that was not
carried out; and discovery returns those listed in their order. `DeliveredIsFit`: what reaches the model of
a result of Agent Zero has passed the shield, is within its length, and is redacted if there was room; an error reaches it unchecked,
but only where there is an error and as one, and nothing else past the end of a buffer. Both say how far the check of outputs reaches, not that it reaches everything;
see [the observations](#findings-and-observations).
`ProxyHolds`: the budget is overshot by one request at most, over any number of restarts, and a
stop leaves nobody who serves, after one more connection at most. `FactsKept`: what was stored is there under its first category
until it is forgotten, and in no more rows than one and those that failed look-ups added. `BestFirst`: what a question finds, and the prompt
holds, is the best of the rows that were read, by what is left of each. `MemoryKept`: since MEMORY.md was last overwritten, every write whose caller was told and
whose every piece the disk took is there through any end of the process, as far as the tool's buffer held it; nothing is there twice, out of order or from before.
`SoulWhileRoom`: SOUL.md is missing from a prompt only when the arena is full. `UsageAddsUp`: counters
are exact within a life, and the table counts nothing twice and nothing before its day. `WellStarted`:
keys and models are used with the provider and the URL they are for however much of the configuration was lost, but for two ways astray
that it names: a lost URL sends them to the provider's usual one, a name that is lost or unknown to the first provider. None that has a
key in the environment goes without, --doctor is right within its limits, and the database closes
last. `SkillsAsFiled`: no skill is missing but for room, a disabled one is hidden, prompts are whole.
`JsonIsRead`: the parser accepts exactly JSON that fits, for its value, and fails at no token too early.

### Bounds, and why they are enough

* *Bus.* Rings of 2 or 3 slots wrap and fill within the messages sent; two strings of
  different sizes per message let two allocations interleave in every way; arenas of
  7 or 8 bytes run out in the middle of a message. Two consumers are needed for a
  stolen wakeup, three messages in the ring for a removal from the middle.
  The theorems cover every size for all safety properties; removals by channel need room for the channels' names.
* *Gateway.* Three updates ("text", "other", "text"), answers of two, queues of one: a
  queue is full while the agent works, a response holds more than one update and
  one is left for the next. The arena of a fresh bus has room for 3 strings, so that it runs out
  in the second string of a message, or for 8, so that every reply can be sent. One mishap (a restart or a failed row) separates its causes;
  with it every crash point is explored once.
* *Cron.* An array of two, three jobs in all and a clock to 2 with an interval of 1: the array is
  full and is shifted, a job becomes due during a tick, a slot behind the count is left
  with an old job, and two jobs can get one id. Two lives, one resume.
* *Agent.* Three rounds (a first, a middle, the last), one fallback, agents one deep,
  one shortage and one refused row in a run of two chats or compactions, with a database or without, windows of 2 rows and compaction from 2.
  `ExtraRoom = 6` is exactly the room for three calls with results.
* *Telegram.* An arena of 8 units holds two updates of one unit but not two of two with their
  nodes, so that responses fit, overflow while they grow, or overflow in the parse; three updates, so a
  response has fewer, as many, or more than the limit of 2; one reply of the dispatch thread can
  come at every step of a poll.
* *Services.* Every table is shorter than what comes to it (two slots for three nodes, payees,
  days, skills; two candidates of three facts). The arenas of `SeaA2A`, `SeaZero`, `SeaSkill` and `SeaJson` may run out at each of their
  allocations; in `SeaRecall` and `SeaStart` each string may be the one that finds no room, one mishap to a query. Texts are shorter than the buffers for
  notices and for the memory tool, as long, and longer. Fallbacks of a configuration have both a key and a URL of their own or neither, the primary entry anything. Every
  budget can be met exactly and be overshot. Two or three lives for what outlives a process. JSON nested twice with
  two elements, growing from blocks of one: a container grows once and once again. The parts share no state, so
  a behaviour is about one of them (`subject`) and the run explores the sum, not the product.
* *Sessions.* Three keys for two slots, windows of 3, summaries from 2 that leave 1, so a
  window is cut by both; four messages; two lives. Keys are symmetric.

`CHECK_DEADLOCK FALSE` stands where the system really stops: all publish calls are
made and the bus destroyed, the process has ended and is not started again, the bounds on
chats, jobs or lives are used up.

## Fairness

* `SeaBus`: a publisher inside the call finishes it, and a consumer that can proceed does; the
  agent thread calls again after every return (main.c:816). Timeouts, spurious wakeups, resets
  and destroy get none, so `InboundServed` cannot lean on them; `StopReleasesConsumers`
  names the assumption on timeouts in the property.
* `Gateway`: each thread takes steps (the kernel schedules it), and requests to Telegram and the model
  end by their timeouts (sea_http.c:58). No fairness for signals, arrivals, kills, lost requests.
* `SeaCron`: "Call this once per second from a dedicated thread" (sea_cron.h): ticks keep coming
  and what they execute returns. None for management or the clock.
* `SeaAgent`: the innermost chat takes steps: a request ends after 120 seconds (sea_http.c:58).
* `SeaTelegram`: both threads go on and requests end by curl's timeout (weak), and a request that is
  made again and again succeeds some time (strong, for `Receive` only). None for users and replies.
* `SeaSession` and the parts in `MCServices`: none; their properties are safety.

## The proofs

`SeaBusProofs` begins with lemmas on one ring: for every `QueueSize > 0`, what the operators on the ring do to
its contents: `EnqueueContents` appends, `DequeueContents` drops the first,
`RemoveAtContents` drops exactly the i-th and keeps the order of the others, though the code shifts
slots around the end of the array. The lemmas below them are arithmetic modulo
`QueueSize` and facts about the slots between head and tail.

It then proves, for every set of threads, channels, sizes of strings, arena and ring
(`BusAssumption`, `QueueSizeAssumption`, `NullAssumption`, all evaluated by TLC in the bus runs):

* `BusInvariant`: `Spec => []IInv`, `IInv` being `TypeOK`, `LockDiscipline` and
  `RingsWellFormed` together. None of the three is inductive alone. `TypeOK` needs
  `LockDiscipline`: that `count` stays at most `QueueSize` in `PublishEnd` follows only because the
  publisher has held the mutex since it found room, and that `offset` stays within the arena
  in `AllocStore` because what was loaded still fits. `LockDiscipline` needs the types. `RingsWellFormed` needs that the draft of a
  publisher inside is a message.
* `BusTypeOK`, `BusRingsWellFormed`, `BusLockDiscipline`: the three parts. `TypeOK` is proved, and in no run; so it is in
  the modules below that have a theorem on types.

The argument is one lemma per action, each with one step per conjunct the action can disturb;
lemmas on frames say what an action that leaves ring, lock and pc alone preserves. The
lemmas about rings enter at `PublishEnd`, `ConsumeMessage`, `ConsumeOutbound` and
`ConsumeOutboundFor` only.

Its second part proves what callers rely on, each from `IInv` and one more invariant:

* `BusInboundIsFifo`, and `BusOutboundIsFifo` for a program that takes nothing by channel (as this
  one): the bus implements `FifoQueue`. `PublishEnd` is the abstract `Put`, the two consuming steps are `Take`, all
  others stutter. `Put` wants a message that was never queued before; this needs the invariant `Numbered`:
  a message held has a number its publisher has used, and the draft of a publisher inside has a number no
  held message has. The refinement mapping is `Contents` of the ring, so `EnqueueContents` and
  `DequeueContents` are the two steps.
* `BusNoLostWakeup`: the invariant is inductive together with `IInv`. A publish adds a message and wakes a
  sleeper if there is one; a consumer comes to sleep only through `towait`, in which it holds the mutex and
  the queue is empty; and a woken consumer leaves "woken" by taking a message, or when the queue is empty,
  or after the bus has stopped.

Its third part proves `BusIntactUnlessRaced` from the invariant `MemoryInv`: as long as no two
allocations raced, every string of this epoch that is held, or in the draft of a publisher inside, lies
below the offset and is its own. A copy is made at the offset, so above all of them. The drafts have to be in the
invariant because a draft's strings are copied one by one; and `LockDiscipline` is needed because a
reset, which takes both mutexes, finds no publisher inside.

Its last part is `OutboundIsFifo` with messages taken by channel, which depends on the arena: `sea_bus_consume_outbound_for` compares texts.
`BusOutboundByChannelIsFifo` assumes of a behaviour that the names of the channels found room (`NamesFit`), that no allocations raced, and that what is
queued is of this epoch (`NamesKept`); then, by `MemoryInv`, a text is found where and only where its channel is meant
(`ChannelFound`), and a removal from the middle is the abstract `Take` (`RemoveAtContents`, `WithoutOne`). Without these it is false: a message whose channel
found no room is overtaken by those behind it. `BusOutboundAloneIsFifo` says what a program can do for it: if it publishes replies only and resets the arena only when
nothing is queued, as in `bus_outbound`, the outbound mutex covers every allocation (`LoadedLast`: what a publisher has loaded is the offset still), and only the room has
to be assumed; in `bus_outbound` there is.

The first part of `SeaServicesProofs` proves, for every budget, every bound on the cost of a request, every length of the
kernel's queue and any number of connections and starts (`ProxyAssumption`):

* `ProxyInvariant`: `ProxySpec => []ProxyInv`. Beside the types and `BudgetHolds`, `ProxyInv` has three parts.
  `OwnerAndThread`: the flag is up exactly while the owner has not begun to stop, there is a thread exactly while
  the owner is not down, and a thread is gone only after the flag was taken back; so a start cannot meet an
  old thread. `ServesOne`: a request being served that was forwarded is the last that was sent, and the log is
  still where it was when the budget was looked at. This is what makes the overshoot one request: with a second
  thread it would fail. `OneMore`: once the stop began the thread passes its test at most once.
* `ProxyKeepsBudgetAndStops`: `ProxyHolds` follows.

There is one lemma for the steps of the owner and of the loss of the process, one for the loop of the thread,
one for what is refused, and one each for forwarding and for counting.

`GatewayProofs` proves the three safety invariants of the gateway for every sequence of updates, every size of a
response, of the queues and of the arena, and any number of losses (`GatewayAssumption`). `TypeOK` is inductive with
`InTurn`, which says what a thread holds where it is and which threads exist where main is. Beyond that:

* `UpdatesHandledInOrder` from `UpdatesFollow`: the batch goes on where the last handled update ended, the offset is
  that update, and all of it lies within one response of what the server was told to forget. The last part is what a
  loss needs: the next life begins at `acked`, at most `Limit` before what was reached.
* `RepliesFollowQuestions` from `Asked` and `Told`: questions are accepted in rising order; those answered come before
  those queued; and delivered replies, the one in the dispatcher's hand and those queued form one rising sequence.
  Each of the three actions that move a message moves it between neighbours of that sequence.
* `HistoryStaysPaired` from `HistoryInv`: between the two writes of a turn the question is the last row, or its
  write failed and is counted.

`SeaSessionProofs` proves all four safety properties of the sessions for every table, window, prompt and number of
messages (`SessionAssumption`: what a summary leaves is less than the window, the window no more than the array).
`TableInv`: at most `MaxSessions` slots, no key twice, no window over the array. `OwnInv`: messages in a slot, in rows
and *in statements still to be done* belong to the key; the last is what a crash between statements needs.
`WindowInv`: a window is the end of all messages of its session, whole if shorter than `keep_recent`, and what is not
in it is in the summary or excused. `ClearLeavesNothing` is an action property and needs `ClearInv`, on the order of
the statements of a clear: the slot is emptied first, and when the session's row goes its messages have gone.
`Touched`, the whole of finding, evicting and appending a slot, has lemmas of its own.

`SeaAgentProofs` proves the four safety properties of the agent for any rounds, fallbacks, depth, chats and allocations
that fail. `AgentAssumption` asks that a call and its result for each round fit in the buffer (5 rounds, 16 messages) and that the
history window holds whole turns (20); with an odd window `LogIsTurns` would be false. The invariant speaks of every frame
of the stack: `StackInv` says that exactly those below the top wait, and each frame keeps `FrameInv`, its rounds, its
providers passed over, and `CallsInOrder`, that its messages are calls 1 to `round`, each before its result. What was sent is a
beginning of the request (`sent`), so a request that was cut keeps that order, and `FrameInv` charges every cut to an
allocation that failed (`SendsKeeps`). `EveryToolAudited` counts: tools started are those audited, without a row, lost or running, and
those running are the frames below the top and the top if it is in a tool (`RunningCount`). `LogInv` is `LogIsTurns` for the log
alone, strengthened by the chat whose answer is still to be written: its question is the last row, or it is among the broken ones. While
no chat is broken the parity of the log says which rows are questions; from that follows how a window begins (`LatestRows`).

`SeaCronProofs` proves the scheduler's two safety invariants and its action property for any array, intervals, clock,
jobs and lives (`CronAssumption`):

* `KeysInv`: keys number the jobs made and no two slots share one, so that what history says of a key belongs to one slot.
  `TickInv`: a tick points to the job it executes unless a removal shifted the array under it.
* `JobsInv`, for `RunsAreRight` and `IntervalIsKept`: runs plus the one under way are the executions; a one-shot job that is active and
  idle has a resume to spend; an active job that was run is due no earlier than its interval after that run began.
  The last is the strengthening of `IntervalKept`; it holds through `sea_cron_resume`, which computes the next time anew.
* `RowsInv`, for `TableFollowsJobs`: ids are distinct, and rows and slots are in bijection, from which the
  cardinality in `RowsFollowJobs` follows by `FS_Bijection`.

That a behaviour makes no more than `MaxResumes` resumes is a sum over a function, so `TypeOK` does not say it; it bounds the run only.

`SeaTelegramProofs` proves `PollArenaHolds`, for any arena, sizes, costs and limit (`TelegramAssumption`). `PollArenaHolds` looks at
one moment; its invariant has to know what may still be restored:

* `WindowsInv`: the windows that are open are those of the calls in progress, each once, and a reply of the poll
  thread is inside its batch. `DirectInv`: in the direct mode only the poll thread is in a window, and the arena was empty when its batch began.
* `NestedInv`: while windows are nested, what was received lies below the offset and below every offset that may be
  restored before it is handled. For a reply of the dispatch thread that is so only if its window was opened inside the batch; if
  the batch is inside it, closing it is a crossing.
* `NameInv`: the name /model set left lies below the offset, and below the one the reply to that command will restore.

`LastIsInnermost`, `OpensLast` and `ClosesOne` are about the sequence of windows and are used in every action that opens or closes one.
`Total` and `Caps` are recursive functions, and what they compute is needed: texts lie side by side inside the body, and the
buffer that is large enough exists. Induction would take an operator as its parameter; the lemmas `SumsExist`, `SumsAgree`, `TextsInBody`,
`PowersExist`, `DoublesAgree` argue by the least number that fails instead (`LeastExists`, from `WFMin`).

The other parts of `SeaServicesProofs`:

* Mesh. `MeshInv` is the types, `MeshTruthful`, and two invariants on pointers into the table: `PostInv`, that a dispatch
  in progress points to the node it was sent to, and that this node executed the task if it was; and
  `HeldInv`, that what a result remembers are the names up to its node. Removal shifts the table; the lemma
  `RemoveNodeKeeps` shows that it leaves alone what is before the removed node.
* Memory files. `FileInv` is `MemoryKept` for MEMORY.md, and `WriteInv` says what a write in progress may still do: a headline is only
  on its way to an empty file, and a write of MEMORY.md is the last of all; the pieces it has yet to put follow those it has put, which are there as long as the disk
  took them (`AppendInv`). So when it ends all are there, and when it is cut off what is there is in order. `MemoryAssumption`
  asks that a note, whose name is a date, is not called like one of the three files; with a note called MEMORY.md the headline would be in it.
* Delegation. `DelegationInv` is the types, `DelegationTruthful` and `UnderWay`: until the answer was read there is no verified
  outcome and nothing was said of it, an answer that came is to a task that was carried out, and an error in the
  peer's own words is no success. `AnswerRead` goes through what an answer leaves when its copies find no room: only a verified output is the peer's own. For `PeersAsListed`, `FoundAmong` says of the first k agents of an answer what was found among
  them; `PeerAdded` goes from k to k + 1, and `Found`, a recursive function, satisfies it for all of them.
* Start. `ConfigRight` says of every entry that it is what the file said without what was lost, the main entry and the fallbacks
  alike (`LoadedRight`), and `EnvironRight` that a variable holds a key for its own provider. `AgentKeysFit` is the one step that
  makes use of both: whichever strings are lost, a key or a model goes astray in the ways `KeysFit` names only. `DatabaseInv`: no database before it was opened, and none of its writers after it closed.
  `StartAssumption` asks that the provider taken for an unknown name is one with a key (it is OpenAI's).
* Usage. `UsageInv` says of both tables that a key is in them once and its counters are exact (`TablesInv`), that nothing is
  dated after today (`NothingAhead`), that a provider missing from its table found it full (`PayeesExact`) and that the days
  are the latest ones (`DaysExact`). `EnteredCounts` and `AddedCounts` are the two things recording does to either table.
  `UsageAddsUp` bounds the rows up to a date by all that was asked until then, which a save does not preserve: it puts this
  life's counters on top of rows that might already count them. `RowsInv` bounds the rows by what the lives before this one
  were asked, so that a save, with which a life ends, adds that life's share and no more (`SavesKeep`).

`SeaPromptProofs` is about what reaches the model and what is read of its answers. It begins with the insertion sort that
redaction and recall share.
`OrderSorts`: for any ranks it is a bijection of the places in which nothing ranks below what is before it. `PlaceFound`
and `RoundOrders` are one round; `RoundsExist` goes through all of them.

* Redaction. `HiddenUpTo` says what the copy has hidden after k matches: the first unit of each, all of it unless another began
  before it and covers that unit, and nothing else. `PassedHides` goes from k to k + 1 and needs the sort: a match may be passed over only
  because those before it began no later. `RedactedRight` is `RedactionRight` for every text and all matches; that the
  copy fits in the room that was asked for is its last conjunct.
* Agent Zero. `ZeroInv` is the types, `VerdictFit`, what is true of a success while it is on its way to the model, and `FailureTrue` and
  `OutputTrue`, that any other words of Agent Zero are those of its error, and too long for their buffer where its end is lost;
  `CopyFit` and `JudgesKeeps` are the two places where an answer is taken over. `DeliveredIsFit` follows. `ZeroAssumption`
  asks that matches lie at places of texts, which begin at 1, and are not empty.
* Recall. `FactsKept` is inductive with the types; `InsertKeeps`, where a second row is charged to a failed look-up, `StoreKeeps` and `ForgetKeeps` are its cases,
  and `RefreshKeeps` says that a query changes dates only, in whichever rows it succeeds. `RecallAssumption` asks that a content has
  finitely many words (the code copies at most 1024 bytes of it). `BestFirst` needs more: the dates of the facts are in the past (`InTime`),
  and being ahead is a linear order of finitely many facts, so that the number of those ahead is a bijection of the facts onto the
  places of the rows (`AheadOrdered`, `PlacesOfFacts`). From that, for any limit and any lost strings, `CandidatesAre` the newest, `RankedRight` sorts them, `BestRight`
  cuts them off at the limit and `ShownRight` at the score and the budget of the prompt.
* Skills. `SkillInv` is the types, `Filed`, `AsSet` and `PromptWhole`. `Filed` is `NoneIsMissed` for the offerings so far: the skills of the table
  are some of the offerings in their order, and each of the others is no skill, or the table is full, or what is left of the arena is
  less than it needs. `TurnedDown` and `TakenLast` are the two things one more offering may do. `AsSet` says which flag the first skill of
  each name has; a flag can be FALSE only for a name that is in the table, because it was found there when it was set.
* JSON. `JsonIsRead` speaks of the end only, and its reference is a grammar: texts are built from the inside out, while
  the parser reads from the outside in and may be in the middle of a container at each level of its stack. The invariant, `ParserInv`, sets a
  book beside the stack: the texts that each container holds so far (`held`), where it begins in the tokens
  (`at`) and what of the arena was spent before it (`spent`). Of the container on top, `OnTop` says for every value of `wants`
  that its text so far stands where it should and ends with the tokens, and that the arena was charged for as
  many elements as it has; of those below, `Chain` says that the next element of each begins where the one above
  it does. `Follows` makes the end exact: every text at all that agrees with the tokens read is a container that continues this one,
  with the same elements and keys. When a container ends (`ContainerEnds`) only one such text is left, the one it holds; it becomes an
  element of the container below (`ElementEnds`), or the whole, of which `WasRead` says the same. That nothing is rejected
  early is `TextGoesAhead`: go down the levels of any text that agrees (`Descend`), and its next token is one the parser takes
  at this point, with nesting left and within the room the text needs. `BlocksGrow`, on blocks that
  double, ties that room to what `parse_array` and `parse_object` allocate. That
  the lookup finds the first value of a key is true of every text, read or not (`TextsNamed`). `JsonAssumption` asks that strings, scalars
  and marks are told apart, and that the first block (16 elements in the code) and the bound on elements are not 0.

The lemmas that need what a recursive function computes argue by the least number that fails, as in `SeaTelegramProofs`. `Order`,
`Redaction`, `Found` and `SavedUntil` are therefore functions over 0..n, as the loops of the code are, and not library folds.

Only model-checked:

* Liveness: leads-to under fairness and ENABLED are out of the prover's reach.

Every safety property of the passing runs is proved.

## Findings and observations

Each violation run shows a disagreement between the code and what the repository says of it.

1. `bus_race`: inbound and outbound publishers hold different mutexes and allocate from one arena
   without a lock. Two of them may load the same offset, and the text of one message is
   written over that of the other. sea_bus.h:80 and :87 promise otherwise.
2. `gateway_shutdown`: the bus is destroyed, and its arena unmapped, before the threads that
   use it are joined, and the channel is freed while its detached poll thread may run.
3. `agent_question`: after a tool call the request no longer holds the user's question.
4. `start_environment`: a key of config.json is kept whatever the environment says (main.c:1324), for the primary
   provider and the fallbacks. docs/FAQ.md:186, docs/FAQ.md:172 and README.md:234 say that the environment overrides it.

Observed while modelling, and built into the models as the code has it, but not the subject of a run:

* /compact allows 0 rounds, and the loop then sends no request (brain/sea_agent.c:745): it always fails.
* A status other than 200 from the last provider leaves the error at SEA_OK, and the page
  is sent and logged as an answer (brain/sea_agent.c:591).
* The prompt lists tools by ids 0 to count-1 although ids begin with 1 (brain/sea_agent.c:208): the
  last one is left out.
* Sessions and their messages are not read back, messages are not stored until the session has a row,
  and a save after a restart overwrites summaries (session/sea_session.c:459).
* Nothing resets the bus arena in gateway mode, and a message whose content found no room crashes its
  reader.
* The dispatcher's send and the poll thread use one poll arena without a lock (telegram/sea_telegram.c:104):
  nothing keeps their windows from crossing in gateway mode, and once they have `PollArenaHolds` promises nothing.
* `cron_manage` splits its input at the first space, so "@every 5m" loses its interval; a five-field
  schedule falls back to 60 seconds, while docs/CAPABILITIES.md:362 promises it.
* "Jobs survive restarts" (sea_cron.h:6): ids are positions, so that after a removal two jobs can have one id and the save
  keeps only the last of them, and `sea_cron_load` (cron/sea_cron.c:418) reads nothing.
* --doctor reads the database path of the configuration even with --db, calls a key missing that the environment has,
  ignores options that come after it, and tests no provider, which docs/FAQ.md:695 says it does. Early
  returns of main leave the configuration's arena. A fallback takes an empty variable as its key.
* Counters of usage are saved under the day on which the process ends: days before are missing, and an earlier
  process of that day is overwritten (usage/sea_usage.c:146). Nothing records usage.
* A line of a skill that begins with "namespace" sets the name. A skill that is disabled is still found by a
  trigger that another one has.
* JSON numbers are cut at 63 characters, and "01" and "1." are numbers (senses/sea_json.c).
* The lengths snprintf returns are used without a look at the buffer in main.c:531 and :537 (2048), sea_zero.c:336 (512), mesh dispatch (2048),
  and mesh status (4096). What is copied from behind the first two is in the models.
* "All results Shield-validated before returning" (a2a/sea_a2a.c:5): a peer's error.message is not (:189), and /delegate prints it
  (main.c:527). seazero/bridge/sea_zero.c:11 says as much of all that Agent Zero puts out; its error text reaches the model
  neither shielded nor redacted (sea_zero.c:167, :335).
* When the buffer of a request cannot grow, parts of it are left out and it is sent all the same (brain/sea_agent.c:173).
* The audit row of a tool needs a database and its result is ignored (brain/sea_agent.c:668), as are those of the two rows of a turn.
* A task whose answer is lost is executed, reported as failed, and not audited (mesh/sea_mesh.c:219). Of a node
  only the first 32 capabilities are kept.
* An error of a peer that finds no room reads as no error (a2a/sea_a2a.c:185).
* The budget of the proxy, called daily, never starts anew, and what Agent Zero charges is not counted when
  the usage cannot be read. The functions that would log and sum tokens (`sea_db_sz_llm_log` and others) are
  called but not defined in the repository. Nothing keeps SIGPIPE from ending the process.
* Redacted text may be longer than the limit for output; of a text with more than 32 matches those behind are visible; and a redaction that finds no room delivers the text.
* Storing a content again drops its new category and importance (recall/sea_recall.c:195); a NULL category reaches
  strcmp when the arena is full (:281, :307); a look-up that fails is taken for a content that is not there, and adds a second row (:197); the comment says three facts without score, the code passes four.
* The memory tool cuts what it writes at 4095 bytes and says that it was written (hands/impl/tool_memory_manage.c:34); no result of writing is looked at
  (memory/sea_memory.c:50).
* A custom URL of config.json that finds no room sends its key to the provider's usual address, and the key of a provider whose name is not known goes to
  the first one (core/sea_config.c:113, main.c:135).
* SOUL.md and USER.md disappear from the prompt after about 128 KB of readings without one of MEMORY.md
  (memory/sea_memory.c:106). A process that ends in an overwriting leaves an empty file, which no restart fills.
* A response of getUpdates that does not fit is asked for again for ever.

## What is not modelled

* *Texts.* Wording, lengths and truncation but where a module names them; parsing of model answers, of schedules and
  of HTTP headers; the scanners of personal data; the shield, whose verdict is a choice where it is asked.
* *SQL that fails in the scheduler.* Its statements are text with names in it and their results are ignored. With every statement
  free to fail `SeaCron` is beyond what a run can explore beside what it explores now, so
  its statements succeed; the modules of sessions, usage and the agent's log have statements that fail.
* *Pure input and output.* Log, terminal interface, onboarding wizard, libcurl, SeaZero's workspace (files made and listed;
  nothing calls it), most tools, installers.
* *Of modelled parts.* An agent without a key, which answers at once with an error (brain/sea_agent.c:443), and the text of the prompt of /compact; think levels and changes of the provider; several channels of a gateway; the mesh's broadcast and status
  (a loop of dispatches; a text); most slash commands; the arenas of sessions; tables of trajectories and tasks.

----------------------------- MODULE SeaSession -----------------------------
(***************************************************************************)
(* The sessions of src/session/sea_session.c: a table of conversations     *)
(* that evicts the one idle longest, each with a window of recent messages *)
(* and a summary of what was cut off, and their rows in the database.      *)
(*                                                                         *)
(* An operation changes memory first and then issues SQL statements one by *)
(* one; the process may be lost before each of them.  A summary is known   *)
(* here by the messages whose text its prompt held.                        *)
(***************************************************************************)
EXTENDS Integers, Sequences, FiniteSets, SequencesExt

CONSTANTS
  Keys,         \* session keys, "channel:chat_id"
  MaxSessions,  \* SEA_MAX_SESSIONS
  HistoryRoom,  \* SEA_SESSION_MAX_HISTORY
  MaxHistory,   \* max_history: the length that asks for a summary
  KeepRecent,   \* keep_recent: what a summary leaves
  PromptRoom,   \* messages that fit into a prompt when they are long
  MaxMessages,  \* bound: messages ever added
  MaxNow,       \* bound: the clock
  MaxLives      \* bound: how often the manager is started

ASSUME SessionAssumption ==
  /\ MaxSessions \in Nat \ {0} /\ KeepRecent \in Nat \ {0} /\ PromptRoom \in Nat \ {0}
  /\ MaxHistory \in Nat /\ HistoryRoom \in Nat
  /\ KeepRecent < MaxHistory /\ MaxHistory <= HistoryRoom
  /\ MaxMessages \in Nat /\ MaxNow \in Nat /\ MaxLives \in Nat \ {0}

VARIABLES
  now,       \* the clock, in milliseconds
  up,        \* the manager exists
  sessions,  \* SeaSessionManager.sessions, as long as its count
  todo,      \* what is left of the operation: statements, or a summary
  rows,      \* sessions in the database: the summary of each row, or NoRow
  stored,    \* session_messages: the messages of each key
  lives,     \* how often the manager was started
  owner,     \* history: owner[m] is the key message m was added to
  begun,     \* history: the messages of a session in memory, oldest first
  excused    \* history: messages cut off that no prompt held, or in vain

dbVars == <<rows, stored>>
historyVars == <<owner, begun, excused>>
vars == <<now, up, sessions, todo, dbVars, lives, historyVars>>

NoRow == {-1}
Init ==
  /\ now = 0 /\ up = TRUE /\ sessions = <<>> /\ todo = <<>>
  /\ rows = [k \in Keys |-> NoRow] /\ stored = [k \in Keys |-> {}]
  /\ lives = 1
  /\ owner = <<>> /\ begun = [k \in Keys |-> <<>>] /\ excused = {}

Index(table, key) == {i \in DOMAIN table : table[i].key = key}
Known(key) == Index(sessions, key) # {}
At(table, key) == CHOOSE i \in Index(table, key) : TRUE
Session(key) == sessions[At(sessions, key)]
Idle == up /\ todo = <<>>

-----------------------------------------------------------------------------
(* find_session, or the first free slot after the eviction of the session  *)
(* idle longest, the first of them in the table.                           *)
Oldest(table) ==
  CHOOSE i \in DOMAIN table :
    \A k \in DOMAIN table :
      table[i].active < table[k].active \/ (table[i].active = table[k].active /\ i <= k)

Evicted(table) == IF Len(table) < MaxSessions THEN table ELSE RemoveAt(table, Oldest(table))

(* Mutant: the slot is not cleared before it is used again. *)
FreshFromEvicted(key) ==
  IF Len(sessions) < MaxSessions
  THEN [key |-> key, history |-> <<>>, summary |-> {}, active |-> now]
  ELSE [sessions[Oldest(sessions)] EXCEPT !.key = key, !.active = now]

Fresh(key) == [key |-> key, history |-> <<>>, summary |-> {}, active |-> now]

Created(key) == Append(Evicted(sessions), Fresh(key))

Touched(key) ==
  IF Known(key)
  THEN [sessions EXCEPT ![At(sessions, key)].active = now]
  ELSE Created(key)

(* Of a session that is not in memory any more nothing is owed. *)
BegunAfter(table) == [k \in Keys |-> IF Index(table, k) = {} THEN <<>> ELSE begun[k]]

Get(key) ==
  /\ Idle
  /\ sessions' = Touched(key)
  /\ begun' = BegunAfter(sessions')
  /\ UNCHANGED <<now, up, todo, dbVars, lives, owner, excused>>

(* Mutant: the newest message is dropped instead of the oldest. *)
WithMessageOverNewest(history, m) ==
  IF Len(history) < HistoryRoom THEN Append(history, m)
  ELSE Append(SubSeq(history, 1, Len(history) - 2), m)

WithMessage(history, m) ==
  IF Len(history) < HistoryRoom THEN Append(history, m) ELSE Append(Tail(history), m)

(* sea_session_add_message: memory, then the row, then perhaps a summary.  *)
AddMessage(key) ==
  /\ Idle /\ Len(owner) < MaxMessages
  /\ LET m == Len(owner) + 1
         t == Touched(key)
         i == At(t, key) IN
     /\ owner' = Append(owner, key)
     /\ sessions' = [t EXCEPT ![i].history = WithMessage(@, m)]
     /\ begun' = [BegunAfter(t) EXCEPT ![key] = Append(@, m)]
     /\ excused' = IF Len(t[i].history) < HistoryRoom THEN excused
                   ELSE excused \union {Head(t[i].history)}
     /\ todo' = <<[do |-> "insert", key |-> key, of |-> {m}]>> \o
                (IF Len(sessions'[i].history) >= MaxHistory
                 THEN <<[do |-> "summarize", key |-> key, of |-> {}]>> ELSE <<>>)
  /\ UNCHANGED <<now, up, dbVars, lives>>

(* sea_session_summarize, called by itself. *)
AskSummary(key) ==
  /\ Idle /\ Known(key)
  /\ todo' = <<[do |-> "summarize", key |-> key, of |-> {}]>>
  /\ UNCHANGED <<now, up, sessions, dbVars, lives, historyVars>>

(* Mutant: the session goes before its messages. *)
ClearSessionFirst(key) ==
  /\ Idle /\ Known(key)
  /\ sessions' = [sessions EXCEPT ![At(sessions, key)] = [@ EXCEPT !.history = <<>>, !.summary = {}]]
  /\ begun' = [begun EXCEPT ![key] = <<>>]
  /\ todo' = <<[do |-> "deleteSession", key |-> key, of |-> {}],
               [do |-> "deleteMessages", key |-> key, of |-> {}]>>
  /\ UNCHANGED <<now, up, dbVars, lives, owner, excused>>

Clear(key) ==
  /\ Idle /\ Known(key)
  /\ sessions' = [sessions EXCEPT ![At(sessions, key)] = [@ EXCEPT !.history = <<>>, !.summary = {}]]
  /\ begun' = [begun EXCEPT ![key] = <<>>]
  /\ todo' = <<[do |-> "deleteMessages", key |-> key, of |-> {}],
               [do |-> "deleteSession", key |-> key, of |-> {}]>>
  /\ UNCHANGED <<now, up, dbVars, lives, owner, excused>>

(* sea_session_save_all *)
SaveAll ==
  /\ Idle /\ sessions # <<>>
  /\ todo' = [i \in DOMAIN sessions |->
               [do |-> "replace", key |-> sessions[i].key, of |-> sessions[i].summary]]
  /\ UNCHANGED <<now, up, sessions, dbVars, lives, historyVars>>

-----------------------------------------------------------------------------
Doing(what) == up /\ todo # <<>> /\ Head(todo).do = what

(* The insert fails as long as the session has no row: foreign_keys is ON. *)
Insert ==
  LET k == Head(todo).key IN
  /\ Doing("insert")
  /\ todo' = Tail(todo)
  /\ stored' = IF rows[k] = NoRow THEN stored ELSE [stored EXCEPT ![k] = @ \union Head(todo).of]
  /\ UNCHANGED <<now, up, sessions, rows, lives, historyVars>>

Replace ==
  /\ Doing("replace")
  /\ todo' = Tail(todo)
  /\ rows' = [rows EXCEPT ![Head(todo).key] = Head(todo).of]
  /\ UNCHANGED <<now, up, sessions, stored, lives, historyVars>>

DeleteMessages ==
  /\ Doing("deleteMessages")
  /\ todo' = Tail(todo)
  /\ stored' = [stored EXCEPT ![Head(todo).key] = {}]
  /\ UNCHANGED <<now, up, sessions, rows, lives, historyVars>>

(* A session with messages cannot be deleted. *)
DeleteSession ==
  LET k == Head(todo).key IN
  /\ Doing("deleteSession")
  /\ todo' = Tail(todo)
  /\ rows' = IF stored[k] = {} THEN [rows EXCEPT ![k] = NoRow] ELSE rows
  /\ UNCHANGED <<now, up, sessions, stored, lives, historyVars>>

(* The request fails, or there is nothing to summarize. *)
SummaryFails ==
  /\ Doing("summarize")
  /\ todo' = Tail(todo)
  /\ UNCHANGED <<now, up, sessions, dbVars, lives, historyVars>>

(* Mutant: one message too many is cut off. *)
RecentLessOne(history) == SubSeq(history, Len(history) - KeepRecent + 2, Len(history))

Recent(history) == SubSeq(history, Len(history) - KeepRecent + 1, Len(history))

(***************************************************************************)
(* The model, or the page of a provider that failed, takes the place of    *)
(* the summary.  The prompt holds the old summary and as many messages as  *)
(* there is room for, and the row is replaced.                             *)
(***************************************************************************)
Summarize(fits, answered) ==
  LET k == Head(todo).key
      h == Session(k).history
      cut == Len(h) - KeepRecent
      held == Session(k).summary \union Range(SubSeq(h, 1, IF fits < cut THEN fits ELSE cut))
      new == IF answered THEN held ELSE {} IN
  /\ Doing("summarize") /\ Known(k) /\ cut > 0
  /\ sessions' = [sessions EXCEPT ![At(sessions, k)] =
                    [@ EXCEPT !.summary = new, !.history = Recent(h)]]
  /\ excused' = excused \union (Range(SubSeq(h, 1, cut)) \ held) \union (held \ new)
  /\ todo' = <<[do |-> "replace", key |-> k, of |-> new]>>
  /\ UNCHANGED <<now, up, dbVars, lives, owner, begun>>

-----------------------------------------------------------------------------
(* sea_session_destroy after the save, or the loss of the process. *)
Down ==
  /\ up
  /\ up' = FALSE /\ sessions' = <<>> /\ todo' = <<>>
  /\ begun' = [k \in Keys |-> <<>>]
  /\ UNCHANGED <<now, dbVars, lives, owner, excused>>

(* sea_session_load_all loads nothing. *)
Start ==
  /\ ~up /\ lives < MaxLives
  /\ up' = TRUE /\ lives' = lives + 1
  /\ UNCHANGED <<now, sessions, todo, dbVars, historyVars>>

Clock == now < MaxNow /\ now' = now + 1
         /\ UNCHANGED <<up, sessions, todo, dbVars, lives, historyVars>>

Next ==
  \/ \E key \in Keys : Get(key) \/ AddMessage(key) \/ AskSummary(key) \/ Clear(key)
  \/ SaveAll \/ Insert \/ Replace \/ DeleteMessages \/ DeleteSession
  \/ SummaryFails
  \/ \E fits \in {PromptRoom, HistoryRoom}, answered \in BOOLEAN : Summarize(fits, answered)
  \/ Down \/ Start \/ Clock

Spec == Init /\ [][Next]_vars

-----------------------------------------------------------------------------
Ids == 1 .. MaxMessages

TypeOK ==
  /\ now \in 0 .. MaxNow /\ up \in BOOLEAN /\ lives \in 1 .. MaxLives
  /\ Len(sessions) <= MaxSessions
  /\ \A i \in DOMAIN sessions :
       /\ sessions[i].key \in Keys /\ Index(sessions, sessions[i].key) = {i}
       /\ sessions[i].history \in Seq(Ids) /\ Len(sessions[i].history) <= HistoryRoom
       /\ sessions[i].summary \subseteq Ids /\ sessions[i].active \in 0 .. now
  /\ rows \in [Keys -> (SUBSET Ids) \union {NoRow}] /\ stored \in [Keys -> SUBSET Ids]
  /\ owner \in Seq(Keys) /\ excused \subseteq Ids

(* "Keeps last 50 messages in RAM" (CAPABILITIES.md): the window of a      *)
(* session is always the latest of its messages, without a gap, in order,  *)
(* however often it was cut at its front by a summary or by its limit, and *)
(* it never shrinks below keep_recent but by a clear.                      *)
HistoryIsLatest ==
  \A i \in DOMAIN sessions :
    LET h == sessions[i].history
        all == begun[sessions[i].key] IN
    /\ IsSuffix(h, all)
    /\ Len(h) < KeepRecent => h = all

(* "Old messages are pruned and the summary is injected" (CAPABILITIES.md):*)
(* a message of a session is in its window or was in the prompt of its     *)
(* summary, except for those a prompt had no room for, those a failed      *)
(* provider's page took the place of, and those over the limit.            *)
NothingForgotten ==
  \A i \in DOMAIN sessions :
    Range(begun[sessions[i].key]) \subseteq
      Range(sessions[i].history) \union sessions[i].summary \union excused

(* "Per-channel, per-chat session isolation" (sea_session.h): no message   *)
(* reaches the window, the summary or the rows of another key, though      *)
(* slots are shifted and used again.                                       *)
Isolated ==
  /\ \A i \in DOMAIN sessions :
       \A m \in Range(sessions[i].history) \union sessions[i].summary :
         owner[m] = sessions[i].key
  /\ \A k \in Keys : \A m \in stored[k] \union (rows[k] \ NoRow) : owner[m] = k

(* sea_session_clear leaves nothing: when it is done, the next operation   *)
(* finds neither rows nor messages, in memory or in the database.          *)
ClearedIsGone ==
  [][\A k \in Keys :
       up /\ todo' = <<>> /\ up' /\ todo # <<>> /\ Head(todo).key = k
         /\ Head(todo).do \in {"deleteSession", "deleteMessages"}
       => /\ rows'[k] = NoRow /\ stored'[k] = {}
          /\ Session(k).history = <<>> /\ Session(k).summary = {}]_vars
=============================================================================

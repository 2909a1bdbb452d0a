------------------------------ MODULE SeaCron ------------------------------
(***************************************************************************)
(* The job scheduler of src/cron/sea_cron.c: an array of jobs that is      *)
(* shifted when one is removed, a tick that walks it and executes what is  *)
(* due, and the table cron_jobs in the database.                           *)
(*                                                                         *)
(* A job may call a tool, and the tool cron_manage changes the array while *)
(* the tick still points into it.  The scheduler may be destroyed, or      *)
(* lost, at any step and started again on the same database.               *)
(***************************************************************************)
EXTENDS Integers, FiniteSets, Functions

CONSTANTS
  Capacity,   \* SEA_MAX_CRON_JOBS
  Intervals,  \* intervals of the schedules, in seconds
  MaxJobs,    \* bound: jobs ever added
  MaxNow,     \* bound: seconds the clock runs
  MaxLives,   \* bound: how often the scheduler is started
  MaxResumes  \* bound: resumes of all jobs

ASSUME CronAssumption ==
  /\ Capacity \in Nat \ {0} /\ Intervals \subseteq Nat \ {0}
  /\ MaxJobs \in Nat /\ MaxNow \in Nat /\ MaxLives \in Nat \ {0} /\ MaxResumes \in Nat

VARIABLES
  now,       \* the clock
  process,   \* "up", "stopped" after sea_cron_destroy, or "lost"
  slots,     \* SeaCronScheduler.jobs, with what is left behind the count
  count,     \* SeaCronScheduler.count
  tick,      \* the tick: where it is, the time it took at its start,
             \*   whether it is executing the job it points to, and which
             \*   job that was
  rows,      \* cron_jobs: the job in each row, 0 for no row
  sequence,  \* the highest row id ever given (AUTOINCREMENT)
  lives,     \* how often the scheduler was started
  made,      \* history: jobs added so far
  ran,       \* history: ran[k]: executions of job k
  lastRan,   \* history: when the last one of them began
  resumed,   \* history: resumed[k]: how often job k was resumed
  shifted,   \* history: a job was removed while another was executed
  drifted    \* history: a job got another id than its row

jobVars == <<slots, count>>
dbVars == <<rows, sequence>>
historyVars == <<made, ran, lastRan, resumed, shifted, drifted>>
vars == <<now, process, jobVars, tick, dbVars, lives, historyVars>>

Keys == 1 .. MaxJobs
RowIds == 1 .. MaxJobs + Capacity
Empty == [key |-> 0, id |-> 0, once |-> FALSE, tool |-> FALSE, interval |-> 1,
          state |-> "COMPLETED", next |-> 0, runs |-> 0]
NoTick == [at |-> 0, start |-> 0, executing |-> FALSE, key |-> 0]

Used == 1 .. count
Due(j, time) == j.state = "ACTIVE" /\ j.next <= time

Init ==
  /\ now = 0 /\ process = "up"
  /\ slots = [i \in 1 .. Capacity |-> Empty] /\ count = 0
  /\ tick = NoTick
  /\ rows = [r \in RowIds |-> 0] /\ sequence = 0
  /\ lives = 1 /\ made = 0
  /\ ran = [k \in Keys |-> 0] /\ lastRan = [k \in Keys |-> 0]
  /\ resumed = [k \in Keys |-> 0]
  /\ shifted = FALSE /\ drifted = FALSE

(* Management calls are made between the ticks, or by the tool a job calls. *)
Manageable == process = "up" /\ (tick = NoTick \/ (tick.executing /\ slots[tick.at].tool))

-----------------------------------------------------------------------------
(***************************************************************************)
(* sea_cron_add: the id is the new length of the array, while the row gets *)
(* the next id of the table.                                               *)
(***************************************************************************)
Add(once, tool, interval) ==
  /\ Manageable
  /\ made < MaxJobs /\ count < Capacity
  /\ count' = count + 1
  /\ made' = made + 1
  /\ slots' = [slots EXCEPT ![count'] =
       [key |-> made', id |-> count', once |-> once, tool |-> tool, interval |-> interval,
        state |-> "ACTIVE", next |-> now + interval, runs |-> 0]]
  /\ sequence' = sequence + 1
  /\ rows' = [rows EXCEPT ![sequence'] = made']
  /\ drifted' = (drifted \/ sequence' # count')
  /\ UNCHANGED <<now, process, tick, lives, ran, lastRan, resumed, shifted>>

(* sea_cron_get: the first job with this id, which need not be the only one. *)
FirstWith(id, i) ==
  /\ i \in Used /\ slots[i].id = id
  /\ \A k \in 1 .. i - 1 : slots[k].id # id

(* Mutant: the row is left in the table. *)
RemoveFromArray(id) ==
  /\ Manageable
  /\ \E i \in Used :
       /\ FirstWith(id, i)
       /\ slots' = [k \in DOMAIN slots |-> IF k \in i .. count - 1 THEN slots[k + 1] ELSE slots[k]]
  /\ count' = count - 1
  /\ shifted' = (shifted \/ tick.executing)
  /\ UNCHANGED <<now, process, tick, rows, sequence, lives, made, ran, lastRan, resumed, drifted>>

(* The later jobs move down; the last slot keeps its old content. *)
Remove(id) ==
  /\ Manageable
  /\ \E i \in Used :
       /\ FirstWith(id, i)
       /\ slots' = [k \in DOMAIN slots |-> IF k \in i .. count - 1 THEN slots[k + 1] ELSE slots[k]]
  /\ count' = count - 1
  /\ rows' = [rows EXCEPT ![id] = 0]
  /\ shifted' = (shifted \/ tick.executing)
  /\ UNCHANGED <<now, process, tick, sequence, lives, made, ran, lastRan, resumed, drifted>>

(* sea_cron_pause and sea_cron_resume do not ask what state the job is in. *)
Pause(id) ==
  /\ Manageable
  /\ \E i \in Used : FirstWith(id, i) /\ slots' = [slots EXCEPT ![i].state = "PAUSED"]
  /\ UNCHANGED <<now, process, count, tick, dbVars, lives, historyVars>>

MayResume == FoldFunction(+, 0, resumed) < MaxResumes

(* Mutant: the time of the next run is left as it was. *)
ResumeAtOnce(id) ==
  /\ Manageable
  /\ \E i \in Used :
       /\ FirstWith(id, i)
       /\ MayResume
       /\ slots' = [slots EXCEPT ![i].state = "ACTIVE"]
       /\ resumed' = [resumed EXCEPT ![slots[i].key] = @ + 1]
  /\ UNCHANGED <<now, process, count, tick, dbVars, lives, made, ran, lastRan, shifted, drifted>>

Resume(id) ==
  /\ Manageable
  /\ \E i \in Used :
       /\ FirstWith(id, i)
       /\ MayResume
       /\ slots' = [slots EXCEPT ![i].state = "ACTIVE", ![i].next = now + slots[i].interval]
       /\ resumed' = [resumed EXCEPT ![slots[i].key] = @ + 1]
  /\ UNCHANGED <<now, process, count, tick, dbVars, lives, made, ran, lastRan, shifted, drifted>>

-----------------------------------------------------------------------------
(* sea_cron_tick: the time is taken once, at the start. *)
TickBegin ==
  /\ process = "up" /\ tick = NoTick
  /\ tick' = [at |-> 1, start |-> now, executing |-> FALSE, key |-> 0]
  /\ UNCHANGED <<now, process, jobVars, dbVars, lives, historyVars>>

Walking == process = "up" /\ tick.at > 0 /\ ~tick.executing

(* Mutant: the index stays when the job is not due. *)
TickPassesInPlace ==
  /\ Walking /\ tick.at \in Used /\ ~Due(slots[tick.at], tick.start)
  /\ UNCHANGED vars

TickPasses ==
  /\ Walking /\ tick.at \in Used /\ ~Due(slots[tick.at], tick.start)
  /\ tick' = [tick EXCEPT !.at = @ + 1]
  /\ UNCHANGED <<now, process, jobVars, dbVars, lives, historyVars>>

TickEnds ==
  /\ Walking /\ tick.at \notin Used
  /\ tick' = NoTick
  /\ UNCHANGED <<now, process, jobVars, dbVars, lives, historyVars>>

(* execute_job: the shell command, the tool or the message to the bus. *)
ExecuteBegin ==
  LET k == slots[tick.at].key IN
  /\ Walking /\ tick.at \in Used /\ Due(slots[tick.at], tick.start)
  /\ tick' = [tick EXCEPT !.executing = TRUE, !.key = k]
  /\ ran' = [ran EXCEPT ![k] = @ + 1]
  /\ lastRan' = [lastRan EXCEPT ![k] = now]
  /\ UNCHANGED <<now, process, jobVars, dbVars, lives, made, resumed, shifted, drifted>>

(* Mutant: the next run is counted from the time the last one was due, and *)
(* the run is counted only for the jobs that run again.                    *)
ExecuteEndFromDue ==
  LET j == slots[tick.at] IN
  /\ process = "up" /\ tick.executing
  /\ slots' = [slots EXCEPT ![tick.at] =
       IF j.once THEN [j EXCEPT !.state = "COMPLETED"]
                 ELSE [j EXCEPT !.runs = j.runs + 1, !.next = j.next + j.interval]]
  /\ tick' = [tick EXCEPT !.at = @ + 1, !.executing = FALSE, !.key = 0]
  /\ UNCHANGED <<now, process, count, dbVars, lives, historyVars>>

(* What it writes goes to the slot it was given, whatever lies there now. *)
ExecuteEnd ==
  LET j == slots[tick.at] IN
  /\ process = "up" /\ tick.executing
  /\ slots' = [slots EXCEPT ![tick.at] =
       IF j.once THEN [j EXCEPT !.runs = j.runs + 1, !.state = "COMPLETED"]
                 ELSE [j EXCEPT !.runs = j.runs + 1, !.next = now + j.interval]]
  /\ tick' = [tick EXCEPT !.at = @ + 1, !.executing = FALSE, !.key = 0]
  /\ UNCHANGED <<now, process, count, dbVars, lives, historyVars>>

-----------------------------------------------------------------------------
(* sea_cron_destroy saves: INSERT OR REPLACE under the id of the array,    *)
(* which is never above the highest row id.                                *)
Stop ==
  /\ process = "up" /\ tick = NoTick
  /\ process' = "stopped"
  /\ rows' = [r \in RowIds |->
       IF \E i \in Used : slots[i].id = r
       THEN slots[CHOOSE i \in Used : slots[i].id = r /\ \A k \in i + 1 .. count : slots[k].id # r].key
       ELSE rows[r]]
  /\ UNCHANGED <<now, jobVars, tick, sequence, lives, historyVars>>

Crash ==
  /\ process = "up"
  /\ process' = "lost"
  /\ tick' = NoTick
  /\ slots' = [i \in 1 .. Capacity |-> Empty] /\ count' = 0
  /\ UNCHANGED <<now, dbVars, lives, historyVars>>

(* sea_cron_init clears the structure and sea_cron_load loads nothing. *)
Restart ==
  /\ process # "up" /\ lives < MaxLives
  /\ process' = "up" /\ lives' = lives + 1
  /\ slots' = [i \in 1 .. Capacity |-> Empty] /\ count' = 0
  /\ UNCHANGED <<now, tick, dbVars, historyVars>>

Clock == now < MaxNow /\ now' = now + 1
         /\ UNCHANGED <<process, jobVars, tick, dbVars, lives, historyVars>>

Manage ==
  \/ \E once, tool \in BOOLEAN, interval \in Intervals : Add(once, tool, interval)
  \/ \E id \in 1 .. Capacity : Remove(id) \/ Pause(id) \/ Resume(id)

TickStep == TickBegin \/ TickPasses \/ TickEnds \/ ExecuteBegin \/ ExecuteEnd

Next == Manage \/ TickStep \/ Stop \/ Crash \/ Restart \/ Clock

(* "Call this once per second from a dedicated thread" (sea_cron.h): ticks *)
(* keep coming and what they execute returns.                              *)
Spec == Init /\ [][Next]_vars
FairSpec == Spec /\ WF_vars(TickStep)

-----------------------------------------------------------------------------
Job == [key : 0 .. MaxJobs, id : 0 .. Capacity, once : BOOLEAN, tool : BOOLEAN,
        interval : Intervals \union {1}, state : {"ACTIVE", "PAUSED", "COMPLETED"},
        next : Nat, runs : Nat]

TypeOK ==
  /\ now \in 0 .. MaxNow /\ process \in {"up", "stopped", "lost"}
  /\ slots \in [1 .. Capacity -> Job] /\ count \in 0 .. Capacity
  /\ tick \in [at : 0 .. Capacity + 1, start : 0 .. now, executing : BOOLEAN, key : 0 .. MaxJobs]
  /\ rows \in [RowIds -> 0 .. MaxJobs] /\ sequence \in 0 .. MaxJobs + Capacity
  /\ lives \in 1 .. MaxLives /\ made \in 0 .. MaxJobs
  /\ ran \in [Keys -> Nat] /\ lastRan \in [Keys -> 0 .. MaxNow]
  /\ resumed \in [Keys -> Nat]
  /\ shifted \in BOOLEAN /\ drifted \in BOOLEAN

Running(i) == tick.executing /\ tick.at = i

(* "Total executions" (run_count, sea_cron.h): the count kept with a job   *)
(* is the number of times it was executed, unless a tool removed a job     *)
(* from the array under the tick that was executing it.                    *)
RunsCounted ==
  ~shifted => \A i \in Used :
    slots[i].runs + (IF Running(i) THEN 1 ELSE 0) = ran[slots[i].key]

(* A one-shot job fires once, and once more each time somebody resumes it. *)
OnceFiresOnce ==
  ~shifted => \A i \in Used : slots[i].once => ran[slots[i].key] <= 1 + resumed[slots[i].key]

(* What the program shows and decides by is what was executed. *)
RunsRight == RunsCounted /\ OnceFiresOnce

(* Between two executions of a job that was not removed lies its interval, *)
(* however long the first one took and however late the tick was.          *)
IntervalKept ==
  [][\A i \in Used : ~shifted /\ Running(i)' /\ ~Running(i) /\ ran[slots[i].key] > 0
       => now - lastRan[slots[i].key] >= slots[i].interval]_vars

(* The table follows the array: while ids and rows agree, every job has    *)
(* its row under its own id and no other row is left behind.               *)
RowsFollowJobs ==
  ~drifted /\ lives = 1 /\ process # "lost" =>
    /\ \A i \in Used : rows[slots[i].id] = slots[i].key
    /\ Cardinality({r \in RowIds : rows[r] # 0}) = count

(* No due job is passed over for ever, though a removal makes a tick skip  *)
(* the job behind it.                                                      *)
DueJobsRun == []<>(process # "up" \/ \A i \in Used : ~Due(slots[i], now))
=============================================================================

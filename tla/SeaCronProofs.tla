---------------------------- MODULE SeaCronProofs ----------------------------
(***************************************************************************)
(* Proofs about the scheduler, for any size of the array, any schedules,   *)
(* any number of jobs, restarts and resumes: the count kept with a job is  *)
(* right, a one-shot job fires once, an interval is kept, and the table    *)
(* follows the array for as long as ids and rows agree.                    *)
(***************************************************************************)
EXTENDS SeaCron, FiniteSetTheorems, FunctionTheorems, WellFoundedInduction, TLAPS

(* The jobs in use are jobs that were added, no two of them the same, and  *)
(* what was not added yet was not executed.                                *)
KeysInv ==
  /\ sequence = made
  /\ \A i \in Used : slots[i].key \in 1 .. made
  /\ \A i, j \in Used : slots[i].key = slots[j].key => i = j
  /\ \A k \in Keys : k > made => ran[k] = 0
  /\ \A k \in Keys : lastRan[k] <= now

(* A tick is only under way while the program runs, and it points to the   *)
(* job it is executing unless a job was removed under it.                  *)
TickInv ==
  /\ process # "up" => tick = NoTick
  /\ tick.executing => tick.at \in 1 .. Capacity
  /\ tick.executing /\ ~shifted => tick.at \in Used

(* What is known of a job: its count, how often a one-shot job may have    *)
(* been executed, and when it may be executed again.                       *)
JobInv(j, running, times, resumes, began) ==
  /\ j.runs + (IF running THEN 1 ELSE 0) = times
  /\ j.once => times <= 1 + resumes
  /\ j.once /\ j.state = "ACTIVE" /\ ~running => times <= resumes
  /\ j.state = "ACTIVE" /\ ~running /\ times > 0 => j.next >= began + j.interval

JobsInv ==
  ~shifted => \A i \in Used :
    LET k == slots[i].key IN JobInv(slots[i], Running(i), ran[k], resumed[k], lastRan[k])

(* While ids and rows agree each job has the row of its id, and no row is  *)
(* without a job.                                                          *)
InStep == ~drifted /\ lives = 1 /\ process # "lost"
RowsInv ==
  InStep =>
    /\ \A i \in Used : slots[i].id \in 1 .. sequence /\ rows[slots[i].id] = slots[i].key
    /\ \A i, j \in Used : slots[i].id = slots[j].id => i = j
    /\ \A r \in RowIds : rows[r] # 0 => \E i \in Used : slots[i].id = r

IInv == TypeOK /\ KeysInv /\ TickInv /\ JobsInv /\ RowsInv

-----------------------------------------------------------------------------
(* The sizes the constants are assumed to have. *)
LEMMA Sizes ==
  /\ Capacity \in Nat /\ Capacity >= 1 /\ MaxJobs \in Nat /\ MaxNow \in Nat
  /\ MaxLives \in Nat /\ MaxLives >= 1
  /\ \A x \in Intervals : x \in Nat /\ x > 0
BY CronAssumption

(* The types, one by one. *)
LEMMA Types ==
  ASSUME TypeOK
  PROVE  /\ now \in Nat /\ now \in 0 .. MaxNow /\ count \in Nat /\ count \in 0 .. Capacity
         /\ slots \in [1 .. Capacity -> Job] /\ DOMAIN slots = 1 .. Capacity
         /\ tick.at \in Nat /\ tick.start \in Nat /\ tick.start <= now /\ tick.executing \in BOOLEAN
         /\ made \in Nat /\ made <= MaxJobs /\ lives \in Nat /\ lives >= 1
         /\ \A k \in Keys : ran[k] \in Nat /\ resumed[k] \in Nat /\ lastRan[k] \in Nat
         /\ \A i \in 1 .. Capacity : slots[i] \in Job
<1>1. /\ now \in Nat /\ count \in Nat /\ tick.at \in Nat /\ tick.start \in Nat /\ tick.start <= now
      /\ made \in Nat /\ made <= MaxJobs /\ lives \in Nat /\ lives >= 1
  BY Sizes DEF TypeOK
<1>2. \A k \in Keys : ran[k] \in Nat /\ resumed[k] \in Nat /\ lastRan[k] \in Nat
  BY Sizes DEF TypeOK
<1>3. slots \in [1 .. Capacity -> Job] /\ tick.executing \in BOOLEAN
      /\ now \in 0 .. MaxNow /\ count \in 0 .. Capacity
  BY DEF TypeOK
<1>4. QED BY <1>1, <1>2, <1>3

(* The job in a slot that is used, and what is known of it. *)
LEMMA UsedJob ==
  ASSUME IInv, NEW i \in Used
  PROVE  /\ i \in 1 .. Capacity /\ i \in Nat /\ slots[i] \in Job
         /\ slots[i].key \in 1 .. made /\ slots[i].key \in Keys
         /\ slots[i].next \in Nat /\ slots[i].runs \in Nat /\ slots[i].interval \in Nat
<1>1. i \in 1 .. Capacity /\ i \in Nat /\ slots[i] \in Job
  <2>1. count \in 0 .. Capacity /\ count \in Nat
    BY Types DEF IInv
  <2>2. i \in 1 .. Capacity /\ i \in Nat
    BY <2>1, Sizes DEF Used
  <2>3. \A k \in 1 .. Capacity : slots[k] \in Job
    BY Types DEF IInv
  <2>4. QED BY <2>2, <2>3
<1>2. slots[i].key \in 1 .. made
  BY DEF IInv, KeysInv
<1>3. slots[i].key \in Keys
  BY <1>2, Types, Sizes DEF IInv, Keys
<1>4. slots[i].next \in Nat /\ slots[i].runs \in Nat /\ slots[i].interval \in Nat
  BY <1>1, Sizes DEF Job
<1>5. QED BY <1>1, <1>2, <1>3, <1>4

(* Management between the ticks leaves no job running. *)
LEMMA Managed ==
  ASSUME IInv, Manageable
  PROVE  process = "up" /\ (~tick.executing => tick = NoTick)
BY DEF Manageable

(* A bounded set of numbers has a last one. *)
LEMMA LastOf ==
  ASSUME NEW S, S \subseteq Nat, S # {}, NEW n \in Nat, \A i \in S : i <= n
  PROVE  \E m \in S : \A i \in S : i <= m
<1> DEFINE D == {n - i : i \in S}
<1>1. D \subseteq Nat /\ D # {}
  <2>1. ASSUME NEW i \in S
        PROVE  n - i \in Nat
    <3>1. i \in Nat /\ i <= n
      OBVIOUS
    <3>2. QED BY <3>1
  <2>2. D \subseteq Nat
    BY <2>1
  <2>3. PICK i \in S : TRUE
    OBVIOUS
  <2>4. n - i \in D
    BY <2>3
  <2>5. QED BY <2>2, <2>4
<1>2. PICK d \in D : \A e \in D : ~(e < d)
  <2>1. \E d \in D : \A e \in D : ~(<<e, d>> \in OpToRel(<, Nat))
    <3> HIDE DEF D
    <3>1. QED BY <1>1, NatLessThanWellFounded, WFMin
  <2>2. QED BY <1>1, <2>1 DEF OpToRel
<1>3. PICK m \in S : d = n - m
  OBVIOUS
<1>4. ASSUME NEW i \in S
      PROVE  i <= m
  <2>1. n - i \in D /\ ~(n - i < n - m)
    BY <1>2, <1>3
  <2>2. i \in Nat /\ m \in Nat
    OBVIOUS
  <2>3. QED BY <2>1, <2>2
<1>5. QED BY <1>4

(* Ids that agree with the rows are ids of rows. *)
LEMMA IdsAreRows ==
  ASSUME IInv, NEW r \in 1 .. sequence
  PROVE  r \in RowIds
BY Types, Sizes DEF IInv, KeysInv, RowIds

-----------------------------------------------------------------------------
(* Steps that leave the jobs and their history as they are.                *)
LEMMA QuietJobs ==
  ASSUME IInv, UNCHANGED <<slots, count, sequence, made, ran, lastRan, resumed, shifted>>,
         now' \in Nat, now <= now',
         \A i \in Used : Running(i)' <=> Running(i)
  PROVE  KeysInv' /\ JobsInv'
<1>1. Used' = Used
  BY DEF Used
<1>2. KeysInv'
  <2>1. \A k \in Keys : lastRan'[k] <= now'
    <3>1. \A k \in Keys : lastRan[k] <= now /\ lastRan[k] \in Nat
      BY Types DEF IInv, KeysInv
    <3>2. QED BY <3>1, Types DEF IInv
  <2>2. QED BY <1>1, <2>1 DEF IInv, KeysInv
<1>3. JobsInv'
  <2>1. SUFFICES ASSUME ~shifted, NEW i \in Used
                 PROVE  JobInv(slots[i], Running(i)', ran[slots[i].key], resumed[slots[i].key],
                               lastRan[slots[i].key])
    BY <1>1 DEF JobsInv
  <2>2. JobInv(slots[i], Running(i), ran[slots[i].key], resumed[slots[i].key], lastRan[slots[i].key])
    BY <2>1 DEF IInv, JobsInv
  <2>3. Running(i)' = Running(i)
    <3>1. Running(i) \in BOOLEAN /\ Running(i)' \in BOOLEAN
      BY DEF Running
    <3>2. QED BY <3>1
  <2>4. QED BY <2>2, <2>3
<1>4. QED BY <1>2, <1>3

LEMMA TickMoves ==
  ASSUME IInv, process = "up", ~tick.executing, ~tick'.executing,
         tick' \in [at : 0 .. Capacity + 1, start : 0 .. now, executing : BOOLEAN, key : 0 .. MaxJobs],
         UNCHANGED <<now, process, slots, count, rows, sequence, lives, made, ran, lastRan, resumed,
                     shifted, drifted>>
  PROVE  IInv'
<1>1. KeysInv' /\ JobsInv'
  <2>1. now' \in Nat /\ now <= now'
    BY Types DEF IInv
  <2>2. \A i \in Used : Running(i)' <=> Running(i)
    BY DEF Running
  <2>3. QED BY <2>1, <2>2, QuietJobs
<1>2. TypeOK'
  BY DEF IInv, TypeOK
<1>3. TickInv'
  BY DEF TickInv
<1>4. RowsInv'
  BY DEF IInv, RowsInv, InStep, Used
<1>5. QED BY <1>1, <1>2, <1>3, <1>4 DEF IInv

LEMMA TickStepsKeep ==
  ASSUME IInv, TickBegin \/ TickPasses \/ TickEnds
  PROVE  IInv'
<1>1. /\ process = "up"
      /\ UNCHANGED <<now, process, slots, count, rows, sequence, lives, made, ran, lastRan, resumed,
                     shifted, drifted>>
  BY DEF TickBegin, TickPasses, TickEnds, Walking, jobVars, dbVars, historyVars
<1>2. ~tick.executing
  BY DEF TickBegin, TickPasses, TickEnds, Walking, NoTick
<1>3. tick \in [at : 0 .. Capacity + 1, start : 0 .. now, executing : BOOLEAN, key : 0 .. MaxJobs]
  BY DEF IInv, TypeOK
<1>4. now \in Nat /\ 0 \in 0 .. now /\ now \in 0 .. now /\ 0 \in 0 .. MaxJobs
      /\ 0 \in 0 .. Capacity + 1 /\ 1 \in 0 .. Capacity + 1
  BY Types, Sizes DEF IInv
<1>5. CASE TickBegin
  <2>1. tick' = [at |-> 1, start |-> now, executing |-> FALSE, key |-> 0]
    BY <1>5 DEF TickBegin
  <2>2. QED BY <1>1, <1>2, <1>4, <2>1, TickMoves
<1>6. CASE TickPasses
  <2>1. tick' = [tick EXCEPT !.at = @ + 1] /\ tick.at \in Used
    BY <1>6 DEF TickPasses
  <2>2. tick.at + 1 \in 0 .. Capacity + 1
    BY <2>1, Types, Sizes DEF IInv, Used
  <2>3. /\ tick' \in [at : 0 .. Capacity + 1, start : 0 .. now, executing : BOOLEAN, key : 0 .. MaxJobs]
        /\ ~tick'.executing
    BY <1>2, <1>3, <2>1, <2>2
  <2>4. QED BY <1>1, <1>2, <2>3, TickMoves
<1>7. CASE TickEnds
  <2>1. tick' = [at |-> 0, start |-> 0, executing |-> FALSE, key |-> 0]
    BY <1>7 DEF TickEnds, NoTick
  <2>2. QED BY <1>1, <1>2, <1>4, <2>1, TickMoves
<1>8. QED BY <1>5, <1>6, <1>7

LEMMA ClockKeeps ==
  ASSUME IInv, Clock
  PROVE  IInv'
<1>1. /\ now < MaxNow /\ now' = now + 1
      /\ UNCHANGED <<process, slots, count, tick, rows, sequence, lives, made, ran, lastRan,
                     resumed, shifted, drifted>>
  BY DEF Clock, jobVars, dbVars, historyVars
<1>2. now \in Nat /\ now' \in 0 .. MaxNow /\ now' \in Nat /\ now <= now'
  BY <1>1, Types, Sizes DEF IInv
<1>3. TypeOK'
  <2>1. tick \in [at : 0 .. Capacity + 1, start : 0 .. now, executing : BOOLEAN, key : 0 .. MaxJobs]
    BY DEF IInv, TypeOK
  <2>2. \A x \in 0 .. now : x \in 0 .. now'
    BY <1>2
  <2>3. tick' \in [at : 0 .. Capacity + 1, start : 0 .. now', executing : BOOLEAN, key : 0 .. MaxJobs]
    BY <1>1, <2>1, <2>2
  <2>4. QED BY <1>1, <1>2, <2>3 DEF IInv, TypeOK
<1>4. KeysInv' /\ JobsInv'
  <2>1. \A i \in Used : Running(i)' <=> Running(i)
    BY <1>1 DEF Running
  <2>2. QED BY <1>1, <1>2, <2>1, QuietJobs
<1>5. TickInv'
  BY <1>1 DEF IInv, TickInv, Used
<1>6. RowsInv'
  BY <1>1 DEF IInv, RowsInv, InStep, Used
<1>7. QED BY <1>3, <1>4, <1>5, <1>6 DEF IInv

-----------------------------------------------------------------------------
(* The end of a life, and the next one. *)
LEMMA StopKeeps ==
  ASSUME IInv, Stop
  PROVE  IInv'
<1>1. /\ process = "up" /\ tick = NoTick /\ process' = "stopped"
      /\ UNCHANGED <<now, slots, count, tick, sequence, lives, made, ran, lastRan, resumed,
                     shifted, drifted>>
  BY DEF Stop, jobVars, historyVars
<1> DEFINE ofRow(r) == CHOOSE i \in Used : slots[i].id = r /\ \A k \in i + 1 .. count : slots[k].id # r
<1>2. rows' = [r \in RowIds |-> IF \E i \in Used : slots[i].id = r THEN slots[ofRow(r)].key ELSE rows[r]]
  BY DEF Stop
(* The last of the jobs with an id. *)
<1>3. ASSUME NEW r \in RowIds, \E i \in Used : slots[i].id = r
      PROVE  ofRow(r) \in Used /\ slots[ofRow(r)].id = r
  <2> DEFINE S == {i \in Used : slots[i].id = r}
  <2>1. PICK m \in S : \A i \in S : i <= m
    <3>1. S \subseteq Nat /\ S # {}
      BY <1>3 DEF Used
    <3>2. count \in Nat /\ \A i \in S : i <= count
      BY Types DEF IInv, Used
    <3> HIDE DEF S
    <3>3. QED BY <3>1, <3>2, LastOf
  <2>2. m \in Used /\ slots[m].id = r /\ \A k \in m + 1 .. count : slots[k].id # r
    <3>1. m \in Used /\ m \in Nat /\ m >= 1 /\ count \in Nat
      BY Types DEF IInv, Used
    <3>2. \A k \in m + 1 .. count : k \in Used /\ ~(k <= m)
      BY <3>1 DEF Used
    <3>3. QED BY <2>1, <3>1, <3>2
  <2>3. QED BY <2>2
<1>4. TypeOK'
  <2>1. \A r \in RowIds : (\E i \in Used : slots[i].id = r) => slots[ofRow(r)].key \in 0 .. MaxJobs
    <3>1. \A i \in Used : slots[i].key \in 0 .. MaxJobs
      BY UsedJob DEF Job
    <3>2. QED BY <1>3, <3>1
  <2>2. rows' \in [RowIds -> 0 .. MaxJobs]
    <3>1. rows \in [RowIds -> 0 .. MaxJobs]
      BY DEF IInv, TypeOK
    <3> HIDE DEF ofRow
    <3>2. QED BY <1>2, <2>1, <3>1
  <2>3. QED BY <1>1, <2>2 DEF IInv, TypeOK
<1>5. KeysInv' /\ JobsInv'
  <2>1. now' \in Nat /\ now <= now'
    BY <1>1, Types DEF IInv
  <2>2. \A i \in Used : Running(i)' <=> Running(i)
    BY <1>1 DEF Running
  <2>3. QED BY <1>1, <2>1, <2>2, QuietJobs
<1>6. TickInv'
  BY <1>1 DEF TickInv, NoTick
<1>7. RowsInv'
  <2>1. SUFFICES ASSUME InStep'
                 PROVE  /\ \A i \in Used : slots[i].id \in 1 .. sequence /\ rows'[slots[i].id] = slots[i].key
                        /\ \A i, j \in Used : slots[i].id = slots[j].id => i = j
                        /\ \A r \in RowIds : rows'[r] # 0 => \E i \in Used : slots[i].id = r
    BY <1>1 DEF RowsInv, Used
  <2>2. InStep
    BY <1>1, <2>1 DEF InStep
  <2>3. /\ \A i \in Used : slots[i].id \in 1 .. sequence /\ rows[slots[i].id] = slots[i].key
        /\ \A i, j \in Used : slots[i].id = slots[j].id => i = j
        /\ \A r \in RowIds : rows[r] # 0 => \E i \in Used : slots[i].id = r
    BY <2>2 DEF IInv, RowsInv
  <2>4. \A i \in Used : slots[i].id \in RowIds
    BY <2>3, IdsAreRows
  <2>5. ASSUME NEW i \in Used
        PROVE  rows'[slots[i].id] = slots[i].key
    <3> DEFINE r == slots[i].id
    <3>1. r \in RowIds /\ \E j \in Used : slots[j].id = r
      BY <2>4
    <3>2. ofRow(r) \in Used /\ slots[ofRow(r)].id = r
      BY <1>3, <3>1
    <3>3. ofRow(r) = i
      BY <2>3, <3>2
    <3>4. rows'[r] = slots[ofRow(r)].key
      <4> HIDE DEF ofRow, r
      <4>1. QED BY <1>2, <3>1
    <3>5. QED BY <3>3, <3>4
  <2>6. ASSUME NEW r \in RowIds, rows'[r] # 0
        PROVE  \E i \in Used : slots[i].id = r
    <3>1. SUFFICES ASSUME ~ \E i \in Used : slots[i].id = r
                   PROVE  FALSE
      OBVIOUS
    <3>2. rows'[r] = rows[r]
      <4> HIDE DEF ofRow
      <4>1. QED BY <1>2, <3>1
    <3>3. QED BY <2>3, <2>6, <3>1, <3>2
  <2>7. QED BY <2>3, <2>5, <2>6
<1>8. QED BY <1>4, <1>5, <1>6, <1>7 DEF IInv

LEMMA EmptyArrayKeeps ==
  ASSUME IInv, slots' = [i \in 1 .. Capacity |-> Empty], count' = 0, tick' = NoTick,
         process' = "lost" \/ lives' > 1, process' \in {"up", "lost"}, lives' \in 1 .. MaxLives,
         UNCHANGED <<now, rows, sequence, made, ran, lastRan, resumed, shifted, drifted>>
  PROVE  IInv'
<1>1. Used' = {}
  BY DEF Used
<1>2. TypeOK'
  <2>1. Empty \in Job
    BY Sizes DEF Empty, Job
  <2>2. slots' \in [1 .. Capacity -> Job] /\ count' \in 0 .. Capacity
    BY <2>1, Sizes
  <2>3. NoTick \in [at : 0 .. Capacity + 1, start : 0 .. now, executing : BOOLEAN, key : 0 .. MaxJobs]
    BY Sizes, Types DEF NoTick, IInv
  <2>4. QED BY <2>2, <2>3 DEF IInv, TypeOK
<1>3. KeysInv'
  BY <1>1 DEF IInv, KeysInv
<1>4. TickInv'
  BY DEF TickInv, NoTick
<1>5. JobsInv'
  BY <1>1 DEF JobsInv
<1>6. RowsInv'
  <2>1. ~InStep'
    BY DEF InStep
  <2>2. QED BY <2>1 DEF RowsInv
<1>7. QED BY <1>2, <1>3, <1>4, <1>5, <1>6 DEF IInv

LEMMA CrashKeeps ==
  ASSUME IInv, Crash
  PROVE  IInv'
BY EmptyArrayKeeps DEF Crash, dbVars, historyVars, IInv, TypeOK

LEMMA RestartKeeps ==
  ASSUME IInv, Restart
  PROVE  IInv'
<1>1. /\ process # "up" /\ lives < MaxLives /\ process' = "up" /\ lives' = lives + 1
      /\ slots' = [i \in 1 .. Capacity |-> Empty] /\ count' = 0
      /\ UNCHANGED <<now, tick, rows, sequence, made, ran, lastRan, resumed, shifted, drifted>>
  BY DEF Restart, dbVars, historyVars
<1>2. tick' = NoTick
  BY <1>1 DEF IInv, TickInv
<1>3. lives' > 1 /\ lives' \in 1 .. MaxLives
  BY <1>1, Types, Sizes DEF IInv
<1>4. QED BY <1>1, <1>2, <1>3, EmptyArrayKeeps

-----------------------------------------------------------------------------
(* A job is added behind the others. *)
LEMMA AddKeeps ==
  ASSUME IInv, NEW once \in BOOLEAN, NEW tool \in BOOLEAN, NEW interval \in Intervals,
         Add(once, tool, interval)
  PROVE  IInv'
<1> DEFINE new == [key |-> made', id |-> count', once |-> once, tool |-> tool,
                   interval |-> interval, state |-> "ACTIVE", next |-> now + interval, runs |-> 0]
<1>1. /\ made < MaxJobs /\ count < Capacity /\ count' = count + 1 /\ made' = made + 1
      /\ slots' = [slots EXCEPT ![count'] = new]
      /\ sequence' = sequence + 1 /\ rows' = [rows EXCEPT ![sequence'] = made']
      /\ drifted' = (drifted \/ sequence' # count')
      /\ UNCHANGED <<now, process, tick, lives, ran, lastRan, resumed, shifted>>
  BY DEF Add
<1>2. process = "up"
  BY DEF Add, Manageable
<1>3. /\ count \in Nat /\ made \in Nat /\ now \in Nat /\ interval \in Nat /\ sequence = made
      /\ count' \in 1 .. Capacity /\ count' \in 0 .. Capacity /\ made' \in Keys /\ made' \in 0 .. MaxJobs
      /\ sequence' \in RowIds /\ sequence' \in 0 .. MaxJobs + Capacity /\ sequence' = made'
  BY <1>1, Types, Sizes DEF IInv, KeysInv, Keys, RowIds
<1>4. /\ Used' = Used \union {count'} /\ count' \notin Used
      /\ \A i \in Used : i \in 1 .. Capacity /\ i # count'
  BY <1>1, <1>3, Sizes DEF Used
<1>5. new \in Job /\ new.key = made' /\ new.id = count' /\ new.runs = 0
  <2>1. now + interval \in Nat /\ 0 \in Nat
    BY <1>3
  <2>2. QED BY <1>3, <2>1 DEF Job
<1> HIDE DEF new
<1>6. slots \in [1 .. Capacity -> Job] /\ rows \in [RowIds -> 0 .. MaxJobs]
  BY DEF IInv, TypeOK
<1>7. slots'[count'] = new /\ \A i \in Used : slots'[i] = slots[i]
  BY <1>1, <1>3, <1>4, <1>6
<1>8. rows'[sequence'] = made' /\ \A r \in RowIds : r # sequence' => rows'[r] = rows[r]
  BY <1>1, <1>3, <1>6
<1>9. \A i \in Used : /\ slots[i].key \in 1 .. made /\ slots[i].key \in 1 .. made'
                      /\ slots[i].key # made'
  BY <1>1, <1>3, UsedJob
<1>10. TypeOK'
  <2>1. slots' \in [1 .. Capacity -> Job]
    BY <1>1, <1>3, <1>5, <1>6
  <2>2. rows' \in [RowIds -> 0 .. MaxJobs]
    BY <1>1, <1>3, <1>6
  <2>3. drifted' \in BOOLEAN
    BY <1>1
  <2>4. QED BY <1>1, <1>3, <2>1, <2>2, <2>3 DEF IInv, TypeOK
<1>11. KeysInv'
  <2>1. \A i \in Used' : slots'[i].key \in 1 .. made'
    BY <1>3, <1>4, <1>5, <1>7, <1>9 DEF Keys
  <2>2. \A i, j \in Used' : slots'[i].key = slots'[j].key => i = j
    <3>1. \A i, j \in Used : slots[i].key = slots[j].key => i = j
      BY DEF IInv, KeysInv
    <3>2. QED BY <1>4, <1>5, <1>7, <1>9, <3>1
  <2>3. ASSUME NEW k \in Keys, k > made'
        PROVE  ran'[k] = 0
    <3>1. k > made
      BY <1>1, <1>3, <2>3 DEF Keys
    <3>2. QED BY <1>1, <3>1 DEF IInv, KeysInv
  <2>4. \A k \in Keys : lastRan'[k] <= now'
    BY <1>1 DEF IInv, KeysInv
  <2>5. QED BY <1>3, <2>1, <2>2, <2>3, <2>4 DEF KeysInv
<1>12. TickInv'
  BY <1>1, <1>4 DEF IInv, TickInv
<1>13. JobsInv'
  <2>1. SUFFICES ASSUME ~shifted, NEW i \in Used'
                 PROVE  JobInv(slots'[i], Running(i)', ran[slots'[i].key], resumed[slots'[i].key],
                               lastRan[slots'[i].key])
    BY <1>1 DEF JobsInv
  <2>2. Running(i)' = Running(i)
    BY <1>1 DEF Running
  <2>3. CASE i \in Used
    <3>1. JobInv(slots[i], Running(i), ran[slots[i].key], resumed[slots[i].key], lastRan[slots[i].key])
      BY <2>1, <2>3 DEF IInv, JobsInv
    <3>2. QED BY <1>7, <2>2, <2>3, <3>1
  <2>4. CASE i = count'
    <3>1. ~Running(i)
      BY <1>4, <2>1, <2>4 DEF IInv, TickInv, Running
    <3>2. ran[made'] = 0
      BY <1>1, <1>3 DEF IInv, KeysInv
    <3>3. resumed[made'] \in Nat
      BY <1>3, Types DEF IInv
    <3>4. slots'[i] = new /\ slots'[i].key = made' /\ new.runs = 0
      BY <1>5, <1>7, <2>4
    <3>5. JobInv(new, FALSE, 0, resumed[made'], lastRan[made'])
      BY <3>3, <3>4 DEF JobInv
    <3>6. Running(i)' = FALSE
      BY <2>2, <3>1
    <3>7. QED BY <3>2, <3>4, <3>5, <3>6
  <2>5. QED BY <1>4, <2>3, <2>4
<1>14. RowsInv'
  <2>1. SUFFICES ASSUME InStep'
                 PROVE  /\ \A i \in Used' : slots'[i].id \in 1 .. sequence' /\ rows'[slots'[i].id] = slots'[i].key
                        /\ \A i, j \in Used' : slots'[i].id = slots'[j].id => i = j
                        /\ \A r \in RowIds : rows'[r] # 0 => \E i \in Used' : slots'[i].id = r
    BY DEF RowsInv
  <2>2. InStep /\ sequence' = count'
    BY <1>1, <2>1 DEF InStep
  <2>3. /\ \A i \in Used : slots[i].id \in 1 .. sequence /\ rows[slots[i].id] = slots[i].key
        /\ \A i, j \in Used : slots[i].id = slots[j].id => i = j
        /\ \A r \in RowIds : rows[r] # 0 => \E i \in Used : slots[i].id = r
    BY <2>2 DEF IInv, RowsInv
  <2>4. \A i \in Used : slots[i].id \in RowIds /\ slots[i].id # sequence' /\ slots[i].id \in 1 .. sequence'
    BY <1>1, <1>3, <2>3, IdsAreRows
  <2>5. \A i \in Used : slots'[i].id = slots[i].id /\ rows'[slots[i].id] = slots[i].key
                        /\ slots'[i].key = slots[i].key
    BY <1>7, <1>8, <2>3, <2>4
  <2>6. slots'[count'].id = sequence' /\ rows'[sequence'] = slots'[count'].key /\ sequence' \in 1 .. sequence'
    <3>1. slots'[count'].id = count' /\ slots'[count'].key = made'
      BY <1>5, <1>7
    <3>2. sequence' \in 1 .. sequence'
      BY <1>1, <1>3
    <3>3. QED BY <1>8, <2>2, <3>1, <3>2
  <2>7. \A i \in Used' : slots'[i].id \in 1 .. sequence' /\ rows'[slots'[i].id] = slots'[i].key
    BY <1>4, <2>4, <2>5, <2>6
  <2>8. \A i, j \in Used' : slots'[i].id = slots'[j].id => i = j
    BY <1>4, <2>3, <2>4, <2>5, <2>6
  <2>9. ASSUME NEW r \in RowIds, rows'[r] # 0
        PROVE  \E i \in Used' : slots'[i].id = r
    <3>1. CASE r = sequence'
      BY <1>4, <2>6, <3>1
    <3>2. CASE r # sequence'
      BY <1>4, <1>8, <2>3, <2>5, <2>9, <3>2
    <3>3. QED BY <3>1, <3>2
  <2>10. QED BY <2>7, <2>8, <2>9
<1>15. QED BY <1>10, <1>11, <1>12, <1>13, <1>14 DEF IInv

-----------------------------------------------------------------------------
(* A job is removed and the later ones move down. *)
LEMMA RemoveKeeps ==
  ASSUME IInv, NEW id \in 1 .. Capacity, Remove(id)
  PROVE  IInv'
<1>1. PICK i \in Used :
        /\ slots[i].id = id
        /\ slots' = [k \in DOMAIN slots |-> IF k \in i .. count - 1 THEN slots[k + 1] ELSE slots[k]]
  BY DEF Remove, FirstWith
<1>2. /\ count' = count - 1 /\ rows' = [rows EXCEPT ![id] = 0]
      /\ shifted' = (shifted \/ tick.executing)
      /\ UNCHANGED <<now, process, tick, sequence, lives, made, ran, lastRan, resumed, drifted>>
  BY DEF Remove
<1>3. process = "up" /\ (~tick.executing => tick = NoTick)
  BY Managed DEF Remove
<1>4. /\ count \in Nat /\ i \in Nat /\ i >= 1 /\ i <= count /\ count <= Capacity
      /\ count' \in 0 .. Capacity /\ DOMAIN slots = 1 .. Capacity /\ id \in RowIds
  BY <1>2, Types, Sizes DEF IInv, Used, RowIds
<1> DEFINE src(k) == IF k >= i THEN k + 1 ELSE k
<1>5. ASSUME NEW k \in Used'
      PROVE  k \in Used /\ src(k) \in Used /\ src(k) # i /\ slots'[k] = slots[src(k)]
  <2>1. k \in Nat /\ k >= 1 /\ k <= count - 1 /\ k \in 1 .. Capacity
    BY <1>2, <1>4, Sizes DEF Used
  <2>2. k \in Used /\ src(k) \in Used /\ src(k) # i
    BY <1>4, <2>1 DEF Used
  <2>3. k \in i .. count - 1 <=> k >= i
    BY <1>4, <2>1
  <2>4. QED BY <1>1, <1>4, <2>1, <2>2, <2>3
<1>6. \A j, k \in Used' : src(j) = src(k) => j = k
  BY <1>2, <1>4 DEF Used
<1>7. ASSUME NEW j \in Used, j # i
      PROVE  \E k \in Used' : src(k) = j
  <2>1. j \in Nat /\ j >= 1 /\ j <= count
    BY <1>4 DEF Used
  <2>2. CASE j < i
    <3>1. j \in Used' /\ src(j) = j
      BY <1>2, <1>4, <2>1, <2>2 DEF Used
    <3>2. QED BY <3>1
  <2>3. CASE j > i
    <3>1. j - 1 \in Used' /\ src(j - 1) = j
      BY <1>2, <1>4, <2>1, <2>3 DEF Used
    <3>2. QED BY <3>1
  <2>4. QED BY <1>4, <1>7, <2>1, <2>2, <2>3
<1> HIDE DEF src
<1>8. TypeOK'
  <2>1. \A k \in 1 .. Capacity : (IF k \in i .. count - 1 THEN slots[k + 1] ELSE slots[k]) \in Job
    <3>1. ASSUME NEW k \in 1 .. Capacity, k \in i .. count - 1
          PROVE  k + 1 \in 1 .. Capacity
      BY <1>4, <3>1, Sizes
    <3>2. QED BY <3>1, Types DEF IInv
  <2>2. slots' \in [1 .. Capacity -> Job]
    BY <1>1, <1>4, <2>1
  <2>3. rows' \in [RowIds -> 0 .. MaxJobs]
    <3>1. 0 \in 0 .. MaxJobs /\ rows \in [RowIds -> 0 .. MaxJobs]
      BY Sizes DEF IInv, TypeOK
    <3>2. QED BY <1>2, <1>4, <3>1
  <2>4. shifted' \in BOOLEAN
    BY <1>2
  <2>5. QED BY <1>2, <1>4, <2>2, <2>3, <2>4 DEF IInv, TypeOK
<1>9. KeysInv'
  <2>1. \A k \in Used' : slots'[k].key \in 1 .. made
    BY <1>5 DEF IInv, KeysInv
  <2>2. \A j, k \in Used' : slots'[j].key = slots'[k].key => j = k
    BY <1>5, <1>6 DEF IInv, KeysInv
  <2>3. QED BY <1>2, <2>1, <2>2 DEF IInv, KeysInv
<1>10. TickInv'
  BY <1>2 DEF IInv, TickInv
<1>11. JobsInv'
  <2>1. SUFFICES ASSUME ~shifted, ~tick.executing, NEW k \in Used'
                 PROVE  JobInv(slots'[k], Running(k)', ran[slots'[k].key], resumed[slots'[k].key],
                               lastRan[slots'[k].key])
    BY <1>2 DEF JobsInv
  <2> DEFINE j == src(k)
  <2>2. Running(k)' = FALSE /\ Running(j) = FALSE
    BY <1>2, <2>1 DEF Running
  <2>3. j \in Used /\ slots'[k] = slots[j]
    BY <1>5
  <2> HIDE DEF j
  <2>4. JobInv(slots[j], Running(j), ran[slots[j].key], resumed[slots[j].key], lastRan[slots[j].key])
    BY <2>1, <2>3 DEF IInv, JobsInv
  <2>5. QED BY <2>2, <2>3, <2>4
<1>12. RowsInv'
  <2>1. SUFFICES ASSUME InStep
                 PROVE  /\ \A k \in Used' : slots'[k].id \in 1 .. sequence /\ rows'[slots'[k].id] = slots'[k].key
                        /\ \A j, k \in Used' : slots'[j].id = slots'[k].id => j = k
                        /\ \A r \in RowIds : rows'[r] # 0 => \E k \in Used' : slots'[k].id = r
    BY <1>2 DEF RowsInv, InStep
  <2>2. /\ \A k \in Used : slots[k].id \in 1 .. sequence /\ rows[slots[k].id] = slots[k].key
        /\ \A j, k \in Used : slots[j].id = slots[k].id => j = k
        /\ \A r \in RowIds : rows[r] # 0 => \E k \in Used : slots[k].id = r
    BY <2>1 DEF IInv, RowsInv
  <2>3. rows'[id] = 0 /\ \A r \in RowIds : r # id => rows'[r] = rows[r]
    <3>1. rows \in [RowIds -> 0 .. MaxJobs]
      BY DEF IInv, TypeOK
    <3>2. QED BY <1>2, <1>4, <3>1
  <2>4. \A k \in Used : k # i => slots[k].id # id /\ slots[k].id \in RowIds
    BY <1>1, <2>2, IdsAreRows
  <2>5. \A k \in Used' : slots'[k].id \in 1 .. sequence /\ rows'[slots'[k].id] = slots'[k].key
    <3>1. TAKE k \in Used'
    <3>2. /\ src(k) \in Used /\ src(k) # i /\ slots'[k] = slots[src(k)]
      BY <1>5
    <3>3. slots[src(k)].id # id /\ slots[src(k)].id \in RowIds
      BY <2>4, <3>2
    <3>4. rows'[slots[src(k)].id] = slots[src(k)].key
      BY <2>2, <2>3, <3>2, <3>3
    <3>5. QED BY <2>2, <3>2, <3>4
  <2>6. \A j, k \in Used' : slots'[j].id = slots'[k].id => j = k
    BY <1>5, <1>6, <2>2
  <2>7. ASSUME NEW r \in RowIds, rows'[r] # 0
        PROVE  \E k \in Used' : slots'[k].id = r
    <3>1. r # id /\ rows[r] # 0
      BY <2>3, <2>7
    <3>2. PICK j \in Used : slots[j].id = r
      BY <2>2, <3>1
    <3>3. j # i
      BY <1>1, <3>1, <3>2
    <3>4. PICK k \in Used' : src(k) = j
      BY <1>7, <3>3
    <3>5. QED BY <1>5, <3>2, <3>4
  <2>8. QED BY <2>5, <2>6, <2>7
<1>13. QED BY <1>8, <1>9, <1>10, <1>11, <1>12 DEF IInv

-----------------------------------------------------------------------------
(* A step that writes one slot and leaves its job in it. *)
LEMMA OneSlot ==
  ASSUME IInv, NEW i \in 1 .. Capacity, NEW j \in Job, slots' = [slots EXCEPT ![i] = j],
         j.key = slots[i].key, j.id = slots[i].id,
         UNCHANGED <<now, process, count, rows, sequence, lives, made, ran, lastRan, shifted, drifted>>
  PROVE  /\ slots' \in [1 .. Capacity -> Job] /\ Used' = Used
         /\ slots'[i] = j /\ \A k \in Used : k # i => slots'[k] = slots[k]
         /\ \A k \in Used : slots'[k].key = slots[k].key
         /\ KeysInv' /\ RowsInv'
<1>1. slots \in [1 .. Capacity -> Job] /\ \A k \in Used : k \in 1 .. Capacity
  BY UsedJob DEF IInv, TypeOK
<1>2. slots' \in [1 .. Capacity -> Job] /\ Used' = Used
  BY <1>1 DEF Used
<1>3. slots'[i] = j /\ \A k \in Used : k # i => slots'[k] = slots[k]
  BY <1>1
<1>4. \A k \in Used : slots'[k].key = slots[k].key /\ slots'[k].id = slots[k].id
  BY <1>3
<1>5. KeysInv'
  BY <1>2, <1>4 DEF IInv, KeysInv
<1>6. RowsInv'
  BY <1>2, <1>4 DEF IInv, RowsInv, InStep
<1>7. QED BY <1>2, <1>3, <1>4, <1>5, <1>6

LEMMA PauseKeeps ==
  ASSUME IInv, NEW id \in 1 .. Capacity, Pause(id)
  PROVE  IInv'
<1>1. PICK i \in Used : slots' = [slots EXCEPT ![i].state = "PAUSED"]
  BY DEF Pause
<1> DEFINE j == [slots[i] EXCEPT !.state = "PAUSED"]
<1>2. UNCHANGED <<now, process, count, tick, rows, sequence, lives, made, ran, lastRan, resumed,
                  shifted, drifted>>
  BY DEF Pause, dbVars, historyVars
<1>3. slots' = [slots EXCEPT ![i] = j]
  BY <1>1
<1>4. /\ j \in Job /\ j.key = slots[i].key /\ j.id = slots[i].id /\ j.runs = slots[i].runs
      /\ j.once = slots[i].once /\ j.state = "PAUSED"
  BY UsedJob DEF Job
<1>5. i \in 1 .. Capacity
  BY UsedJob
<1> HIDE DEF j
<1>6. /\ slots' \in [1 .. Capacity -> Job] /\ Used' = Used
      /\ slots'[i] = j /\ \A k \in Used : k # i => slots'[k] = slots[k]
      /\ KeysInv' /\ RowsInv'
  BY <1>2, <1>3, <1>4, <1>5, OneSlot
<1>7. TypeOK'
  BY <1>2, <1>6 DEF IInv, TypeOK
<1>8. TickInv'
  BY <1>2, <1>6 DEF IInv, TickInv
<1>9. JobsInv'
  <2>1. SUFFICES ASSUME ~shifted, NEW k \in Used
                 PROVE  JobInv(slots'[k], Running(k)', ran[slots'[k].key], resumed[slots'[k].key],
                               lastRan[slots'[k].key])
    BY <1>2, <1>6 DEF JobsInv
  <2>2. JobInv(slots[k], Running(k), ran[slots[k].key], resumed[slots[k].key], lastRan[slots[k].key])
    BY <2>1 DEF IInv, JobsInv
  <2>3. Running(k)' = Running(k)
    BY <1>2 DEF Running
  <2>4. CASE k # i
    BY <1>6, <2>2, <2>3, <2>4
  <2>5. CASE k = i
    <3>1. slots'[k] = j /\ j.key = slots[k].key
      BY <1>4, <1>6, <2>5
    <3>2. JobInv(j, Running(k), ran[slots[k].key], resumed[slots[k].key], lastRan[slots[k].key])
      BY <1>4, <2>2, <2>5 DEF JobInv
    <3>3. QED BY <2>3, <3>1, <3>2
  <2>6. QED BY <2>4, <2>5
<1>10. QED BY <1>6, <1>7, <1>8, <1>9 DEF IInv

LEMMA ResumeKeeps ==
  ASSUME IInv, NEW id \in 1 .. Capacity, Resume(id)
  PROVE  IInv'
<1>1. PICK i \in Used :
        /\ slots' = [slots EXCEPT ![i].state = "ACTIVE", ![i].next = now + slots[i].interval]
        /\ resumed' = [resumed EXCEPT ![slots[i].key] = @ + 1]
  BY DEF Resume
<1> DEFINE j == [slots[i] EXCEPT !.state = "ACTIVE", !.next = now + slots[i].interval]
           key == slots[i].key
<1>2. UNCHANGED <<now, process, count, tick, rows, sequence, lives, made, ran, lastRan,
                  shifted, drifted>>
  BY DEF Resume, dbVars
<1>3. i \in 1 .. Capacity /\ slots[i] \in Job /\ key \in Keys /\ slots[i].interval \in Nat /\ now \in Nat
  BY UsedJob, Types DEF IInv
<1>4. slots' = [slots EXCEPT ![i] = j]
  <2>1. slots \in [1 .. Capacity -> Job]
    BY DEF IInv, TypeOK
  <2>2. QED BY <1>1, <1>3, <2>1 DEF Job
<1>5. /\ j \in Job /\ j.key = key /\ j.id = slots[i].id /\ j.runs = slots[i].runs
      /\ j.once = slots[i].once /\ j.interval = slots[i].interval
      /\ j.next = now + slots[i].interval
  <2>1. now + slots[i].interval \in Nat
    BY <1>3
  <2>2. QED BY <1>3, <2>1 DEF Job
<1> HIDE DEF j
<1>6. /\ slots' \in [1 .. Capacity -> Job] /\ Used' = Used
      /\ slots'[i] = j /\ \A k \in Used : k # i => slots'[k] = slots[k]
      /\ KeysInv' /\ RowsInv'
  BY <1>2, <1>3, <1>4, <1>5, OneSlot
<1>7. /\ resumed' \in [Keys -> Nat] /\ resumed'[key] = resumed[key] + 1
      /\ \A k \in Keys : k # key => resumed'[k] = resumed[k]
  <2>1. resumed \in [Keys -> Nat] /\ resumed[key] + 1 \in Nat
    BY <1>3, Types DEF IInv, TypeOK
  <2>2. QED BY <1>1, <1>3, <2>1
<1>8. TypeOK'
  BY <1>2, <1>6, <1>7 DEF IInv, TypeOK
<1>9. TickInv'
  BY <1>2, <1>6 DEF IInv, TickInv
<1>10. JobsInv'
  <2>1. SUFFICES ASSUME ~shifted, NEW k \in Used
                 PROVE  JobInv(slots'[k], Running(k)', ran[slots'[k].key], resumed'[slots'[k].key],
                               lastRan[slots'[k].key])
    BY <1>2, <1>6 DEF JobsInv
  <2>2. JobInv(slots[k], Running(k), ran[slots[k].key], resumed[slots[k].key], lastRan[slots[k].key])
    BY <2>1 DEF IInv, JobsInv
  <2>3. Running(k)' = Running(k)
    BY <1>2 DEF Running
  <2>4. CASE k # i
    <3>1. slots[k].key \in Keys /\ slots[k].key # key
      BY <2>4, UsedJob DEF IInv, KeysInv
    <3>2. QED BY <1>6, <1>7, <2>2, <2>3, <2>4, <3>1
  <2>5. CASE k = i
    <3> DEFINE times == ran[key]
               began == lastRan[key]
               before == resumed[key]
               old == slots[i]
    <3>1. times \in Nat /\ began \in Nat /\ before \in Nat /\ began <= now
      BY <1>3, Types DEF IInv, KeysInv
    <3>2. JobInv(old, Running(k), times, before, began)
      BY <2>2, <2>5
    <3>3. slots'[k] = j /\ slots'[k].key = key /\ resumed'[key] = before + 1
      BY <1>5, <1>6, <1>7, <2>5
    <3>4. /\ j.runs = old.runs /\ j.once = old.once /\ j.next = now + j.interval
          /\ j.interval \in Nat
      BY <1>3, <1>5
    <3> HIDE DEF times, began, before, old
    <3>5. JobInv(j, Running(k), times, before + 1, began)
      <4>1. j.runs + (IF Running(k) THEN 1 ELSE 0) = times
        BY <3>2, <3>4 DEF JobInv
      <4>2. j.once => times <= 1 + before
        BY <3>2, <3>4 DEF JobInv
      <4>3. times <= 1 + before => times <= before + 1 /\ times <= 1 + (before + 1)
        BY <3>1
      <4>4. j.next >= began + j.interval
        BY <1>3, <3>1, <3>4
      <4>5. QED BY <4>1, <4>2, <4>3, <4>4 DEF JobInv
    <3>6. QED BY <2>3, <3>3, <3>5 DEF times, began
  <2>6. QED BY <2>4, <2>5
<1>11. QED BY <1>6, <1>8, <1>9, <1>10 DEF IInv

-----------------------------------------------------------------------------
(* A job that is due is executed. *)
LEMMA ExecuteBeginKeeps ==
  ASSUME IInv, ExecuteBegin
  PROVE  IInv'
<1> DEFINE i == tick.at
           key == slots[i].key
<1>1. /\ process = "up" /\ ~tick.executing /\ i \in Used
      /\ slots[i].state = "ACTIVE" /\ slots[i].next <= tick.start
      /\ tick' = [tick EXCEPT !.executing = TRUE, !.key = key]
      /\ ran' = [ran EXCEPT ![key] = @ + 1] /\ lastRan' = [lastRan EXCEPT ![key] = now]
      /\ UNCHANGED <<now, process, slots, count, rows, sequence, lives, made, resumed, shifted, drifted>>
  BY DEF ExecuteBegin, Walking, Due, jobVars, dbVars
<1>2. i \in 1 .. Capacity /\ key \in Keys /\ key \in 1 .. made /\ key \in 0 .. MaxJobs
  BY <1>1, UsedJob, Sizes DEF Keys
<1>3. tick \in [at : 0 .. Capacity + 1, start : 0 .. now, executing : BOOLEAN, key : 0 .. MaxJobs]
  BY DEF IInv, TypeOK
<1>4. tick'.executing /\ tick'.at = i
      /\ tick' \in [at : 0 .. Capacity + 1, start : 0 .. now, executing : BOOLEAN, key : 0 .. MaxJobs]
  BY <1>1, <1>2, <1>3
<1>5. /\ ran' \in [Keys -> Nat] /\ ran'[key] = ran[key] + 1 /\ \A k \in Keys : k # key => ran'[k] = ran[k]
  <2>1. ran \in [Keys -> Nat]
    BY DEF IInv, TypeOK
  <2>2. ran[key] + 1 \in Nat
    <3> HIDE DEF key
    <3>1. QED BY <1>2, <2>1
  <2> HIDE DEF key
  <2>3. QED BY <1>1, <1>2, <2>1, <2>2
<1>6. /\ lastRan' \in [Keys -> 0 .. MaxNow] /\ lastRan'[key] = now
      /\ \A k \in Keys : k # key => lastRan'[k] = lastRan[k]
  <2>1. lastRan \in [Keys -> 0 .. MaxNow] /\ now \in 0 .. MaxNow
    BY DEF IInv, TypeOK
  <2>2. QED BY <1>1, <1>2, <2>1
<1>7. TypeOK'
  BY <1>1, <1>4, <1>5, <1>6 DEF IInv, TypeOK
<1>8. KeysInv'
  <2>1. \A k \in Keys : k > made => ran'[k] = 0
    <3>1. TAKE k \in Keys
    <3>2. HAVE k > made
    <3>3. k # key
      BY <1>2, <3>2, Types DEF IInv, Keys
    <3>4. QED BY <1>5, <3>2, <3>3 DEF IInv, KeysInv
  <2>2. \A k \in Keys : lastRan'[k] <= now
    <3>1. now <= now
      BY Types DEF IInv
    <3>2. QED BY <1>6, <3>1 DEF IInv, KeysInv
  <2>3. QED BY <1>1, <2>1, <2>2 DEF IInv, KeysInv, Used
<1>9. TickInv'
  BY <1>1, <1>2, <1>4 DEF TickInv, Used
<1>10. JobsInv'
  <2>1. SUFFICES ASSUME ~shifted, NEW k \in Used
                 PROVE  JobInv(slots[k], Running(k)', ran'[slots[k].key], resumed[slots[k].key],
                               lastRan'[slots[k].key])
    BY <1>1 DEF JobsInv, Used
  <2>2. JobInv(slots[k], Running(k), ran[slots[k].key], resumed[slots[k].key], lastRan[slots[k].key])
    BY <2>1 DEF IInv, JobsInv
  <2>3. CASE k # i
    <3>1. slots[k].key \in Keys /\ slots[k].key # key
      BY <1>1, <2>3, UsedJob DEF IInv, KeysInv
    <3>2. Running(k)' = FALSE /\ Running(k) = FALSE
      BY <1>1, <1>4, <2>3 DEF Running
    <3>3. QED BY <1>5, <1>6, <2>2, <3>1, <3>2
  <2>4. CASE k = i
    <3> DEFINE times == ran[key]
               resumes == resumed[key]
               j == slots[i]
    <3>1. Running(k)' = TRUE /\ Running(k) = FALSE
      BY <1>1, <1>4, <2>4 DEF Running
    <3>2. times \in Nat /\ resumes \in Nat /\ j.runs \in Nat
      BY <1>1, <1>2, Types, UsedJob DEF IInv
    <3>3. JobInv(j, FALSE, times, resumes, lastRan[key])
      BY <2>2, <2>4, <3>1
    <3>4. j.state = "ACTIVE"
      BY <1>1
    <3> HIDE DEF times, resumes, j
    <3>5. j.runs = times /\ (j.once => times <= resumes)
      BY <3>2, <3>3, <3>4 DEF JobInv
    <3>6. j.runs + 1 = times + 1 /\ (times <= resumes => times + 1 <= 1 + resumes)
      BY <3>2, <3>5
    <3>7. JobInv(j, TRUE, times + 1, resumes, now)
      BY <3>5, <3>6 DEF JobInv
    <3>8. slots[k] = j /\ slots[k].key = key /\ ran'[key] = times + 1 /\ lastRan'[key] = now
          /\ resumed[key] = resumes
      BY <1>5, <1>6, <2>4 DEF times, j, resumes
    <3>9. QED BY <3>1, <3>7, <3>8
  <2>5. QED BY <2>3, <2>4
<1>11. RowsInv'
  BY <1>1 DEF IInv, RowsInv, InStep, Used
<1>12. QED BY <1>7, <1>8, <1>9, <1>10, <1>11 DEF IInv

(* What the execution writes goes to the slot of its job, unless a job was *)
(* removed under it.                                                       *)
LEMMA ExecuteEndKeeps ==
  ASSUME IInv, ExecuteEnd
  PROVE  IInv'
<1> DEFINE i == tick.at
           old == slots[i]
           j == IF old.once THEN [old EXCEPT !.runs = old.runs + 1, !.state = "COMPLETED"]
                ELSE [old EXCEPT !.runs = old.runs + 1, !.next = now + old.interval]
<1>1. /\ process = "up" /\ tick.executing
      /\ slots' = [slots EXCEPT ![i] = j]
      /\ tick' = [tick EXCEPT !.at = @ + 1, !.executing = FALSE, !.key = 0]
      /\ UNCHANGED <<now, process, count, rows, sequence, lives, made, ran, lastRan, resumed,
                     shifted, drifted>>
  BY DEF ExecuteEnd, dbVars, historyVars
<1>2. i \in 1 .. Capacity /\ old \in Job /\ now \in Nat
  BY <1>1, Types DEF IInv, TickInv
<1>3. old.runs + 1 \in Nat /\ old.interval \in Nat /\ now + old.interval \in Nat
  BY <1>2, Sizes DEF Job
<1>4. /\ j \in Job /\ j.key = old.key /\ j.id = old.id /\ j.runs = old.runs + 1
      /\ j.once = old.once /\ j.interval = old.interval
      /\ IF old.once THEN j.state = "COMPLETED" ELSE j.next = now + old.interval
  BY <1>2, <1>3 DEF Job
<1> HIDE DEF j
<1>5. /\ slots' \in [1 .. Capacity -> Job] /\ Used' = Used
      /\ slots'[i] = j /\ \A k \in Used : k # i => slots'[k] = slots[k]
      /\ KeysInv' /\ RowsInv'
  BY <1>1, <1>2, <1>4, OneSlot
<1>6. TypeOK'
  <2>1. tick \in [at : 0 .. Capacity + 1, start : 0 .. now, executing : BOOLEAN, key : 0 .. MaxJobs]
    BY DEF IInv, TypeOK
  <2>2. i + 1 \in 0 .. Capacity + 1 /\ 0 \in 0 .. MaxJobs
    BY <1>2, Sizes
  <2>3. tick' \in [at : 0 .. Capacity + 1, start : 0 .. now, executing : BOOLEAN, key : 0 .. MaxJobs]
    BY <1>1, <2>1, <2>2
  <2>4. QED BY <1>1, <1>5, <2>3 DEF IInv, TypeOK
<1>7. ~tick'.executing
  <2>1. tick \in [at : 0 .. Capacity + 1, start : 0 .. now, executing : BOOLEAN, key : 0 .. MaxJobs]
    BY DEF IInv, TypeOK
  <2>2. QED BY <1>1, <2>1
<1>8. TickInv'
  BY <1>1, <1>7 DEF TickInv
<1>9. JobsInv'
  <2>1. SUFFICES ASSUME ~shifted, NEW k \in Used
                 PROVE  JobInv(slots'[k], Running(k)', ran[slots'[k].key], resumed[slots'[k].key],
                               lastRan[slots'[k].key])
    BY <1>1, <1>5 DEF JobsInv
  <2>2. JobInv(slots[k], Running(k), ran[slots[k].key], resumed[slots[k].key], lastRan[slots[k].key])
    BY <2>1 DEF IInv, JobsInv
  <2>3. Running(k)' = FALSE
    BY <1>7 DEF Running
  <2>4. CASE k # i
    <3>1. Running(k) = FALSE
      BY <2>4 DEF Running
    <3>2. QED BY <1>5, <2>2, <2>3, <2>4, <3>1
  <2>5. CASE k = i
    <3> DEFINE key == old.key
               times == ran[key]
               resumes == resumed[key]
               began == lastRan[key]
    <3>1. Running(k) = TRUE
      BY <1>1, <2>5 DEF Running
    <3>2. key \in Keys
      BY <2>5, UsedJob
    <3>3. times \in Nat /\ resumes \in Nat /\ began \in Nat /\ began <= now /\ old.runs \in Nat
      BY <2>5, <3>2, Types, UsedJob DEF IInv, KeysInv
    <3>4. JobInv(old, TRUE, times, resumes, began)
      BY <2>2, <2>5, <3>1
    <3>5. slots'[k] = j /\ slots'[k].key = key
      BY <1>4, <1>5, <2>5
    <3> HIDE DEF old, key, times, resumes, began
    <3>6. old.runs + 1 = times /\ (old.once => times <= 1 + resumes)
      BY <3>4 DEF JobInv
    <3>7. j.runs + 0 = times /\ (j.once => times <= 1 + resumes)
      BY <1>4, <3>3, <3>6
    <3>8. j.once /\ j.state = "ACTIVE" => times <= resumes
      BY <1>4
    <3>9. j.state = "ACTIVE" => j.next >= began + j.interval
      BY <1>2, <1>3, <1>4, <3>3
    <3>10. JobInv(j, FALSE, times, resumes, began)
      BY <3>7, <3>8, <3>9 DEF JobInv
    <3>11. QED BY <2>3, <3>5, <3>10 DEF times, resumes, began
  <2>6. QED BY <2>4, <2>5
<1>10. QED BY <1>5, <1>6, <1>8, <1>9 DEF IInv

-----------------------------------------------------------------------------
LEMMA InitHolds == Init => IInv
<1> SUFFICES ASSUME Init PROVE IInv
  OBVIOUS
<1>1. Used = {}
  BY DEF Init, Used
<1>2. Empty \in Job
  BY Sizes DEF Empty, Job
<1>3. TypeOK
  <2>1. slots \in [1 .. Capacity -> Job] /\ count \in 0 .. Capacity
    BY <1>2, Sizes DEF Init
  <2>2. now \in 0 .. MaxNow /\ sequence \in 0 .. MaxJobs + Capacity /\ lives \in 1 .. MaxLives
        /\ made \in 0 .. MaxJobs
    BY Sizes DEF Init
  <2>3. tick \in [at : 0 .. Capacity + 1, start : 0 .. now, executing : BOOLEAN, key : 0 .. MaxJobs]
    BY Sizes DEF Init, NoTick
  <2>4. /\ rows \in [RowIds -> 0 .. MaxJobs] /\ ran \in [Keys -> Nat]
        /\ lastRan \in [Keys -> 0 .. MaxNow] /\ resumed \in [Keys -> Nat]
    BY Sizes DEF Init
  <2>5. process \in {"up", "stopped", "lost"} /\ shifted \in BOOLEAN /\ drifted \in BOOLEAN
    BY DEF Init
  <2>6. QED BY <2>1, <2>2, <2>3, <2>4, <2>5 DEF TypeOK
<1>4. KeysInv
  BY <1>1 DEF Init, KeysInv
<1>5. TickInv
  BY DEF Init, TickInv, NoTick
<1>6. JobsInv
  BY <1>1 DEF JobsInv
<1>7. RowsInv
  BY <1>1 DEF Init, RowsInv
<1>8. QED BY <1>3, <1>4, <1>5, <1>6, <1>7 DEF IInv

LEMMA StutterKeeps ==
  ASSUME IInv, UNCHANGED vars
  PROVE  IInv'
BY DEF vars, jobVars, dbVars, historyVars, IInv, TypeOK, KeysInv, TickInv, JobsInv, JobInv,
       RowsInv, InStep, Used, Running

LEMMA NextKeeps == IInv /\ [Next]_vars => IInv'
<1> SUFFICES ASSUME IInv, [Next]_vars PROVE IInv'
  OBVIOUS
<1>1. CASE \E once, tool \in BOOLEAN, interval \in Intervals : Add(once, tool, interval)
  BY <1>1, AddKeeps
<1>2. CASE \E id \in 1 .. Capacity : Remove(id) \/ Pause(id) \/ Resume(id)
  BY <1>2, RemoveKeeps, PauseKeeps, ResumeKeeps
<1>3. CASE TickBegin \/ TickPasses \/ TickEnds
  BY <1>3, TickStepsKeep
<1>4. CASE ExecuteBegin
  BY <1>4, ExecuteBeginKeeps
<1>5. CASE ExecuteEnd
  BY <1>5, ExecuteEndKeeps
<1>6. CASE Stop
  BY <1>6, StopKeeps
<1>7. CASE Crash
  BY <1>7, CrashKeeps
<1>8. CASE Restart
  BY <1>8, RestartKeeps
<1>9. CASE Clock
  BY <1>9, ClockKeeps
<1>10. CASE UNCHANGED vars
  BY <1>10, StutterKeeps
<1>11. QED BY <1>1, <1>2, <1>3, <1>4, <1>5, <1>6, <1>7, <1>8, <1>9, <1>10 DEF Next, Manage, TickStep

LEMMA Invariance == Spec => []IInv
BY InitHolds, NextKeeps, PTL DEF Spec

-----------------------------------------------------------------------------
(* The counts, times and places of the scheduler stay in their ranges.     *)
THEOREM CronTypes == Spec => []TypeOK
<1>1. IInv => TypeOK
  BY DEF IInv
<1>2. QED BY <1>1, Invariance, PTL

(* "Total executions": for any number of jobs, ticks, pauses, resumes and  *)
(* restarts the count kept with a job is the number of its executions, and *)
(* a one-shot job fires once and once more per resume, unless a tool       *)
(* removed a job under the tick that was executing it.                     *)
THEOREM RunsAreRight == Spec => []RunsRight
<1>1. ASSUME IInv
      PROVE  RunsRight
  <2>1. ASSUME ~shifted, NEW i \in Used
        PROVE  /\ slots[i].runs + (IF Running(i) THEN 1 ELSE 0) = ran[slots[i].key]
               /\ slots[i].once => ran[slots[i].key] <= 1 + resumed[slots[i].key]
    <3>1. JobInv(slots[i], Running(i), ran[slots[i].key], resumed[slots[i].key], lastRan[slots[i].key])
      BY <1>1, <2>1 DEF IInv, JobsInv
    <3>2. QED BY <3>1 DEF JobInv
  <2>2. QED BY <2>1 DEF RunsRight, RunsCounted, OnceFiresOnce
<1>2. QED BY <1>1, Invariance, PTL

(* Between two executions of a job lies its interval, however long the     *)
(* first one took: only the beginning of an execution makes a job run, and *)
(* then its next run, set no earlier than an interval after the last one,  *)
(* is past.                                                                *)
THEOREM IntervalIsKept == Spec => IntervalKept
<1> DEFINE Kept == \A i \in Used : ~shifted /\ Running(i)' /\ ~Running(i) /\ ran[slots[i].key] > 0
                     => now - lastRan[slots[i].key] >= slots[i].interval
<1>1. ASSUME IInv, [Next]_vars
      PROVE  [Kept]_vars
  <2>1. SUFFICES ASSUME NEW i \in Used, ~shifted, Running(i)', ~Running(i), ran[slots[i].key] > 0
                 PROVE  now - lastRan[slots[i].key] >= slots[i].interval
    OBVIOUS
  <2>2. ExecuteBegin
    <3>1. tick' # tick /\ tick'.executing
      BY <2>1 DEF Running
    <3>2. ~TickBegin /\ ~TickEnds
      BY <3>1 DEF TickBegin, TickEnds, NoTick
    <3>3. tick \in [at : 0 .. Capacity + 1, start : 0 .. now, executing : BOOLEAN, key : 0 .. MaxJobs]
      BY <1>1 DEF IInv, TypeOK
    <3>4. ~TickPasses /\ ~ExecuteEnd
      BY <3>1, <3>3 DEF TickPasses, ExecuteEnd, Walking
    <3>5. ~Manage
      BY <3>1 DEF Manage, Add, Remove, Pause, Resume
    <3>6. ~Stop /\ ~Crash /\ ~Restart /\ ~Clock /\ ~UNCHANGED vars
      BY <3>1 DEF Stop, Crash, Restart, Clock, NoTick, vars
    <3>7. QED BY <1>1, <3>2, <3>4, <3>5, <3>6 DEF Next, TickStep
  <2>3. tick.at = i /\ ~tick.executing /\ Due(slots[i], tick.start)
    <3>1. tick \in [at : 0 .. Capacity + 1, start : 0 .. now, executing : BOOLEAN, key : 0 .. MaxJobs]
      BY <1>1 DEF IInv, TypeOK
    <3>2. tick'.at = tick.at
      BY <2>2, <3>1 DEF ExecuteBegin
    <3>3. QED BY <2>1, <2>2, <3>2 DEF ExecuteBegin, Running, Walking
  <2> DEFINE next == slots[i].next
             began == lastRan[slots[i].key]
             interval == slots[i].interval
  <2>4. JobInv(slots[i], Running(i), ran[slots[i].key], resumed[slots[i].key], began)
    BY <1>1, <2>1 DEF IInv, JobsInv
  <2>5. next >= began + interval
    BY <2>1, <2>3, <2>4 DEF JobInv, Due
  <2>6. next <= tick.start /\ tick.start <= now /\ tick.start \in Nat /\ now \in Nat
    BY <1>1, <2>3, Types DEF IInv, Due
  <2>7. next \in Nat /\ interval \in Nat /\ began \in Nat
    BY <1>1, UsedJob, Types DEF IInv
  <2> HIDE DEF next, began, interval
  <2>8. now - began >= interval
    BY <2>5, <2>6, <2>7
  <2>9. QED BY <2>8 DEF began, interval
<1>2. QED BY <1>1, Invariance, PTL DEF Spec, IntervalKept

(* While ids and rows agree, the table has a row for each job of the array *)
(* and no other: the rows in use are as many as the jobs, because an id is *)
(* the row of one job.                                                     *)
THEOREM TableFollowsJobs == Spec => []RowsFollowJobs
<1>1. ASSUME IInv
      PROVE  RowsFollowJobs
  <2> DEFINE inUse == {r \in RowIds : rows[r] # 0}
             idOf == [i \in Used |-> slots[i].id]
  <2>1. SUFFICES ASSUME InStep
                 PROVE  (\A i \in Used : rows[slots[i].id] = slots[i].key) /\ Cardinality(inUse) = count
    BY DEF RowsFollowJobs, InStep
  <2>2. /\ \A i \in Used : slots[i].id \in 1 .. sequence /\ rows[slots[i].id] = slots[i].key
        /\ \A i, j \in Used : slots[i].id = slots[j].id => i = j
        /\ \A r \in RowIds : rows[r] # 0 => \E i \in Used : slots[i].id = r
    BY <1>1, <2>1 DEF IInv, RowsInv
  <2>3. \A i \in Used : slots[i].id \in inUse
    <3>1. \A i \in Used : slots[i].key # 0
      <4>1. TAKE i \in Used
      <4>2. slots[i].key \in 1 .. made /\ made \in Nat
        BY <1>1, UsedJob, Types DEF IInv
      <4>3. QED BY <4>2
    <3>2. QED BY <1>1, <2>2, <3>1, IdsAreRows
  <2>4. idOf \in Bijection(Used, inUse)
    <3>1. idOf \in [Used -> inUse]
      BY <2>3
    <3>2. \A i, j \in Used : idOf[i] = idOf[j] => i = j
      BY <2>2
    <3>3. \A r \in inUse : \E i \in Used : idOf[i] = r
      BY <2>2
    <3> HIDE DEF idOf, inUse
    <3>4. QED BY <3>1, <3>2, <3>3, Fun_IsBij
  <2>5. IsFiniteSet(Used) /\ Cardinality(Used) = count
    <3>1. count \in Nat /\ count \in Int /\ 1 \in Int
      BY <1>1, Types DEF IInv
    <3>2. IsFiniteSet(1 .. count) /\ Cardinality(1 .. count) = IF 1 > count THEN 0 ELSE count - 1 + 1
      BY <3>1, FS_Interval
    <3>3. QED BY <3>1, <3>2 DEF Used
  <2>6. Cardinality(inUse) = Cardinality(Used)
    <3>1. ExistsBijection(Used, inUse)
      BY <2>4 DEF ExistsBijection
    <3> HIDE DEF inUse
    <3>2. QED BY <2>5, <3>1, FS_Bijection
  <2>7. QED BY <2>2, <2>5, <2>6
<1>2. QED BY <1>1, Invariance, PTL
=============================================================================

------------------------------ MODULE SeaUsage ------------------------------
(***************************************************************************)
(* The usage tracker (src/usage/sea_usage.c): counters by provider and by  *)
(* day that begin at zero with every start of the program, and the table   *)
(* usage_stats that the end of main writes them to, one row for every      *)
(* provider and the day of the writing.                                    *)
(*                                                                         *)
(* Counters are numbers of requests and of errors among them; tokens are   *)
(* added up in the same places.  Nothing in src/ calls sea_usage_record    *)
(* yet: what is modelled is any sequence of its calls.                     *)
(***************************************************************************)
EXTENDS Integers, Sequences, FiniteSets, SequencesExt

CONSTANTS
  Payees,         \* names of providers
  MaxPayees,      \* SEA_USAGE_PROVIDER_MAX
  UsageDays,      \* SEA_USAGE_DAYS_MAX
  MaxUsageDate,   \* bound: dates
  MaxRequests,    \* bound: requests recorded
  MaxLives        \* bound: starts of the program

ASSUME UsageAssumption ==
  /\ MaxPayees \in Nat \ {0} /\ UsageDays \in Nat \ {0}
  /\ MaxUsageDate \in Nat \ {0} /\ MaxRequests \in Nat /\ MaxLives \in Nat

VARIABLES
  usageDate,  \* the date
  payees,     \* SeaUsageTracker.providers
  usageDays,  \* SeaUsageTracker.days
  totals,     \* SeaUsageTracker.total_requests and total_errors
  rows,       \* usage_stats: [payee, date, requests, errors], no two of one payee and date
  ledger,     \* history: every request there was: who, when, an error, in which life
  life        \* starts so far

trackerVars == <<payees, usageDays, totals>>
usageVars == <<usageDate, trackerVars, rows, ledger, life>>

Nothing == [requests |-> 0, errors |-> 0]
Plus(counter, error) ==
  [requests |-> counter.requests + 1,
   errors |-> IF error THEN counter.errors + 1 ELSE counter.errors]

UsageInit ==
  /\ usageDate = 1 /\ payees = <<>> /\ usageDays = <<>> /\ totals = Nothing
  /\ rows = {} /\ ledger = <<>> /\ life = 1

(* The slot of a name or a date in its table, which has at most one. *)
SlotOf(table, key) == CHOOSE i \in DOMAIN table : table[i].key = key
Has(table, key) == \E i \in DOMAIN table : table[i].key = key
Entered(table, key, error) ==
  LET slot == SlotOf(table, key)
  IN [table EXCEPT ![slot] = [key |-> key, counter |-> Plus(@.counter, error)]]

Entry(key) == [key |-> key, counter |-> Nothing]

(* find_or_create_provider: a table that is full gives none. *)
WithPayee(payee) ==
  IF Has(payees, payee) \/ Len(payees) >= MaxPayees THEN payees
  ELSE Append(payees, Entry(payee))

(* Mutant: the newest day makes room. *)
WithTodayForNewest ==
  IF Has(usageDays, usageDate) THEN usageDays
  ELSE IF Len(usageDays) >= UsageDays THEN Append(Front(usageDays), Entry(usageDate))
  ELSE Append(usageDays, Entry(usageDate))

(* find_or_create_day: the oldest day makes room. *)
WithToday ==
  IF Has(usageDays, usageDate) THEN usageDays
  ELSE Append(IF Len(usageDays) >= UsageDays THEN Tail(usageDays) ELSE usageDays,
              Entry(usageDate))

(* sea_usage_record *)
Record(payee, error) ==
  /\ Len(ledger) < MaxRequests
  /\ payees' = IF Has(WithPayee(payee), payee) THEN Entered(WithPayee(payee), payee, error)
               ELSE payees
  /\ usageDays' = Entered(WithToday, usageDate, error)
  /\ totals' = Plus(totals, error)
  /\ ledger' = Append(ledger, [payee |-> payee, date |-> usageDate, error |-> error,
                               life |-> life])
  /\ UNCHANGED <<usageDate, rows, life>>

Midnight ==
  /\ usageDate < MaxUsageDate
  /\ usageDate' = usageDate + 1
  /\ UNCHANGED <<trackerVars, rows, ledger, life>>

(* A start of the program: sea_usage_init, and sea_usage_load, which loads *)
(* nothing.                                                                *)
BeginsAnew ==
  /\ life < MaxLives
  /\ life' = life + 1
  /\ payees' = <<>> /\ usageDays' = <<>> /\ totals' = Nothing
  /\ UNCHANGED <<usageDate, ledger>>

(* sea_usage_save, the rows that are written: the counters since the start *)
(* replace the row that the payee has of this day.                         *)
Saved(written) ==
  LET row(entry) == [payee |-> entry.key, date |-> usageDate,
                     requests |-> entry.counter.requests, errors |-> entry.counter.errors]
  IN {r \in rows : \A entry \in written : r.payee # entry.key \/ r.date # usageDate}
     \union {row(entry) : entry \in written}

(* The program ends as main does and starts again.  The result of a        *)
(* statement is not looked at: any of the rows may be missing, and all are *)
(* without a database.  It is all written on one date.                     *)
SavesAndRestarts ==
  /\ BeginsAnew
  /\ \E written \in SUBSET Range(payees) : rows' = Saved(written)

(* The process is killed, and started again. *)
UsageLost ==
  /\ BeginsAnew
  /\ UNCHANGED rows

UsageNext ==
  \/ \E payee \in Payees, error \in BOOLEAN : Record(payee, error)
  \/ Midnight \/ SavesAndRestarts \/ UsageLost

UsageSpec == UsageInit /\ [][UsageNext]_usageVars

-----------------------------------------------------------------------------
(* The ledger, counted.                                                    *)

CountOf(entries) ==
  [requests |-> Cardinality(entries),
   errors |-> Cardinality({i \in entries : ledger[i].error})]

OfLife == {i \in DOMAIN ledger : ledger[i].life = life}
Dates == {ledger[i].date : i \in OfLife}

(* Within one life every counter is exact: the totals always, the days for *)
(* the latest dates there were, in their order, and a payee's for as long  *)
(* as it found a slot; only a full table leaves one out.                   *)
CountersExact ==
  /\ totals = CountOf(OfLife)
  /\ \A i \in DOMAIN usageDays :
       /\ usageDays[i].counter = CountOf({k \in OfLife : ledger[k].date = usageDays[i].key})
       /\ i > 1 => usageDays[i - 1].key < usageDays[i].key
  /\ LET shown == {usageDays[i].key : i \in DOMAIN usageDays}
     IN /\ shown \subseteq Dates
        /\ \A d \in Dates \ shown : Cardinality(shown) = UsageDays /\ \A s \in shown : d < s
  /\ \A i \in DOMAIN payees :
       payees[i].counter = CountOf({k \in OfLife : ledger[k].payee = payees[i].key})
  /\ \A k \in OfLife : Has(payees, ledger[k].payee) \/ Len(payees) = MaxPayees

(* What the rows of a payee add up to, for every date.                     *)
SavedOn(table, payee, date) ==
  IF \E r \in table : r.payee = payee /\ r.date = date
  THEN (CHOOSE r \in table : r.payee = payee /\ r.date = date).requests ELSE 0

SavedUntil(table, payee) ==
  LET until[d \in 0..MaxUsageDate] ==
        IF d = 0 THEN 0 ELSE until[d - 1] + SavedOn(table, payee, d)
  IN until

(* Over all lives no request is in two rows of the table, and none is in a *)
(* row of an earlier day: what the rows of a payee up to a date add up to  *)
(* is never more than what it was asked until then.                        *)
NothingTwice ==
  /\ \A r, s \in rows : r.payee = s.payee /\ r.date = s.date => r = s
  /\ \A payee \in Payees, date \in 1..MaxUsageDate :
       SavedUntil(rows, payee)[date]
         <= Cardinality({i \in DOMAIN ledger : ledger[i].payee = payee /\ ledger[i].date <= date})

(* The counters of a life are exact, and saving them counts nothing twice. *)
UsageAddsUp == CountersExact /\ NothingTwice
=============================================================================

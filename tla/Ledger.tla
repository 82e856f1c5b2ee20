------------------------------- MODULE Ledger -------------------------------
(***************************************************************************)
(* TokenBudget (packages/tokens, budget.py): what was spent, per day and   *)
(* per month, in a JSON file that every process loads at its start and,    *)
(* after each use, rereads, merges its own costs of today into, truncates  *)
(* and writes, without a lock.  Processes overlap, run past midnight and   *)
(* may die anywhere.                                                       *)
(*                                                                         *)
(* A file that is not whole cannot be parsed: loading it leaves the costs  *)
(* at 0, and a save starts from nothing.  spent and exposed are history:   *)
(* what the calls of record_usage that returned have recorded, and the     *)
(* part of it that the code does not promise to keep.                      *)
(***************************************************************************)
EXTENDS Integers, FiniteSets, FiniteSetsExt

CONSTANTS
  Spenders, \* the processes
  LastDay,  \* bound: the days are 1..LastDay
  Months,   \* the month of each day
  MaxSpent  \* bound: the units spent in all, each by a record_usage

ASSUME LedgerAssumption ==
  /\ LastDay \in Nat \ {0} /\ MaxSpent \in Nat
  /\ Months \in [1..LastDay -> 1..LastDay]
  /\ \A d, e \in 1..LastDay : d <= e => Months[d] <= Months[e]

VARIABLES
  today,   \* the date
  file,    \* the budget file: "absent", "whole", "empty" (truncated), "garbled"
  booked,  \* its "daily" and "monthly" if it is whole
  up,      \* each process: "no", "yes", or in _save ("merged", "truncated")
  cost,    \* its _session_cost, _daily_cost and _monthly_cost
  saving,  \* in _save: its day and the tables it is about to write
  spent,   \* history
  exposed  \* history

ledgerVars == <<today, file, booked, up, cost, saving, spent, exposed>>

-----------------------------------------------------------------------------
Days == 1..LastDay
ThisMonth == Months[today]
Accounts == [daily : [Days -> Nat], monthly : [Days -> Nat]]
Nothing == [daily |-> [d \in Days |-> 0], monthly |-> [d \in Days |-> 0]]
NoCost == [session |-> 0, day |-> 0, month |-> 0]
NoSaving == [day |-> 1, tables |-> Nothing]

Unreadable == file \in {"empty", "garbled"}
InSave == {"merged", "truncated"}

LedgerTypeOK ==
  /\ today \in Days
  /\ file \in {"absent", "whole", "empty", "garbled"}
  /\ booked \in Accounts
  /\ up \in [Spenders -> {"no", "yes"} \cup InSave]
  /\ cost \in [Spenders -> [session : Nat, day : Nat, month : Nat]]
  /\ saving \in [Spenders -> [day : Days, tables : Accounts]]
  /\ spent \in Accounts /\ exposed \in Accounts

LedgerInit ==
  /\ today = 1 /\ file = "absent" /\ booked = Nothing
  /\ up = [p \in Spenders |-> "no"] /\ cost = [p \in Spenders |-> NoCost]
  /\ saving = [p \in Spenders |-> NoSaving]
  /\ spent = Nothing /\ exposed = Nothing

Midnight ==
  /\ today + 1 \in Days
  /\ today' = today + 1
  /\ UNCHANGED <<file, booked, up, cost, saving, spent, exposed>>

\* _load
Loaded ==
  IF file = "whole"
  THEN [session |-> 0, day |-> booked.daily[today], month |-> booked.monthly[ThisMonth]]
  ELSE NoCost

\* The tables with these figures for day d and for its month.
Book(tables, d, day, month) ==
  [daily |-> [tables.daily EXCEPT ![d] = day],
   monthly |-> [tables.monthly EXCEPT ![Months[d]] = month]]

\* A process that finds the file unreadable goes on without what was spent of
\* today and of this month.
StartProcess(p) ==
  /\ up[p] = "no" /\ up' = [up EXCEPT ![p] = "yes"]
  /\ cost' = [cost EXCEPT ![p] = Loaded]
  /\ exposed' = IF Unreadable
                THEN Book(exposed, today, spent.daily[today], spent.monthly[ThisMonth])
                ELSE exposed
  /\ UNCHANGED <<today, file, booked, saving, spent>>

\* Mutant: the rest of the file is not kept.
KeptNothing == Nothing

\* What _save keeps of the file it reads back.
Kept == IF file = "whole" THEN booked ELSE Nothing

\* The bound: units spent so far, those being recorded included.
Units == MapThenSumSet(LAMBDA d : spent.daily[d], Days)
           + Cardinality({p \in Spenders : up[p] \in InSave})

\* record_usage, to the end of the merge in _save.
Record(p) ==
  /\ up[p] = "yes" /\ up' = [up EXCEPT ![p] = "merged"]
  /\ Units < MaxSpent
  /\ cost' = [cost EXCEPT ![p] = [period \in DOMAIN @ |-> @[period] + 1]]
  /\ saving' = [saving EXCEPT ![p] =
                  [day |-> today,
                   tables |-> Book(Kept, today, cost[p].day + 1, cost[p].month + 1)]]
  \* Over an unreadable file what it held is written no more.
  /\ exposed' = IF Unreadable THEN spent ELSE exposed
  /\ UNCHANGED <<today, file, booked, spent>>

\* write_text opens the file ...
TruncateFile(p) ==
  /\ up[p] = "merged" /\ up' = [up EXCEPT ![p] = "truncated"]
  /\ file' = "empty" /\ booked' = Nothing
  /\ UNCHANGED <<today, cost, saving, spent, exposed>>

\* One more unit of day d.
OneMore(tables, d) ==
  Book(tables, d, tables.daily[d] + 1, tables.monthly[Months[d]] + 1)

\* ... and writes it, over what another process has written since: if that is
\* longer, its end stays behind.  Recorded beside another process, the unit is
\* exposed to the save of that one.
Saved(p) ==
  /\ up[p] = "truncated" /\ up' = [up EXCEPT ![p] = "yes"]
  /\ \/ file' = "whole" /\ booked' = saving[p].tables
     \/ file # "empty" /\ file' = "garbled" /\ booked' = Nothing
  /\ spent' = OneMore(spent, saving[p].day)
  /\ exposed' = IF \E q \in Spenders \ {p} : up[q] # "no"
                THEN OneMore(exposed, saving[p].day) ELSE exposed
  /\ saving' = [saving EXCEPT ![p] = NoSaving]
  /\ UNCHANGED <<today, cost>>

\* The process ends, or dies wherever it is.
EndProcess(p) ==
  /\ up[p] # "no" /\ up' = [up EXCEPT ![p] = "no"]
  /\ cost' = [cost EXCEPT ![p] = NoCost]
  /\ saving' = [saving EXCEPT ![p] = NoSaving]
  /\ UNCHANGED <<today, file, booked, spent, exposed>>

\* check_budget, for a limit of each period.
BudgetExceeded(p, limits) ==
  \E period \in DOMAIN limits : cost[p][period] >= limits[period]

LedgerNext ==
  \/ Midnight
  \/ \E p \in Spenders : \/ StartProcess(p) \/ Record(p) \/ TruncateFile(p)
                         \/ Saved(p) \/ EndProcess(p)

LedgerSpec == LedgerInit /\ [][LedgerNext]_ledgerVars

-----------------------------------------------------------------------------
\* What was spent on a day, or in a month, and not exposed.
SureOfDay(d) == spent.daily[d] - exposed.daily[d]
SureOfMonth(m) == spent.monthly[m] - exposed.monthly[m]

\* Spending is forgotten only where it is exposed: if it was recorded while
\* another process ran (which may save its older total over it), or if a process
\* has read a file that one killed in its write, or still in it, left empty or
\* garbled.  All the rest survives restarts, deaths, midnights under a running
\* process and the saves of other days: a file that can be read holds it (and
\* perhaps more: a process that runs past midnight books the old day's cost on
\* the new one), and as soon as it reaches a limit of the day or of the month,
\* check_budget of every running process says so.
SpendIsCounted ==
  /\ file = "whole" => \A d \in Days : /\ booked.daily[d] >= SureOfDay(d)
                                       /\ booked.monthly[d] >= SureOfMonth(d)
  /\ \A p \in Spenders, most \in 1..MaxSpent : up[p] # "no" =>
       /\ SureOfDay(today) >= most => BudgetExceeded(p, [day |-> most])
       /\ SureOfMonth(ThisMonth) >= most => BudgetExceeded(p, [month |-> most])
=============================================================================

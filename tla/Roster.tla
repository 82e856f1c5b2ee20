------------------------------- MODULE Roster -------------------------------
(***************************************************************************)
(* The roster of employees (packages/employees, hr.py and registry.py;     *)
(* packages/cli, hr.py): one YAML file per employee, which the hr commands *)
(* read, change, truncate and write back, each in a process of its own and *)
(* without a lock, while a session of `ceo run` loads the files one after  *)
(* the other into a cache and assigns its subtask from it.                 *)
(*                                                                         *)
(* What a file says beyond its employee's name is the set of the training  *)
(* directives and, once the employee was fired, "archived".  Loaders and   *)
(* commands find no mapping in an empty file, nor in a garbled one: a text *)
(* that was written over a longer one.  ordered, lost, broken and, in an   *)
(* order, missed are history.                                              *)
(***************************************************************************)
EXTENDS Integers

CONSTANTS
  Staff,      \* the employees' ids, numbered in the order of the file names
  Directives, \* training directives
  Clerks      \* processes of the hr command

ASSUME StaffAssumption == Staff \subseteq Nat \ {0}

VARIABLES
  config,   \* the file of each employee
  order,    \* what each process is doing
  ordered,  \* what commands that have ended wrote about each employee
  lost,     \* what of it was lost to commands that had read the file before
  broken,   \* files left empty by a process that died, or garbled by two
  roster,   \* the session's cache: the status of each employee it has loaded
  unread,   \* the files it has not read yet
  assigned  \* the employee of its subtask; -1: no active employees

hrVars == <<config, order, ordered, lost, broken>>
loadVars == <<roster, unread, assigned>>
rosterVars == <<hrVars, loadVars>>

-----------------------------------------------------------------------------
Sayings == SUBSET (Directives \cup {"archived"})
Config(f, ss) == [form |-> f, says |-> ss]
Absent == Config("absent", {})
Empty == Config("empty", {})
Configs == [form : {"absent", "empty", "garbled", "whole"}, says : Sayings]

\* An order: employee, stage, what is to be written, what of it is new, and
\* what others wrote about the employee since the file was read.
Orders == [of : Staff \cup {0}, at : {"idle", "read", "truncated"},
           new : Configs, adds : Sayings, missed : Sayings]
NoOrder == [of |-> 0, at |-> "idle", new |-> Absent, adds |-> {}, missed |-> {}]

RosterTypeOK ==
  /\ config \in [Staff -> Configs]
  /\ order \in [Clerks -> Orders]
  /\ ordered \in [Staff -> Sayings] /\ lost \in [Staff -> Sayings]
  /\ broken \subseteq Staff
  /\ roster \in [Staff -> {"unknown", "active", "archived"}]
  /\ unread \subseteq Staff
  /\ assigned \in Staff \cup {0, -1}

RosterInit ==
  /\ config = [e \in Staff |-> Absent]
  /\ order = [c \in Clerks |-> NoOrder]
  /\ ordered = [e \in Staff |-> {}] /\ lost = [e \in Staff |-> {}] /\ broken = {}
  /\ roster = [e \in Staff |-> "unknown"] /\ unread = Staff /\ assigned = 0

(* ---- the hr commands: test and read, truncate, write ---- *)

Take(c, e, says, adds) ==
  /\ order[c] = NoOrder
  /\ order' = [order EXCEPT ![c] =
                 [of |-> e, at |-> "read", new |-> Config("whole", says), adds |-> adds,
                  missed |-> {}]]
  /\ UNCHANGED <<config, ordered, lost, broken, loadVars>>

\* Mutant: an existing configuration is replaced.
HireAnyway(c, e, base) == Take(c, e, config[base].says \ {"archived"}, {})

\* hire, cloning base if its file exists (base = e: no base).
Hire(c, e, base) ==
  /\ config[e].form = "absent" /\ config[base].form \in {"absent", "whole"}
  /\ Take(c, e, config[base].says \ {"archived"}, {})

Fire(c, e) ==
  /\ config[e].form = "whole"
  /\ Take(c, e, config[e].says \cup {"archived"}, {"archived"})

Train(c, e, d) ==
  /\ config[e].form = "whole"
  /\ Take(c, e, config[e].says \cup {d}, {d})

\* write_text: open for writing, then write.
Truncate(c) ==
  /\ order[c].at = "read"
  /\ config' = [config EXCEPT ![order[c].of] = Empty]
  /\ order' = [order EXCEPT ![c].at = "truncated"]
  /\ UNCHANGED <<ordered, lost, broken, loadVars>>

WriteBack(c) ==
  LET o == order[c] IN
  /\ o.at = "truncated"
  /\ \/ config' = [config EXCEPT ![o.of] = o.new] /\ UNCHANGED broken
     \* Another command has written since, and more.
     \/ /\ config[o.of].form # "empty"
        /\ config' = [config EXCEPT ![o.of] = Config("garbled", {})]
        /\ broken' = broken \cup {o.of}
  /\ ordered' = [ordered EXCEPT ![o.of] = @ \cup o.adds]
  /\ lost' = [lost EXCEPT ![o.of] = (@ \cup o.missed) \ o.adds]
  /\ order' = [d \in Clerks |->
       IF d = c THEN NoOrder
       ELSE IF order[d].of = o.of THEN [order[d] EXCEPT !.missed = @ \cup o.adds]
       ELSE order[d]]
  /\ UNCHANGED loadVars

ClerkDies(c) ==
  /\ order[c] # NoOrder
  /\ broken' = IF order[c].at = "truncated" THEN broken \cup {order[c].of} ELSE broken
  /\ order' = [order EXCEPT ![c] = NoOrder]
  /\ UNCHANGED <<config, ordered, lost, loadVars>>

(* ---- the session: _load, _check_roster, _assign_employee ---- *)

Load(e) ==
  /\ e \in unread /\ \A f \in unread : e <= f
  /\ unread' = unread \ {e}
  /\ roster' = [roster EXCEPT ![e] =
       IF config[e].form # "whole" THEN "unknown"
       ELSE IF "archived" \in config[e].says THEN "archived" ELSE "active"]
  /\ UNCHANGED <<hrVars, assigned>>

\* The first of list_active(), in the order of the files; -1 if there is none.
FirstActive ==
  IF \A e \in Staff : roster[e] # "active" THEN -1
  ELSE CHOOSE e \in Staff : /\ roster[e] = "active"
                            /\ \A f \in Staff : roster[f] = "active" => e <= f

\* Mutant: the model's answer is taken as it is.
ChoiceUnchecked(answer) == IF FirstActive = -1 THEN -1 ELSE answer

\* _check_roster refuses; else the model's answer if the registry has it (it
\* need not be active).
Choice(answer) ==
  IF FirstActive = -1 \/ roster[answer] = "unknown" THEN FirstActive ELSE answer

AssignEmployee(answer) ==
  /\ unread = {} /\ assigned = 0
  /\ assigned' = Choice(answer)
  /\ UNCHANGED <<hrVars, roster, unread>>

ClerkStep(c) ==
  \/ \E e \in Staff : Fire(c, e) \/ (\E d \in Directives : Train(c, e, d))
                        \/ (\E base \in Staff : Hire(c, e, base))
  \/ Truncate(c) \/ WriteBack(c) \/ ClerkDies(c)

RosterNext ==
  \/ \E c \in Clerks : ClerkStep(c)
  \/ \E e \in Staff : Load(e) \/ AssignEmployee(e)

RosterSpec == RosterInit /\ [][RosterNext]_rosterVars

-----------------------------------------------------------------------------
\* However commands overlap on an employee and wherever they die, what was
\* ordered stays ordered but for the lost updates: a file that can be read says
\* every directive the employee was trained in, and a dismissal is not undone,
\* unless it was written between the reading and the writing of another command.
\* A file that cannot be read has a command in its write, or one has died in
\* it, or it was garbled by two.
OrdersAreKept ==
  \A e \in Staff :
    /\ config[e].form = "whole" => ordered[e] \ lost[e] \subseteq config[e].says
    /\ config[e].form \in {"empty", "garbled"} =>
         e \in broken \/ \E c \in Clerks : order[c].of = e /\ order[c].at = "truncated"

\* The employee a subtask is assigned to has a configuration in the session's
\* cache, whatever the model answered and whatever was torn or missing when
\* the files were read.
AssigneeIsKnown == assigned > 0 => roster[assigned] # "unknown"

\* The files say what was ordered, and a session that reads them in the middle
\* of it works with employees it has read.
RosterIsRight == OrdersAreKept /\ AssigneeIsKnown
=============================================================================

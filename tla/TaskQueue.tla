----------------------------- MODULE TaskQueue -----------------------------
(***************************************************************************)
(* The CEO's queue of stand-alone tasks: `ceo enqueue` and `ceo dispatch`  *)
(* (packages/employees, orchestrator.dispatch and state.py).  Every        *)
(* dispatch is a CLI process of its own; the processes share only ceo.db.  *)
(* A process takes the next pending task, or the task with a given id      *)
(* whatever its status, runs it with one retry, and writes the verdict.    *)
(***************************************************************************)
EXTENDS Integers, Sequences, FiniteSets

CONSTANTS
  Tasks,       \* the tasks users may enqueue
  Procs,       \* the `ceo dispatch` processes, each dispatching once
  Priority,    \* the priority each task is enqueued with
  ById,        \* users may name a task instead of taking the next (BOOLEAN)
  MayOverlap,  \* processes may run at the same time (BOOLEAN)
  MayFail      \* processes may raise or be killed (BOOLEAN)

ASSUME PriorityAssumption == Priority \in [Tasks -> Int]
ASSUME ModesAssumption ==
  ById \in BOOLEAN /\ MayOverlap \in BOOLEAN /\ MayFail \in BOOLEAN

VARIABLES
  status,   \* tasks.status; "absent" before the INSERT
  created,  \* the tasks in the order of created_at
  rows,     \* executions.status of each process and attempt; "none": no row
  task,     \* the tasks the process has picked: {} or one task
  pc, attempt, success

dbVars == <<status, created, rows>>
vars == <<dbVars, task, pc, attempt, success>>

-----------------------------------------------------------------------------
Attempts == {1, 2}

TypeOK ==
  /\ status \in [Tasks -> {"absent", "pending", "in_progress",
                           "completed", "escalated"}]
  /\ created \in Seq(Tasks)
  /\ rows \in [Procs \X Attempts -> {"none", "running", "completed", "failed"}]
  /\ task \in [Procs -> SUBSET Tasks]
  /\ pc \in [Procs -> {"idle", "picked", "claimed", "dispatching", "ran",
                       "recorded", "closed", "over", "dead"}]
  /\ attempt \in [Procs -> Attempts]
  /\ success \in [Procs -> BOOLEAN]

\* list_pending_tasks: the rows it selects, and the order it lists them in.
ListPending == {t \in Tasks : status[t] = "pending"}

\* Mutant: the newest task of a priority first.
BeforeOlder(t, u) ==
  \/ Priority[t] > Priority[u]
  \/ /\ Priority[t] = Priority[u]
     /\ \E i, j \in DOMAIN created : i >= j /\ created[i] = t /\ created[j] = u

Before(t, u) ==
  \/ Priority[t] > Priority[u]
  \/ /\ Priority[t] = Priority[u]
     /\ \E i, j \in DOMAIN created : i <= j /\ created[i] = t /\ created[j] = u

Running(p) == pc[p] \notin {"idle", "over", "dead"}

-----------------------------------------------------------------------------
Init ==
  /\ status = [t \in Tasks |-> "absent"] /\ created = <<>>
  /\ rows = [e \in Procs \X Attempts |-> "none"]
  /\ task = [p \in Procs |-> {}]
  /\ pc = [p \in Procs |-> "idle"]
  /\ attempt = [p \in Procs |-> 1]
  /\ success = [p \in Procs |-> FALSE]

Enqueue(t) ==
  /\ status[t] = "absent"
  /\ status' = [status EXCEPT ![t] = "pending"]
  /\ created' = Append(created, t)
  /\ UNCHANGED <<rows, task, pc, attempt, success>>

\* The SELECT of a starting process: the first pending task, or the one asked
\* for, which only has to exist.
Pick(p, t) ==
  /\ pc[p] = "idle"
  /\ MayOverlap \/ \A q \in Procs : ~Running(q)
  /\ \/ t \in ListPending /\ \A u \in ListPending : Before(t, u)
     \/ ById /\ status[t] # "absent"
  /\ task' = [task EXCEPT ![p] = {t}]
  /\ pc' = [pc EXCEPT ![p] = "picked"]
  /\ UNCHANGED <<dbVars, attempt, success>>

\* The UPDATE that follows, in a statement of its own and unconditional.
Claim(p) ==
  /\ pc[p] = "picked"
  /\ status' = [t \in Tasks |->
                  IF t \in task[p] THEN "in_progress" ELSE status[t]]
  /\ pc' = [pc EXCEPT ![p] = "claimed"]
  /\ UNCHANGED <<created, rows, task, attempt, success>>

Assign(p) ==
  /\ pc[p] = "claimed"
  /\ pc' = [pc EXCEPT ![p] = "dispatching"]
  /\ UNCHANGED <<dbVars, task, attempt, success>>

DispatchReturns(p, ok) ==
  /\ pc[p] = "dispatching"
  /\ success' = [success EXCEPT ![p] = ok]
  /\ pc' = [pc EXCEPT ![p] = "ran"]
  /\ UNCHANGED <<dbVars, task, attempt>>

RecordExecution(p) ==
  /\ pc[p] = "ran"
  /\ rows' = [rows EXCEPT ![<<p, attempt[p]>>] = "running"]
  /\ pc' = [pc EXCEPT ![p] = "recorded"]
  /\ UNCHANGED <<status, created, task, attempt, success>>

\* Mutant: one attempt too many succeeds by default.
OutcomeLenient(p) ==
  IF success[p] \/ attempt[p] = 2 THEN "completed" ELSE "failed"

\* What update_execution closes the row with.
Outcome(p) == IF success[p] THEN "completed" ELSE "failed"

Retry(p) ==
  /\ pc[p] = "recorded" /\ ~success[p] /\ attempt[p] = 1
  /\ rows' = [rows EXCEPT ![<<p, 1>>] = Outcome(p)]
  /\ attempt' = [attempt EXCEPT ![p] = 2]
  /\ pc' = [pc EXCEPT ![p] = "dispatching"]
  /\ UNCHANGED <<status, created, task, success>>

CloseExecution(p) ==
  /\ pc[p] = "recorded" /\ (success[p] \/ attempt[p] = 2)
  /\ rows' = [rows EXCEPT ![<<p, attempt[p]>>] = Outcome(p)]
  /\ pc' = [pc EXCEPT ![p] = "closed"]
  /\ UNCHANGED <<status, created, task, attempt, success>>

\* Mutant: a failure is not written.
VerdictOfSuccess(p, t) == IF success[p] THEN "completed" ELSE status[t]

Verdict(p, t) == IF success[p] THEN "completed" ELSE "escalated"

SettleTask(p) ==
  /\ pc[p] = "closed"
  /\ status' = [t \in Tasks |-> IF t \in task[p] THEN Verdict(p, t)
                                ELSE status[t]]
  /\ pc' = [pc EXCEPT ![p] = "over"]
  /\ UNCHANGED <<created, rows, task, attempt, success>>

\* An exception or a kill anywhere: the task stays as it is.
Die(p) ==
  /\ MayFail /\ Running(p)
  /\ pc' = [pc EXCEPT ![p] = "dead"]
  /\ UNCHANGED <<dbVars, task, attempt, success>>

Work(p) ==
  \/ Claim(p) \/ Assign(p)
  \/ \E ok \in BOOLEAN : DispatchReturns(p, ok)
  \/ RecordExecution(p) \/ Retry(p) \/ CloseExecution(p) \/ SettleTask(p)

Next ==
  \/ \E t \in Tasks : Enqueue(t)
  \/ \E p \in Procs : (\E t \in Tasks : Pick(p, t)) \/ Work(p) \/ Die(p)

Spec == Init /\ [][Next]_vars

\* A process that has picked a task goes on by itself: its codex calls are
\* bounded by their timeout.  Users and failures owe nothing.
FairSpec == Spec /\ \A p \in Procs : WF_vars(Work(p))
-----------------------------------------------------------------------------
(* Safety *)

\* A verdict in the task's row is backed by execution rows of one process that
\* had picked the task: a success, or two failures.  This holds however many
\* processes overlap on one task, die, or take settled tasks again.
VerdictHasEvidence ==
  \A t \in Tasks :
    /\ status[t] = "completed" =>
         \E p \in Procs : t \in task[p] /\ \E a \in Attempts :
            rows[<<p, a>>] = "completed"
    /\ status[t] = "escalated" =>
         \E p \in Procs : t \in task[p] /\ \A a \in Attempts :
            rows[<<p, a>>] = "failed"

\* Processes that do not overlap never run one task twice, even if some of
\* them die in the middle.
EachTaskOnce ==
  \A p, q \in Procs :
    task[p] \cap task[q] # {} /\ rows[<<p, 1>>] # "none" /\ rows[<<q, 1>>] # "none"
      => p = q

\* Tasks of one priority are taken in the order in which they were enqueued:
\* none is picked while an older one still waits, however the others end.
OldestFirst ==
  \A i, j \in DOMAIN created :
    i < j /\ Priority[created[i]] = Priority[created[j]]
          /\ (\E p \in Procs : created[j] \in task[p])
      => \E p \in Procs : created[i] \in task[p]

(* Refinement *)

\* The processes at work that have picked t, and what has become of it.
Hands(t) == {p \in Procs : t \in task[p] /\ Running(p)}

Phase(t) ==
  IF status[t] = "pending" THEN IF Hands(t) = {} THEN "waiting" ELSE "taken"
  ELSE IF status[t] # "in_progress" THEN status[t]
  ELSE IF Hands(t) = {} THEN "lost"
  ELSE IF \E p \in Hands(t) : rows[<<p, 1>>] # "none" THEN "running"
  ELSE "taken"

FailedOf(t) ==
  {a \in Attempts : \E p \in Procs : t \in task[p] /\ rows[<<p, a>>] = "failed"}

Contract == INSTANCE TaskContract WITH
              arrived <- created,
              phase <- [t \in Tasks |-> Phase(t)],
              failed <- [t \in Tasks |-> FailedOf(t)]

\* Dispatches that take the next task one after the other implement the
\* contract, though they select and claim in two statements, write the verdict
\* and the rows in others, and may die between any two of them.
ImplementsContract == Contract!Spec

(* Liveness *)

\* A claimed task gets its verdict, whatever other processes do with it,
\* unless one of those that had picked it dies.
ClaimedIsSettled ==
  \A t \in Tasks :
    status[t] = "in_progress"
      ~> \/ status[t] \in {"completed", "escalated"}
         \/ \E p \in Procs : t \in task[p] /\ pc[p] = "dead"
=============================================================================

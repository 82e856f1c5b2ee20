--------------------------- MODULE GoalExecution ---------------------------
(***************************************************************************)
(* One goal of the CEO orchestrator, from `ceo run` through any number of  *)
(* `ceo resume`s (packages/employees, orchestrator.py and state.py).       *)
(*                                                                         *)
(* Durable state: the goal row and the execution rows of ceo.db, and the   *)
(* plan markdown with one check box per subtask.  Volatile state: the one  *)
(* CLI process that works on the goal, and in it one coroutine per subtask *)
(* started by asyncio.gather.  Every step of a coroutine ends at an await, *)
(* so the coroutines interleave at exactly the actions below.              *)
(*                                                                         *)
(* Subtasks are their positions 1..N in the decomposition.  Employees,     *)
(* prompts and outputs are abstracted away; which employee is chosen does  *)
(* not influence the control modelled here.                                *)
(***************************************************************************)
EXTENDS Integers, FiniteSets

CONSTANTS
  N,         \* number of subtasks the decomposition returned
  MaxRuns,   \* bound: `ceo run` counts as run 1, every resume adds one
  MayCrash,  \* the process may be killed (BOOLEAN)
  MayRaise   \* a reasoning, database or exec call may raise (BOOLEAN)

ASSUME NAssumption == N \in Nat \ {0}
ASSUME MaxRunsAssumption == MaxRuns \in Nat \ {0}
ASSUME FlagsAssumption == MayCrash \in BOOLEAN /\ MayRaise \in BOOLEAN

Subtasks == 1..N
Attempts == {1, 2}
Executions == (1..MaxRuns) \X Subtasks \X Attempts

VARIABLES
  (* durable: ceo.db *)
  goalStatus,      \* goals.status; "none" before the row is inserted
  planPath,        \* has goals.plan_path been set (it is inserted as "")
  rows,            \* executions.status of each attempt; "none" = no such row
  (* durable: the plan file *)
  planFile,        \* "absent", "written", or "empty" (cut off by a crash)
  planStatus,      \* what its "Status:" line says
  checked,         \* positions of its checked boxes
  (* the process *)
  run,             \* number of the current or last process; 0 before `ceo run`
  phase,           \* where run/resume/_execute_plan is; "down": no process
  remaining,       \* the subtasks this process was asked to execute
  completedCount,  \* completed_count, the base of the box indexes
  assigned,        \* the subtasks assigned so far
  (* the coroutines, one _run_subtask per subtask *)
  pc, attempt, success

dbVars == <<goalStatus, planPath, rows>>
planVars == <<planFile, planStatus, checked>>
processVars == <<run, remaining, completedCount, assigned>>
coroutineVars == <<pc, attempt, success>>
vars == <<dbVars, planVars, processVars, phase, coroutineVars>>

-----------------------------------------------------------------------------
(* Types *)

GoalStatus == {"none", "planning", "executing", "completed", "escalated"}
RowStatus == {"none", "running", "completed", "failed"}
Phases == {"down", "decomposing", "created", "planned", "pathed",
           "assigning", "running", "settling", "raising"}
Locations == {"idle", "dispatching", "ran", "recorded", "committed",
              "completed", "escalated", "raised"}

TypeOK ==
  /\ goalStatus \in GoalStatus
  /\ planPath \in BOOLEAN
  /\ rows \in [Executions -> RowStatus]
  /\ planFile \in {"absent", "written", "empty"}
  /\ planStatus \in GoalStatus
  /\ checked \in SUBSET Subtasks
  /\ run \in 0..MaxRuns
  /\ phase \in Phases
  /\ remaining \in SUBSET Subtasks
  /\ completedCount \in 0..N
  /\ assigned \in SUBSET Subtasks
  /\ pc \in [Subtasks -> Locations]
  /\ attempt \in [Subtasks -> Attempts]
  /\ success \in [Subtasks -> BOOLEAN]

-----------------------------------------------------------------------------
(* State functions *)

\* _parse_remaining_subtasks: what the plan file still shows unchecked.
Unchecked == IF planFile = "written" THEN Subtasks \ checked ELSE {}

\* The row a coroutine holds as exec_id.
Row(k) == <<run, k, attempt[k]>>

\* Mutants: an index counted one too high; boxes taken in order of completion.
BoxOneTooHigh(k) == completedCount + Cardinality({j \in remaining : j <= k}) + 1
BoxByArrival(k) == completedCount + Cardinality(checked) + 1

\* The 1-based index _execute_plan gives the k-th subtask: completed_count
\* plus its place among the remaining ones, which are in file order.
BoxOf(k) == completedCount + Cardinality({j \in remaining : j <= k})

\* Mutants: the plan as read before the gather, with the box checked; all the
\* boxes up to the index.
WithBoxOfStale(k) == (Subtasks \ remaining) \cup {BoxOf(k)}
WithBoxesUpTo(k) == checked \cup 1..BoxOf(k)

\* _update_plan_subtask: the file with the box at that index checked.  The
\* index counts the boxes of the whole file, checked or not, and a box that is
\* already checked is left alone.
WithBox(k) == checked \cup {BoxOf(k)}

\* Mutant: the first result ends the gather.
FirstReturned == \E k \in remaining : pc[k] \in {"completed", "escalated"}

\* Every coroutine of the gather has returned its SubtaskResult.
AllReturned == \A k \in remaining : pc[k] \in {"completed", "escalated"}

\* Mutants: escalated only if all are; nothing written for an escalation; the
\* verdict taken from all the rows of the goal.
VerdictOfAll ==
  IF \A k \in remaining : pc[k] = "escalated" THEN "escalated" ELSE "completed"
VerdictOfSuccess ==
  IF \E k \in remaining : pc[k] = "escalated" THEN goalStatus ELSE "completed"
VerdictOfRows ==
  IF \E e \in Executions : e[3] = 2 /\ rows[e] = "failed"
  THEN "escalated" ELSE "completed"

\* any_escalated decides the final status.
Verdict ==
  IF \E k \in remaining : pc[k] = "escalated" THEN "escalated" ELSE "completed"

\* Mutant: only success is written to the row.
UpdateExecutionOnSuccess(k, status) ==
  rows' = IF status = "failed" THEN rows ELSE [rows EXCEPT ![Row(k)] = status]

\* update_execution: one committed UPDATE of the coroutine's own row.
UpdateExecution(k, status) == rows' = [rows EXCEPT ![Row(k)] = status]

\* update_goal(status="executing"), then _execute_plan with these arguments.
ExecutePlan(todo, done) ==
  /\ goalStatus' = "executing"
  /\ remaining' = todo /\ completedCount' = done /\ assigned' = {}
  /\ phase' = "assigning"

\* The subtasks that have ever had a successful execution.
Done == {k \in Subtasks :
            \E e \in Executions : e[2] = k /\ rows[e] = "completed"}

CompletedRows == {e \in Executions : rows[e] = "completed"}

\* Subtasks that the current (or last) process completed.
DoneInRun == {k \in remaining : \E a \in Attempts :
                /\ <<run, k, a>> \in Executions
                /\ rows[<<run, k, a>>] = "completed"}

Live == phase \in {"running", "raising"}  \* the event loop runs coroutines

-----------------------------------------------------------------------------
Init ==
  /\ goalStatus = "none" /\ planPath = FALSE
  /\ rows = [e \in Executions |-> "none"]
  /\ planFile = "absent" /\ planStatus = "none" /\ checked = {}
  /\ run = 0 /\ phase = "down"
  /\ remaining = {} /\ completedCount = 0 /\ assigned = {}
  /\ pc = [k \in Subtasks |-> "idle"]
  /\ attempt = [k \in Subtasks |-> 1]
  /\ success = [k \in Subtasks |-> FALSE]

(* ---- run(): decompose, then create the goal and its plan ---- *)

StartRun ==
  /\ phase = "down" /\ run = 0
  /\ run' = 1
  /\ phase' = "decomposing"
  /\ UNCHANGED <<dbVars, planVars, remaining, completedCount, assigned,
                 coroutineVars>>

\* The decomposition was a non-empty list; create_goal(plan_path="") commits.
CreateGoal ==
  /\ phase = "decomposing"
  /\ goalStatus' = "planning"
  /\ phase' = "created"
  /\ UNCHANGED <<planPath, rows, planVars, processVars, coroutineVars>>

WritePlan ==
  /\ phase = "created"
  /\ planFile' = "written" /\ planStatus' = "executing" /\ checked' = {}
  /\ phase' = "planned"
  /\ UNCHANGED <<dbVars, processVars, coroutineVars>>

UpdateGoalPlanPath ==
  /\ phase = "planned"
  /\ planPath' = TRUE
  /\ phase' = "pathed"
  /\ UNCHANGED <<goalStatus, rows, planVars, processVars, coroutineVars>>

StartExecuting ==
  /\ phase = "pathed"
  /\ ExecutePlan(Subtasks, 0)
  /\ UNCHANGED <<planPath, rows, planVars, run, coroutineVars>>

(* ---- resume(): no test of the goal's status, only of the plan file ---- *)

Resume ==
  /\ phase = "down" /\ run \in 1..(MaxRuns - 1)
  /\ goalStatus # "none" /\ planPath
  /\ Unchecked # {}
  /\ run' = run + 1
  /\ ExecutePlan(Unchecked, Cardinality(checked))
  /\ UNCHANGED <<planPath, rows, planVars, coroutineVars>>

(* ---- _execute_plan: assign one after the other, then gather ---- *)

Assign(k) ==
  /\ phase = "assigning"
  /\ k \in remaining \ assigned
  /\ \A j \in remaining \ assigned : k <= j
  /\ assigned' = assigned \cup {k}
  /\ UNCHANGED <<dbVars, planVars, run, remaining, completedCount, phase,
                 coroutineVars>>

Gather ==
  /\ phase = "assigning"
  /\ assigned = remaining
  /\ phase' = "running"
  /\ pc' = [k \in Subtasks |->
              IF k \in remaining THEN "dispatching" ELSE "idle"]
  /\ UNCHANGED <<dbVars, planVars, processVars, attempt, success>>

(* ---- _run_subtask, one coroutine per remaining subtask ---- *)

\* The sub-agent of attempt[k] returned (exit code 0 and no timeout, or not).
DispatchReturns(k, ok) ==
  /\ Live /\ pc[k] = "dispatching"
  /\ success' = [success EXCEPT ![k] = ok]
  /\ pc' = [pc EXCEPT ![k] = "ran"]
  /\ UNCHANGED <<dbVars, planVars, processVars, phase, attempt>>

\* record_execution is called only now, after the sub-agent has finished.
RecordExecution(k) ==
  /\ Live /\ pc[k] = "ran"
  /\ rows' = [rows EXCEPT ![Row(k)] = "running"]
  /\ pc' = [pc EXCEPT ![k] = "recorded"]
  /\ UNCHANGED <<goalStatus, planPath, planVars, processVars, phase,
                 attempt, success>>

Retry(k) ==
  /\ Live /\ pc[k] = "recorded" /\ ~success[k] /\ attempt[k] = 1
  /\ UpdateExecution(k, "failed")
  /\ attempt' = [attempt EXCEPT ![k] = 2]
  /\ pc' = [pc EXCEPT ![k] = "dispatching"]
  /\ UNCHANGED <<goalStatus, planPath, planVars, processVars, phase, success>>

Escalate(k) ==
  /\ Live /\ pc[k] = "recorded" /\ ~success[k] /\ attempt[k] = 2
  /\ UpdateExecution(k, "failed")
  /\ pc' = [pc EXCEPT ![k] = "escalated"]
  /\ UNCHANGED <<goalStatus, planPath, planVars, processVars, phase,
                 attempt, success>>

CompleteExecution(k) ==
  /\ Live /\ pc[k] = "recorded" /\ success[k]
  /\ UpdateExecution(k, "completed")
  /\ pc' = [pc EXCEPT ![k] = "committed"]
  /\ UNCHANGED <<goalStatus, planPath, planVars, processVars, phase,
                 attempt, success>>

UpdatePlanSubtask(k) ==
  /\ Live /\ pc[k] = "committed"
  /\ checked' = WithBox(k)
  /\ pc' = [pc EXCEPT ![k] = "completed"]
  /\ UNCHANGED <<dbVars, planFile, planStatus, processVars, phase,
                 attempt, success>>

(* ---- after the gather ---- *)

SettleGoal ==
  /\ phase = "running"
  /\ AllReturned
  /\ goalStatus' = Verdict
  /\ phase' = "settling"
  /\ UNCHANGED <<planPath, rows, planVars, processVars, coroutineVars>>

\* What the end of the process takes with it.
LoseProcess ==
  /\ phase' = "down"
  /\ pc' = [k \in Subtasks |-> "idle"]
  /\ attempt' = [k \in Subtasks |-> 1]
  /\ success' = [k \in Subtasks |-> FALSE]
  /\ UNCHANGED processVars

\* _update_plan_status replaces the text "Status: executing", if it is there.
UpdatePlanStatus ==
  /\ phase = "settling"
  /\ planStatus' = IF planStatus = "executing" THEN goalStatus ELSE planStatus
  /\ UNCHANGED <<dbVars, planFile, checked>>
  /\ LoseProcess

(* ---- failures ---- *)

\* The decomposition (twice unparsable, not a list, empty), an entry of it
\* without a description, an assignment or a database call raises in the
\* driver itself: nothing is undone.
DriverRaises ==
  /\ MayRaise
  /\ \/ phase \in {"decomposing", "created", "planned", "pathed", "assigning"}
     \/ phase = "running" /\ AllReturned
  /\ phase' = "raising"
  /\ UNCHANGED <<dbVars, planVars, processVars, coroutineVars>>

\* A coroutine raises.  gather passes the first exception on at once and
\* leaves the siblings running until the CLI has closed down the loop.
SubtaskRaises(k) ==
  /\ MayRaise /\ Live
  /\ pc[k] \in {"dispatching", "ran", "recorded", "committed"}
  /\ pc' = [pc EXCEPT ![k] = "raised"]
  /\ phase' = "raising"
  /\ UNCHANGED <<dbVars, planVars, processVars, attempt, success>>

ProcessEnds ==
  /\ phase = "raising"
  /\ UNCHANGED <<dbVars, planVars>>
  /\ LoseProcess

Crash ==
  /\ MayCrash /\ phase # "down"
  /\ UNCHANGED <<dbVars, planVars>>
  /\ LoseProcess

\* The plan is rewritten with write_text, which truncates the file first.
CrashInWrite ==
  /\ MayCrash
  /\ \/ phase \in {"created", "settling"}
     \/ Live /\ \E k \in Subtasks : pc[k] = "committed"
  /\ planFile' = "empty" /\ planStatus' = "none" /\ checked' = {}
  /\ UNCHANGED dbVars
  /\ LoseProcess

-----------------------------------------------------------------------------
Coroutine(k) ==
  \/ \E ok \in BOOLEAN : DispatchReturns(k, ok)
  \/ RecordExecution(k)
  \/ Retry(k)
  \/ Escalate(k)
  \/ CompleteExecution(k)
  \/ UpdatePlanSubtask(k)

Driver ==
  \/ CreateGoal \/ WritePlan \/ UpdateGoalPlanPath \/ StartExecuting
  \/ \E k \in Subtasks : Assign(k)
  \/ Gather \/ SettleGoal \/ UpdatePlanStatus \/ ProcessEnds

Next ==
  \/ StartRun \/ Resume
  \/ Driver
  \/ \E k \in Subtasks : Coroutine(k) \/ SubtaskRaises(k)
  \/ DriverRaises \/ Crash \/ CrashInWrite

Spec == Init /\ [][Next]_vars

\* A live process runs on: the event loop schedules every ready coroutine,
\* each codex call is bounded by its timeout, and no await of the driver
\* waits for another party.  The user (StartRun, Resume) and the failures
\* owe nothing.
Fairness ==
  /\ WF_vars(Driver)
  /\ \A k \in Subtasks : WF_vars(Coroutine(k))

FairSpec == Spec /\ Fairness
-----------------------------------------------------------------------------
(* Safety *)

\* A second attempt has a row only after the first attempt's row was closed
\* as failed: _run_subtask retries once, on failure, in every interleaving of
\* the coroutines and across crashes and resumes.
RetriesFollowFailures ==
  \A r \in 1..MaxRuns, k \in Subtasks :
     rows[<<r, k, 2>>] # "none" => rows[<<r, k, 1>>] = "failed"

\* The goal row says "escalated" only if in the process that settled it some
\* subtask failed twice, and "completed" only if that process completed every
\* subtask it was asked to execute (_execute_plan's summary of the gather).
VerdictHasEvidence ==
  /\ goalStatus = "escalated" =>
       \E k \in remaining : \A a \in Attempts : rows[<<run, k, a>>] = "failed"
  /\ goalStatus = "completed" => DoneInRun = remaining

\* No box is checked on credit: there are never more checked boxes than
\* executions recorded as completed, since _run_subtask commits the row
\* before it touches the plan.
ChecksAreEarned == Cardinality(checked) <= Cardinality(CompletedRows)

\* Until the first resume the plan file is right: a checked box belongs to a
\* subtask that completed, a goal that completes leaves all boxes checked, and
\* a verdict in the file is the one in the database (_write_plan,
\* _update_plan_subtask and _update_plan_status under any order of completion
\* and any crash).
FirstRunPlanIsRight ==
  run <= 1 => /\ checked \subseteq Done
              /\ goalStatus = "completed" /\ planFile = "written"
                   => checked = Subtasks
              /\ planStatus \in {"completed", "escalated"}
                   => planStatus = goalStatus

\* An escalated goal can be resumed: its plan still shows an unchecked box,
\* whatever boxes earlier resumes have checked, so resume() does not refuse
\* it with "No remaining subtasks".
EscalatedIsResumable ==
  goalStatus = "escalated" /\ planFile = "written" => Unchecked # {}

(* Action properties *)

\* A row that was closed stays as it is; in particular a resume or a late
\* sibling never reopens or rewrites the record of an earlier attempt.
ClosedRowsAreFinal ==
  [][\A e \in Executions :
        rows[e] \in {"completed", "failed"} => rows'[e] = rows[e]]_rows

\* Progress in the plan is kept: short of a crash in the middle of a write, no
\* step, not even a resume, unchecks a box.
ChecksAreKept ==
  [][planFile' = "written" => checked \subseteq checked']_<<planFile, checked>>

(* Refinement *)

Contract == INSTANCE GoalContract WITH
              status <- goalStatus, todo <- remaining, finished <- DoneInRun

\* The processes, coroutines, rows and crashes implement the contract: each
\* step opens, advances or settles the goal as GoalContract allows, or leaves
\* it alone; in particular the summary of the gather is the true one.
ImplementsContract == Contract!Spec

(* Liveness *)

\* A goal under execution is settled, in the first run and in each resume,
\* unless an exception takes its process down: the gather waits for nothing
\* that a failed or escalated subtask would never deliver.
GoalSettles ==
  (goalStatus = "executing" /\ phase # "down")
    ~> (goalStatus \in {"completed", "escalated"} \/ phase = "raising")

-----------------------------------------------------------------------------
(* A claim of the documentation that the code does not keep *)

\* "Resume an escalated goal from last incomplete subtask": a goal that ends
\* as completed has all its subtasks completed.  Resume counts box indexes
\* from the number of checked boxes, which is wrong unless those are the first
\* ones of the file, so a box may stand for a subtask that never succeeded.
CompletedMeansAllDone == goalStatus = "completed" => Done = Subtasks
=============================================================================

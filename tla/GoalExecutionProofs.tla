------------------------ MODULE GoalExecutionProofs ------------------------
(***************************************************************************)
(* Proofs about GoalExecution for every number of subtasks, every number   *)
(* of runs, and with or without crashes and exceptions.                    *)
(***************************************************************************)
EXTENDS GoalExecution, FiniteSetTheorems, TLAPS

\* The parts that several actions share are expanded with them throughout.
USE DEF ExecutePlan, UpdateExecution, WithBox, AllReturned, Verdict

-----------------------------------------------------------------------------
(* The box indexes *)

\* The indexes that _execute_plan hands out lie inside the plan file: the
\* process starts with completedCount boxes checked and at most the other ones
\* remaining.
IndexInv ==
  /\ IsFiniteSet(remaining)
  /\ completedCount + Cardinality(remaining) <= N

\* Only the remaining subtasks have coroutines, and only after the gather.
WorkersInv ==
  /\ \A k \in Subtasks : pc[k] # "idle" => k \in remaining
  /\ phase \notin {"running", "raising", "settling"}
       => \A k \in Subtasks : pc[k] = "idle"

TypeInv == TypeOK /\ IndexInv /\ WorkersInv

LEMMA SubtasksFinite ==
  /\ IsFiniteSet(Subtasks) /\ Cardinality(Subtasks) = N
  /\ \A S \in SUBSET Subtasks : IsFiniteSet(S) /\ Cardinality(S) \in 0..N
<1>1. IsFiniteSet(1..N) /\ Cardinality(1..N) = N
  BY FS_Interval, NAssumption
<1>2. ASSUME NEW S \in SUBSET (1..N)
      PROVE  IsFiniteSet(S) /\ Cardinality(S) \in 0..N
  <2>1. IsFiniteSet(S) /\ Cardinality(S) <= N
    BY <1>1, FS_Subset
  <2>2. Cardinality(S) \in Nat
    BY <2>1, FS_CardinalityType
  <2>3. QED
    BY <2>1, <2>2, NAssumption
<1>3. QED
  BY <1>1, <1>2 DEF Subtasks

\* A resume gives out as many indexes as there are boxes after the checked ones.
LEMMA UncheckedCount ==
  ASSUME checked \in SUBSET Subtasks
  PROVE  /\ Unchecked \in SUBSET Subtasks
         /\ Cardinality(checked) + Cardinality(Unchecked) <= N
<1>1. Unchecked \in SUBSET Subtasks
  BY DEF Unchecked
<1>2. CASE planFile = "written"
  <2>1. Cardinality(Subtasks \ checked)
          = N - Cardinality(Subtasks \cap checked)
    BY SubtasksFinite, FS_Difference
  <2>2. Subtasks \cap checked = checked
    OBVIOUS
  <2>3. Cardinality(checked) \in 0..N
    BY SubtasksFinite
  <2>4. Unchecked = Subtasks \ checked
    BY <1>2 DEF Unchecked
  <2>5. Cardinality(Unchecked) = N - Cardinality(checked)
    BY <2>1, <2>2, <2>4, Zenon
  <2>6. QED
    BY <1>1, <2>3, <2>5, NAssumption
<1>3. CASE planFile # "written"
  <2>1. Unchecked = {}
    BY <1>3 DEF Unchecked
  <2>2. Cardinality(Unchecked) = 0
    BY <2>1, FS_EmptySet
  <2>3. Cardinality(checked) \in 0..N
    BY SubtasksFinite
  <2>4. QED
    BY <1>1, <2>2, <2>3, NAssumption
<1>4. QED
  BY <1>2, <1>3

\* The box a coroutine checks exists.
LEMMA BoxInFile ==
  ASSUME TypeInv, NEW k \in remaining
  PROVE  BoxOf(k) \in Subtasks
<1> DEFINE S == {j \in remaining : j <= k}
<1>1. S \in SUBSET remaining /\ k \in S
  BY DEF TypeInv, TypeOK, Subtasks
<1>2. /\ IsFiniteSet(S) /\ Cardinality(S) \in Nat
      /\ Cardinality(S) <= Cardinality(remaining)
  BY <1>1, FS_Subset, FS_CardinalityType DEF TypeInv, IndexInv
<1>3. Cardinality(S) # 0
  BY <1>1, <1>2, FS_EmptySet
<1>4. Cardinality(remaining) \in 0..N /\ completedCount \in 0..N
  BY SubtasksFinite DEF TypeInv, TypeOK
<1>5. BoxOf(k) = completedCount + Cardinality(S)
  BY DEF BoxOf
<1>6. QED
  BY <1>2, <1>3, <1>4, <1>5, NAssumption DEF TypeInv, IndexInv, Subtasks

-----------------------------------------------------------------------------
(* Type correctness *)

LEMMA TypeInit == Init => TypeInv
<1> SUFFICES ASSUME Init PROVE TypeInv
  OBVIOUS
<1>1. TypeOK
  <2>1. /\ rows \in [Executions -> RowStatus]
        /\ pc \in [Subtasks -> Locations]
        /\ attempt \in [Subtasks -> Attempts]
        /\ success \in [Subtasks -> BOOLEAN]
    BY DEF Init, RowStatus, Locations, Attempts
  <2>2. /\ checked \in SUBSET Subtasks /\ remaining \in SUBSET Subtasks
        /\ assigned \in SUBSET Subtasks
    BY DEF Init
  <2>3. run \in 0..MaxRuns /\ completedCount \in 0..N
    BY NAssumption, MaxRunsAssumption DEF Init
  <2>4. QED
    BY <2>1, <2>2, <2>3 DEF Init, TypeOK, GoalStatus, Phases
<1>2. IndexInv
  <2>1. IsFiniteSet(remaining) /\ Cardinality(remaining) = 0
    BY FS_EmptySet DEF Init
  <2>2. QED
    BY <2>1, NAssumption DEF Init, IndexInv
<1>3. WorkersInv
  BY DEF Init, WorkersInv
<1>4. QED
  BY <1>1, <1>2, <1>3 DEF TypeInv

LEMMA TypeStep == TypeInv /\ [Next]_vars => TypeInv'
<1> SUFFICES ASSUME TypeInv, [Next]_vars
             PROVE  TypeInv'
  OBVIOUS
<1> USE DEF TypeInv, TypeOK, GoalStatus, RowStatus, Phases, Locations,
            Attempts, dbVars, planVars, processVars, coroutineVars
<1>1. CASE StartRun
  BY <1>1, MaxRunsAssumption DEF StartRun, IndexInv, WorkersInv
<1>2. CASE Resume
  <2>1. /\ Unchecked \in SUBSET Subtasks
        /\ Cardinality(checked) + Cardinality(Unchecked) <= N
        /\ Cardinality(checked) \in 0..N
        /\ IsFiniteSet(Unchecked)
    BY UncheckedCount, SubtasksFinite
  <2>2. run' \in 0..MaxRuns
    BY <1>2, MaxRunsAssumption DEF Resume
  <2>3. QED
    BY <1>2, <2>1, <2>2 DEF Resume, IndexInv, WorkersInv
<1>3. CASE CreateGoal
  BY <1>3 DEF CreateGoal, IndexInv, WorkersInv
<1>4. CASE WritePlan
  BY <1>4 DEF WritePlan, IndexInv, WorkersInv
<1>5. CASE UpdateGoalPlanPath
  BY <1>5 DEF UpdateGoalPlanPath, IndexInv, WorkersInv
<1>6. CASE StartExecuting
  <2>1. IsFiniteSet(Subtasks) /\ 0 + Cardinality(Subtasks) <= N
    BY SubtasksFinite, NAssumption
  <2>2. QED
    BY <1>6, <2>1, NAssumption DEF StartExecuting, IndexInv, WorkersInv
<1>7. ASSUME NEW k \in Subtasks, Assign(k)
      PROVE  TypeInv'
  BY <1>7 DEF Assign, IndexInv, WorkersInv
<1>8. CASE Gather
  BY <1>8 DEF Gather, IndexInv, WorkersInv
<1>9. CASE SettleGoal
  BY <1>9 DEF SettleGoal, IndexInv, WorkersInv
<1>10. CASE UpdatePlanStatus
  BY <1>10 DEF UpdatePlanStatus, LoseProcess, IndexInv, WorkersInv
<1>11. CASE ProcessEnds
  BY <1>11 DEF ProcessEnds, LoseProcess, IndexInv, WorkersInv
<1>12. ASSUME NEW k \in Subtasks, Coroutine(k)
       PROVE  TypeInv'
  <2>1. ASSUME NEW ok \in BOOLEAN, DispatchReturns(k, ok)
        PROVE  TypeInv'
    BY <2>1 DEF DispatchReturns, IndexInv, WorkersInv
  <2>2. CASE RecordExecution(k)
    BY <2>2 DEF RecordExecution, IndexInv, WorkersInv
  <2>3. CASE Retry(k)
    BY <2>3 DEF Retry, IndexInv, WorkersInv
  <2>4. CASE Escalate(k)
    BY <2>4 DEF Escalate, IndexInv, WorkersInv
  <2>5. CASE CompleteExecution(k)
    BY <2>5 DEF CompleteExecution, IndexInv, WorkersInv
  <2>6. CASE UpdatePlanSubtask(k)
    <3>1. BoxOf(k) \in Subtasks
      BY <2>6, BoxInFile DEF UpdatePlanSubtask, WorkersInv
    <3>2. QED
      BY <2>6, <3>1 DEF UpdatePlanSubtask, IndexInv, WorkersInv
  <2>7. QED
    BY <1>12, <2>1, <2>2, <2>3, <2>4, <2>5, <2>6 DEF Coroutine
<1>13. ASSUME NEW k \in Subtasks, SubtaskRaises(k)
       PROVE  TypeInv'
  BY <1>13 DEF SubtaskRaises, IndexInv, WorkersInv
<1>14. CASE DriverRaises
  BY <1>14 DEF DriverRaises, IndexInv, WorkersInv
<1>15. CASE Crash
  BY <1>15 DEF Crash, LoseProcess, IndexInv, WorkersInv
<1>16. CASE CrashInWrite
  BY <1>16 DEF CrashInWrite, LoseProcess, IndexInv, WorkersInv
<1>17. CASE UNCHANGED vars
  BY <1>17 DEF vars, IndexInv, WorkersInv
<1>18. QED
  BY <1>1, <1>2, <1>3, <1>4, <1>5, <1>6, <1>7, <1>8, <1>9, <1>10, <1>11,
     <1>12, <1>13, <1>14, <1>15, <1>16, <1>17 DEF Next, Driver

\* Every state is well typed; the part that is more than types is that every
\* index handed to _update_plan_subtask is a box of the plan file.
THEOREM TypeCorrectness == Spec => []TypeOK
<1>1. Spec => []TypeInv
  BY TypeInit, TypeStep, PTL DEF Spec
<1>2. TypeInv => TypeOK
  BY DEF TypeInv
<1>3. QED
  BY <1>1, <1>2, PTL

-----------------------------------------------------------------------------
(* The discipline of the execution rows *)

Starting == {"decomposing", "created", "planned", "pathed", "assigning"}

\* Rows are only ever written by the current process, and it starts with none.
FreshRowsInv ==
  /\ run = 0 => phase = "down" /\ goalStatus = "none" /\ remaining = {}
  /\ \A r \in 1..MaxRuns, k \in Subtasks, a \in Attempts :
       r > run => rows[<<r, k, a>>] = "none"
  /\ phase \in Starting =>
       \A k \in Subtasks, a \in Attempts : rows[<<run, k, a>>] = "none"

\* What the rows of a coroutine look like at each of its locations.
Discipline(k) ==
  /\ attempt[k] = 1 => rows[<<run, k, 2>>] = "none"
  /\ attempt[k] = 2 => rows[<<run, k, 1>>] = "failed"
  /\ pc[k] \in {"dispatching", "ran"} => rows[Row(k)] = "none"
  /\ pc[k] = "recorded" => rows[Row(k)] = "running"
  /\ pc[k] \in {"committed", "completed"} => rows[Row(k)] = "completed"
  /\ pc[k] = "escalated" => attempt[k] = 2 /\ rows[Row(k)] = "failed"

CoroutineInv ==
  \A k \in Subtasks : IF pc[k] = "idle" THEN attempt[k] = 1 ELSE Discipline(k)

\* A verdict stands only while no coroutine runs.
VerdictInv ==
  goalStatus \in {"completed", "escalated"} => phase \in {"settling", "down"}

RowsInv == /\ FreshRowsInv /\ CoroutineInv /\ VerdictInv
           /\ RetriesFollowFailures /\ VerdictHasEvidence

IInv == TypeInv /\ RowsInv

LEMMA RowsInit == Init => RowsInv
<1> SUFFICES ASSUME Init PROVE RowsInv
  OBVIOUS
<1>1. \A r \in 1..MaxRuns, k \in Subtasks, a \in Attempts :
        rows[<<r, k, a>>] = "none"
  BY DEF Init, Executions
<1>2. FreshRowsInv
  BY <1>1 DEF Init, FreshRowsInv, Starting
<1>3. CoroutineInv /\ VerdictInv /\ VerdictHasEvidence
  BY DEF Init, CoroutineInv, VerdictInv, VerdictHasEvidence
<1>4. RetriesFollowFailures
  BY <1>1 DEF RetriesFollowFailures, Attempts
<1>5. QED
  BY <1>2, <1>3, <1>4 DEF RowsInv

\* A write to the row of one coroutine leaves the rows of all others alone.
LEMMA RowWrite ==
  ASSUME TypeOK, NEW k \in Subtasks, run # 0, NEW v \in RowStatus,
         rows' = [rows EXCEPT ![Row(k)] = v]
  PROVE  /\ rows'[Row(k)] = v
         /\ \A r \in 1..MaxRuns, j \in Subtasks, a \in Attempts :
              <<r, j, a>> # Row(k) => rows'[<<r, j, a>>] = rows[<<r, j, a>>]
<1>1. run \in 1..MaxRuns /\ attempt[k] \in Attempts
  BY MaxRunsAssumption DEF TypeOK
<1>2. Row(k) \in Executions
  BY <1>1 DEF Row, Executions
<1>3. \A e \in Executions : rows'[e] = IF e = Row(k) THEN v ELSE rows[e]
  BY <1>2 DEF TypeOK
<1>4. \A r \in 1..MaxRuns, j \in Subtasks, a \in Attempts :
        <<r, j, a>> \in Executions
  BY DEF Executions
<1>5. QED
  BY <1>2, <1>3, <1>4

\* The four steps of a coroutine that write its row.
RowWriter(k) == \/ RecordExecution(k) \/ Retry(k)
                \/ Escalate(k) \/ CompleteExecution(k)

LEMMA RowWriterStep ==
  ASSUME TypeInv, RowsInv, NEW k \in Subtasks, RowWriter(k)
  PROVE  RowsInv'
<1> USE DEF TypeInv, RowsInv
<1>1. /\ run \in 1..MaxRuns /\ attempt[k] \in Attempts
      /\ phase \in {"running", "raising"} /\ pc[k] \in {"ran", "recorded"}
      /\ goalStatus \notin {"completed", "escalated"}
      /\ UNCHANGED <<run, phase, remaining, goalStatus>>
  <2>1. /\ phase \in {"running", "raising"} /\ pc[k] \in {"ran", "recorded"}
        /\ UNCHANGED <<run, phase, remaining, goalStatus>>
    BY DEF RowWriter, RecordExecution, Retry, Escalate, CompleteExecution,
           Live, processVars
  <2>2. QED
    BY <2>1, MaxRunsAssumption DEF TypeOK, FreshRowsInv, VerdictInv
<1>2. Discipline(k)
  BY <1>1 DEF CoroutineInv
<1>3. PICK v \in RowStatus : rows' = [rows EXCEPT ![Row(k)] = v]
  BY DEF RowWriter, RecordExecution, Retry, Escalate, CompleteExecution,
         RowStatus
<1>4. /\ rows'[Row(k)] = v
      /\ \A r \in 1..MaxRuns, j \in Subtasks, a \in Attempts :
           <<r, j, a>> # Row(k) => rows'[<<r, j, a>>] = rows[<<r, j, a>>]
  <2>1. TypeOK /\ run # 0
    BY <1>1, MaxRunsAssumption
  <2>2. QED
    BY <1>3, <2>1, RowWrite
<1>5. rows[Row(k)] \in {"none", "running"}
      /\ Row(k) = <<run, k, attempt[k]>>
  BY <1>1, <1>2 DEF Discipline, RowWriter, RecordExecution, Retry, Escalate,
                    CompleteExecution, Row
<1>6. FreshRowsInv'
  BY <1>1, <1>4, <1>5 DEF FreshRowsInv, Starting
<1>7. Discipline(k)' /\ pc'[k] # "idle"
  <2>1. ASSUME NEW a \in Attempts
        PROVE  rows'[<<run, k, a>>] =
                 IF a = attempt[k] THEN v ELSE rows[<<run, k, a>>]
    BY <1>1, <1>4, <1>5
  <2>2. Row(k)' = <<run, k, attempt'[k]>>
    BY <1>1 DEF Row
  <2>3. CASE RecordExecution(k)
    <3>1. attempt' = attempt /\ pc'[k] = "recorded" /\ v = "running"
      BY <2>3, <1>3, <1>4, <1>1, <1>5 DEF RecordExecution, TypeOK, Executions
    <3>2. QED
      BY <3>1, <2>1, <2>2, <1>1, <1>2, <1>5 DEF Discipline, Attempts
  <2>4. CASE Retry(k)
    <3>1. attempt[k] = 1 /\ attempt'[k] = 2 /\ pc'[k] = "dispatching"
      BY <2>4 DEF Retry, TypeOK, Attempts
    <3>2. v = "failed"
      BY <2>4, <1>3, <1>4, <1>1, <1>5 DEF Retry, TypeOK, Executions
    <3>3. QED
      BY <3>1, <3>2, <2>1, <2>2, <1>1, <1>2, <1>5 DEF Discipline, Attempts
  <2>5. CASE Escalate(k)
    <3>1. attempt' = attempt /\ attempt[k] = 2 /\ pc'[k] = "escalated"
          /\ v = "failed"
      BY <2>5, <1>3, <1>4, <1>1, <1>5 DEF Escalate, TypeOK, Executions
    <3>2. QED
      BY <3>1, <2>1, <2>2, <1>1, <1>2, <1>5 DEF Discipline, Attempts
  <2>6. CASE CompleteExecution(k)
    <3>1. attempt' = attempt /\ pc'[k] = "committed" /\ v = "completed"
      BY <2>6, <1>3, <1>4, <1>1, <1>5 DEF CompleteExecution, TypeOK, Executions
    <3>2. QED
      BY <3>1, <2>1, <2>2, <1>1, <1>2, <1>5 DEF Discipline, Attempts
  <2>7. QED
    BY <2>3, <2>4, <2>5, <2>6 DEF RowWriter
<1>8. ASSUME NEW j \in Subtasks, j # k
      PROVE  IF pc'[j] = "idle" THEN attempt'[j] = 1 ELSE Discipline(j)'
  <2>1. pc'[j] = pc[j] /\ attempt'[j] = attempt[j] /\ attempt[j] \in Attempts
    BY <1>8 DEF RowWriter, RecordExecution, Retry, Escalate,
                CompleteExecution, TypeOK
  <2>2. \A a \in Attempts : rows'[<<run, j, a>>] = rows[<<run, j, a>>]
    BY <1>1, <1>4, <1>5, <1>8
  <2>3. QED
    BY <1>1, <2>1, <2>2 DEF CoroutineInv, Discipline, Row, Attempts
<1>9. CoroutineInv'
  BY <1>7, <1>8 DEF CoroutineInv
<1>10. RetriesFollowFailures'
  <2>1. SUFFICES ASSUME NEW r \in 1..MaxRuns, NEW j \in Subtasks,
                        rows'[<<r, j, 2>>] # "none"
                 PROVE  rows'[<<r, j, 1>>] = "failed"
    BY DEF RetriesFollowFailures
  <2>2. CASE r = run /\ j = k
    <3>1. /\ attempt'[k] = 1 => rows'[<<run, k, 2>>] = "none"
          /\ attempt'[k] = 2 => rows'[<<run, k, 1>>] = "failed"
      BY <1>1, <1>7 DEF Discipline
    <3>2. attempt'[k] \in {1, 2}
      BY <1>1 DEF RowWriter, RecordExecution, Retry, Escalate,
                  CompleteExecution, TypeOK, Attempts
    <3>3. QED
      BY <2>1, <2>2, <3>1, <3>2
  <2>3. CASE r # run \/ j # k
    BY <2>1, <2>3, <1>4, <1>5 DEF RetriesFollowFailures, Attempts
  <2>4. QED
    BY <2>2, <2>3
<1>11. VerdictInv' /\ VerdictHasEvidence'
  BY <1>1 DEF VerdictInv, VerdictHasEvidence
<1>12. QED
  BY <1>6, <1>9, <1>10, <1>11

\* Steps of a starting process: no rows of this run, no coroutines, no verdict.
LEMMA StartingStep ==
  ASSUME TypeInv, TypeInv', RowsInv, UNCHANGED <<rows, pc, attempt>>,
         phase' \in Starting, goalStatus' \notin {"completed", "escalated"},
         \/ phase \in Starting /\ run' = run
         \/ phase = "down" /\ run' = run + 1
  PROVE  RowsInv'
<1>1. run \in Nat /\ run' \in Nat
  BY MaxRunsAssumption DEF TypeInv, TypeOK
<1>2. \A k \in Subtasks : pc[k] = "idle" /\ attempt[k] = 1
  BY DEF TypeInv, WorkersInv, RowsInv, CoroutineInv, Starting
<1>3. FreshRowsInv'
  <2>1. run' # 0
    BY <1>1 DEF RowsInv, FreshRowsInv, Starting
  <2>2. ASSUME NEW r \in 1..MaxRuns, NEW k \in Subtasks, NEW a \in Attempts,
               r > run'
        PROVE  rows'[<<r, k, a>>] = "none"
    BY <1>1, <2>2 DEF RowsInv, FreshRowsInv
  <2>3. ASSUME NEW k \in Subtasks, NEW a \in Attempts
        PROVE  rows'[<<run', k, a>>] = "none"
    <3>1. CASE run' = run + 1
      <4>1. run' \in 1..MaxRuns /\ run' > run
        BY <1>1, <2>1, <3>1, MaxRunsAssumption DEF TypeInv, TypeOK
      <4>2. QED
        BY <1>1, <3>1, <4>1 DEF RowsInv, FreshRowsInv
    <3>2. CASE run' = run
      BY <1>1, <3>2 DEF RowsInv, FreshRowsInv
    <3>3. QED
      BY <3>1, <3>2
  <2>4. QED
    BY <2>1, <2>2, <2>3 DEF FreshRowsInv
<1>4. CoroutineInv'
  BY <1>2 DEF CoroutineInv
<1>5. RetriesFollowFailures' /\ VerdictInv' /\ VerdictHasEvidence'
  BY DEF RowsInv, RetriesFollowFailures, VerdictInv, VerdictHasEvidence
<1>6. QED
  BY <1>3, <1>4, <1>5 DEF RowsInv

\* The end of a process, in whatever way, changes neither rows nor verdict.
LEMMA LoseProcessStep ==
  ASSUME TypeInv, RowsInv, LoseProcess, UNCHANGED dbVars
  PROVE  RowsInv'
<1> USE DEF RowsInv, LoseProcess, dbVars, processVars
<1>1. FreshRowsInv'
  BY DEF FreshRowsInv, Starting
<1>2. CoroutineInv' /\ VerdictInv' /\ RetriesFollowFailures'
  BY DEF CoroutineInv, VerdictInv, RetriesFollowFailures
<1>3. DoneInRun' = DoneInRun
  BY DEF DoneInRun
<1>4. VerdictHasEvidence'
  BY <1>3 DEF VerdictHasEvidence
<1>5. QED
  BY <1>1, <1>2, <1>4

\* Steps that move one live coroutine and write no row.
LEMMA CoroutineMoves ==
  ASSUME TypeInv, RowsInv, NEW k \in Subtasks, Live, phase' \in {phase, "raising"},
         UNCHANGED <<rows, goalStatus, run, attempt>>,
         pc[k] # "idle", NEW l \in Locations, pc' = [pc EXCEPT ![k] = l],
         \/ pc[k] = "dispatching" /\ l = "ran"
         \/ pc[k] = "committed" /\ l = "completed"
         \/ l = "raised"
  PROVE  RowsInv'
<1>1. phase \in {"running", "raising"} /\ phase' \in {"running", "raising"}
  BY DEF Live
<1>2. FreshRowsInv'
  BY <1>1 DEF RowsInv, FreshRowsInv, Starting
<1>3. ASSUME NEW j \in Subtasks
      PROVE  IF pc'[j] = "idle" THEN attempt'[j] = 1 ELSE Discipline(j)'
  <2>1. pc'[j] = IF j = k THEN l ELSE pc[j]
    BY DEF TypeInv, TypeOK
  <2>2. Row(j)' = Row(j)
    BY DEF Row
  <2>3. QED
    BY <2>1, <2>2 DEF RowsInv, CoroutineInv, Discipline
<1>4. CoroutineInv'
  BY <1>3 DEF CoroutineInv
<1>5. RetriesFollowFailures' /\ VerdictInv' /\ VerdictHasEvidence'
  BY <1>1 DEF RowsInv, RetriesFollowFailures, VerdictInv, VerdictHasEvidence
<1>6. QED
  BY <1>2, <1>4, <1>5 DEF RowsInv

LEMMA GatherStep ==
  ASSUME TypeInv, RowsInv, Gather
  PROVE  RowsInv'
<1> USE DEF Gather, dbVars, processVars
<1>1. \A k \in Subtasks : pc[k] = "idle" /\ attempt[k] = 1
  BY DEF TypeInv, WorkersInv, RowsInv, CoroutineInv
<1>2. \A k \in Subtasks, a \in Attempts : rows[<<run, k, a>>] = "none"
  BY DEF RowsInv, FreshRowsInv, Starting
<1>3. FreshRowsInv'
  BY DEF RowsInv, FreshRowsInv, Starting
<1>4. ASSUME NEW k \in Subtasks
      PROVE  IF pc'[k] = "idle" THEN attempt'[k] = 1 ELSE Discipline(k)'
  <2>1. pc'[k] \in {"idle", "dispatching"} /\ Row(k)' = Row(k)
    BY DEF Row
  <2>2. rows[Row(k)] = "none" /\ rows[<<run, k, 2>>] = "none"
    BY <1>1, <1>2 DEF Row, Attempts
  <2>3. QED
    BY <1>1, <2>1, <2>2 DEF Discipline
<1>5. CoroutineInv'
  BY <1>4 DEF CoroutineInv
<1>6. RetriesFollowFailures' /\ VerdictInv' /\ VerdictHasEvidence'
  BY DEF RowsInv, RetriesFollowFailures, VerdictInv, VerdictHasEvidence
<1>7. QED
  BY <1>3, <1>5, <1>6 DEF RowsInv

\* What the rows say when every coroutine of the gather has returned.
LEMMA GatherSummary ==
  ASSUME TypeInv, RowsInv, phase = "running",
         \A k \in remaining : pc[k] \in {"completed", "escalated"}
  PROVE  /\ \A k \in remaining : pc[k] = "escalated" =>
              /\ \A a \in Attempts : rows[<<run, k, a>>] = "failed"
              /\ k \notin DoneInRun
         /\ \A k \in remaining : pc[k] = "completed" => k \in DoneInRun
<1>1. run \in 1..MaxRuns /\ remaining \in SUBSET Subtasks
  BY MaxRunsAssumption DEF TypeInv, TypeOK, RowsInv, FreshRowsInv
<1>2. ASSUME NEW k \in remaining
      PROVE  Discipline(k) /\ k \in Subtasks /\ attempt[k] \in Attempts
             /\ \A a \in Attempts : <<run, k, a>> \in Executions
  BY <1>1 DEF RowsInv, CoroutineInv, TypeInv, TypeOK, Executions
<1>3. ASSUME NEW k \in remaining, pc[k] = "escalated"
      PROVE  /\ \A a \in Attempts : rows[<<run, k, a>>] = "failed"
             /\ k \notin DoneInRun
  <2>1. attempt[k] = 2 /\ rows[Row(k)] = "failed"
        /\ rows[<<run, k, 1>>] = "failed"
    BY <1>2, <1>3 DEF Discipline
  <2>2. Row(k) = <<run, k, 2>>
    BY <2>1 DEF Row
  <2>3. rows[<<run, k, 2>>] = "failed"
    BY <2>1, <2>2, Zenon
  <2>4. \A a \in Attempts : rows[<<run, k, a>>] = "failed"
    BY <2>1, <2>3 DEF Attempts
  <2>5. QED
    BY <2>4 DEF DoneInRun
<1>4. ASSUME NEW k \in remaining, pc[k] = "completed"
      PROVE  k \in DoneInRun
  BY <1>2, <1>4 DEF Discipline, Row, DoneInRun
<1>5. QED
  BY <1>3, <1>4

LEMMA SettleStep ==
  ASSUME TypeInv, RowsInv, SettleGoal
  PROVE  RowsInv'
<1> USE DEF SettleGoal, processVars, coroutineVars
<1>1. FreshRowsInv'
  BY DEF RowsInv, FreshRowsInv, Starting
<1>2. CoroutineInv'
  <2>1. \A k \in Subtasks : Row(k)' = Row(k)
    BY DEF Row
  <2>2. QED
    BY <2>1 DEF RowsInv, CoroutineInv, Discipline
<1>3. RetriesFollowFailures' /\ VerdictInv'
  BY DEF RowsInv, RetriesFollowFailures, VerdictInv
<1>4. DoneInRun' = DoneInRun /\ DoneInRun \subseteq remaining
  BY DEF DoneInRun
<1>5. VerdictHasEvidence'
  BY <1>4, GatherSummary DEF VerdictHasEvidence
<1>6. QED
  BY <1>1, <1>2, <1>3, <1>5 DEF RowsInv

LEMMA RowsStep == TypeInv /\ TypeInv' /\ RowsInv /\ [Next]_vars => RowsInv'
<1> SUFFICES ASSUME TypeInv, TypeInv', RowsInv, [Next]_vars
             PROVE  RowsInv'
  OBVIOUS
<1> USE DEF dbVars, planVars, processVars, coroutineVars
<1>1. phase \in Starting => goalStatus \notin {"completed", "escalated"}
  BY DEF RowsInv, VerdictInv, Starting
<1>2. CASE StartRun
  <2>1. goalStatus' = "none" /\ run' = run + 1
    BY <1>2 DEF StartRun, RowsInv, FreshRowsInv
  <2>2. QED
    BY <1>2, <2>1, StartingStep DEF StartRun, Starting
<1>3. CASE Resume
  BY <1>3, StartingStep DEF Resume, Starting
<1>4. CASE CreateGoal
  BY <1>4, StartingStep DEF CreateGoal, Starting
<1>5. CASE WritePlan
  BY <1>5, <1>1, StartingStep DEF WritePlan, Starting
<1>6. CASE UpdateGoalPlanPath
  BY <1>6, <1>1, StartingStep DEF UpdateGoalPlanPath, Starting
<1>7. CASE StartExecuting
  BY <1>7, StartingStep DEF StartExecuting, Starting
<1>8. ASSUME NEW k \in Subtasks, Assign(k)
      PROVE  RowsInv'
  BY <1>8, <1>1, StartingStep DEF Assign, Starting
<1>9. CASE Gather
  BY <1>9, GatherStep
<1>10. CASE SettleGoal
  BY <1>10, SettleStep
<1>11. CASE UpdatePlanStatus
  BY <1>11, LoseProcessStep DEF UpdatePlanStatus
<1>12. CASE ProcessEnds
  BY <1>12, LoseProcessStep DEF ProcessEnds
<1>13. CASE Crash
  BY <1>13, LoseProcessStep DEF Crash
<1>14. CASE CrashInWrite
  BY <1>14, LoseProcessStep DEF CrashInWrite
<1>15. ASSUME NEW k \in Subtasks, Coroutine(k)
       PROVE  RowsInv'
  <2>1. ASSUME NEW ok \in BOOLEAN, DispatchReturns(k, ok)
        PROVE  RowsInv'
    BY <2>1, CoroutineMoves DEF DispatchReturns, Locations
  <2>2. CASE UpdatePlanSubtask(k)
    BY <2>2, CoroutineMoves DEF UpdatePlanSubtask, Locations
  <2>3. CASE RowWriter(k)
    BY <2>3, RowWriterStep
  <2>4. QED
    BY <1>15, <2>1, <2>2, <2>3 DEF Coroutine, RowWriter
<1>16. ASSUME NEW k \in Subtasks, SubtaskRaises(k)
       PROVE  RowsInv'
  BY <1>16, CoroutineMoves DEF SubtaskRaises, Locations
<1>17. CASE DriverRaises
  <2>1. \A k \in Subtasks : Row(k)' = Row(k)
    BY <1>17 DEF DriverRaises, Row
  <2>2. FreshRowsInv' /\ VerdictInv'
    BY <1>17 DEF DriverRaises, RowsInv, FreshRowsInv, VerdictInv, Starting
  <2>3. CoroutineInv'
    BY <1>17, <2>1 DEF DriverRaises, RowsInv, CoroutineInv, Discipline
  <2>4. RetriesFollowFailures' /\ VerdictHasEvidence'
    BY <1>17 DEF DriverRaises, RowsInv, RetriesFollowFailures, VerdictInv,
                 VerdictHasEvidence
  <2>5. QED
    BY <2>2, <2>3, <2>4 DEF RowsInv
<1>18. CASE UNCHANGED vars
  <2>1. (\A k \in Subtasks : Row(k)' = Row(k)) /\ DoneInRun' = DoneInRun
    BY <1>18 DEF vars, Row, DoneInRun
  <2>2. FreshRowsInv' /\ VerdictInv' /\ RetriesFollowFailures'
    BY <1>18 DEF vars, RowsInv, FreshRowsInv, VerdictInv, RetriesFollowFailures
  <2>3. CoroutineInv'
    BY <1>18, <2>1 DEF vars, RowsInv, CoroutineInv, Discipline
  <2>4. VerdictHasEvidence'
    BY <1>18, <2>1 DEF vars, RowsInv, VerdictHasEvidence
  <2>5. QED
    BY <2>2, <2>3, <2>4 DEF RowsInv
<1>19. QED
  BY <1>2, <1>3, <1>4, <1>5, <1>6, <1>7, <1>8, <1>9, <1>10, <1>11, <1>12,
     <1>13, <1>14, <1>15, <1>16, <1>17, <1>18 DEF Next, Driver

LEMMA Invariance == Spec => []IInv
<1>1. Init => IInv
  BY TypeInit, RowsInit DEF IInv
<1>2. IInv /\ [Next]_vars => IInv'
  BY TypeStep, RowsStep DEF IInv
<1>3. QED
  BY <1>1, <1>2, PTL DEF Spec

\* A retry has a row only after a failed first attempt, in every run and under
\* every interleaving, crash and exception.
THEOREM RetryDiscipline == Spec => []RetriesFollowFailures
<1>1. IInv => RetriesFollowFailures
  BY DEF IInv, RowsInv
<1>2. QED
  BY <1>1, Invariance, PTL

\* The goal's verdict is the one its execution rows give.
THEOREM VerdictIsEarned == Spec => []VerdictHasEvidence
<1>1. IInv => VerdictHasEvidence
  BY DEF IInv, RowsInv
<1>2. QED
  BY <1>1, Invariance, PTL

-----------------------------------------------------------------------------
(* What a step does to the rows *)

\* A coroutine only writes a row that is still open, and its other row holds
\* no success.
LEMMA OpenRow ==
  ASSUME IInv, NEW k \in Subtasks, RowWriter(k)
  PROVE  /\ run \in 1..MaxRuns /\ k \in remaining /\ Row(k) \in Executions
         /\ rows[Row(k)] \in {"none", "running"}
         /\ \A a \in Attempts : rows[<<run, k, a>>] # "completed"
<1>1. /\ Live /\ pc[k] \in {"ran", "recorded"} /\ attempt[k] \in Attempts
      /\ pc[k] = "ran" => RecordExecution(k)
  BY DEF RowWriter, RecordExecution, Retry, Escalate, CompleteExecution,
         IInv, TypeInv, TypeOK
<1>2. Discipline(k) /\ k \in remaining
  BY <1>1 DEF IInv, TypeInv, WorkersInv, RowsInv, CoroutineInv
<1>3. run \in 1..MaxRuns
  BY <1>1, MaxRunsAssumption
  DEF Live, IInv, TypeInv, TypeOK, RowsInv, FreshRowsInv
<1>4. rows[Row(k)] \in {"none", "running"} /\ Row(k) = <<run, k, attempt[k]>>
  BY <1>1, <1>2 DEF Discipline, Row
<1>5. ASSUME NEW a \in Attempts
      PROVE  rows[<<run, k, a>>] # "completed"
  <2>1. CASE a = attempt[k]
    BY <2>1, <1>4
  <2>2. CASE a # attempt[k]
    BY <2>2, <1>1, <1>2 DEF Discipline, Attempts
  <2>3. QED
    BY <2>1, <2>2
<1>6. QED
  BY <1>1, <1>2, <1>3, <1>4, <1>5 DEF Executions

\* Every step writes at most one row, and a step that writes one is a RowWriter.
LEMMA OnlyRowWritersWrite ==
  ASSUME [Next]_vars
  PROVE  UNCHANGED rows \/ \E k \in Subtasks : RowWriter(k)
<1> USE DEF dbVars, planVars, processVars, coroutineVars
<1>1. ASSUME NEW k \in Subtasks, Coroutine(k)
      PROVE  UNCHANGED rows \/ RowWriter(k)
  BY <1>1 DEF Coroutine, DispatchReturns, UpdatePlanSubtask, RowWriter
<1>2. ASSUME NEW k \in Subtasks, Assign(k) \/ SubtaskRaises(k)
      PROVE  UNCHANGED rows
  BY <1>2 DEF Assign, SubtaskRaises
<1>3. ASSUME StartRun \/ Resume \/ CreateGoal \/ WritePlan
               \/ UpdateGoalPlanPath \/ StartExecuting \/ Gather
               \/ SettleGoal \/ UpdatePlanStatus \/ ProcessEnds
               \/ DriverRaises \/ Crash \/ CrashInWrite
      PROVE  UNCHANGED rows
  BY <1>3 DEF StartRun, Resume, CreateGoal, WritePlan, UpdateGoalPlanPath,
              StartExecuting, Gather, SettleGoal, UpdatePlanStatus,
              ProcessEnds, DriverRaises, Crash, CrashInWrite
<1>4. CASE UNCHANGED vars
  BY <1>4 DEF vars
<1>5. QED
  BY <1>1, <1>2, <1>3, <1>4 DEF Next, Driver

LEMMA WriterWrites ==
  ASSUME IInv, NEW k \in Subtasks, RowWriter(k)
  PROVE  \E v \in RowStatus :
           /\ \A e \in Executions : rows'[e] = IF e = Row(k) THEN v ELSE rows[e]
           /\ v = "completed" <=> CompleteExecution(k)
<1>1. CASE CompleteExecution(k)
  <2>1. rows' = [rows EXCEPT ![Row(k)] = "completed"]
    BY <1>1 DEF CompleteExecution
  <2>2. \A e \in Executions :
          rows'[e] = IF e = Row(k) THEN "completed" ELSE rows[e]
    BY <2>1, OpenRow DEF IInv, TypeInv, TypeOK
  <2>3. QED
    BY <1>1, <2>2 DEF RowStatus
<1>2. CASE ~CompleteExecution(k)
  <2>1. PICK v \in {"running", "failed"} : rows' = [rows EXCEPT ![Row(k)] = v]
    BY <1>2 DEF RowWriter, RecordExecution, Retry, Escalate
  <2>2. \A e \in Executions : rows'[e] = IF e = Row(k) THEN v ELSE rows[e]
    BY <2>1, OpenRow DEF IInv, TypeInv, TypeOK
  <2>3. QED
    BY <1>2, <2>1, <2>2 DEF RowStatus
<1>3. QED
  BY <1>1, <1>2

\* No step of any process rewrites the record of an attempt that was closed.
THEOREM ClosedRowsStayClosed == Spec => ClosedRowsAreFinal
<1>1. ASSUME IInv, [Next]_vars, NEW e \in Executions,
             rows[e] \in {"completed", "failed"}
      PROVE  rows'[e] = rows[e]
  <2>1. CASE UNCHANGED rows
    BY <2>1
  <2>2. ASSUME NEW k \in Subtasks, RowWriter(k)
        PROVE  rows'[e] = rows[e]
    BY <1>1, <2>2, OpenRow, WriterWrites
  <2>3. QED
    BY <1>1, <2>1, <2>2, OnlyRowWritersWrite
<1>2. IInv /\ [Next]_vars =>
        [\A e \in Executions :
           rows[e] \in {"completed", "failed"} => rows'[e] = rows[e]]_rows
  BY <1>1
<1>3. QED
  BY <1>2, Invariance, PTL DEF Spec, ClosedRowsAreFinal

-----------------------------------------------------------------------------
(* The goal's contract *)

\* The goal row at each point of the driver.
StatusInv ==
  /\ phase = "decomposing" => goalStatus = "none"
  /\ phase \in {"created", "planned", "pathed"} => goalStatus = "planning"
  /\ phase \in {"assigning", "running"} => goalStatus = "executing"
  /\ phase = "raising" /\ (\E k \in Subtasks : pc[k] # "idle")
       => goalStatus = "executing"

LEMMA StatusStep == IInv /\ StatusInv /\ [Next]_vars => StatusInv'
<1> SUFFICES ASSUME IInv, StatusInv, [Next]_vars
             PROVE  StatusInv'
  OBVIOUS
<1> USE DEF StatusInv, dbVars, planVars, processVars, coroutineVars
<1>1. ASSUME NEW k \in Subtasks, Coroutine(k)
      PROVE  StatusInv'
  <2>1. Live /\ pc[k] # "idle" /\ UNCHANGED <<phase, goalStatus>>
    BY <1>1 DEF Coroutine, DispatchReturns, RecordExecution, Retry, Escalate,
                CompleteExecution, UpdatePlanSubtask
  <2>2. QED
    BY <2>1 DEF Live
<1>2. ASSUME NEW k \in Subtasks, Assign(k) \/ SubtaskRaises(k)
      PROVE  StatusInv'
  BY <1>2 DEF Assign, SubtaskRaises, Live
<1>3. CASE StartRun
  BY <1>3 DEF StartRun, IInv, RowsInv, FreshRowsInv
<1>4. ASSUME Resume \/ CreateGoal \/ WritePlan \/ UpdateGoalPlanPath
               \/ StartExecuting \/ Gather
      PROVE  StatusInv'
  BY <1>4 DEF Resume, CreateGoal, WritePlan, UpdateGoalPlanPath,
              StartExecuting, Gather
<1>5. CASE DriverRaises
  <2>1. CASE phase = "running"
    BY <1>5, <2>1 DEF DriverRaises
  <2>2. CASE phase # "running"
    <3>1. \A k \in Subtasks : pc[k] = "idle"
      BY <1>5, <2>2 DEF DriverRaises, IInv, TypeInv, WorkersInv
    <3>2. QED
      BY <1>5, <3>1 DEF DriverRaises
  <2>3. QED
    BY <2>1, <2>2
<1>6. ASSUME SettleGoal \/ UpdatePlanStatus \/ ProcessEnds \/ Crash
               \/ CrashInWrite
      PROVE  StatusInv'
  BY <1>6 DEF SettleGoal, UpdatePlanStatus, ProcessEnds, Crash, CrashInWrite,
              LoseProcess
<1>7. CASE UNCHANGED vars
  BY <1>7 DEF vars
<1>8. QED
  BY <1>1, <1>2, <1>3, <1>4, <1>5, <1>6, <1>7 DEF Next, Driver

\* A process starts with nothing finished.
LEMMA NothingFinished ==
  ASSUME IInv, IInv', UNCHANGED rows,
         \/ run' = run + 1
         \/ run' = run /\ phase \in Starting
  PROVE  DoneInRun' = {}
<1>1. run \in 0..MaxRuns /\ run' \in 0..MaxRuns /\ remaining' \subseteq Subtasks
  BY DEF IInv, TypeInv, TypeOK
<1>2. ASSUME NEW k \in Subtasks, NEW a \in Attempts,
             <<run', k, a>> \in Executions
      PROVE  rows[<<run', k, a>>] = "none"
  <2>1. run' \in 1..MaxRuns
    BY <1>2 DEF Executions
  <2>2. QED
    BY <1>1, <2>1, MaxRunsAssumption DEF IInv, RowsInv, FreshRowsInv
<1>3. QED
  BY <1>1, <1>2 DEF DoneInRun

\* The successes of the run are exactly the CompleteExecution steps.
LEMMA FinishedByWriter ==
  ASSUME IInv, NEW k \in Subtasks, RowWriter(k)
  PROVE  /\ k \in remaining \ DoneInRun
         /\ UNCHANGED <<run, remaining, goalStatus, phase>>
         /\ DoneInRun' = IF CompleteExecution(k) THEN DoneInRun \cup {k}
                                                 ELSE DoneInRun
<1>1. UNCHANGED <<run, remaining, goalStatus, phase>>
  BY DEF RowWriter, RecordExecution, Retry, Escalate, CompleteExecution,
         processVars
<1>2. k \in remaining \ DoneInRun
  BY OpenRow DEF DoneInRun
<1>3. PICK v \in RowStatus :
        /\ \A e \in Executions : rows'[e] = IF e = Row(k) THEN v ELSE rows[e]
        /\ v = "completed" <=> CompleteExecution(k)
  BY WriterWrites
<1>4. Row(k) = <<run, k, attempt[k]>> /\ Row(k) \in Executions
      /\ attempt[k] \in Attempts
  BY OpenRow DEF Row, IInv, TypeInv, TypeOK
<1>5. ASSUME NEW j \in remaining, j # k
      PROVE  j \in DoneInRun' <=> j \in DoneInRun
  <2>1. \A a \in Attempts : <<run, j, a>> # Row(k)
    BY <1>4, <1>5
  <2>2. QED
    BY <1>1, <1>3, <2>1 DEF DoneInRun
<1>6. k \in DoneInRun' <=> CompleteExecution(k)
  <2>1. CASE CompleteExecution(k)
    BY <1>1, <1>2, <1>3, <1>4, <2>1 DEF DoneInRun
  <2>2. CASE ~CompleteExecution(k)
    <3>1. \A a \in Attempts : <<run, k, a>> \in Executions =>
            rows'[<<run, k, a>>] # "completed"
      BY <1>3, <2>2, OpenRow
    <3>2. QED
      BY <1>1, <2>2, <3>1 DEF DoneInRun
  <2>3. QED
    BY <2>1, <2>2
<1>7. DoneInRun \subseteq remaining /\ DoneInRun' \subseteq remaining
  BY <1>1 DEF DoneInRun
<1>8. QED
  BY <1>1, <1>2, <1>5, <1>6, <1>7

LEMMA ContractStep ==
  IInv /\ IInv' /\ StatusInv /\ [Next]_vars
    => [Contract!Next]_(Contract!contractVars)
<1> SUFFICES ASSUME IInv, IInv', StatusInv, [Next]_vars
             PROVE  Contract!Next
                      \/ UNCHANGED <<goalStatus, remaining, DoneInRun>>
  BY DEF Contract!contractVars
<1> USE DEF dbVars, planVars, processVars, coroutineVars
<1>1. UNCHANGED <<rows, run, remaining>> => UNCHANGED DoneInRun
  BY DEF DoneInRun
<1>2. CASE StartRun
  <2>1. remaining = {} /\ remaining' = {} /\ goalStatus' = goalStatus
    BY <1>2 DEF StartRun, IInv, RowsInv, FreshRowsInv
  <2>2. DoneInRun = {} /\ DoneInRun' = {}
    BY <2>1 DEF DoneInRun
  <2>3. QED
    BY <2>1, <2>2
<1>3. CASE CreateGoal
  <2>1. Contract!Create
    BY <1>1, <1>3 DEF CreateGoal, Contract!Create, StatusInv
  <2>2. QED
    BY <2>1 DEF Contract!Next
<1>4. ASSUME StartExecuting \/ Resume
      PROVE  Contract!Next
  <2>1. DoneInRun' = {}
    BY <1>4, NothingFinished DEF StartExecuting, Resume, Starting
  <2>2. remaining' \in SUBSET Subtasks /\ remaining' # {}
    <3>1. 1 \in Subtasks /\ Unchecked \subseteq Subtasks
      BY NAssumption DEF Subtasks, Unchecked
    <3>2. QED
      BY <1>4, <3>1 DEF StartExecuting, Resume
  <2>3. Contract!Open(remaining')
    BY <1>4, <2>1, <2>2
    DEF StartExecuting, Resume, StatusInv, Contract!Open
  <2>4. QED
    BY <2>2, <2>3 DEF Contract!Next
<1>5. CASE SettleGoal
  <2>1. UNCHANGED DoneInRun /\ goalStatus = "executing" /\ phase = "running"
    BY <1>1, <1>5 DEF SettleGoal, StatusInv
  <2>2. (\E k \in remaining : pc[k] = "escalated") <=> DoneInRun # remaining
    <3>1. DoneInRun \subseteq remaining
      BY DEF DoneInRun
    <3>2. QED
      BY <1>5, <3>1, GatherSummary DEF SettleGoal, IInv
  <2>3. Contract!Settle
    BY <1>5, <2>1, <2>2 DEF SettleGoal, Contract!Settle
  <2>4. QED
    BY <2>3 DEF Contract!Next
<1>6. ASSUME NEW k \in Subtasks, RowWriter(k)
      PROVE  Contract!Next
               \/ UNCHANGED <<goalStatus, remaining, DoneInRun>>
  <2>1. CASE CompleteExecution(k)
    <3>1. goalStatus = "executing"
      BY <2>1 DEF CompleteExecution, Live, StatusInv
    <3>2. Contract!Finish(k)
      BY <1>6, <2>1, <3>1, FinishedByWriter DEF Contract!Finish
    <3>3. QED
      BY <3>2 DEF Contract!Next
  <2>2. CASE ~CompleteExecution(k)
    BY <1>6, <2>2, FinishedByWriter
  <2>3. QED
    BY <2>1, <2>2
<1>7. ASSUME NEW k \in Subtasks, Coroutine(k), ~RowWriter(k)
      PROVE  UNCHANGED <<goalStatus, remaining, DoneInRun>>
  BY <1>1, <1>7
  DEF Coroutine, RowWriter, DispatchReturns, UpdatePlanSubtask
<1>8. ASSUME NEW k \in Subtasks, Assign(k) \/ SubtaskRaises(k)
      PROVE  UNCHANGED <<goalStatus, remaining, DoneInRun>>
  BY <1>1, <1>8 DEF Assign, SubtaskRaises
<1>9. ASSUME WritePlan \/ UpdateGoalPlanPath \/ Gather \/ UpdatePlanStatus
               \/ ProcessEnds \/ DriverRaises \/ Crash \/ CrashInWrite
      PROVE  UNCHANGED <<goalStatus, remaining, DoneInRun>>
  BY <1>1, <1>9
  DEF WritePlan, UpdateGoalPlanPath, Gather, UpdatePlanStatus, ProcessEnds,
      DriverRaises, Crash, CrashInWrite, LoseProcess
<1>10. CASE UNCHANGED vars
  BY <1>1, <1>10 DEF vars
<1>11. QED
  BY <1>2, <1>3, <1>4, <1>5, <1>6, <1>7, <1>8, <1>9, <1>10 DEF Next, Driver

\* The processes implement the contract of a goal for any number of subtasks:
\* whatever crashes, raises or is resumed, a goal is settled as completed
\* exactly when everything it was opened for has finished.
THEOREM GoalImplementsContract == Spec => ImplementsContract
<1>1. Init => Contract!Init
  BY DEF Init, Contract!Init, DoneInRun
<1>2. Init => StatusInv
  BY DEF Init, StatusInv
<1>3. Spec => []StatusInv
  BY <1>2, StatusStep, Invariance, PTL DEF Spec
<1>4. QED
  BY <1>1, <1>3, ContractStep, Invariance, PTL
  DEF Spec, ImplementsContract, Contract!Spec

-----------------------------------------------------------------------------
(* The plan file *)

Settled == {"completed", "escalated"}

Committed == {k \in Subtasks : pc[k] = "committed"}
Completed == {k \in Subtasks : pc[k] = "completed"}

\* The phases of `ceo run` before _execute_plan.
Planning == {"decomposing", "created", "planned", "pathed"}

\* No box is checked before the subtasks run.
BlankInv ==
  run = 0 \/ phase \in Planning => checked = {} /\ completedCount = 0

\* Each checked box was there when the process started or was checked by a
\* coroutine that has returned.
CountedInv ==
  phase # "down" => Cardinality(checked) <= completedCount + Cardinality(Completed)

\* Every check, and every one still to be made, is backed by a row of its own.
EarnedInv ==
  /\ IsFiniteSet(CompletedRows)
  /\ Cardinality(checked) + Cardinality(Committed) <= Cardinality(CompletedRows)

\* The last escalation left a box to resume from.
ResumableInv == goalStatus = "escalated" => Cardinality(checked) < N

\* In the first run the box of a subtask is its own position.
FirstRunInv ==
  run <= 1 =>
    /\ phase \in {"assigning", "running"} \/ (\E k \in Subtasks : pc[k] # "idle")
         => remaining = Subtasks /\ completedCount = 0
    /\ Completed \subseteq checked
    /\ checked \subseteq Done
    /\ goalStatus = "completed" /\ planFile = "written" => checked = Subtasks
    /\ planStatus \in Settled => planStatus = goalStatus /\ phase = "down"

PlanInv == /\ BlankInv /\ CountedInv /\ EarnedInv /\ ResumableInv /\ FirstRunInv

LEMMA PlanInit == Init => PlanInv
<1> SUFFICES ASSUME Init PROVE PlanInv
  OBVIOUS
<1>1. Completed = {} /\ Committed = {} /\ CompletedRows = {} /\ checked = {}
  BY DEF Init, Completed, Committed, CompletedRows
<1>2. Cardinality({}) = 0 /\ IsFiniteSet({})
  BY FS_EmptySet
<1>3. BlankInv /\ CountedInv /\ ResumableInv
  BY <1>1, <1>2, NAssumption DEF Init, BlankInv, CountedInv, ResumableInv
<1>4. EarnedInv
  BY <1>1, <1>2 DEF EarnedInv
<1>5. FirstRunInv
  BY <1>1 DEF Init, FirstRunInv, Settled
<1>6. QED
  BY <1>3, <1>4, <1>5 DEF PlanInv

\* The sets of subtasks the counts are about are finite.
LEMMA PlanCounts ==
  ASSUME TypeOK
  PROVE  /\ IsFiniteSet(checked) /\ Cardinality(checked) \in Nat
         /\ IsFiniteSet(Completed) /\ Cardinality(Completed) \in Nat
         /\ IsFiniteSet(Committed) /\ Cardinality(Committed) \in Nat
<1>1. /\ checked \in SUBSET Subtasks /\ Completed \in SUBSET Subtasks
      /\ Committed \in SUBSET Subtasks
  BY DEF TypeOK, Completed, Committed
<1>2. IsFiniteSet(checked) /\ IsFiniteSet(Completed) /\ IsFiniteSet(Committed)
  BY <1>1, SubtasksFinite
<1>3. QED
  BY <1>2, FS_CardinalityType

\* A step of a coroutine that reaches neither its commit nor its box leaves the
\* plan and the successes as they are.
LEMMA PlanQuietCoroutine ==
  ASSUME IInv, IInv', PlanInv, NEW k \in Subtasks,
         \/ \E ok \in BOOLEAN : DispatchReturns(k, ok)
         \/ RecordExecution(k) \/ Retry(k) \/ Escalate(k) \/ SubtaskRaises(k)
  PROVE  PlanInv'
<1> USE DEF dbVars, planVars, processVars, coroutineVars
<1>1. /\ Live /\ pc[k] \notin {"idle", "completed"}
      /\ phase' \in {phase, "raising"}
      /\ UNCHANGED <<checked, planFile, planStatus, goalStatus, run, remaining,
                     completedCount>>
      /\ \E l \in {"ran", "recorded", "dispatching", "escalated", "raised"} :
           pc' = [pc EXCEPT ![k] = l]
  BY DEF DispatchReturns, RecordExecution, Retry, Escalate, SubtaskRaises
<1>2. \A j \in Subtasks \ {k} : pc'[j] = pc[j]
  BY <1>1 DEF IInv, TypeInv, TypeOK
<1>3. pc'[k] \notin {"idle", "completed", "committed"}
  BY <1>1 DEF IInv, TypeInv, TypeOK
<1>4. Completed' = Completed /\ Committed' \subseteq Committed
  BY <1>1, <1>2, <1>3 DEF Completed, Committed
<1>5. CompletedRows' = CompletedRows
  <2>1. CASE RowWriter(k)
    <3>1. ~CompleteExecution(k)
      <4>1. pc'[k] # "committed"
        BY <1>3
      <4>2. QED
        BY <4>1 DEF CompleteExecution, IInv, TypeInv, TypeOK
    <3>2. QED
      BY <2>1, <3>1, OpenRow, WriterWrites DEF CompletedRows
  <2>2. CASE ~RowWriter(k)
    <3>1. rows' = rows
      BY <2>2 DEF RowWriter, DispatchReturns, SubtaskRaises
    <3>2. QED
      BY <3>1 DEF CompletedRows
  <2>3. QED
    BY <2>1, <2>2
<1>6. Cardinality(Committed') <= Cardinality(Committed)
      /\ Cardinality(Committed') \in Nat /\ Cardinality(Committed) \in Nat
      /\ Cardinality(checked) \in Nat
  BY <1>4, PlanCounts, FS_Subset, FS_CardinalityType DEF IInv, TypeInv
<1>7. BlankInv'
  BY <1>1 DEF Live, PlanInv, BlankInv, Planning
<1>8. CountedInv'
  BY <1>1, <1>4 DEF Live, PlanInv, CountedInv
<1>9. EarnedInv'
  <2>1. Cardinality(CompletedRows) \in Nat
    BY FS_CardinalityType DEF PlanInv, EarnedInv
  <2>2. QED
    BY <2>1, <1>1, <1>5, <1>6 DEF PlanInv, EarnedInv
<1>10. ResumableInv'
  BY <1>1 DEF PlanInv, ResumableInv
<1>11. FirstRunInv'
  <2>1. Done' = Done
    <3>1. \A S : S = CompletedRows =>
            \A e \in Executions : e \in S <=> rows[e] = "completed"
      BY DEF CompletedRows
    <3>2. \A e \in Executions : rows[e] = "completed" <=> rows'[e] = "completed"
      BY <1>5 DEF CompletedRows
    <3>3. QED
      BY <3>2 DEF Done
  <2>2. (\E j \in Subtasks : pc[j] # "idle")
    BY <1>1
  <2>3. QED
    BY <1>1, <1>4, <2>1, <2>2 DEF Live, PlanInv, FirstRunInv
<1>12. QED
  BY <1>7, <1>8, <1>9, <1>10, <1>11 DEF PlanInv

\* The commit of a success: one more row, one more box to come.
LEMMA PlanCommit ==
  ASSUME IInv, IInv', PlanInv, NEW k \in Subtasks, CompleteExecution(k)
  PROVE  PlanInv'
<1> USE DEF dbVars, planVars, processVars, coroutineVars
<1>1. /\ Live /\ pc[k] = "recorded" /\ phase' = phase
      /\ UNCHANGED <<checked, planFile, planStatus, goalStatus, run, remaining,
                     completedCount>>
      /\ pc' = [pc EXCEPT ![k] = "committed"]
  BY DEF CompleteExecution
<1>2. /\ \A j \in Subtasks \ {k} : pc'[j] = pc[j]
      /\ pc'[k] = "committed"
  BY <1>1 DEF IInv, TypeInv, TypeOK
<1>3. Completed' = Completed
      /\ Committed' = Committed \cup {k} /\ k \notin Committed
  BY <1>1, <1>2 DEF Completed, Committed
<1>4. CompletedRows' = CompletedRows \cup {Row(k)} /\ Row(k) \notin CompletedRows
  <2>1. RowWriter(k)
    BY DEF RowWriter
  <2>2. QED
    BY <2>1, OpenRow, WriterWrites DEF CompletedRows
<1>5. /\ Cardinality(Committed') = Cardinality(Committed) + 1
      /\ Cardinality(Committed) \in Nat /\ Cardinality(checked) \in Nat
  <2>1. IsFiniteSet(Committed) /\ Cardinality(checked) \in Nat
    BY PlanCounts DEF IInv, TypeInv
  <2>2. QED
    BY <1>3, <2>1, FS_AddElement, FS_CardinalityType
<1>6. BlankInv' /\ CountedInv' /\ ResumableInv'
  BY <1>1, <1>3 DEF Live, PlanInv, BlankInv, Planning, CountedInv, ResumableInv
<1>7. EarnedInv'
  <2>1. IsFiniteSet(CompletedRows) /\ Cardinality(CompletedRows) \in Nat
    BY FS_CardinalityType DEF PlanInv, EarnedInv
  <2>2. IsFiniteSet(CompletedRows')
        /\ Cardinality(CompletedRows') = Cardinality(CompletedRows) + 1
    BY <2>1, <1>4, FS_AddElement
  <2>3. QED
    BY <2>1, <2>2, <1>1, <1>5 DEF PlanInv, EarnedInv
<1>8. FirstRunInv'
  <2>1. Done \subseteq Done'
    <3>1. \A e \in Executions : rows[e] = "completed" => rows'[e] = "completed"
      BY <1>4 DEF CompletedRows
    <3>2. QED
      BY <3>1 DEF Done
  <2>2. \E j \in Subtasks : pc[j] # "idle"
    BY <1>1
  <2>3. QED
    BY <1>1, <1>3, <2>1, <2>2 DEF Live, PlanInv, FirstRunInv
<1>9. QED
  BY <1>6, <1>7, <1>8 DEF PlanInv

\* In the first run the k-th box is the k-th subtask's.
LEMMA OwnBox ==
  ASSUME remaining = Subtasks, completedCount = 0, NEW k \in Subtasks
  PROVE  BoxOf(k) = k
<1>1. k \in Nat /\ k >= 1 /\ k <= N
  BY NAssumption DEF Subtasks
<1> DEFINE S == {j \in remaining : j <= k}
<1>2. S = 1..k
  BY <1>1, NAssumption DEF Subtasks
<1>3. Cardinality(1..k) = k
  BY <1>1, FS_Interval
<1>4. BoxOf(k) = completedCount + Cardinality(S)
  BY DEF BoxOf
<1> HIDE DEF S
<1>5. QED
  BY <1>1, <1>2, <1>3, <1>4

\* The check of a box: it was committed for, and it is counted.
LEMMA PlanCheck ==
  ASSUME IInv, IInv', PlanInv, NEW k \in Subtasks, UpdatePlanSubtask(k)
  PROVE  PlanInv'
<1> USE DEF dbVars, planVars, processVars, coroutineVars
<1>1. /\ Live /\ pc[k] = "committed" /\ phase' = phase
      /\ UNCHANGED <<rows, planFile, planStatus, goalStatus, run, remaining,
                     completedCount>>
      /\ checked' = checked \cup {BoxOf(k)}
      /\ pc' = [pc EXCEPT ![k] = "completed"]
  BY DEF UpdatePlanSubtask
<1>2. /\ \A j \in Subtasks \ {k} : pc'[j] = pc[j]
      /\ pc'[k] = "completed"
  BY <1>1 DEF IInv, TypeInv, TypeOK
<1>3. /\ Completed' = Completed \cup {k} /\ k \notin Completed
      /\ Committed' = Committed \ {k} /\ k \in Committed
      /\ CompletedRows' = CompletedRows
  BY <1>1, <1>2 DEF Completed, Committed, CompletedRows
<1>4. goalStatus \notin Settled
  BY <1>1 DEF Live, Settled, IInv, RowsInv, VerdictInv
<1>5. /\ Cardinality(checked) \in Nat /\ Cardinality(Committed) \in Nat
      /\ Cardinality(Completed) \in Nat
      /\ Cardinality(Completed') = Cardinality(Completed) + 1
      /\ Cardinality(Committed') = Cardinality(Committed) - 1
  <2>1. IsFiniteSet(Committed) /\ IsFiniteSet(Completed)
        /\ Cardinality(checked) \in Nat
    BY PlanCounts DEF IInv, TypeInv
  <2>2. QED
    BY <1>3, <2>1, FS_AddElement, FS_RemoveElement, FS_CardinalityType
<1>6. Cardinality(checked') <= Cardinality(checked) + 1
      /\ Cardinality(checked') \in Nat
  <2>1. IsFiniteSet(checked) /\ Cardinality(checked) \in Nat
    BY PlanCounts DEF IInv, TypeInv
  <2>2. ASSUME NEW b
        PROVE  /\ Cardinality(checked \cup {b}) <= Cardinality(checked) + 1
               /\ Cardinality(checked \cup {b}) \in Nat
    BY <2>1, FS_AddElement
  <2>3. QED
    BY <1>1, <2>2
<1>7. BlankInv' /\ ResumableInv'
  BY <1>1, <1>4 DEF Live, BlankInv, Planning, ResumableInv, Settled,
                    IInv, RowsInv, FreshRowsInv
<1>8. CountedInv'
  <2>1. completedCount \in Nat
    BY NAssumption DEF IInv, TypeInv, TypeOK
  <2>2. QED
    BY <2>1, <1>1, <1>5, <1>6 DEF Live, PlanInv, CountedInv
<1>9. EarnedInv'
  <2>1. Cardinality(CompletedRows) \in Nat
    BY FS_CardinalityType DEF PlanInv, EarnedInv
  <2>2. QED
    BY <2>1, <1>3, <1>5, <1>6 DEF PlanInv, EarnedInv
<1>10. FirstRunInv'
  <2>1. SUFFICES ASSUME run <= 1 PROVE FirstRunInv'
    BY <1>1 DEF FirstRunInv
  <2>2. (\E j \in Subtasks : pc[j] # "idle")
    BY <1>1
  <2>3. remaining = Subtasks /\ completedCount = 0
    BY <2>1, <2>2 DEF PlanInv, FirstRunInv
  <2>4. checked' = checked \cup {k}
    BY <1>1, <2>3, OwnBox
  <2>5. k \in Done'
    <3>1. Discipline(k) /\ run \in 1..MaxRuns /\ attempt[k] \in Attempts
      BY <1>1, MaxRunsAssumption
      DEF Live, IInv, TypeInv, TypeOK, RowsInv, CoroutineInv, FreshRowsInv
    <3>2. Row(k) \in Executions /\ rows[Row(k)] = "completed" /\ Row(k)[2] = k
      BY <1>1, <3>1 DEF Discipline, Row, Executions
    <3>3. QED
      BY <1>1, <3>2 DEF Done
  <2>6. Done' = Done
    BY <1>1 DEF Done
  <2>7. planStatus \notin Settled
    BY <1>1, <2>1 DEF Live, PlanInv, FirstRunInv
  <2>8. QED
    BY <1>1, <1>3, <1>4, <2>1, <2>3, <2>4, <2>5, <2>6, <2>7
    DEF PlanInv, FirstRunInv, Settled
<1>11. QED
  BY <1>7, <1>8, <1>9, <1>10 DEF PlanInv

\* The end of a process, whatever it does to the plan file.
LEMMA PlanLoseProcess ==
  ASSUME IInv, IInv', PlanInv,
         UpdatePlanStatus \/ ProcessEnds \/ Crash \/ CrashInWrite
  PROVE  PlanInv'
<1> USE DEF dbVars, planVars, processVars, coroutineVars
<1>1. /\ phase # "down" /\ phase' = "down"
      /\ \A k \in Subtasks : pc'[k] = "idle"
      /\ UNCHANGED <<rows, goalStatus, run, remaining, completedCount>>
      /\ \/ UNCHANGED <<checked, planFile>>
         \/ checked' = {} /\ planFile' = "empty"
      /\ planStatus' \in {planStatus, goalStatus, "none"}
  <2>1. CASE UpdatePlanStatus
    BY <2>1 DEF UpdatePlanStatus, LoseProcess
  <2>2. CASE ProcessEnds \/ Crash
    BY <2>2 DEF ProcessEnds, Crash, LoseProcess
  <2>3. CASE CrashInWrite
    BY <2>3 DEF CrashInWrite, LoseProcess, Live
  <2>4. QED
    BY <2>1, <2>2, <2>3
<1>2. Completed' = {} /\ Committed' = {} /\ CompletedRows' = CompletedRows
      /\ Done' = Done
  BY <1>1 DEF Completed, Committed, CompletedRows, Done
<1>3. run # 0
  BY <1>1 DEF IInv, RowsInv, FreshRowsInv
<1>4. /\ Cardinality({}) = 0 /\ checked' \in {checked, {}}
      /\ Cardinality(checked) \in Nat /\ Cardinality(Committed) \in Nat
  BY <1>1, PlanCounts, FS_EmptySet DEF IInv, TypeInv
<1>5. BlankInv' /\ CountedInv'
  BY <1>1, <1>3 DEF BlankInv, CountedInv, Planning
<1>6. EarnedInv'
  <2>1. Cardinality(CompletedRows) \in Nat
    BY FS_CardinalityType DEF PlanInv, EarnedInv
  <2>2. QED
    BY <2>1, <1>2, <1>4 DEF PlanInv, EarnedInv
<1>7. ResumableInv'
  BY <1>1, <1>4, NAssumption DEF PlanInv, ResumableInv
<1>8. FirstRunInv'
  <2>1. run <= 1 => planStatus \notin Settled
    BY <1>1 DEF PlanInv, FirstRunInv
  <2>2. QED
    BY <1>1, <1>2, <1>4, <2>1 DEF PlanInv, FirstRunInv, Settled
<1>9. QED
  BY <1>5, <1>6, <1>7, <1>8 DEF PlanInv

\* The driver before the gather: no coroutine, no row of this run.
LEMMA PlanStart ==
  ASSUME IInv, IInv', StatusInv, PlanInv,
         \/ StartRun \/ CreateGoal \/ WritePlan \/ UpdateGoalPlanPath
         \/ StartExecuting \/ Resume \/ Gather \/ \E k \in Subtasks : Assign(k)
  PROVE  PlanInv'
<1> USE DEF dbVars, planVars, processVars, coroutineVars
<1>1. /\ phase \in Starting \cup {"down"}
      /\ phase' \in Starting \cup {"running"}
      /\ rows' = rows
      /\ pc' = pc \/ Gather
      /\ WritePlan \/ UNCHANGED <<checked, planFile, planStatus>>
      /\ goalStatus' \notin Settled \/ StartRun
  BY DEF StartRun, CreateGoal, WritePlan, UpdateGoalPlanPath, StartExecuting,
         Resume, Gather, Assign, Starting, Settled, StatusInv
<1>2. \A k \in Subtasks : pc[k] = "idle" /\ pc'[k] \in {"idle", "dispatching"}
  <2>1. \A k \in Subtasks : pc[k] = "idle"
    BY <1>1 DEF IInv, TypeInv, WorkersInv, Starting
  <2>2. QED
    BY <1>1, <2>1 DEF Gather
<1>3. /\ Completed = {} /\ Committed = {} /\ Completed' = {} /\ Committed' = {}
      /\ CompletedRows' = CompletedRows /\ Done' = Done
  BY <1>1, <1>2 DEF Completed, Committed, CompletedRows, Done
<1>4. Cardinality({}) = 0 /\ Cardinality(checked) \in Nat
  BY PlanCounts, FS_EmptySet DEF IInv, TypeInv
<1>5. checked' = checked
  <2>1. WritePlan => checked = {} /\ checked' = {}
    BY DEF WritePlan, PlanInv, BlankInv, Planning
  <2>2. QED
    BY <1>1, <2>1
<1>6. goalStatus' \notin Settled
  BY <1>1 DEF StartRun, IInv, RowsInv, FreshRowsInv, Settled
<1>7. run \in Nat /\ run' \in Nat
  BY MaxRunsAssumption DEF IInv, TypeInv, TypeOK
<1>8. BlankInv'
  BY <1>1, <1>5, <1>7 DEF PlanInv, BlankInv, Planning, Starting, StartRun,
     CreateGoal, WritePlan, UpdateGoalPlanPath, StartExecuting, Resume, Gather,
     Assign
<1>9. CountedInv'
  <2>1. CASE Resume
    BY <2>1, <1>3, <1>4, <1>5 DEF Resume, CountedInv
  <2>2. CASE StartRun \/ StartExecuting
    BY <2>2, <1>3, <1>4, <1>5
    DEF StartRun, StartExecuting, CountedInv, PlanInv, BlankInv, Planning
  <2>3. CASE ~(Resume \/ StartRun \/ StartExecuting)
    <3>1. phase # "down" /\ completedCount' = completedCount
      BY <2>3 DEF CreateGoal, WritePlan, UpdateGoalPlanPath, Gather, Assign
    <3>2. QED
      BY <3>1, <1>3, <1>5 DEF PlanInv, CountedInv
  <2>4. QED
    BY <2>1, <2>2, <2>3
<1>10. EarnedInv'
  BY <1>3, <1>5 DEF PlanInv, EarnedInv
<1>11. ResumableInv'
  BY <1>6 DEF ResumableInv, Settled
<1>12. FirstRunInv'
  <2>1. CASE Resume
    <3>1. run' > 1
      BY <2>1, <1>7 DEF Resume
    <3>2. QED
      BY <3>1, <1>7 DEF FirstRunInv
  <2>2. CASE ~Resume
    <3>1. SUFFICES ASSUME run' <= 1 PROVE FirstRunInv'
      BY DEF FirstRunInv
    <3>2. run <= 1
      BY <2>2, <3>1 DEF StartRun, CreateGoal, WritePlan, UpdateGoalPlanPath,
         StartExecuting, Gather, Assign
    <3>3. planStatus' \notin Settled
      <4>1. CASE WritePlan
        BY <4>1 DEF WritePlan, Settled
      <4>2. CASE StartRun
        BY <4>2, <1>6, <3>2 DEF StartRun, PlanInv, FirstRunInv
      <4>3. CASE ~WritePlan /\ ~StartRun
        <5>1. phase # "down"
          BY <2>2, <4>3 DEF CreateGoal, WritePlan, UpdateGoalPlanPath,
             StartExecuting, Gather, Assign
        <5>2. QED
          BY <1>1, <3>2, <4>3, <5>1 DEF PlanInv, FirstRunInv
      <4>4. QED
        BY <4>1, <4>2, <4>3
    <3>4. phase' \in {"assigning", "running"}
            => remaining' = Subtasks /\ completedCount' = 0
      BY <2>2, <3>2 DEF StartRun, CreateGoal, WritePlan, UpdateGoalPlanPath,
         StartExecuting, Gather, Assign, PlanInv, FirstRunInv
    <3>5. (\E k \in Subtasks : pc'[k] # "idle") => phase' = "running"
      BY <1>1, <1>2 DEF Gather
    <3>6. QED
      BY <1>3, <1>5, <1>6, <3>1, <3>2, <3>3, <3>4, <3>5
      DEF PlanInv, FirstRunInv, Settled
  <2>3. QED
    BY <2>1, <2>2
<1>13. QED
  BY <1>8, <1>9, <1>10, <1>11, <1>12 DEF PlanInv

\* The verdict: an escalated subtask is one whose box is still to be earned,
\* and in the first run a completed one has checked its own.
LEMMA PlanSettle ==
  ASSUME IInv, IInv', PlanInv, SettleGoal
  PROVE  PlanInv'
<1> USE DEF SettleGoal, dbVars, planVars, processVars, coroutineVars
<1>1. Completed' = Completed /\ Committed' = Committed
      /\ CompletedRows' = CompletedRows /\ Done' = Done
  BY DEF Completed, Committed, CompletedRows, Done
<1>2. BlankInv' /\ CountedInv' /\ EarnedInv'
  BY <1>1 DEF PlanInv, BlankInv, Planning, CountedInv, EarnedInv
<1>3. ResumableInv'
  <2>1. SUFFICES ASSUME goalStatus' = "escalated"
                 PROVE  Cardinality(checked) < N
    BY DEF ResumableInv
  <2>2. PICK k \in remaining : pc[k] = "escalated"
    BY <2>1
  <2>3. Completed \subseteq remaining \ {k}
    BY <2>2 DEF Completed, IInv, TypeInv, WorkersInv
  <2>4. /\ IsFiniteSet(remaining \ {k})
        /\ Cardinality(remaining \ {k}) = Cardinality(remaining) - 1
        /\ Cardinality(remaining) \in Nat
    BY <2>2, FS_RemoveElement, FS_CardinalityType DEF IInv, TypeInv, IndexInv
  <2>5. Cardinality(Completed) <= Cardinality(remaining \ {k})
        /\ Cardinality(Completed) \in Nat
    BY <2>3, <2>4, FS_Subset, FS_CardinalityType
  <2>6. Cardinality(checked) \in Nat /\ completedCount \in Nat
    BY PlanCounts, NAssumption DEF IInv, TypeInv, TypeOK
  <2>7. Cardinality(checked) <= completedCount + Cardinality(Completed)
        /\ completedCount + Cardinality(remaining) <= N
    BY DEF PlanInv, CountedInv, IInv, TypeInv, IndexInv
  <2>8. QED
    BY <2>4, <2>5, <2>6, <2>7, NAssumption
<1>4. FirstRunInv'
  <2>1. SUFFICES ASSUME run <= 1 PROVE FirstRunInv'
    BY DEF FirstRunInv
  <2>2. remaining = Subtasks /\ completedCount = 0
        /\ Completed \subseteq checked /\ checked \subseteq Done
        /\ planStatus \notin Settled
    BY <2>1 DEF PlanInv, FirstRunInv
  <2>3. goalStatus' = "completed" => checked = Subtasks
    <3>1. checked \in SUBSET Subtasks
      BY DEF IInv, TypeInv, TypeOK
    <3>2. QED
      BY <2>2, <3>1 DEF Completed
  <2>4. QED
    BY <1>1, <2>2, <2>3 DEF FirstRunInv
<1>5. QED
  BY <1>2, <1>3, <1>4 DEF PlanInv

LEMMA PlanStep ==
  IInv /\ IInv' /\ StatusInv /\ PlanInv /\ [Next]_vars => PlanInv'
<1> SUFFICES ASSUME IInv, IInv', StatusInv, PlanInv, [Next]_vars
             PROVE  PlanInv'
  OBVIOUS
<1>1. ASSUME NEW k \in Subtasks, Coroutine(k) \/ SubtaskRaises(k)
      PROVE  PlanInv'
  <2>1. CASE CompleteExecution(k)
    BY <2>1, PlanCommit
  <2>2. CASE UpdatePlanSubtask(k)
    BY <2>2, PlanCheck
  <2>3. CASE ~CompleteExecution(k) /\ ~UpdatePlanSubtask(k)
    BY <1>1, <2>3, PlanQuietCoroutine DEF Coroutine
  <2>4. QED
    BY <2>1, <2>2, <2>3
<1>2. ASSUME StartRun \/ Resume \/ CreateGoal \/ WritePlan
               \/ UpdateGoalPlanPath \/ StartExecuting
               \/ (\E k \in Subtasks : Assign(k)) \/ Gather
      PROVE  PlanInv'
  BY <1>2, PlanStart
<1>3. CASE SettleGoal
  BY <1>3, PlanSettle
<1>4. ASSUME UpdatePlanStatus \/ ProcessEnds \/ Crash \/ CrashInWrite
      PROVE  PlanInv'
  BY <1>4, PlanLoseProcess
<1>5. ASSUME DriverRaises \/ UNCHANGED vars
      PROVE  PlanInv'
  <2>1. /\ \/ phase' = phase
           \/ phase # "down" /\ phase' = "raising"
        /\ UNCHANGED <<rows, checked, planFile, planStatus, goalStatus, run,
                       remaining, completedCount, pc>>
    <3>1. CASE DriverRaises
      BY <3>1 DEF DriverRaises, dbVars, planVars, processVars, coroutineVars
    <3>2. CASE UNCHANGED vars
      BY <3>2 DEF vars, dbVars, planVars, processVars, coroutineVars
    <3>3. QED
      BY <1>5, <3>1, <3>2
  <2>2. Completed' = Completed /\ Committed' = Committed
        /\ CompletedRows' = CompletedRows /\ Done' = Done
    BY <2>1 DEF Completed, Committed, CompletedRows, Done
  <2>3. QED
    BY <2>1, <2>2 DEF PlanInv, BlankInv, Planning, CountedInv, EarnedInv,
                      ResumableInv, FirstRunInv
<1>6. QED
  BY <1>1, <1>2, <1>3, <1>4, <1>5 DEF Next, Driver

LEMMA PlanInvariance == Spec => []PlanInv
<1>1. Init => StatusInv
  BY DEF Init, StatusInv
<1>2. QED
  BY <1>1, StatusStep, PlanInit, PlanStep, Invariance, PTL DEF Spec

\* No box is checked on credit, in any run, under any crash: the plan file
\* never shows more than the rows of ceo.db account for.
THEOREM NoCheckOnCredit == Spec => []ChecksAreEarned
<1>1. IInv /\ PlanInv => ChecksAreEarned
  <2>1. ASSUME IInv, PlanInv PROVE ChecksAreEarned
    <3>1. Cardinality(checked) \in Nat /\ Cardinality(Committed) \in Nat
      BY <2>1, PlanCounts DEF IInv, TypeInv
    <3>2. Cardinality(CompletedRows) \in Nat
      BY <2>1, FS_CardinalityType DEF PlanInv, EarnedInv
    <3>3. QED
      BY <2>1, <3>1, <3>2 DEF PlanInv, EarnedInv, ChecksAreEarned
  <2>2. QED
    BY <2>1
<1>2. QED
  BY <1>1, Invariance, PlanInvariance, PTL

\* However often a goal was resumed and whichever boxes that checked, one that
\* ends escalated leaves a box for the next resume.
THEOREM EscalatedCanResume == Spec => []EscalatedIsResumable
<1>1. IInv /\ PlanInv => EscalatedIsResumable
  <2>1. ASSUME PlanInv, checked \in SUBSET Subtasks, goalStatus = "escalated",
               planFile = "written"
        PROVE  Unchecked # {}
    <3>1. checked # Subtasks
      BY <2>1, SubtasksFinite, NAssumption DEF PlanInv, ResumableInv
    <3>2. QED
      BY <2>1, <3>1 DEF Unchecked
  <2>2. QED
    BY <2>1 DEF EscalatedIsResumable, IInv, TypeInv, TypeOK
<1>2. QED
  BY <1>1, Invariance, PlanInvariance, PTL

\* Up to the first resume the plan file tells the truth, for any number of
\* subtasks and any order in which their coroutines finish.
THEOREM FirstRunTellsTruth == Spec => []FirstRunPlanIsRight
<1>1. PlanInv => FirstRunPlanIsRight
  BY DEF PlanInv, FirstRunInv, FirstRunPlanIsRight, Settled
<1>2. QED
  BY <1>1, PlanInvariance, PTL

\* No step unchecks a box, short of a crash that empties the file.
THEOREM ChecksStay == Spec => ChecksAreKept
<1>1. ASSUME PlanInv, [Next]_vars, planFile' = "written"
      PROVE  checked \subseteq checked'
  <2> USE DEF dbVars, planVars, processVars, coroutineVars
  <2>1. CASE WritePlan
    BY <2>1, <1>1 DEF WritePlan, PlanInv, BlankInv, Planning
  <2>2. CASE CrashInWrite
    BY <2>2, <1>1 DEF CrashInWrite
  <2>3. ASSUME NEW k \in Subtasks, Coroutine(k)
        PROVE  checked \subseteq checked'
    BY <2>3 DEF Coroutine, DispatchReturns, RecordExecution, Retry, Escalate,
                CompleteExecution, UpdatePlanSubtask
  <2>4. ASSUME NEW k \in Subtasks, Assign(k) \/ SubtaskRaises(k)
        PROVE  checked \subseteq checked'
    BY <2>4 DEF Assign, SubtaskRaises
  <2>5. ASSUME StartRun \/ Resume \/ CreateGoal \/ UpdateGoalPlanPath
                 \/ StartExecuting \/ Gather \/ SettleGoal \/ UpdatePlanStatus
                 \/ ProcessEnds \/ DriverRaises \/ Crash \/ UNCHANGED vars
        PROVE  checked \subseteq checked'
    BY <2>5 DEF StartRun, Resume, CreateGoal, UpdateGoalPlanPath,
       StartExecuting, Gather, SettleGoal, UpdatePlanStatus, ProcessEnds,
       DriverRaises, Crash, vars
  <2>6. QED
    BY <1>1, <2>1, <2>2, <2>3, <2>4, <2>5 DEF Next, Driver
<1>2. PlanInv /\ [Next]_vars =>
        [planFile' = "written" => checked \subseteq checked']_<<planFile, checked>>
  BY <1>1
<1>3. QED
  BY <1>2, PlanInvariance, PTL DEF Spec, ChecksAreKept
-----------------------------------------------------------------------------
(* How far the claim of `ceo resume` is kept *)

\* In the first run and the first resume, whatever the process was not asked
\* to do has been done before.
SkippedInv ==
  run <= 2 /\ goalStatus \in {"executing", "completed", "escalated"}
    => Subtasks \ remaining \subseteq Done

\* A subtask that has succeeded stays so.
LEMMA DoneStays ==
  ASSUME IInv, [Next]_vars
  PROVE  Done \subseteq Done'
<1>1. ASSUME NEW e \in Executions, rows[e] = "completed"
      PROVE  rows'[e] = "completed"
  <2>1. ASSUME NEW k \in Subtasks, RowWriter(k)
        PROVE  rows'[e] = "completed"
    BY <1>1, <2>1, OpenRow, WriterWrites
  <2>2. QED
    BY <1>1, <2>1, OnlyRowWritersWrite
<1>2. QED
  BY <1>1 DEF Done

LEMMA SkippedStep ==
  IInv /\ StatusInv /\ PlanInv /\ SkippedInv /\ [Next]_vars => SkippedInv'
<1> SUFFICES ASSUME IInv, StatusInv, PlanInv, SkippedInv, [Next]_vars
             PROVE  SkippedInv'
  OBVIOUS
<1> USE DEF dbVars, planVars, processVars, coroutineVars
<1>1. Done \subseteq Done'
  BY DoneStays
<1>2. CASE StartRun
  BY <1>2 DEF StartRun, SkippedInv, IInv, RowsInv, FreshRowsInv
<1>3. CASE CreateGoal
  BY <1>3 DEF CreateGoal, SkippedInv
<1>4. CASE StartExecuting
  BY <1>4 DEF StartExecuting, ExecutePlan, SkippedInv
<1>5. CASE Resume
  <2>1. SUFFICES ASSUME run' <= 2
                 PROVE  Subtasks \ remaining' \subseteq Done'
    BY DEF SkippedInv
  <2>2. run \in Int /\ run' = run + 1 /\ remaining' = Unchecked /\ Unchecked # {}
    BY <1>5 DEF Resume, ExecutePlan
  <2>3. checked \subseteq Done
    BY <2>1, <2>2 DEF PlanInv, FirstRunInv
  <2>4. remaining' = Subtasks \ checked
    BY <2>2 DEF Unchecked
  <2>5. QED
    BY <1>1, <2>3, <2>4
<1>6. CASE SettleGoal
  BY <1>1, <1>6 DEF SettleGoal, SkippedInv, StatusInv
<1>7. ASSUME UNCHANGED <<run, goalStatus, remaining>>
      PROVE  SkippedInv'
  BY <1>1, <1>7 DEF SkippedInv
<1>8. ASSUME NEW k \in Subtasks, Coroutine(k) \/ Assign(k) \/ SubtaskRaises(k)
      PROVE  UNCHANGED <<run, goalStatus, remaining>>
  BY <1>8 DEF Coroutine, DispatchReturns, RecordExecution, Retry, Escalate,
              CompleteExecution, UpdatePlanSubtask, Assign, SubtaskRaises
<1>9. ASSUME WritePlan \/ UpdateGoalPlanPath \/ Gather \/ UpdatePlanStatus
               \/ ProcessEnds \/ DriverRaises \/ Crash \/ CrashInWrite
               \/ UNCHANGED vars
      PROVE  UNCHANGED <<run, goalStatus, remaining>>
  BY <1>9 DEF WritePlan, UpdateGoalPlanPath, Gather, UpdatePlanStatus,
              ProcessEnds, DriverRaises, Crash, CrashInWrite, LoseProcess, vars
<1>10. QED
  BY <1>2, <1>3, <1>4, <1>5, <1>6, <1>7, <1>8, <1>9 DEF Next, Driver

\* Up to and including the first resume, a goal that ends as completed has all
\* its subtasks completed, whatever crashed or raised before: it takes a second
\* resume for the box indexes of _execute_plan to skip a subtask for good.
THEOREM FirstResumeIsComplete == Spec => [](run <= 2 => CompletedMeansAllDone)
<1>1. Init => StatusInv /\ SkippedInv
  BY DEF Init, StatusInv, SkippedInv
<1>2. ASSUME IInv, SkippedInv, run <= 2, goalStatus = "completed"
      PROVE  Done = Subtasks
  <2>1. DoneInRun = remaining
    BY <1>2 DEF IInv, RowsInv, VerdictHasEvidence
  <2>2. remaining \subseteq Subtasks
    BY <1>2 DEF IInv, TypeInv, TypeOK
  <2>3. DoneInRun \subseteq Done
    BY <2>2 DEF DoneInRun, Done
  <2>4. Subtasks \ remaining \subseteq Done
    BY <1>2 DEF SkippedInv
  <2>5. QED
    BY <2>1, <2>2, <2>3, <2>4 DEF Done
<1>3. IInv /\ SkippedInv => (run <= 2 => CompletedMeansAllDone)
  BY <1>2 DEF CompletedMeansAllDone
<1>4. QED
  BY <1>1, <1>3, StatusStep, SkippedStep, Invariance, PlanInvariance, PTL
  DEF Spec
=============================================================================

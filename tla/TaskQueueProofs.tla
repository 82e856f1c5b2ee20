-------------------------- MODULE TaskQueueProofs --------------------------
(***************************************************************************)
(* Proofs about TaskQueue, for any number of tasks and of processes, which *)
(* may overlap, die, and take tasks by id.                                 *)
(***************************************************************************)
EXTENDS TaskQueue, TLAPS

\* The rows of a process at each of its locations; once closed they stay.
RowsOf(p) ==
  /\ attempt[p] = 1 => rows[<<p, 2>>] = "none"
  /\ attempt[p] = 2 => rows[<<p, 1>>] = "failed"
  /\ pc[p] \in {"idle", "picked", "claimed", "dispatching", "ran"} =>
       rows[<<p, attempt[p]>>] = "none"
  /\ pc[p] \in {"idle", "picked", "claimed"} => attempt[p] = 1
  /\ pc[p] = "recorded" => rows[<<p, attempt[p]>>] = "running"
  /\ pc[p] = "closed" =>
       /\ success[p] => rows[<<p, attempt[p]>>] = "completed"
       /\ ~success[p] => attempt[p] = 2 /\ rows[<<p, 2>>] = "failed"
  /\ pc[p] = "idle" => task[p] = {}

RowsInv == \A p \in Procs : RowsOf(p)

IInv == TypeOK /\ RowsInv /\ VerdictHasEvidence

LEMMA InvInit == Init => IInv
<1> SUFFICES ASSUME Init PROVE IInv
  OBVIOUS
<1>1. TypeOK
  <2>1. /\ status \in [Tasks -> {"absent", "pending", "in_progress",
                                 "completed", "escalated"}]
        /\ rows \in [Procs \X Attempts ->
                       {"none", "running", "completed", "failed"}]
        /\ task \in [Procs -> SUBSET Tasks]
        /\ attempt \in [Procs -> Attempts] /\ success \in [Procs -> BOOLEAN]
    BY DEF Init, Attempts
  <2>2. created \in Seq(Tasks)
    BY DEF Init
  <2>3. QED
    BY <2>1, <2>2 DEF Init, TypeOK
<1>2. RowsInv
  BY DEF Init, RowsInv, RowsOf, Attempts
<1>3. VerdictHasEvidence
  BY DEF Init, VerdictHasEvidence
<1>4. QED
  BY <1>1, <1>2, <1>3 DEF IInv

LEMMA TypeStep == IInv /\ [Next]_vars => TypeOK'
<1> SUFFICES ASSUME IInv, [Next]_vars PROVE TypeOK'
  OBVIOUS
<1> USE DEF TypeOK, IInv, dbVars
<1>1. ASSUME NEW t \in Tasks, Enqueue(t)
      PROVE  TypeOK'
  BY <1>1 DEF Enqueue
<1>2. ASSUME NEW p \in Procs, NEW t \in Tasks, Pick(p, t)
      PROVE  TypeOK'
  BY <1>2 DEF Pick
<1>3. ASSUME NEW p \in Procs, Claim(p) \/ SettleTask(p)
      PROVE  TypeOK'
  BY <1>3 DEF Claim, SettleTask, Verdict
<1>4. ASSUME NEW p \in Procs, NEW ok \in BOOLEAN, DispatchReturns(p, ok)
      PROVE  TypeOK'
  BY <1>4 DEF DispatchReturns
<1>5. ASSUME NEW p \in Procs, Assign(p) \/ Die(p)
      PROVE  TypeOK'
  BY <1>5 DEF Assign, Die
<1>6. ASSUME NEW p \in Procs, RecordExecution(p) \/ Retry(p) \/ CloseExecution(p)
      PROVE  TypeOK'
  <2>1. /\ rows' \in [Procs \X Attempts ->
                        {"none", "running", "completed", "failed"}]
        /\ attempt' \in [Procs -> Attempts]
    BY <1>6 DEF RecordExecution, Retry, CloseExecution, Outcome, Attempts
  <2>2. /\ pc' \in [Procs -> {"idle", "picked", "claimed", "dispatching", "ran",
                            "recorded", "closed", "over", "dead"}]
        /\ UNCHANGED <<status, created, task, success>>
    BY <1>6 DEF RecordExecution, Retry, CloseExecution
  <2>3. QED
    BY <2>1, <2>2
<1>7. CASE UNCHANGED vars
  BY <1>7 DEF vars
<1>8. QED
  BY <1>1, <1>2, <1>3, <1>4, <1>5, <1>6, <1>7 DEF Next, Work

\* The three steps of a process that write a row write the one still open.
RowWriter(p) == RecordExecution(p) \/ Retry(p) \/ CloseExecution(p)

LEMMA RowWrite ==
  ASSUME TypeOK, RowsInv, NEW p \in Procs, RowWriter(p)
  PROVE  /\ rows[<<p, attempt[p]>>] \in {"none", "running"}
         /\ rows'[<<p, attempt[p]>>] = IF RecordExecution(p) THEN "running"
                                       ELSE Outcome(p)
         /\ \A q \in Procs, a \in Attempts : <<q, a>> # <<p, attempt[p]>> =>
              rows'[<<q, a>>] = rows[<<q, a>>]
         /\ UNCHANGED <<status, task, success>>
<1>1. attempt[p] \in Attempts /\ <<p, attempt[p]>> \in Procs \X Attempts
  BY DEF TypeOK
<1>2. pc[p] \in {"ran", "recorded"} /\ RowsOf(p)
  BY DEF RowWriter, RecordExecution, Retry, CloseExecution, RowsInv
<1>3. rows[<<p, attempt[p]>>] \in {"none", "running"}
  BY <1>2 DEF RowsOf
<1>4. rows' = [rows EXCEPT ![<<p, attempt[p]>>] =
                 IF RecordExecution(p) THEN "running" ELSE Outcome(p)]
  <2>1. CASE RecordExecution(p)
    BY <2>1 DEF RecordExecution
  <2>2. CASE Retry(p)
    BY <2>2 DEF Retry, RecordExecution
  <2>3. CASE CloseExecution(p)
    BY <2>3 DEF CloseExecution, RecordExecution
  <2>4. QED
    BY <2>1, <2>2, <2>3 DEF RowWriter
<1>5. \A q \in Procs, a \in Attempts : <<q, a>> \in Procs \X Attempts
  OBVIOUS
<1>6. UNCHANGED <<status, task, success>>
  BY DEF RowWriter, RecordExecution, Retry, CloseExecution
<1>7. QED
  BY <1>1, <1>3, <1>4, <1>5, <1>6 DEF TypeOK

LEMMA RowWriterStep ==
  ASSUME IInv, NEW p \in Procs, RowWriter(p)
  PROVE  RowsInv' /\ VerdictHasEvidence'
<1> DEFINE v == IF RecordExecution(p) THEN "running" ELSE Outcome(p)
<1>1. /\ TypeOK /\ RowsInv
      /\ rows[<<p, attempt[p]>>] \in {"none", "running"}
      /\ rows'[<<p, attempt[p]>>] = v
      /\ \A q \in Procs, a \in Attempts : <<q, a>> # <<p, attempt[p]>> =>
           rows'[<<q, a>>] = rows[<<q, a>>]
      /\ UNCHANGED <<status, task, success>>
  BY RowWrite DEF IInv
<1>2. ASSUME NEW q \in Procs, q # p
      PROVE  RowsOf(q)'
  <2>1. pc'[q] = pc[q] /\ attempt'[q] = attempt[q] /\ attempt[q] \in Attempts
    BY <1>1, <1>2 DEF RowWriter, RecordExecution, Retry, CloseExecution, TypeOK
  <2>2. \A a \in Attempts : rows'[<<q, a>>] = rows[<<q, a>>]
    BY <1>1, <1>2
  <2>3. RowsOf(q)
    BY <1>1 DEF RowsInv
  <2>4. QED
    BY <1>1, <2>1, <2>2, <2>3 DEF RowsOf, Attempts
<1>3. RowsOf(p)'
  <2>1. RowsOf(p) /\ attempt[p] \in {1, 2} /\ success[p] \in BOOLEAN
    BY <1>1 DEF RowsInv, TypeOK, Attempts
  <2>2. \A a \in Attempts : rows'[<<p, a>>] =
          IF a = attempt[p] THEN v ELSE rows[<<p, a>>]
    BY <1>1
  <2>3. CASE RecordExecution(p)
    <3>1. pc'[p] = "recorded" /\ attempt' = attempt /\ v = "running"
      BY <1>1, <2>3 DEF RecordExecution, TypeOK
    <3>2. QED
      BY <1>1, <2>1, <2>2, <3>1 DEF RowsOf, Attempts
  <2>4. CASE Retry(p)
    <3>1. /\ pc[p] = "recorded" /\ pc'[p] = "dispatching"
          /\ attempt[p] = 1 /\ attempt'[p] = 2 /\ v = "failed"
      BY <1>1, <2>4 DEF Retry, RecordExecution, Outcome, TypeOK, Attempts
    <3>2. rows'[<<p, 1>>] = "failed" /\ rows[<<p, 2>>] = "none"
      BY <2>1, <2>2, <2>4, <3>1 DEF Attempts, RowsOf
    <3>3. rows'[<<p, 2>>] = "none"
      BY <2>2, <3>1, <3>2 DEF Attempts
    <3>4. QED
      BY <1>1, <3>1, <3>2, <3>3 DEF RowsOf
  <2>5. CASE CloseExecution(p)
    <3>1. /\ pc[p] = "recorded" /\ pc'[p] = "closed" /\ attempt' = attempt
          /\ (success[p] \/ attempt[p] = 2)
      BY <1>1, <2>5 DEF CloseExecution, RecordExecution, TypeOK
    <3>2. v = Outcome(p)
      BY <2>5 DEF CloseExecution, RecordExecution
    <3>3. QED
      BY <1>1, <2>1, <2>2, <3>1, <3>2 DEF RowsOf, Outcome, Attempts
  <2>6. QED
    BY <2>3, <2>4, <2>5 DEF RowWriter
<1>4. RowsInv'
  BY <1>2, <1>3 DEF RowsInv
<1>5. VerdictHasEvidence'
  <2>1. ASSUME NEW q \in Procs, NEW a \in Attempts,
               rows[<<q, a>>] \in {"completed", "failed"}
        PROVE  rows'[<<q, a>>] = rows[<<q, a>>]
    <3>1. <<q, a>> # <<p, attempt[p]>>
      BY <1>1, <2>1
    <3>2. QED
      BY <1>1, <3>1
  <2>2. ASSUME NEW t \in Tasks, status[t] = "completed"
        PROVE  \E q \in Procs : t \in task[q] /\ \E a \in Attempts :
                  rows'[<<q, a>>] = "completed"
    BY <2>1, <2>2 DEF IInv, VerdictHasEvidence
  <2>3. ASSUME NEW t \in Tasks, status[t] = "escalated"
        PROVE  \E q \in Procs : t \in task[q] /\ \A a \in Attempts :
                  rows'[<<q, a>>] = "failed"
    BY <2>1, <2>3 DEF IInv, VerdictHasEvidence
  <2>4. QED
    BY <1>1, <2>2, <2>3 DEF VerdictHasEvidence
<1>6. QED
  BY <1>4, <1>5

\* A step that writes no row.
LEMMA OtherStep ==
  ASSUME IInv, [Next]_vars, ~(\E p \in Procs : RowWriter(p))
  PROVE  RowsInv' /\ VerdictHasEvidence'
<1> USE DEF IInv, dbVars
<1>1. ASSUME NEW t \in Tasks, Enqueue(t)
      PROVE  RowsInv' /\ VerdictHasEvidence'
  <2>1. UNCHANGED <<rows, task, pc, attempt, success>>
        /\ \A u \in Tasks : status'[u] \in {"completed", "escalated"} =>
             status'[u] = status[u]
    BY <1>1 DEF Enqueue, TypeOK
  <2>2. QED
    BY <2>1 DEF RowsInv, RowsOf, VerdictHasEvidence
<1>2. ASSUME NEW p \in Procs, NEW t \in Tasks, Pick(p, t)
      PROVE  RowsInv' /\ VerdictHasEvidence'
  <2>1. /\ UNCHANGED <<status, rows, attempt, success>>
        /\ pc[p] = "idle" /\ pc'[p] = "picked"
        /\ \A q \in Procs \ {p} : pc'[q] = pc[q] /\ task'[q] = task[q]
    BY <1>2 DEF Pick, TypeOK
  <2>2. \A q \in Procs : RowsOf(q)
    BY DEF RowsInv
  <2>3. RowsInv'
    <3>1. ASSUME NEW q \in Procs PROVE RowsOf(q)'
      <4>1. CASE q = p
        BY <2>1, <2>2, <4>1 DEF RowsOf
      <4>2. CASE q # p
        BY <2>1, <2>2, <4>2 DEF RowsOf
      <4>3. QED
        BY <4>1, <4>2
    <3>2. QED
      BY <3>1 DEF RowsInv
  <2>4. \A q \in Procs, u \in Tasks : u \in task[q] => u \in task'[q]
    BY <2>1, <2>2 DEF RowsOf
  <2>5. QED
    BY <2>1, <2>3, <2>4 DEF VerdictHasEvidence
<1>3. ASSUME NEW p \in Procs, Claim(p) \/ Assign(p)
                \/ (\E ok \in BOOLEAN : DispatchReturns(p, ok)) \/ Die(p)
      PROVE  RowsInv' /\ VerdictHasEvidence'
  <2>1. /\ UNCHANGED <<rows, task, attempt>>
        /\ \A u \in Tasks : status'[u] \in {"completed", "escalated"} =>
             status'[u] = status[u]
    BY <1>3 DEF Claim, Assign, DispatchReturns, Die, TypeOK
  <2>2. VerdictHasEvidence'
    BY <2>1 DEF VerdictHasEvidence
  <2>3. /\ \A q \in Procs \ {p} : pc'[q] = pc[q] /\ success'[q] = success[q]
        /\ \/ pc[p] = "picked" /\ pc'[p] = "claimed"
           \/ pc[p] = "claimed" /\ pc'[p] = "dispatching"
           \/ pc[p] = "dispatching" /\ pc'[p] = "ran"
           \/ pc'[p] = "dead"
    BY <1>3 DEF Claim, Assign, DispatchReturns, Die, TypeOK
  <2>4. \A q \in Procs : RowsOf(q)
    BY DEF RowsInv
  <2>5. RowsInv'
    <3>1. ASSUME NEW q \in Procs PROVE RowsOf(q)'
      <4>1. CASE q = p
        BY <2>1, <2>3, <2>4, <4>1 DEF RowsOf
      <4>2. CASE q # p
        BY <2>1, <2>3, <2>4, <4>2 DEF RowsOf
      <4>3. QED
        BY <4>1, <4>2
    <3>2. QED
      BY <3>1 DEF RowsInv
  <2>6. QED
    BY <2>2, <2>5
<1>4. ASSUME NEW p \in Procs, SettleTask(p)
      PROVE  RowsInv' /\ VerdictHasEvidence'
  <2>1. /\ UNCHANGED <<rows, task, attempt, success>> /\ pc[p] = "closed"
        /\ pc'[p] = "over" /\ \A q \in Procs \ {p} : pc'[q] = pc[q]
        /\ \A u \in Tasks : status'[u] = IF u \in task[p] THEN Verdict(p, u)
                                         ELSE status[u]
    BY <1>4 DEF SettleTask, TypeOK
  <2>2. \A q \in Procs : RowsOf(q)
    BY DEF RowsInv
  <2>3. RowsInv'
    <3>1. ASSUME NEW q \in Procs PROVE RowsOf(q)'
      <4>1. CASE q = p
        BY <2>1, <2>2, <4>1 DEF RowsOf
      <4>2. CASE q # p
        BY <2>1, <2>2, <4>2 DEF RowsOf
      <4>3. QED
        BY <4>1, <4>2
    <3>2. QED
      BY <3>1 DEF RowsInv
  <2>4. /\ attempt[p] \in Attempts
        /\ success[p] => rows[<<p, attempt[p]>>] = "completed"
        /\ ~success[p] => \A a \in Attempts : rows[<<p, a>>] = "failed"
    BY <2>1, <2>2 DEF RowsOf, TypeOK, Attempts
  <2>5. VerdictHasEvidence'
    BY <2>1, <2>4 DEF VerdictHasEvidence, Verdict
  <2>6. QED
    BY <2>3, <2>5
<1>5. CASE UNCHANGED vars
  BY <1>5 DEF vars, RowsInv, RowsOf, VerdictHasEvidence
<1>6. QED
  BY <1>1, <1>2, <1>3, <1>4, <1>5 DEF Next, Work, RowWriter

LEMMA Invariance == Spec => []IInv
<1>1. IInv /\ [Next]_vars => IInv'
  BY TypeStep, RowWriterStep, OtherStep DEF IInv
<1>2. QED
  BY <1>1, InvInit, PTL DEF Spec

\* No task has a verdict without the execution rows that justify it, however
\* many processes overlap on it or die.
THEOREM TaskVerdictIsEarned == Spec => []VerdictHasEvidence
<1>1. IInv => VerdictHasEvidence
  BY DEF IInv
<1>2. QED
  BY <1>1, Invariance, PTL

-----------------------------------------------------------------------------
(* Who has taken which task *)

Waiting == {"absent", "pending"}

\* The list holds each enqueued task once; a task is in somebody's hands when
\* it waits no longer, and it waits no longer once somebody has run it.
TakenInv ==
  /\ \A i, j \in 1..Len(created) : created[i] = created[j] => i = j
  /\ \A i \in 1..Len(created) : status[created[i]] # "absent"
  /\ \A p \in Procs : \A t \in task[p] : status[t] # "absent"
  /\ \A t \in Tasks : status[t] \notin Waiting => \E p \in Procs : t \in task[p]
  /\ \A p \in Procs :
       pc[p] \notin {"idle", "picked", "dead"} \/ rows[<<p, 1>>] # "none"
         => \A t \in task[p] : status[t] \notin Waiting

\* A process that will never run what it picked: it died before.
Gone(p) == ~Running(p) /\ rows[<<p, 1>>] = "none"

\* Without overlap and without ids, a task is in the hands of one process
\* besides those that died before they ran it.
AloneInv ==
  /\ \A p, q \in Procs : Running(p) /\ Running(q) => p = q
  /\ \A p, q \in Procs :
       p # q /\ task[p] \cap task[q] # {} => Gone(p) \/ Gone(q)

OnceInv == ~MayOverlap /\ ~ById => AloneInv
OrderInv == ~ById => OldestFirst

LEMMA TakenInit == Init => TakenInv /\ OnceInv /\ OrderInv
<1> SUFFICES ASSUME Init PROVE TakenInv /\ OnceInv /\ OrderInv
  OBVIOUS
<1>1. Len(created) = 0 /\ DOMAIN created = 1..0
  BY DEF Init
<1>2. \A p \in Procs : task[p] = {} /\ pc[p] = "idle" /\ rows[<<p, 1>>] = "none"
  BY DEF Init, Attempts
<1>3. TakenInv
  BY <1>1, <1>2 DEF Init, TakenInv, Waiting
<1>4. OnceInv
  BY <1>2 DEF OnceInv, AloneInv, Running
<1>5. OrderInv
  BY <1>1 DEF OrderInv, OldestFirst
<1>6. QED
  BY <1>3, <1>4, <1>5

\* What the steps of a process other than its SELECT do to statuses and hands.
LEMMA WorkStep ==
  ASSUME IInv, NEW p \in Procs, Work(p) \/ Die(p)
  PROVE  /\ UNCHANGED <<created, task>>
         /\ Running(p) /\ pc[p] # "idle"
         /\ \A q \in Procs \ {p} : pc'[q] = pc[q] /\ rows'[<<q, 1>>] = rows[<<q, 1>>]
         /\ pc'[p] \notin {"idle", "picked"}
         /\ \A t \in Tasks : \/ status'[t] = status[t]
                             \/ t \in task[p] /\ status'[t] \notin Waiting
         /\ \/ pc[p] = "picked" /\ pc'[p] = "claimed"
               /\ \A t \in task[p] : status'[t] \notin Waiting
            \/ pc[p] = "picked" /\ pc'[p] = "dead" /\ rows'[<<p, 1>>] = rows[<<p, 1>>]
            \/ pc[p] # "picked"
<1> USE DEF dbVars, Running
<1>1. TypeOK
  BY DEF IInv
<1>2. CASE RowWriter(p)
  <2>1. /\ \A q \in Procs, a \in Attempts : <<q, a>> # <<p, attempt[p]>> =>
             rows'[<<q, a>>] = rows[<<q, a>>]
        /\ UNCHANGED <<status, task, success>>
    BY <1>2, RowWrite DEF IInv
  <2>2. 1 \in Attempts
    BY DEF Attempts
  <2>3. \A q \in Procs \ {p} : rows'[<<q, 1>>] = rows[<<q, 1>>]
    BY <2>1, <2>2
  <2>4. /\ pc[p] \in {"ran", "recorded"}
        /\ pc'[p] \in {"recorded", "dispatching", "closed"}
        /\ \A q \in Procs \ {p} : pc'[q] = pc[q]
        /\ created' = created
    BY <1>1, <1>2 DEF RowWriter, RecordExecution, Retry, CloseExecution, TypeOK
  <2>5. QED
    BY <2>1, <2>3, <2>4
<1>3. CASE Claim(p) \/ SettleTask(p)
  BY <1>1, <1>3 DEF Claim, SettleTask, Verdict, Waiting, TypeOK
<1>4. CASE Assign(p) \/ (\E ok \in BOOLEAN : DispatchReturns(p, ok)) \/ Die(p)
  BY <1>1, <1>4 DEF Assign, DispatchReturns, Die, TypeOK
<1>5. QED
  BY <1>2, <1>3, <1>4 DEF Work, RowWriter

LEMMA TakenStep == IInv /\ TakenInv /\ [Next]_vars => TakenInv'
<1> SUFFICES ASSUME IInv, TakenInv, [Next]_vars
             PROVE  TakenInv'
  OBVIOUS
<1>1. TypeOK /\ created \in Seq(Tasks)
      /\ \A p \in Procs : task[p] \in SUBSET Tasks
  BY DEF IInv, TypeOK
<1>2. ASSUME NEW t \in Tasks, Enqueue(t)
      PROVE  TakenInv'
  <2>1. /\ UNCHANGED <<rows, task, pc>> /\ status[t] = "absent"
        /\ \A u \in Tasks : status'[u] = IF u = t THEN "pending" ELSE status[u]
    BY <1>1, <1>2 DEF Enqueue, TypeOK
  <2>2. /\ Len(created') = Len(created) + 1 /\ Len(created) \in Nat
        /\ \A i \in 1..Len(created') :
             created'[i] = IF i = Len(created') THEN t ELSE created[i]
    BY <1>1, <1>2 DEF Enqueue
  <2>3. \A i \in 1..Len(created) : created[i] \in Tasks /\ created[i] # t
    BY <1>1, <2>1 DEF TakenInv
  <2>4. \A i, j \in 1..Len(created') : created'[i] = created'[j] => i = j
    BY <2>2, <2>3 DEF TakenInv
  <2>5. \A i \in 1..Len(created') : status'[created'[i]] # "absent"
    BY <2>1, <2>2, <2>3 DEF TakenInv
  <2>6. \A p \in Procs : t \notin task[p]
    BY <2>1 DEF TakenInv
  <2>7. /\ \A p \in Procs : \A u \in task'[p] : status'[u] # "absent"
        /\ \A p \in Procs :
             pc'[p] \notin {"idle", "picked", "dead"} \/ rows'[<<p, 1>>] # "none"
               => \A u \in task'[p] : status'[u] \notin Waiting
    BY <1>1, <2>1, <2>6 DEF TakenInv
  <2>8. \A u \in Tasks : status'[u] \notin Waiting => \E p \in Procs : u \in task'[p]
    BY <2>1 DEF TakenInv, Waiting
  <2>9. QED
    BY <2>4, <2>5, <2>7, <2>8 DEF TakenInv
<1>3. ASSUME NEW p \in Procs, NEW t \in Tasks, Pick(p, t)
      PROVE  TakenInv'
  <2>1. /\ UNCHANGED <<status, rows, created>> /\ status[t] # "absent"
        /\ pc[p] = "idle" /\ pc'[p] = "picked" /\ task'[p] = {t}
        /\ \A q \in Procs \ {p} : pc'[q] = pc[q] /\ task'[q] = task[q]
    BY <1>1, <1>3 DEF Pick, dbVars, ListPending, TypeOK
  <2>2. task[p] = {} /\ rows[<<p, 1>>] = "none"
    <3>1. RowsOf(p)
      BY DEF IInv, RowsInv
    <3>2. task[p] = {} /\ attempt[p] = 1 /\ rows[<<p, attempt[p]>>] = "none"
      BY <2>1, <3>1 DEF RowsOf
    <3>3. QED
      BY <3>2
  <2>3. \A q \in Procs, u \in Tasks : u \in task[q] => u \in task'[q]
    BY <2>1, <2>2
  <2>4. QED
    BY <2>1, <2>2, <2>3 DEF TakenInv
<1>4. ASSUME NEW p \in Procs, Work(p) \/ Die(p)
      PROVE  TakenInv'
  <2>1. /\ UNCHANGED <<created, task>>
        /\ \A q \in Procs \ {p} : pc'[q] = pc[q] /\ rows'[<<q, 1>>] = rows[<<q, 1>>]
        /\ \A t \in Tasks : \/ status'[t] = status[t]
                            \/ t \in task[p] /\ status'[t] \notin Waiting
        /\ \/ pc[p] = "picked" /\ pc'[p] = "claimed"
              /\ \A t \in task[p] : status'[t] \notin Waiting
           \/ pc[p] = "picked" /\ pc'[p] = "dead" /\ rows'[<<p, 1>>] = rows[<<p, 1>>]
           \/ pc[p] # "picked" /\ pc[p] \notin {"idle", "dead"}
    BY <1>4, WorkStep DEF Running
  <2>2. \A t \in Tasks : status[t] \notin Waiting => status'[t] \notin Waiting
    BY <2>1
  <2>3. \A t \in Tasks : status[t] # "absent" => status'[t] # "absent"
    BY <2>1 DEF Waiting
  <2>4. \A t \in task[p] : pc'[p] # "dead" \/ rows'[<<p, 1>>] # "none"
                             => status'[t] \notin Waiting
    BY <1>1, <2>1, <2>2 DEF TakenInv
  <2>5. \A q \in Procs \ {p} :
          pc'[q] \notin {"idle", "picked", "dead"} \/ rows'[<<q, 1>>] # "none"
            => \A t \in task'[q] : status'[t] \notin Waiting
    BY <1>1, <2>1, <2>2 DEF TakenInv
  <2>6. \A t \in Tasks : status'[t] \notin Waiting => \E q \in Procs : t \in task'[q]
    BY <2>1 DEF TakenInv
  <2>7. \A i \in 1..Len(created) : created[i] \in Tasks
    BY <1>1
  <2>8. QED
    BY <1>1, <2>1, <2>3, <2>4, <2>5, <2>6, <2>7 DEF TakenInv
<1>5. CASE UNCHANGED vars
  BY <1>5 DEF vars, dbVars, TakenInv
<1>6. QED
  BY <1>2, <1>3, <1>4, <1>5 DEF Next

LEMMA OnceStep == IInv /\ TakenInv /\ OnceInv /\ [Next]_vars => OnceInv'
<1> SUFFICES ASSUME IInv, TakenInv, AloneInv, [Next]_vars, ~MayOverlap, ~ById
             PROVE  AloneInv'
  BY DEF OnceInv
<1>1. TypeOK /\ \A p \in Procs : task[p] \in SUBSET Tasks
  BY DEF IInv, TypeOK
<1>2. ASSUME UNCHANGED <<rows, task, pc>>
      PROVE  AloneInv'
  BY <1>2 DEF AloneInv, Gone, Running
<1>3. ASSUME NEW p \in Procs, NEW t \in Tasks, Pick(p, t)
      PROVE  AloneInv'
  <2>1. /\ rows' = rows /\ status[t] = "pending"
        /\ \A q \in Procs : ~Running(q)
        /\ task'[p] = {t}
        /\ \A q \in Procs \ {p} : pc'[q] = pc[q] /\ task'[q] = task[q]
    BY <1>1, <1>3 DEF Pick, dbVars, ListPending, TypeOK
  <2>2. \A q \in Procs \ {p} : ~Running(q)' /\ (Gone(q) => Gone(q)')
    BY <2>1 DEF Running, Gone
  <2>3. ASSUME NEW q \in Procs \ {p}, t \in task[q]
        PROVE  Gone(q)'
    <3>1. rows[<<q, 1>>] = "none"
      BY <2>1, <2>3 DEF TakenInv, Waiting
    <3>2. QED
      BY <2>1, <2>2, <3>1 DEF Gone
  <2>4. QED
    BY <2>1, <2>2, <2>3 DEF AloneInv
<1>4. ASSUME NEW p \in Procs, Work(p) \/ Die(p)
      PROVE  AloneInv'
  <2>1. /\ task' = task /\ Running(p)
        /\ \A q \in Procs \ {p} : pc'[q] = pc[q] /\ rows'[<<q, 1>>] = rows[<<q, 1>>]
    BY <1>4, WorkStep
  <2>2. \A q \in Procs \ {p} : /\ Running(q)' <=> Running(q)
                               /\ Gone(q) => Gone(q)'
    BY <2>1 DEF Running, Gone
  <2>3. ~Gone(p)
    BY <2>1 DEF Gone
  <2>4. QED
    BY <2>1, <2>2, <2>3 DEF AloneInv
<1>5. CASE (\E t \in Tasks : Enqueue(t)) \/ UNCHANGED vars
  BY <1>2, <1>5 DEF Enqueue, vars, dbVars
<1>6. QED
  BY <1>3, <1>4, <1>5 DEF Next

LEMMA OrderStep == IInv /\ TakenInv /\ OrderInv /\ [Next]_vars => OrderInv'
<1> SUFFICES ASSUME IInv, TakenInv, OldestFirst, [Next]_vars, ~ById
             PROVE  OldestFirst'
  BY DEF OrderInv
<1>1. TypeOK /\ created \in Seq(Tasks) /\ DOMAIN created = 1..Len(created)
      /\ Len(created) \in Nat /\ \A i \in 1..Len(created) : created[i] \in Tasks
  BY DEF IInv, TypeOK
<1>2. ASSUME UNCHANGED <<created, task>>
      PROVE  OldestFirst'
  BY <1>2 DEF OldestFirst
<1>3. ASSUME NEW t \in Tasks, Enqueue(t)
      PROVE  OldestFirst'
  <2>1. /\ Len(created') = Len(created) + 1 /\ DOMAIN created' = 1..Len(created')
        /\ \A i \in 1..Len(created) : created'[i] = created[i]
        /\ created'[Len(created) + 1] = t
        /\ task' = task
    BY <1>1, <1>3 DEF Enqueue
  <2>2. \A p \in Procs : t \notin task[p]
    BY <1>3 DEF Enqueue, TakenInv
  <2>3. SUFFICES ASSUME NEW i \in 1..Len(created'), NEW j \in 1..Len(created'),
                        i < j, Priority[created'[i]] = Priority[created'[j]],
                        NEW p \in Procs, created'[j] \in task[p]
                 PROVE  \E q \in Procs : created'[i] \in task[q]
    BY <2>1 DEF OldestFirst
  <2>4. j # Len(created) + 1
    BY <2>1, <2>2, <2>3
  <2>5. i \in 1..Len(created) /\ j \in 1..Len(created)
    BY <1>1, <2>1, <2>3, <2>4
  <2>6. created'[i] = created[i] /\ created'[j] = created[j]
    BY <2>1, <2>5
  <2>7. QED
    BY <1>1, <2>3, <2>5, <2>6 DEF OldestFirst
<1>4. ASSUME NEW p \in Procs, NEW t \in Tasks, Pick(p, t)
      PROVE  OldestFirst'
  <2>1. /\ created' = created /\ status[t] = "pending"
        /\ \A u \in ListPending : Before(t, u)
        /\ pc[p] = "idle" /\ task'[p] = {t}
        /\ \A q \in Procs \ {p} : task'[q] = task[q]
    BY <1>1, <1>4 DEF Pick, dbVars, ListPending, TypeOK
  <2>2. task[p] = {}
    BY <2>1 DEF IInv, RowsInv, RowsOf
  <2>3. \A q \in Procs, u \in Tasks : u \in task[q] => u \in task'[q]
    BY <2>1, <2>2
  <2>4. SUFFICES ASSUME NEW i \in 1..Len(created), NEW j \in 1..Len(created),
                        i < j, Priority[created[i]] = Priority[created[j]],
                        NEW q \in Procs, created[j] \in task'[q]
                 PROVE  \E r \in Procs : created[i] \in task'[r]
    BY <1>1, <2>1 DEF OldestFirst
  <2>5. CASE created[j] \in task[q]
    <3>1. \E r \in Procs : created[i] \in task[r]
      BY <1>1, <2>4, <2>5 DEF OldestFirst
    <3>2. QED
      BY <1>1, <2>3, <3>1
  <2>6. CASE created[j] \notin task[q]
    <3>1. created[j] = t
      BY <2>1, <2>4, <2>6
    <3>2. created[i] \notin ListPending
      <4>1. SUFFICES ASSUME created[i] \in ListPending PROVE FALSE
        OBVIOUS
      <4>2. Before(t, created[i])
        BY <2>1, <4>1
      <4>3. Priority[t] \in Int /\ Priority[created[i]] = Priority[t]
        BY <2>4, <3>1, PriorityAssumption
      <4>4. PICK x \in 1..Len(created), y \in 1..Len(created) :
              x <= y /\ created[x] = t /\ created[y] = created[i]
        BY <1>1, <4>2, <4>3 DEF Before
      <4>5. x = j /\ y = i
        BY <3>1, <4>4 DEF TakenInv
      <4>6. QED
        BY <2>4, <4>4, <4>5
    <3>3. status[created[i]] \notin Waiting
      BY <1>1, <3>2 DEF TakenInv, ListPending, Waiting
    <3>4. \E r \in Procs : created[i] \in task[r]
      BY <1>1, <3>3 DEF TakenInv
    <3>5. QED
      BY <1>1, <2>3, <3>4
  <2>7. QED
    BY <2>5, <2>6
<1>5. ASSUME NEW p \in Procs, Work(p) \/ Die(p)
      PROVE  OldestFirst'
  BY <1>2, <1>5, WorkStep
<1>6. CASE UNCHANGED vars
  BY <1>2, <1>6 DEF vars, dbVars
<1>7. QED
  BY <1>3, <1>4, <1>5, <1>6 DEF Next

LEMMA TakenInvariance == Spec => [](TakenInv /\ OnceInv /\ OrderInv)
  BY TakenInit, TakenStep, OnceStep, OrderStep, Invariance, PTL DEF Spec

\* Dispatches that take the next task and do not overlap run each task once,
\* for any number of tasks and processes and wherever some of them die.
THEOREM TasksRunOnce ==
  ASSUME ~MayOverlap, ~ById
  PROVE  Spec => []EachTaskOnce
<1>1. IInv /\ OnceInv => EachTaskOnce
  BY DEF IInv, OnceInv, AloneInv, EachTaskOnce, Gone
<1>2. QED
  BY <1>1, Invariance, TakenInvariance, PTL

\* Dispatches that take the next task serve one priority in order of arrival,
\* even if they overlap on a task.
THEOREM TakenInOrder ==
  ASSUME ~ById
  PROVE  Spec => []OldestFirst
<1>1. OrderInv => OldestFirst
  BY DEF OrderInv
<1>2. QED
  BY <1>1, TakenInvariance, PTL

-----------------------------------------------------------------------------
(* The contract: one dispatch after the other, each taking the next task *)

\* A process at work has one task, which waits until it is claimed and is in
\* progress from then on.
HandInv ==
  \A p \in Procs :
    /\ pc[p] # "idle" => \E t \in Tasks : task[p] = {t}
    /\ Running(p) => \A t \in task[p] :
         status[t] = IF pc[p] = "picked" THEN "pending" ELSE "in_progress"

SerialInv == ~MayOverlap /\ ~ById => AloneInv /\ HandInv

LEMMA HandStep ==
  ASSUME IInv, TakenInv, AloneInv, HandInv, [Next]_vars, ~MayOverlap, ~ById
  PROVE  HandInv'
<1>1. TypeOK /\ \A p \in Procs : RowsOf(p)
  BY DEF IInv, RowsInv
<1>2. ASSUME NEW t \in Tasks, Enqueue(t)
      PROVE  HandInv'
  <2>1. /\ UNCHANGED <<task, pc>> /\ status[t] = "absent"
        /\ \A u \in Tasks \ {t} : status'[u] = status[u]
    BY <1>1, <1>2 DEF Enqueue, TypeOK
  <2>2. \A p \in Procs : t \notin task[p] /\ task[p] \subseteq Tasks
    BY <1>1, <2>1 DEF TakenInv, TypeOK
  <2>3. QED
    BY <2>1, <2>2 DEF HandInv, Running
<1>3. ASSUME NEW p \in Procs, NEW t \in Tasks, Pick(p, t)
      PROVE  HandInv'
  <2>1. /\ status' = status /\ status[t] = "pending" /\ pc'[p] = "picked"
        /\ task'[p] = {t} /\ \A q \in Procs : ~Running(q)
        /\ \A q \in Procs \ {p} : pc'[q] = pc[q] /\ task'[q] = task[q]
    BY <1>1, <1>3 DEF Pick, dbVars, ListPending, TypeOK
  <2>2. QED
    BY <2>1 DEF HandInv, Running
<1>4. ASSUME NEW p \in Procs, Work(p) \/ Die(p)
      PROVE  HandInv'
  <2>1. /\ task' = task /\ Running(p) /\ pc[p] # "idle"
        /\ \A q \in Procs \ {p} : pc'[q] = pc[q]
        /\ pc'[p] \notin {"idle", "picked"}
    BY <1>4, WorkStep
  <2>2. \A q \in Procs \ {p} : ~Running(q)
    BY <2>1 DEF AloneInv
  <2>3. ASSUME Running(p)', NEW t \in task[p]
        PROVE  status'[t] = "in_progress"
    <3>1. t \in Tasks /\ pc'[p] \notin {"over", "dead"}
      BY <1>1, <2>3 DEF TypeOK, Running
    <3>2. CASE Claim(p)
      BY <2>3, <3>1, <3>2 DEF Claim
    <3>3. CASE ~Claim(p)
      <4>1. status' = status /\ pc[p] # "picked"
        BY <1>1, <1>4, <3>1, <3>3 DEF Work, Assign, DispatchReturns, RecordExecution, Retry,
           CloseExecution, SettleTask, Die, dbVars, TypeOK
      <4>2. QED
        BY <2>1, <2>3, <4>1 DEF HandInv
    <3>4. QED
      BY <3>2, <3>3
  <2>4. QED
    BY <2>1, <2>2, <2>3 DEF HandInv, Running
<1>5. CASE UNCHANGED vars
  BY <1>5 DEF vars, dbVars, HandInv, Running
<1>6. QED
  BY <1>2, <1>3, <1>4, <1>5 DEF Next

LEMMA SerialInvariance == Spec => [](TakenInv /\ SerialInv)
<1>1. Init => SerialInv
  <2>1. Init => OnceInv
    BY TakenInit
  <2>2. Init => HandInv
    BY DEF Init, HandInv, Running
  <2>3. QED
    BY <2>1, <2>2 DEF OnceInv, SerialInv
<1>2. IInv /\ TakenInv /\ OnceInv /\ SerialInv /\ [Next]_vars => SerialInv'
  BY OnceStep, HandStep DEF OnceInv, SerialInv
<1>3. QED
  BY <1>1, <1>2, Invariance, TakenInvariance, PTL DEF Spec

\* A process that never ran what it picked has written no row.
LEMMA GoneIsBlank ==
  ASSUME IInv, NEW p \in Procs, rows[<<p, 1>>] = "none", NEW a \in Attempts
  PROVE  rows[<<p, a>>] = "none"
<1>1. RowsOf(p) /\ attempt[p] \in {1, 2} /\ a \in {1, 2}
  BY DEF IInv, RowsInv, TypeOK, Attempts
<1>2. QED
  BY <1>1 DEF RowsOf

\* The phase of the task in somebody's hands, and its failed attempts: those
\* that this process has recorded.
InHand ==
  \A p \in Procs, t \in Tasks : Running(p) /\ task[p] = {t} =>
    /\ Hands(t) = {p} /\ \A u \in Tasks \ {t} : Hands(u) = {}
    /\ Phase(t) = IF status[t] = "pending" THEN "taken"
                  ELSE IF status[t] # "in_progress" THEN status[t]
                  ELSE IF rows[<<p, 1>>] # "none" THEN "running" ELSE "taken"
    /\ FailedOf(t) = {a \in Attempts : rows[<<p, a>>] = "failed"}

LEMMA InHandHolds == IInv /\ AloneInv => InHand
<1> SUFFICES ASSUME IInv, AloneInv, NEW p \in Procs, NEW t \in Tasks, Running(p), task[p] = {t}
             PROVE  /\ Hands(t) = {p} /\ \A u \in Tasks \ {t} : Hands(u) = {}
                    /\ Phase(t) = IF status[t] = "pending" THEN "taken"
                                  ELSE IF status[t] # "in_progress" THEN status[t]
                                  ELSE IF rows[<<p, 1>>] # "none" THEN "running" ELSE "taken"
                    /\ FailedOf(t) = {a \in Attempts : rows[<<p, a>>] = "failed"}
  BY DEF InHand
<1>1. Hands(t) = {p} /\ \A u \in Tasks \ {t} : Hands(u) = {}
  BY DEF AloneInv, Hands
<1>2. Phase(t) = IF status[t] = "pending" THEN "taken"
                 ELSE IF status[t] # "in_progress" THEN status[t]
                 ELSE IF rows[<<p, 1>>] # "none" THEN "running" ELSE "taken"
  BY <1>1 DEF Phase
<1>3. ASSUME NEW q \in Procs \ {p}, t \in task[q], NEW a \in Attempts
      PROVE  rows[<<q, a>>] = "none"
  <2>1. Gone(q)
    BY <1>3 DEF AloneInv, Gone
  <2>2. QED
    BY <2>1, GoneIsBlank DEF Gone
<1>4. FailedOf(t) = {a \in Attempts : rows[<<p, a>>] = "failed"}
  BY <1>3 DEF FailedOf
<1>5. QED
  BY <1>1, <1>2, <1>4

LEMMA InHandNext == (IInv /\ AloneInv)' => InHand'
  BY InHandHolds, PTL

\* A task that no step touches and nobody had or gets in hand.
LEMMA Untouched ==
  ASSUME NEW u \in Tasks, status'[u] = status[u], Hands(u)' = {}, Hands(u) = {}
  PROVE  Phase(u)' = Phase(u)
BY DEF Phase

LEMMA ContractMove ==
  ASSUME NEW t \in Tasks, NEW from, NEW to, Phase(t) = from, Phase(t)' = to,
         \A u \in Tasks \ {t} : Phase(u)' = Phase(u)
  PROVE  Contract!Move(t, from, to)
BY DEF Contract!Move

LEMMA SamePhase ==
  ASSUME \A u \in Tasks : Phase(u)' = Phase(u)
  PROVE  [t \in Tasks |-> Phase(t)]' = [t \in Tasks |-> Phase(t)]
OBVIOUS

LEMMA SameFailed ==
  ASSUME \A u \in Tasks : FailedOf(u)' = FailedOf(u)
  PROVE  [t \in Tasks |-> FailedOf(t)]' = [t \in Tasks |-> FailedOf(t)]
OBVIOUS

\* The other tasks and rows when a process works or dies.
LEMMA OthersRest ==
  ASSUME IInv, IInv', AloneInv, AloneInv', HandInv, NEW p \in Procs, Work(p) \/ Die(p)
  PROVE  \E t \in Tasks :
           /\ task[p] = {t} /\ task'[p] = {t}
           /\ status[t] = IF pc[p] = "picked" THEN "pending" ELSE "in_progress"
           /\ \A u \in Tasks \ {t} : Phase(u)' = Phase(u) /\ FailedOf(u)' = FailedOf(u)
<1>1. /\ UNCHANGED <<created, task>> /\ Running(p) /\ pc[p] # "idle"
      /\ \A q \in Procs \ {p} : pc'[q] = pc[q]
      /\ \A t \in Tasks \ task[p] : status'[t] = status[t]
  BY WorkStep
<1>2. PICK t \in Tasks : task[p] = {t} /\ task'[p] = {t}
  BY <1>1 DEF HandInv
<1>3. status[t] = IF pc[p] = "picked" THEN "pending" ELSE "in_progress"
  BY <1>1, <1>2 DEF HandInv
<1>4. \A q \in Procs \ {p}, a \in Attempts : rows'[<<q, a>>] = rows[<<q, a>>]
  <2>1. CASE RowWriter(p)
    BY <2>1, RowWrite DEF IInv
  <2>2. CASE ~RowWriter(p)
    BY <2>2 DEF RowWriter, Work, Claim, Assign, DispatchReturns, SettleTask, Die, dbVars
  <2>3. QED
    BY <2>1, <2>2
<1>5. ASSUME NEW u \in Tasks \ {t}
      PROVE  Phase(u)' = Phase(u) /\ FailedOf(u)' = FailedOf(u)
  <2>1. Hands(u) = {}
    BY <1>1, <1>2, InHandHolds DEF InHand
  <2>2. u \notin task[p] /\ \A q \in Procs : task'[q] = task[q]
    BY <1>1, <1>2
  <2>3. \A q \in Procs : u \in task[q] => q # p /\ (Running(q)' <=> Running(q))
    BY <1>1, <2>2 DEF Running
  <2>4. Hands(u)' = {}
    BY <2>1, <2>2, <2>3 DEF Hands
  <2>5. Phase(u)' = Phase(u)
    BY <1>1, <1>2, <2>1, <2>4, Untouched
  <2>6. FailedOf(u)' = FailedOf(u)
    BY <1>4, <2>2, <2>3 DEF FailedOf
  <2>7. QED
    BY <2>5, <2>6
<1>6. QED
  BY <1>2, <1>3, <1>5

\* The steps of a process are steps of its task, or none.
LEMMA WorkMoves ==
  ASSUME IInv, IInv', AloneInv, AloneInv', HandInv, NEW p \in Procs, Work(p) \/ Die(p)
  PROVE  [Contract!Next]_(Contract!contractVars)
<1>1. /\ TypeOK /\ RowsOf(p) /\ RowsOf(p)' /\ attempt[p] \in {1, 2}
      /\ created' = created /\ task' = task /\ Running(p) /\ pc[p] # "idle"
  BY WorkStep DEF IInv, RowsInv, TypeOK, Attempts
<1>2. PICK t \in Tasks :
        /\ task[p] = {t} /\ task'[p] = {t}
        /\ status[t] = IF pc[p] = "picked" THEN "pending" ELSE "in_progress"
        /\ \A u \in Tasks \ {t} : Phase(u)' = Phase(u) /\ FailedOf(u)' = FailedOf(u)
  BY OthersRest
<1>3. /\ Phase(t) = IF pc[p] = "picked" \/ rows[<<p, 1>>] = "none" THEN "taken" ELSE "running"
      /\ FailedOf(t) = {a \in Attempts : rows[<<p, a>>] = "failed"}
      /\ Hands(t) = {p}
  BY <1>1, <1>2, InHandHolds DEF InHand
<1>4. Running(p)' =>
        /\ Phase(t)' = IF status'[t] = "pending" THEN "taken"
                       ELSE IF status'[t] # "in_progress" THEN status'[t]
                       ELSE IF rows'[<<p, 1>>] # "none" THEN "running" ELSE "taken"
        /\ FailedOf(t)' = {a \in Attempts : rows'[<<p, a>>] = "failed"}
  BY <1>2, InHandNext DEF InHand
<1>5. ASSUME Phase(t)' = Phase(t), FailedOf(t)' = FailedOf(t)
      PROVE  UNCHANGED Contract!contractVars
  BY <1>1, <1>2, <1>5, SamePhase, SameFailed DEF Contract!contractVars
<1>6. ASSUME NEW from, NEW to, Phase(t) = from, Phase(t)' = to
      PROVE  Contract!Move(t, from, to)
  BY <1>2, <1>6, ContractMove
<1>7. ASSUME FailedOf(t)' = FailedOf(t)
      PROVE  UNCHANGED <<created, [u \in Tasks |-> FailedOf(u)]>>
  BY <1>1, <1>2, <1>7, SameFailed
<1>8. CASE Claim(p)
  <2>1. /\ status'[t] = "in_progress" /\ Running(p)' /\ rows' = rows
        /\ pc[p] = "picked"
    BY <1>1, <1>2, <1>8 DEF Claim, Running, TypeOK
  <2>2. rows[<<p, 1>>] = "none"
    BY <1>1, <2>1 DEF RowsOf
  <2>3. QED
    BY <1>3, <1>4, <1>5, <2>1, <2>2
<1>9. CASE Assign(p) \/ \E ok \in BOOLEAN : DispatchReturns(p, ok)
  <2>1. /\ status' = status /\ Running(p)' /\ rows' = rows
        /\ pc[p] # "picked"
    BY <1>1, <1>9 DEF Assign, DispatchReturns, Running, dbVars, TypeOK
  <2>2. QED
    BY <1>2, <1>3, <1>4, <1>5, <2>1
<1>10. CASE RowWriter(p)
  <2>1. /\ rows[<<p, attempt[p]>>] \in {"none", "running"}
        /\ rows'[<<p, attempt[p]>>] = IF RecordExecution(p) THEN "running" ELSE Outcome(p)
        /\ \A a \in Attempts : a # attempt[p] => rows'[<<p, a>>] = rows[<<p, a>>]
        /\ status' = status
    BY <1>1, <1>10, RowWrite DEF IInv
  <2>2. pc[p] \in {"ran", "recorded"} /\ Running(p)'
    BY <1>1, <1>10 DEF RowWriter, RecordExecution, Retry, CloseExecution, Running, TypeOK
  <2>3. CASE RecordExecution(p) /\ attempt[p] = 1
    <3>1. rows[<<p, 1>>] = "none" /\ rows'[<<p, 1>>] = "running"
      BY <1>1, <2>1, <2>3 DEF RecordExecution, RowsOf
    <3>2. Phase(t) = "taken" /\ Phase(t)' = "running"
      BY <1>2, <1>3, <1>4, <2>1, <2>2, <3>1
    <3>3. FailedOf(t)' = FailedOf(t)
      BY <1>3, <1>4, <2>1, <2>2, <2>3, <3>1 DEF Attempts
    <3>4. Contract!Run(t)
      BY <1>6, <1>7, <3>2, <3>3 DEF Contract!Run
    <3>5. QED
      BY <3>4 DEF Contract!Next
  <2>4. CASE RecordExecution(p) /\ attempt[p] = 2
    <3>1. /\ rows[<<p, 1>>] = "failed" /\ rows'[<<p, 1>>] = "failed"
          /\ rows[<<p, 2>>] = "none" /\ rows'[<<p, 2>>] = "running"
      BY <1>1, <2>1, <2>4 DEF RecordExecution, RowsOf, Attempts
    <3>2. Phase(t) = "running" /\ Phase(t)' = "running"
      BY <1>2, <1>3, <1>4, <2>1, <2>2, <3>1
    <3>3. FailedOf(t)' = FailedOf(t)
      BY <1>3, <1>4, <2>2, <3>1 DEF Attempts
    <3>4. QED
      BY <1>5, <3>2, <3>3
  <2>5. CASE ~RecordExecution(p)
    <3>1. /\ pc[p] = "recorded" /\ rows[<<p, attempt[p]>>] = "running"
          /\ rows'[<<p, attempt[p]>>] = Outcome(p)
      BY <1>1, <1>10, <2>1, <2>5 DEF RowWriter, Retry, CloseExecution, RowsOf
    <3>2. rows[<<p, 1>>] # "none" /\ rows'[<<p, 1>>] # "none"
      BY <1>1, <2>1, <3>1 DEF RowsOf, Outcome, Attempts
    <3>3. Phase(t) = "running" /\ Phase(t)' = "running"
      BY <1>2, <1>3, <1>4, <2>1, <2>2, <3>1, <3>2
    <3>4. CASE Outcome(p) = "failed"
      <4>1. attempt[p] \notin FailedOf(t) /\ FailedOf(t)' = FailedOf(t) \cup {attempt[p]}
        BY <1>1, <1>3, <1>4, <2>1, <2>2, <3>1, <3>4 DEF Attempts
      <4>2. [u \in Tasks |-> FailedOf(u)]'
              = [[u \in Tasks |-> FailedOf(u)] EXCEPT ![t] = @ \cup {attempt[p]}]
        BY <1>2, <4>1
      <4>3. [u \in Tasks |-> Phase(u)]' = [u \in Tasks |-> Phase(u)]
        BY <1>2, <3>3, SamePhase
      <4>4. Contract!Fail(t, attempt[p])
        BY <1>1, <3>3, <4>1, <4>2, <4>3 DEF Contract!Fail
      <4>5. QED
        BY <1>1, <4>4 DEF Contract!Next
    <3>5. CASE Outcome(p) # "failed"
      <4>1. FailedOf(t)' = FailedOf(t)
        BY <1>1, <1>3, <1>4, <2>1, <2>2, <3>1, <3>5 DEF Attempts
      <4>2. QED
        BY <1>5, <3>3, <4>1
    <3>6. QED
      BY <3>4, <3>5
  <2>6. QED
    BY <1>1, <2>3, <2>4, <2>5
<1>11. CASE SettleTask(p)
  <2>1. /\ pc[p] = "closed" /\ status'[t] = Verdict(p, t) /\ rows' = rows /\ success[p] \in BOOLEAN
    BY <1>1, <1>2, <1>11 DEF SettleTask, TypeOK
  <2>2. Phase(t)' = Verdict(p, t)
    BY <2>1 DEF Phase, Verdict
  <2>3. FailedOf(t)' = FailedOf(t)
    BY <1>1, <2>1 DEF FailedOf
  <2>4. /\ rows[<<p, 1>>] # "none"
        /\ FailedOf(t) = {1, 2} <=> ~success[p]
    BY <1>1, <1>3, <2>1 DEF RowsOf, Attempts
  <2>5. Phase(t) = "running"
    BY <1>3, <2>1, <2>4
  <2>6. Contract!Move(t, "running", IF FailedOf(t) = {1, 2} THEN "escalated" ELSE "completed")
    BY <1>6, <2>1, <2>2, <2>4, <2>5 DEF Verdict
  <2>7. Contract!Settle(t)
    BY <1>7, <2>3, <2>6 DEF Contract!Settle
  <2>8. QED
    BY <2>7 DEF Contract!Next
<1>12. CASE Die(p)
  <2>1. UNCHANGED <<status, rows>> /\ pc' = [pc EXCEPT ![p] = "dead"]
    BY <1>12 DEF Die, dbVars
  <2>2. Hands(t)' = {}
    <3>1. ~Running(p)' /\ \A q \in Procs \ {p} : Running(q)' <=> Running(q)
      BY <1>1, <2>1 DEF Running, TypeOK
    <3>2. QED
      BY <1>1, <1>3, <3>1 DEF Hands
  <2>3. FailedOf(t)' = FailedOf(t)
    BY <1>1, <2>1 DEF FailedOf
  <2>4. CASE pc[p] = "picked"
    <3>1. Phase(t) = "taken" /\ Phase(t)' = "waiting"
      BY <1>2, <1>3, <2>1, <2>2, <2>4 DEF Phase
    <3>2. Contract!GiveBack(t)
      BY <1>6, <1>7, <2>3, <3>1 DEF Contract!GiveBack
    <3>3. QED
      BY <3>2 DEF Contract!Next
  <2>5. CASE pc[p] # "picked"
    <3>1. Phase(t) \in {"taken", "running"} /\ Phase(t)' = "lost"
      BY <1>2, <1>3, <2>1, <2>2, <2>5 DEF Phase
    <3>2. Contract!Lose(t)
      BY <1>6, <1>7, <2>3, <3>1 DEF Contract!Lose
    <3>3. QED
      BY <3>2 DEF Contract!Next
  <2>6. QED
    BY <2>4, <2>5
<1>13. QED
  BY <1>8, <1>9, <1>10, <1>11, <1>12 DEF Work, RowWriter

LEMMA ContractStep ==
  ASSUME IInv, IInv', TakenInv, AloneInv, AloneInv', HandInv, HandInv', [Next]_vars,
         ~MayOverlap, ~ById
  PROVE  [Contract!Next]_(Contract!contractVars)
<1>1. TypeOK /\ \A p \in Procs : RowsOf(p)
  BY DEF IInv, RowsInv
<1>2. ASSUME NEW t \in Tasks, Enqueue(t)
      PROVE  Contract!Next
  <2>1. /\ UNCHANGED <<rows, task, pc>> /\ status[t] = "absent"
        /\ created' = Append(created, t) /\ status'[t] = "pending"
        /\ \A u \in Tasks \ {t} : status'[u] = status[u]
    BY <1>1, <1>2 DEF Enqueue, TypeOK
  <2>2. Hands(t)' = {} /\ \A u \in Tasks : Hands(u)' = Hands(u)
    <3>1. \A p \in Procs : t \notin task[p]
      BY <2>1 DEF TakenInv
    <3>2. \A u \in Tasks : Hands(u)' = Hands(u)
      BY <2>1 DEF Hands, Running
    <3>3. QED
      BY <3>1, <3>2 DEF Hands
  <2>3. Phase(t) = "absent" /\ Phase(t)' = "waiting"
    BY <2>1, <2>2 DEF Phase
  <2>4. \A u \in Tasks \ {t} : Phase(u)' = Phase(u)
    BY <2>1, <2>2 DEF Phase
  <2>5. [u \in Tasks |-> FailedOf(u)]' = [u \in Tasks |-> FailedOf(u)]
    BY <2>1 DEF FailedOf
  <2>6. Contract!Move(t, "absent", "waiting")
    BY <2>3, <2>4, ContractMove
  <2>7. Contract!Arrive(t)
    BY <2>1, <2>5, <2>6 DEF Contract!Arrive
  <2>8. QED
    BY <2>7 DEF Contract!Next
<1>3. ASSUME NEW p \in Procs, NEW t \in Tasks, Pick(p, t)
      PROVE  Contract!Next
  <2>1. /\ UNCHANGED <<status, rows, created>> /\ status[t] = "pending" /\ pc[p] = "idle"
        /\ task'[p] = {t} /\ pc'[p] = "picked" /\ \A q \in Procs : ~Running(q)
        /\ \A q \in Procs \ {p} : pc'[q] = pc[q] /\ task'[q] = task[q]
        /\ \A u \in ListPending : Before(t, u)
    BY <1>1, <1>3 DEF Pick, dbVars, ListPending, TypeOK
  <2>2. task[p] = {} /\ \A a \in Attempts : rows[<<p, a>>] = "none"
    BY <1>1, <2>1 DEF RowsOf, Attempts, TypeOK
  <2>3. /\ \A u \in Tasks : Hands(u) = {} /\ Hands(t)' = {p}
        /\ \A u \in Tasks \ {t} : Hands(u)' = {}
    BY <2>1 DEF Hands, Running
  <2>4. Phase(t) = "waiting" /\ Phase(t)' = "taken"
    BY <2>1, <2>3 DEF Phase
  <2>5. \A u \in Tasks \ {t} : Phase(u)' = Phase(u)
    BY <2>1, <2>3 DEF Phase
  <2>6. ASSUME NEW u \in Tasks
        PROVE  FailedOf(u)' = FailedOf(u)
    <3>1. \A q \in Procs, a \in Attempts : rows[<<q, a>>] = "failed" => q # p
      BY <2>2
    <3>2. QED
      BY <2>1, <3>1 DEF FailedOf
  <2>7. \A u \in Tasks : Phase(u) \notin {"taken", "running"}
    <3>1. \A u \in Tasks : status[u] \in {"absent", "pending", "in_progress",
                                          "completed", "escalated"}
      BY <1>1 DEF TypeOK
    <3>2. QED
      BY <2>3, <3>1 DEF Phase
  <2>8. \A u \in Tasks : Phase(u) = "waiting" => Contract!Precedes(t, u)
    <3>1. \A u \in Tasks : Phase(u) = "waiting" => u \in ListPending
      <4>1. \A u \in Tasks : status[u] \in {"absent", "pending", "in_progress",
                                            "completed", "escalated"}
        BY <1>1 DEF TypeOK
      <4>2. QED
        BY <2>3, <4>1 DEF Phase, ListPending
    <3>2. \A u \in ListPending : Contract!Precedes(t, u)
      BY <2>1 DEF Before, Contract!Precedes
    <3>3. QED
      BY <3>1, <3>2
  <2>9. Contract!Move(t, "waiting", "taken")
    BY <2>4, <2>5, ContractMove
  <2>10. [u \in Tasks |-> FailedOf(u)]' = [u \in Tasks |-> FailedOf(u)]
    BY <2>6, SameFailed
  <2>11. Contract!Take(t)
    BY <2>1, <2>7, <2>8, <2>9, <2>10 DEF Contract!Take
  <2>12. QED
    BY <2>11 DEF Contract!Next
<1>4. ASSUME NEW p \in Procs, Work(p) \/ Die(p)
      PROVE  [Contract!Next]_(Contract!contractVars)
  BY <1>4, WorkMoves
<1>5. CASE UNCHANGED vars
  <2>1. \A u \in Tasks : Phase(u)' = Phase(u) /\ FailedOf(u)' = FailedOf(u)
    BY <1>5 DEF vars, dbVars, Phase, Hands, Running, FailedOf
  <2>2. QED
    BY <1>5, <2>1, SamePhase, SameFailed DEF vars, dbVars, Contract!contractVars
<1>6. QED
  BY <1>2, <1>3, <1>4, <1>5 DEF Next

\* Dispatches that take the next task and do not overlap implement the
\* contract, for any tasks, priorities and processes and wherever these die:
\* selecting and claiming, attempt, rows and verdict, each in a statement of its
\* own, look like one task taken, run and settled after the other.
THEOREM QueueImplementsContract ==
  ASSUME ~MayOverlap, ~ById
  PROVE  Spec => ImplementsContract
<1>1. Init => Contract!Init
  <2> SUFFICES ASSUME Init PROVE Contract!Init
    OBVIOUS
  <2>1. \A t \in Tasks : Phase(t) = "absent" /\ FailedOf(t) = {}
    BY DEF Init, Phase, FailedOf
  <2>2. QED
    BY <2>1 DEF Init, Contract!Init
<1>2. IInv /\ IInv' /\ TakenInv /\ SerialInv /\ SerialInv' /\ [Next]_vars
        => [Contract!Next]_(Contract!contractVars)
  BY ContractStep DEF SerialInv
<1>3. QED
  BY <1>1, <1>2, Invariance, SerialInvariance, PTL
  DEF Spec, ImplementsContract, Contract!Spec
=============================================================================

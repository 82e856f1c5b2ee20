---------------------------- MODULE GoalContract ----------------------------
(***************************************************************************)
(* What the orchestrator promises about one goal, without processes, rows, *)
(* retries or plan files.  A goal is created once; from then on it can be  *)
(* opened again and again for a set of subtasks; while it is open, single  *)
(* subtasks of that set finish; and it is settled as "completed" exactly   *)
(* when the whole set has finished, as "escalated" otherwise.              *)
(* A goal that is never settled is opened again, or abandoned.             *)
(***************************************************************************)
EXTENDS Naturals

CONSTANT Subtasks

VARIABLES status, todo, finished

contractVars == <<status, todo, finished>>

Init == status = "none" /\ todo = {} /\ finished = {}

Create ==
  /\ status = "none"
  /\ status' = "planning"
  /\ UNCHANGED <<todo, finished>>

Open(T) ==
  /\ status # "none" /\ T # {}
  /\ status' = "executing"
  /\ todo' = T /\ finished' = {}

Finish(k) ==
  /\ status = "executing" /\ k \in todo \ finished
  /\ finished' = finished \cup {k}
  /\ UNCHANGED <<status, todo>>

Settle ==
  /\ status = "executing"
  /\ status' = IF finished = todo THEN "completed" ELSE "escalated"
  /\ UNCHANGED <<todo, finished>>

Next ==
  \/ Create
  \/ \E T \in SUBSET Subtasks : Open(T)
  \/ \E k \in Subtasks : Finish(k)
  \/ Settle

Spec == Init /\ [][Next]_contractVars
=============================================================================

-------------------------- MODULE MCGoalExecution --------------------------
(* Small instances of GoalExecution for TLC; the bounds are in the .cfg's. *)
EXTENDS GoalExecution
=============================================================================

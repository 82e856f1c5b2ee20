---------------------------- MODULE MCTaskQueue ----------------------------
(* Small instances of TaskQueue for TLC: the tasks and their priorities. *)
EXTENDS TaskQueue, TLC

CONSTANTS t1, t2, t3

\* Two tasks of one priority.
TwoTasks == (t1 :> 0) @@ (t2 :> 0)

\* The same, and a more urgent one.
OneUrgent == TwoTasks @@ (t3 :> 5)

\* In the safety runs the processes are interchangeable.
ProcSymmetry == Permutations(Procs)
=============================================================================

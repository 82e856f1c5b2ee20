---------------------------- MODULE TaskContract ----------------------------
(***************************************************************************)
(* What the queue of stand-alone tasks promises to users who start one     *)
(* dispatch after the other, without processes, statements and rows: the   *)
(* most urgent task that waits is taken, the oldest of those; only one is  *)
(* in hand at a time; it is run once, with up to two attempts, and its     *)
(* verdict says whether both have failed.  A dispatch may die: its task    *)
(* waits again if nothing was written about it, and is lost otherwise.     *)
(***************************************************************************)
EXTENDS Integers, Sequences

CONSTANTS
  Tasks,
  Priority \* of each task

VARIABLES
  arrived, \* the tasks in the order of their arrival
  phase,   \* where each task is
  failed   \* which of its attempts have failed

contractVars == <<arrived, phase, failed>>

Init ==
  /\ arrived = <<>>
  /\ phase = [t \in Tasks |-> "absent"]
  /\ failed = [t \in Tasks |-> {}]

Move(t, from, to) == phase[t] = from /\ phase' = [phase EXCEPT ![t] = to]

Arrive(t) ==
  /\ Move(t, "absent", "waiting")
  /\ arrived' = Append(arrived, t)
  /\ UNCHANGED failed

\* Task t comes before u.
Precedes(t, u) ==
  \/ Priority[t] > Priority[u]
  \/ /\ Priority[t] = Priority[u]
     /\ \E i, j \in DOMAIN arrived : i <= j /\ arrived[i] = t /\ arrived[j] = u

Take(t) ==
  /\ \A u \in Tasks : phase[u] \notin {"taken", "running"}
  /\ \A u \in Tasks : phase[u] = "waiting" => Precedes(t, u)
  /\ Move(t, "waiting", "taken")
  /\ UNCHANGED <<arrived, failed>>

GiveBack(t) ==
  /\ Move(t, "taken", "waiting")
  /\ UNCHANGED <<arrived, failed>>

Run(t) ==
  /\ Move(t, "taken", "running")
  /\ UNCHANGED <<arrived, failed>>

Fail(t, a) ==
  /\ phase[t] = "running" /\ a \notin failed[t]
  /\ failed' = [failed EXCEPT ![t] = @ \cup {a}]
  /\ UNCHANGED <<arrived, phase>>

Settle(t) ==
  /\ Move(t, "running", IF failed[t] = {1, 2} THEN "escalated" ELSE "completed")
  /\ UNCHANGED <<arrived, failed>>

Lose(t) ==
  /\ Move(t, "taken", "lost") \/ Move(t, "running", "lost")
  /\ UNCHANGED <<arrived, failed>>

Next ==
  \E t \in Tasks :
    \/ Arrive(t) \/ Take(t) \/ GiveBack(t) \/ Run(t)
    \/ (\E a \in {1, 2} : Fail(t, a)) \/ Settle(t) \/ Lose(t)

Spec == Init /\ [][Next]_contractVars
=============================================================================

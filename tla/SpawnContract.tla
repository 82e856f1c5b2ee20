--------------------------- MODULE SpawnContract ----------------------------
(***************************************************************************)
(* What the manager of sub-agents promises to its callers, without         *)
(* semaphore, processes and timeouts: first come, first served.  A caller  *)
(* enters at once if there is room and nobody waits; otherwise it joins    *)
(* the line.  Whoever leaves, or gives up waiting, may let the first of    *)
(* the line in, as many as there is room for; nobody enters twice.         *)
(***************************************************************************)
EXTENDS Integers, Sequences

CONSTANTS
  Callers,
  Groups   \* the sets of callers there is room for

VARIABLES
  line,   \* the callers that wait, the first in front
  inside,
  left    \* the callers that are done, or gave up

contractVars == <<line, inside, left>>

Init == line = <<>> /\ inside = {} /\ left = {}

IsNew(c) == c \notin inside \cup left /\ \A i \in 1..Len(line) : line[i] # c

Enter(c) ==
  /\ IsNew(c) /\ line = <<>>
  /\ inside' = inside \cup {c} /\ inside' \in Groups
  /\ UNCHANGED <<line, left>>

Wait(c) ==
  /\ IsNew(c)
  /\ line' = Append(line, c)
  /\ UNCHANGED <<inside, left>>

\* The first n of those who wait join those who are in.
Admit(waiting, in, n) ==
  /\ line' = SubSeq(waiting, n + 1, Len(waiting))
  /\ inside' = in \cup {waiting[i] : i \in 1..n}
  /\ inside' \in Groups

LetIn == \E n \in 1..Len(line) : Admit(line, inside, n) /\ UNCHANGED left

Leave(c) ==
  /\ c \in inside
  /\ \E n \in 0..Len(line) : Admit(line, inside \ {c}, n)
  /\ left' = left \cup {c}

Without(i) == SubSeq(line, 1, i - 1) \o SubSeq(line, i + 1, Len(line))

GiveUp(i) ==
  /\ \E n \in 0..(Len(line) - 1) : Admit(Without(i), inside, n)
  /\ left' = left \cup {line[i]}

Next ==
  \/ \E c \in Callers : Enter(c) \/ Wait(c) \/ Leave(c)
  \/ LetIn
  \/ \E i \in 1..Len(line) : GiveUp(i)

Spec == Init /\ [][Next]_contractVars
=============================================================================

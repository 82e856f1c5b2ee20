------------------------------- MODULE Saves -------------------------------
(***************************************************************************)
(* StatePersistence (packages/core, state.py): sessions saved to one JSON  *)
(* file each, through a temporary file and a rename, by several processes  *)
(* that may die anywhere, while others load and clean up.                  *)
(*                                                                         *)
(* A state is a number: 1, 2, ... in the order the saves begin; 0 is no    *)
(* file.  last and removed are history.                                    *)
(***************************************************************************)
EXTENDS Integers

CONSTANTS
  Sessions, \* session ids
  Savers,   \* processes
  MaxSaves  \* bound: saves in all

ASSUME SavesAssumption == MaxSaves \in Nat

VARIABLES
  stored, \* the file of each session: a state, 0, or -1 if it is cut short
  old,    \* the states that were updated before the cutoff
  saver,  \* the session and state of each process, and what it does with them
  saves,  \* saves begun so far
  last,   \* the state that the last finished save of a session stored
  removed \* sessions a cleanup has removed since then

savesVars == <<stored, old, saver, saves, last, removed>>

-----------------------------------------------------------------------------
States == 1..MaxSaves
NoSave == [of |-> {}, state |-> 0, at |-> "idle"]

SavesTypeOK ==
  /\ stored \in [Sessions -> States \cup {0, -1}]
  /\ old \subseteq States /\ saves \in 0..MaxSaves
  /\ saver \in [Savers -> [of : SUBSET Sessions, state : States \cup {0},
                           at : {"idle", "made", "written", "expired"}]]
  /\ last \in [Sessions -> States \cup {0}] /\ removed \subseteq Sessions

SavesInit ==
  /\ stored = [s \in Sessions |-> 0]
  /\ old = {} /\ saves = 0
  /\ saver = [p \in Savers |-> NoSave]
  /\ last = stored /\ removed = {}

Put(s, state) == stored' = [stored EXCEPT ![s] = state]

(* ---- save: mkstemp, write, rename ---- *)

\* Mutant: the file is opened itself.
MakeFileInPlace(s) == Put(s, -1)

MakeFile(s) == UNCHANGED stored

BeginSave(p, s) ==
  /\ saver[p] = NoSave /\ saves < MaxSaves /\ saves' = saves + 1
  /\ saver' = [saver EXCEPT ![p] = [of |-> {s}, state |-> saves + 1, at |-> "made"]]
  /\ MakeFile(s)
  /\ UNCHANGED <<old, last, removed>>

WriteFile(p) ==
  /\ saver[p].at = "made"
  /\ saver' = [saver EXCEPT ![p].at = "written"]
  /\ UNCHANGED <<stored, old, saves, last, removed>>

RenameFile(p, s) ==
  /\ saver[p].at = "written" /\ s \in saver[p].of
  /\ Put(s, saver[p].state)
  /\ last' = [last EXCEPT ![s] = saver[p].state] /\ removed' = removed \ {s}
  /\ saver' = [saver EXCEPT ![p] = NoSave]
  /\ UNCHANGED <<old, saves>>

\* An exception removes the temporary file, a kill does not; nothing looks at it.
SaverStops(p) ==
  /\ saver[p] # NoSave
  /\ saver' = [saver EXCEPT ![p] = NoSave]
  /\ UNCHANGED <<stored, old, saves, last, removed>>

(* ---- cleanup: read the date, then unlink by name ---- *)

Grow(n) ==
  /\ n \in 1..saves /\ old' = old \cup {n}
  /\ UNCHANGED <<stored, saver, saves, last, removed>>

\* A file that cannot be parsed is passed over.
Expire(p, s) ==
  /\ saver[p] = NoSave /\ stored[s] \in old
  /\ saver' = [saver EXCEPT ![p] = [of |-> {s}, state |-> 0, at |-> "expired"]]
  /\ UNCHANGED <<stored, old, saves, last, removed>>

\* Whatever has the name by now; FileNotFoundError ends the cleanup.
Unlink(p, s) ==
  /\ saver[p].at = "expired" /\ s \in saver[p].of
  /\ Put(s, 0) /\ removed' = removed \cup {s}
  /\ saver' = [saver EXCEPT ![p] = NoSave]
  /\ UNCHANGED <<old, saves, last>>

SavesNext ==
  \/ \E p \in Savers, s \in Sessions :
       BeginSave(p, s) \/ RenameFile(p, s) \/ Expire(p, s) \/ Unlink(p, s)
  \/ \E p \in Savers : WriteFile(p) \/ SaverStops(p)
  \/ \E n \in States : Grow(n)

SavesSpec == SavesInit /\ [][SavesNext]_savesVars

\* load: 0 stands for None; a file that is cut short cannot be parsed.
LoadState(s) == IF stored[s] > 0 THEN stored[s] ELSE 0
ListSessions == {s \in Sessions : LoadState(s) # 0}

-----------------------------------------------------------------------------
\* Whenever a session is loaded, its state is the one that the last save to
\* finish has stored, or there is none because no save has finished or a
\* cleanup came after it: no save that is under way, fails or dies, of this
\* session or another, can be seen, and the list of sessions misses none.
SavedStaysLoadable ==
  /\ \A s \in Sessions : LoadState(s) = IF s \in removed THEN 0 ELSE last[s]
  /\ ListSessions = {s \in Sessions : last[s] # 0} \ removed
=============================================================================

------------------------------- MODULE Brain -------------------------------
(***************************************************************************)
(* The memory of one employee (packages/employees, brain.py): a SQLite     *)
(* file with a table of memories and a full-text index of its own that the *)
(* code keeps in step by rowid.  Several processes use the file over a     *)
(* connection each.                                                        *)
(*                                                                         *)
(* SQLite: a statement that writes begins a transaction and takes the lock *)
(* if none is held; nobody else sees the changes before the commit; a      *)
(* process that dies rolls back.  A row is added at the largest rowid + 1. *)
(* Ids are fresh (random) for every memory, here numbers.                  *)
(***************************************************************************)
EXTENDS Integers, FiniteSetsExt

CONSTANTS
  Conns,     \* the connections
  MaxStored, \* max_memories
  MaxWrites  \* bound: memories written in all

ASSUME BrainAssumption == MaxStored \in Nat /\ MaxWrites \in Nat

VARIABLES
  disk,    \* the committed tables
  work,    \* the tables as the holder of the lock sees them
  holder,  \* the connections in a transaction: none or one
  doing,   \* what each connection is in the middle of
  about,   \* the memories it writes or has found
  excess,  \* prune: to_remove
  written  \* memories written so far

storeVars == <<disk, work, holder, doing>>
brainVars == <<storeVars, about, excess, written>>

-----------------------------------------------------------------------------
Ids == 1..MaxWrites
Rowids == 1..MaxWrites

\* row: the memory with a rowid (0: none); index: what the full-text entry of
\* a rowid is about; score: relevance, 2 when new or recalled.
Tables == [row : [Rowids -> Ids \cup {0}], index : [Rowids -> Ids \cup {0}],
           score : [Ids -> 0..2]]

BrainTypeOK ==
  /\ disk \in Tables /\ work \in Tables
  /\ holder \in {{}} \cup {{c} : c \in Conns}
  /\ doing \in [Conns -> {"nothing", "inserted", "found", "counted", "halfPruned",
                          "changed"}]
  /\ about \in [Conns -> SUBSET Ids] /\ excess \in [Conns -> 0..MaxWrites]
  /\ written \in 0..MaxWrites
  /\ holder = {} => work = disk

BrainInit ==
  /\ disk = [row |-> [r \in Rowids |-> 0], index |-> [r \in Rowids |-> 0],
             score |-> [m \in Ids |-> 2]]
  /\ work = disk /\ holder = {}
  /\ doing = [c \in Conns |-> "nothing"]
  /\ about = [c \in Conns |-> {}] /\ excess = [c \in Conns |-> 0]
  /\ written = 0

Rows(t) == {r \in Rowids : t.row[r] # 0}

\* A statement that writes takes connection c from one place to another.
Execute(c, from, to, tables) ==
  /\ doing[c] = from /\ holder \subseteq {c}
  /\ holder' = {c} /\ work' = tables
  /\ doing' = [doing EXCEPT ![c] = to]
  /\ UNCHANGED disk

\* A SELECT sees the committed tables.
Select(c, to) ==
  /\ doing[c] = "nothing"
  /\ doing' = [doing EXCEPT ![c] = to]
  /\ UNCHANGED <<disk, work, holder>>

(* ---- write ---- *)

InsertMemory(c) ==
  /\ written < MaxWrites /\ written' = written + 1
  /\ Execute(c, "nothing", "inserted",
       [work EXCEPT !.row[Max(Rows(work) \cup {0}) + 1] = written + 1,
                    !.score[written + 1] = 2])
  /\ about' = [about EXCEPT ![c] = {written + 1}]
  /\ UNCHANGED excess

\* Its rowid is looked up by the memory's id.
InsertIndex(c) ==
  /\ \E r \in Rowids :
       /\ work.row[r] \in about[c]
       /\ Execute(c, "inserted", "changed", [work EXCEPT !.index[r] = work.row[r]])
  /\ UNCHANGED <<about, excess, written>>

(* ---- recall: what the index finds, then the boost of it; decay_all ---- *)

Recall(c, m) ==
  /\ \E r \in Rows(disk) : disk.row[r] = m /\ disk.index[r] # 0
  /\ Select(c, "found")
  /\ about' = [about EXCEPT ![c] = {m}]
  /\ UNCHANGED <<excess, written>>

Boost(c) ==
  /\ Execute(c, "found", "changed",
       [work EXCEPT !.score = [m \in Ids |-> IF m \in about[c] THEN 2 ELSE @[m]]])
  /\ UNCHANGED <<about, excess, written>>

Decay(c) ==
  /\ Execute(c, "nothing", "changed",
       [work EXCEPT !.score = [m \in Ids |-> IF @[m] = 0 THEN 0 ELSE @[m] - 1]])
  /\ UNCHANGED <<about, excess, written>>

(* ---- prune: a count, then the two deletions ---- *)

Count(c) ==
  /\ Select(c, "counted") /\ Cardinality(Rows(disk)) > MaxStored
  /\ excess' = [excess EXCEPT ![c] = Cardinality(Rows(disk)) - MaxStored]
  /\ UNCHANGED <<about, written>>

\* ORDER BY relevance_score ASC LIMIT n: ties in the order of the table.
Lowest(t, n) ==
  LET lower(q, r) == \/ t.score[t.row[q]] < t.score[t.row[r]]
                     \/ t.score[t.row[q]] = t.score[t.row[r]] /\ q < r
  IN {r \in Rows(t) : Cardinality({q \in Rows(t) : lower(q, r)}) < n}

Delete(rs, table) == [r \in Rowids |-> IF r \in rs THEN 0 ELSE table[r]]

\* Mutant: the memories first.
PruneIndexLate(c) ==
  /\ Execute(c, "counted", "halfPruned",
       [work EXCEPT !.row = Delete(Lowest(work, excess[c]), @)])
  /\ UNCHANGED <<about, excess, written>>

PruneIndex(c) ==
  /\ Execute(c, "counted", "halfPruned",
       [work EXCEPT !.index = Delete(Lowest(work, excess[c]), @)])
  /\ UNCHANGED <<about, excess, written>>

PruneMemories(c) ==
  /\ Execute(c, "halfPruned", "changed",
       [work EXCEPT !.row = Delete(Lowest(work, excess[c]), @)])
  /\ UNCHANGED <<about, excess, written>>

(* ---- the end of a transaction ---- *)

Finished(c) ==
  /\ holder' = holder \ {c}
  /\ doing' = [doing EXCEPT ![c] = "nothing"]
  /\ about' = [about EXCEPT ![c] = {}] /\ excess' = [excess EXCEPT ![c] = 0]
  /\ UNCHANGED written

Commit(c) ==
  /\ doing[c] = "changed"
  /\ disk' = work /\ UNCHANGED work
  /\ Finished(c)

\* The process dies.
Rollback(c) ==
  /\ doing[c] # "nothing"
  /\ work' = IF c \in holder THEN disk ELSE work
  /\ UNCHANGED disk
  /\ Finished(c)

BrainNext ==
  \E c \in Conns :
    \/ InsertMemory(c) \/ InsertIndex(c)
    \/ (\E m \in Ids : Recall(c, m)) \/ Boost(c) \/ Decay(c)
    \/ Count(c) \/ PruneIndex(c) \/ PruneMemories(c)
    \/ Commit(c) \/ Rollback(c)

BrainSpec == BrainInit /\ [][BrainNext]_brainVars

-----------------------------------------------------------------------------
\* Every committed memory can be found: its rowid has a full-text entry about
\* it, and there is no entry without a memory.  The two deletions of prune
\* select their rows separately and write works in two statements; this holds
\* whoever boosts, decays, prunes or dies in between, and for a rowid that is
\* used again after a deletion.
FindableMemory == disk.index = disk.row
=============================================================================

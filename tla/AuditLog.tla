----------------------------- MODULE AuditLog -----------------------------
(***************************************************************************)
(* AuditLogger (packages/security, audit.py): an append-only file per day  *)
(* whose entries are chained by their hashes.  Every process has a logger  *)
(* of its own, which starts from "genesis" (here 0) and keeps the last     *)
(* hash in memory.                                                         *)
(*                                                                         *)
(* A hash covers the time of an entry: no two entries have the same, and   *)
(* hashes are numbered as they are computed.  The text of a line reaches   *)
(* the file at once, unless the disk is full or the machine dies; lines    *)
(* cut just before their newline are left out.  chained is history.        *)
(***************************************************************************)
EXTENDS Integers, Sequences, SequencesExt

CONSTANTS
  Loggers,   \* the loggers there are, one after the other or side by side
  LogDays,   \* bound: the days are 1..LogDays
  MaxEntries \* bound: entries in all

ASSUME AuditAssumption ==
  Loggers # {} /\ LogDays \in Nat \ {0} /\ MaxEntries \in Nat

VARIABLES
  journal,  \* the entries that can be read from the file of each day
  damaged,  \* the days with a line that cannot be read
  unended,  \* the days whose last line has no newline
  logDay,   \* the date
  lastHash, \* _last_hash of each logger
  writing,  \* the entry a logger is about to append
  hashes,   \* hashes computed so far
  chained   \* the hashes each logger has computed, in this order

auditVars == <<journal, damaged, unended, logDay, lastHash, writing, hashes, chained>>

-----------------------------------------------------------------------------
Entry == [prev : 0..MaxEntries, hash : 1..MaxEntries, day : 1..LogDays]

AuditTypeOK ==
  /\ \A d \in 1..LogDays : ToSet(journal[d]) \subseteq Entry
  /\ damaged \subseteq 1..LogDays /\ unended \subseteq damaged
  /\ logDay \in 1..LogDays /\ hashes \in 0..MaxEntries
  /\ lastHash \in [Loggers -> 0..MaxEntries]
  /\ \A l \in Loggers : /\ writing[l] = {} \/ \E e \in Entry : writing[l] = {e}
                        /\ ToSet(chained[l]) \subseteq 1..hashes

AuditInit ==
  /\ journal = [d \in 1..LogDays |-> <<>>] /\ logDay = 1
  /\ damaged = {} /\ unended = {}
  /\ lastHash = [l \in Loggers |-> 0] /\ hashes = 0
  /\ writing = [l \in Loggers |-> {}]
  /\ chained = [l \in Loggers |-> <<>>]

\* log, up to the computation of the path: now was read before.
Chain(l) ==
  /\ writing[l] = {} /\ hashes < MaxEntries /\ hashes' = hashes + 1
  /\ writing' = [writing EXCEPT ![l] =
                   {[prev |-> lastHash[l], hash |-> hashes', day |-> logDay]}]
  /\ lastHash' = [lastHash EXCEPT ![l] = hashes']
  /\ chained' = [chained EXCEPT ![l] = Append(@, hashes')]
  /\ UNCHANGED <<journal, damaged, unended, logDay>>

\* Behind a line that has no end the entry becomes part of what cannot be read.
AppendEntry(l) ==
  /\ \E e \in writing[l] :
       /\ unended' = unended \ {e.day}
       /\ IF e.day \in unended THEN UNCHANGED journal
          ELSE journal' = [journal EXCEPT ![e.day] = Append(@, e)]
  /\ writing' = [writing EXCEPT ![l] = {}]
  /\ UNCHANGED <<damaged, logDay, lastHash, hashes, chained>>

\* OSError: the entry is gone, but the logger chains the next one to it; a part
\* of the line may have reached the file.
AppendRaises(l) ==
  /\ writing' = [writing EXCEPT ![l] = {}]
  /\ \E e \in writing[l] :
       \/ UNCHANGED <<damaged, unended>>
       \/ damaged' = damaged \cup {e.day} /\ unended' = unended \cup {e.day}
  /\ UNCHANGED <<journal, logDay, lastHash, hashes, chained>>

NextDay ==
  /\ logDay < LogDays /\ logDay' = logDay + 1
  /\ UNCHANGED <<journal, damaged, unended, lastHash, writing, hashes, chained>>

AuditNext ==
  (\E l \in Loggers : Chain(l) \/ AppendEntry(l) \/ AppendRaises(l)) \/ NextDay

\* What query and verify_chain read, in the order of the names of the files.
AllEntries == FlattenSeq(journal)

\* query, for entries of all types, passes over lines that cannot be read; the
\* limit is tested after an entry is added.
Query(since, limit) ==
  LET found == FlattenSeq([n \in DOMAIN AllEntries |->
                            IF AllEntries[n].day < since THEN <<>>
                            ELSE <<AllEntries[n]>>])
      most == IF limit < 1 THEN 1 ELSE limit
  IN IF Len(found) <= most THEN found ELSE SubSeq(found, 1, most)

\* Mutant: every file is a chain of its own.
VerifyFiles ==
  \A d \in 1..LogDays : \A n \in DOMAIN journal[d] :
    journal[d][n].prev = IF n = 1 THEN 0 ELSE journal[d][n - 1].hash

\* verify_chain says True; it raises at a line that cannot be read.
VerifyChain ==
  damaged = {} /\ \A n \in DOMAIN AllEntries :
    AllEntries[n].prev = IF n = 1 THEN 0 ELSE AllEntries[n - 1].hash

AuditSpec == AuditInit /\ [][AuditNext]_auditVars

-----------------------------------------------------------------------------
\* verify_chain says True exactly if no line is damaged and what query shows,
\* with any limit, is an unbroken beginning of what one logger has logged: it
\* says False, or raises, as soon as an entry was lost before another or a second
\* process (so any restart) has logged, and midnights do not disturb it.
VerdictTellsWhole ==
  VerifyChain <=> damaged = {} /\ \E l \in Loggers : \A limit \in 0..MaxEntries :
    LET shown == Query(1, limit)
    IN IsPrefix([n \in DOMAIN shown |-> shown[n].hash], chained[l])
=============================================================================

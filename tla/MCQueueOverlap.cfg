\* Overlapping processes, tasks by id, failures; fair.
SPECIFICATION FairSpec
CONSTANTS
  t1 = t1
  t2 = t2
  t3 = t3
  Tasks = {t1, t2}
  Priority <- TwoTasks
  Procs = {p1, p2, p3}
  ById = TRUE
  MayOverlap = TRUE
  MayFail = TRUE
INVARIANTS
  VerdictHasEvidence
PROPERTIES
  ClaimedIsSettled
CHECK_DEADLOCK FALSE

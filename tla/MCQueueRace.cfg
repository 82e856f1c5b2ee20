\* A claim of dispatch; not kept when two processes overlap.
SPECIFICATION Spec
CONSTANTS
  t1 = t1
  t2 = t2
  t3 = t3
  Tasks = {t1, t2}
  Priority <- TwoTasks
  Procs = {p1, p2}
  ById = FALSE
  MayOverlap = TRUE
  MayFail = FALSE
INVARIANTS
  EachTaskOnce
CHECK_DEADLOCK FALSE

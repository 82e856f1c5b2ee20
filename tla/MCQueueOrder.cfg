\* Processes one after the other, some dying.  (The contract constrains single
\* steps only, for which the symmetry is sound.)
SPECIFICATION Spec
CONSTANTS
  t1 = t1
  t2 = t2
  t3 = t3
  Tasks = {t1, t2, t3}
  Priority <- OneUrgent
  Procs = {p1, p2, p3, p4}
  ById = FALSE
  MayOverlap = FALSE
  MayFail = TRUE
PROPERTIES
  ImplementsContract
SYMMETRY ProcSymmetry
CHECK_DEADLOCK FALSE

\* A claim of resume; not kept.
SPECIFICATION Spec
CONSTANTS
  N = 3
  MaxRuns = 3
  MayCrash = FALSE
  MayRaise = FALSE
INVARIANTS
  CompletedMeansAllDone
CHECK_DEADLOCK FALSE

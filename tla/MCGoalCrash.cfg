\* Two subtasks, the first run and two resumes, crashes and exceptions.
SPECIFICATION Spec
CONSTANTS
  N = 2
  MaxRuns = 3
  MayCrash = TRUE
  MayRaise = TRUE
INVARIANTS
  TypeOK
  RetriesFollowFailures
  VerdictHasEvidence
  FirstRunPlanIsRight
PROPERTIES
  ChecksAreKept
  ImplementsContract
CHECK_DEADLOCK FALSE

\* Three subtasks, two resumes, no failure of the process; fair.
SPECIFICATION FairSpec
CONSTANTS
  N = 3
  MaxRuns = 3
  MayCrash = FALSE
  MayRaise = FALSE
INVARIANTS
  ChecksAreEarned
  EscalatedIsResumable
PROPERTIES
  GoalSettles
CHECK_DEADLOCK FALSE

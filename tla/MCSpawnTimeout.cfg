\* A claim of the wiki; not kept.
SPECIFICATION FairSpec
CONSTANTS
  Agents = {a1, a2}
  MaxConcurrent = 1
  MayCancel = FALSE
  MayBreak = FALSE
PROPERTIES
  TimeoutBoundsSpawn
CHECK_DEADLOCK FALSE

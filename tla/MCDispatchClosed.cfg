\* A claim of close(); not kept.
SPECIFICATION DispatchSpec
CONSTANTS
  Jobs = {1, 2}
  Employees = {e1, e2}
  Texts = {x}
  HasGitNexus = FALSE
  AutoIndex = FALSE
  MayStop = FALSE
INVARIANTS
  CloseClosesAll
CHECK_DEADLOCK FALSE

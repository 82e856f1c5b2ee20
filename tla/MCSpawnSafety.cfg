\* Three spawns, two permits, cancellation at every await, exceptions.
SPECIFICATION Spec
CONSTANTS
  Agents = {a1, a2, a3}
  MaxConcurrent = 2
  MayCancel = TRUE
  MayBreak = TRUE
INVARIANTS
  PermitsConserved
  NoStrandedWaiter
  ActiveIsSupervised
  EndedCleanly
SYMMETRY AgentSymmetry
CHECK_DEADLOCK FALSE

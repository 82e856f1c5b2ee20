\* A claim of ContextManager; not kept.
SPECIFICATION SelectionSpec
CONSTANTS
  Lengths = {0, 8}
  MaxMessages = 2
  MaxTurns = 1
  LeastMessage = 1
  Tools = {}
  Estimates = {0}
  UnknownCost = 1
  MaxUses = 0
  Budgets = {1, 2, 3}
INVARIANTS
  DropsOldest
CHECK_DEADLOCK FALSE

\* Each part alone; the bounds of each are beside it.
SPECIFICATION PartsSpec
CONSTANTS
  \* spawn: three spawns, one permit, no exceptions
  Agents = {1, 2, 3}
  MaxConcurrent = 1
  MayCancel = FALSE
  MayBreak = FALSE
  \* dispatch: two subtasks with their retries
  Jobs = {1, 2}
  Employees = {e1, e2}
  Texts = {x, y}
  HasGitNexus = TRUE
  AutoIndex = TRUE
  MayStop = TRUE
  \* hr, session: two employees, two clerks
  Staff = {1, 2}
  Directives = {d}
  Clerks = {h1, h2}
  \* brain: two processes, one memory too many, and rowids used again
  Conns = {c1, c2}
  MaxStored = 1
  MaxWrites = 3
  \* turn: three rounds of up to two calls, one id missing
  CallIds = {0, 1}
  MaxIterations = 3
  MaxCalls = 2
  \* pool
  Servers = {s1, s2}
  Users = {u1, u2}
  MaxClients = 3
  \* ledger: two processes, three days, two months
  Spenders = {b1, b2}
  LastDay = 3
  Months <- SomeMonths
  MaxSpent = 3
  \* saves
  Sessions = {n1, n2}
  Savers = {w1, w2}
  MaxSaves = 3
  \* versions, optimizer
  Versions = {1, 2}
  Authors = {m1, m2}
  MaxCandidates = 2
  Phrases = {ph1, ph2}
  Tests = {t1, t2}
  \* login
  Refreshers = {r1, r2}
  MaxTokens = 3
  \* messages, tools: two turns, three tools (some of unknown cost)
  Lengths = {0, 8, 16}
  MaxMessages = 5
  MaxTurns = 2
  LeastMessage = 1
  Tools = {1, 2, 3}
  Estimates = {0, 3}
  UnknownCost = 1
  MaxUses = 1
  Budgets <- SomeBudgets
  \* audit
  Loggers = {l1, l2}
  LogDays = 2
  MaxEntries = 4
  \* config
  Sections = {g}
  Settings = {o}
  Keys = {k1, k2}
  \* center: start-up and three requests of the user, two notifications
  MaxRequests = 5
  MaxNotes = 2
INVARIANTS
  PartsTypeOK
  UsedIsOpen
  WorkingIsShown
  RosterIsRight
  FindableMemory
  CallsAreAnswered
  PooledIsConnected
  SpendIsCounted
  SavedStaysLoadable
  ActiveExists
  BestIsBest
  LoginIsKept
  SelectionFits
  VerdictTellsWhole
  LastLayerWins
  UsableIsHeard
PROPERTIES
  SpawnEnds
  ImplementsContract
  PreparationEnds
  HandlersEnd
CHECK_DEADLOCK FALSE

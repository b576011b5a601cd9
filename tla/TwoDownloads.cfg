SPECIFICATION Spec
CONSTANTS
  Ids = {d1, d2}
  Albums = {}
  Untitled = {}
  Providers = {p1, qb}
  Client = qb
  PendingSource = pending
  MaxRetries = 1
  MaxStarts = 1
  Cap <- CapOne
  Ticks = {t1}
  RetryEvery = 1
  ResolveEvery = 1
  Callers = {c1}
  MaxCancels = 0
  MaxUserRetries = 0
  Workers = {w1, w2}
  MaxCrashes = 0
  InProcess = {p1}
  SearchPanics = TRUE
  ProviderCancels = FALSE
SYMMETRY Sym
INVARIANTS
  SlotsMatch
  TrackedLimit

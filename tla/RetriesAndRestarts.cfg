SPECIFICATION FairSpec
CONSTANTS
  Ids = {d1}
  Albums = {}
  Untitled = {}
  Providers = {p1, qb}
  Client = qb
  PendingSource = pending
  MaxRetries = 2
  MaxStarts = 3
  Cap <- CapOne
  Ticks = {t1}
  RetryEvery = 1
  ResolveEvery = 1
  Callers = {c1}
  MaxCancels = 0
  MaxUserRetries = 0
  Workers = {w1, w2}
  MaxCrashes = 1
  InProcess = {p1}
  SearchPanics = FALSE
  ProviderCancels = FALSE
INVARIANTS
  TypeInv
  DownloadingWatched
  RetryBudget
PROPERTIES
  ImplementsLifecycle
  Settles

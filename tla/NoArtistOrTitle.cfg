SPECIFICATION FairSpec
CONSTANTS
  Ids = {d1}
  Albums = {}
  Untitled = {d1}
  Providers = {p1, qb}
  Client = qb
  PendingSource = pending
  MaxRetries = 1
  MaxStarts = 1
  Cap <- CapOne
  Ticks = {t1}
  RetryEvery = 1
  ResolveEvery = 1
  Callers = {c1}
  MaxCancels = 1
  MaxUserRetries = 1
  Workers = {w1}
  MaxCrashes = 0
  InProcess = {p1}
  SearchPanics = FALSE
  ProviderCancels = TRUE
PROPERTIES
  TrackingEnds

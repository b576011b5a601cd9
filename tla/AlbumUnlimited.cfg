SPECIFICATION Spec
CONSTANTS
  Ids = {d1}
  Albums = {d1}
  Untitled = {}
  Providers = {p1, qb}
  Client = qb
  PendingSource = pending
  MaxRetries = 1
  MaxStarts = 2
  Cap <- CapUnlimited
  Ticks = {t1}
  RetryEvery = 1
  ResolveEvery = 1
  Callers = {c1}
  MaxCancels = 1
  MaxUserRetries = 0
  Workers = {w1, w2}
  MaxCrashes = 1
  InProcess = {p1}
  SearchPanics = TRUE
  ProviderCancels = FALSE
INVARIANTS
  HandoverInv
  ExclusiveInv

CONSTANTS
  Requests = {r1}
  Items = {1, 2}
  DefaultToAtLeastAsAcknowledged = TRUE
  FullyConsistentAsDefault = TRUE
  DefaultStreamingLimit = 2
  MaxRevisions = 3
  MaxFailures = 1
  Calls = {c1, c2}
  CacheLife = 2
  Lifetimes = {0, 2}
  MaxTime = 3
SPECIFICATION BackendsSpec
INVARIANTS
  FreshEnough
  SettledChecksAreRight
  PagesAreOneList
  BearerTokensAreLive
CHECK_DEADLOCK FALSE

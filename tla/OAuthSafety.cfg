\* Two clients, two generations, a channel of two commands, a budget of two,
\* and one redirect.
SPECIFICATION Spec
CONSTANTS
  c1 = c1
  c2 = c2
  Clients = {c1, c2}
  NoClient = NoClient
  InitialRateLimit = 2
  RefreshThreshold = 1
  QueueCapacity = 2
  MaxRedirects = 1
  UpstreamLimit = 2
  MaxGeneration = 1
SYMMETRY Symmetry
INVARIANTS
  TypeOK
  WithinUpstreamQuota
  LeaseIsFresh
  NobodyWaitsOnStopped
PROPERTIES
  GrantsAreUsable
  BudgetOnlyRenewed
  LateReportsAreHarmless

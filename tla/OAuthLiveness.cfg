\* Two clients, a channel of one command, where senders block on each other,
\* and two generations.
SPECIFICATION FairSpec
CONSTANTS
  c1 = c1
  c2 = c2
  Clients = {c1, c2}
  NoClient = NoClient
  InitialRateLimit = 1
  RefreshThreshold = 1
  QueueCapacity = 1
  MaxRedirects = 0
  UpstreamLimit = 1
  MaxGeneration = 1
PROPERTIES
  CallsAreAnswered
  Recovers

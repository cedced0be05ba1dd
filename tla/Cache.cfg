\* Two callers of two keys that share a stripe; a queue of two jobs that the
\* maintenance can fill, so that reads and writes are refused.
SPECIFICATION Spec
CONSTANTS
  c1 = c1
  c2 = c2
  None = None
  Callers = {c1, c2}
  Keys = {1, 2}
  FlightOf <- OneFlight
  Limits = {1, 2}
  MaxEntry = 1
  Ttl <- Ttls
  ExpiredBatch = 1
  EvictBatch = 1
  QueueCapacity = 1
  MaxTime = 2
  MaxFetches = 2
SYMMETRY Symmetry
INVARIANTS
  SizeIsAccounted
PROPERTIES
  WritesKeepTheLimit
  KeepsContract

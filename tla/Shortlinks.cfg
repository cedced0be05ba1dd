\* Two callers, a table of two rows, two creations in a window of two seconds.
SPECIFICATION Spec
CONSTANTS
  c1 = c1
  c2 = c2
  d1 = d1
  d2 = d2
  d3 = d3
  i1 = i1
  i2 = i2
  i3 = i3
  NoId = NoId
  Clients = {c1, c2}
  Definitions = {d1, d2, d3}
  Ids = {i1, i2, i3}
  Alphanumeric = {i1, i2}
  MaxDefinitions = 2
  CreationsPerMinute = 1
  Window = 2
  QueueCapacity = 2
  MaxTime = 4
SYMMETRY Symmetry
INVARIANTS
  OneLinkPerDefinition
  LimitsRespected
PROPERTY
  LinksAreDurable

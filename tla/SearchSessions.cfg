\* Two callers, two sessions of up to two source pages, a gate of one permit.
SPECIFICATION Spec
CONSTANTS
  c1 = c1
  c2 = c2
  s1 = s1
  s2 = s2
  i1 = i1
  i2 = i2
  None = None
  Clients = {c1, c2}
  Sessions = {s1, s2}
  Items = {i1, i2}
  Limit = 1
  MaxPages = 1
  MaxSourcePages = 2
  MaxEntries = 1
  GateSize = 1
SYMMETRY Symmetry
INVARIANTS
  CallsWithinGate
  NoItemTwice
  NothingLost
  AdvancesItsPage
PROPERTIES
  EvictedStayEvicted
  DroppedNeverRestarts

\* The cursors the code generates, against what it accepts back.
SPECIFICATION Spec
CONSTANTS
  c1 = c1
  c2 = c2
  f1 = f1
  f2 = f2
  k1 = k1
  k2 = k2
  k3 = k3
  None = None
  Clients = {c1, c2}
  Feeds = {f1, f2}
  Stripe <- TwoStripes
  Cursors = {k1, k2, k3}
  Alphanumeric = {k1, k2}
  GateSize = 1
SYMMETRY Symmetry
INVARIANTS
  IssuedCursorsAreAccepted

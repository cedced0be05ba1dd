SPECIFICATION FairSpec
CONSTANTS
  c1 = c1
  c2 = c2
  s1 = s1
  d1 = d1
  d2 = d2
  i1 = i1
  i2 = i2
  f1 = f1
  f2 = f2
  k1 = k1
  None = None
PROPERTY
  CallsEnd
\* Names of sessions run out: the instance may stop.
CHECK_DEADLOCK FALSE

SPECIFICATION Spec
CONSTANTS
  k1 = k1
  k2 = k2
  r1 = r1
  r2 = r2
  Kids <- TwoKids
  Requests <- TwoRequests
  TTL = 3
  Delay = 1
SYMMETRY Symmetric
INVARIANT PublishedKeyIsKnown
PROPERTY WithdrawnKeyDies

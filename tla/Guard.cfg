\* Three callers; half a token per tick, a burst of two.
SPECIFICATION FairSpec
CONSTANTS
  c1 = c1
  c2 = c2
  c3 = c3
  Callers <- ThreeCallers
  Unit = 2
  Rate = 1
  Capacity = 4
  Timeout = 3
  FailMax = 2
  ResetTicks = 2
INVARIANTS TypeOK RateBound TripsInTime
PROPERTY NotStarved

SPECIFICATION FairSpec
CONSTANTS
  s1 = s1
  s2 = s2
  s3 = s3
  Sessions <- ThreeSessions
  Counts = {1}
  NotCounted = 0
  NoSession = NoSession
  MaxShifts = 2
  MaxCash = 1
PROPERTY RequestsEnd
INVARIANTS TypeOK OneOpenShift

\* Two API sessions, every kind of movement, transfers in both directions; one
\* level row exists and the other is created by whoever comes first.
CONSTANTS
  v1 = v1
  Variants = {v1}
  Warehouses = {1, 2}
  Sessions = {s1, s2}
  NoSession = NoSession
  NoLevel = NoLevel
  Stock <- MCStock
  ApiKinds = {"in", "out", "reserve", "unreserve", "adjust"}
  Amounts = {1}
  MaxSeq = 2
SPECIFICATION FairSpec
INVARIANTS TypeOK GuardsSuffice JournalExplainsLevels EventsReplayLevels
PROPERTIES ExpectedLevelIsTheLevel TransferConservesStock ImplementsLedger TransactionsEnd
\* The callers stop once MaxSeq events exist.
CHECK_DEADLOCK FALSE

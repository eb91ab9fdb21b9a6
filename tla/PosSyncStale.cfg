\* A pull and an API caller: does the journal still explain the levels?
CONSTANTS
  v1 = v1
  v2 = v2
  Variants = {v1, v2}
  Warehouses = {1}
  Target = 1
  Known = {v1, v2}
  Pulls <- MCPulls
  Sessions = {p, a}
  Syncs = {p}
  NoSession = NoSession
  NoLevel = NoLevel
  Stock <- MCStock
  ApiKinds = {"in", "out", "reserve"}
  Amounts = {1}
  MaxSeq = 2
SPECIFICATION SyncSpec
INVARIANTS JournalExplainsLevels
CHECK_DEADLOCK FALSE

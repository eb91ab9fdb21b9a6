\* Two pulls that may overlap and an API caller; the POS has sold or received
\* a unit of v1 and lists its products in either order; v2 is new to the hub.
CONSTANTS
  v1 = v1
  v2 = v2
  Variants = {v1, v2}
  Warehouses = {1}
  Target = 1
  Known = {v1}
  Pulls <- MCPulls
  Sessions = {p,q,a}
  Syncs = {p,q}
  NoSession = NoSession
  NoLevel = NoLevel
  Stock <- MCStock
  ApiKinds = {"out","reserve"}
  Amounts = {1}
  MaxSeq = 2
SPECIFICATION FairSyncSpec
PROPERTIES SyncStoresReport SyncKeepsReservations SyncsEnd
\* The callers stop once MaxSeq events exist.
CHECK_DEADLOCK FALSE

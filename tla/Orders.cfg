\* Two webhook sessions with orders that lock their rows crosswise, and a
\* session that moves stock between the warehouses.
CONSTANTS
  v1 = v1
  v2 = v2
  o1 = o1
  o2 = o2
  o3 = o3
  unknown = unknown
  Variants = {v1, v2}
  Warehouses = {1, 2}
  Online = {1, 2}
  Sessions = {w1, w2, a}
  Webhooks = {w1, w2}
  Orders = {o1, o2, o3}
  Skus = {v1, v2, unknown}
  Lines <- CrossedLines
  NoSession = NoSession
  NoLevel = NoLevel
  Stock <- CrossedStock
  ApiKinds = {}
  Amounts = {1}
  MaxSeq = 2
SPECIFICATION FairOrderSpec
INVARIANT ReservationsHaveOrders
PROPERTIES ImplementsOrderBook DeliveriesEnd
\* The channels stop once MaxSeq events exist.
CHECK_DEADLOCK FALSE

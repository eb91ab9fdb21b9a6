SPECIFICATION FairSpec
CONSTANTS
  s1 = s1
  s2 = s2
  o1 = o1
  o2 = o2
  NoOrder = NoOrder
  NoAnswer = NoAnswer
  Sessions <- TwoSessions
  Orders <- TwoOrders
  Demand <- Contended
  Code <- BothCodes
  Stock = 2
INVARIANTS RecordedAtMostOnce AckIsTheDecision
PROPERTY DeliveriesSettle

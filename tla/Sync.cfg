SPECIFICATION Spec
CONSTANTS
  c1 = c1
  c2 = c2
  m1 = m1
  m2 = m2
  NotListed = NotListed
  Idle = Idle
  Channels <- TwoChannels
  Warehouses <- OneWarehouse
  Online <- OneWarehouse
  Buffer <- OneHeldBack
  Answers <- Anything
  Prices = {0, 1}
  PosPrices = {}
  MaxRetries = 2
  MaxStock = 2
  MaxEvents = 3
\* The hub stops after MaxEvents events.
CHECK_DEADLOCK FALSE
SYMMETRY Alike
INVARIANTS QuietShowsTruth QuietShowsPrice StampFollowsPush

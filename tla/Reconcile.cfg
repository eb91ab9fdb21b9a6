\* An event that fails is dead-lettered at once: what redelivery does is for the
\* dispatcher's own run.
SPECIFICATION FairReconcileSpec
CONSTANTS
  c1 = c1
  c2 = c2
  m1 = m1
  NoChannel = NoChannel
  NotListed = NotListed
  Idle = Idle
  Channels <- OneChannel
  Warehouses <- OneWarehouse
  Online <- OneWarehouse
  Buffer <- NoBuffer
  Answers <- Anything
  Prices = {0, 1}
  \* A pull changes the price once: prices have to come to rest.
  PosPrices = {1}
  MaxRetries = 1
  MaxStock = 1
  MaxEvents = 3
\* The hub stops after MaxEvents events.
CHECK_DEADLOCK FALSE
PROPERTY Converges

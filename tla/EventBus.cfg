\* Everything twice; a relay drains two rows at a time.
SPECIFICATION FairSpec
CONSTANTS
  w1 = w1
  w2 = w2
  r1 = r1
  r2 = r2
  c1 = c1
  c2 = c2
  NoWriter = NoWriter
  NoMessage = NoMessage
  Writers <- TwoWriters
  Relays <- TwoRelays
  Consumers <- TwoConsumers
  BatchSize = 2
  MaxRetries = 2
  MaxEvents = 2
  MaxFailures = 2
\* Everything may be settled.
CHECK_DEADLOCK FALSE
INVARIANTS RelayedOnce NothingLost HandledOnce
PROPERTY SettledWhileServed
CONSTRAINT FirstWriter

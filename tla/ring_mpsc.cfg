\* Two producers and the consumer of a server ring: capacity 3, cursors that
\* wrap at 8, up to 9 enqueue calls, so that every cursor
\* passes the wrap, under fair scheduling.
CONSTANTS
  p1 = p1  p2 = p2  c1 = c1  c2 = c2
  Producers <- TwoProducers
  Consumers <- OneConsumer
  Requested = 2
  Size <- CreatedSize
  CounterMod = 8
  MaxCalls <- FiveAndFour
  MaxTakes = 10
  NoItem = NoItem
SPECIFICATION FairSpec
INVARIANTS
  TypeOK
  CursorsOrdered
  PublishedIntact
  ProducersTurn
  DeliveredInOrder
  RingInv
PROPERTIES
  RefusedOnlyWhenFull
  ImplementsFifo
  RoomAsRequested
  RingDrains

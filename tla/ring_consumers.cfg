\* One producer and two consumers: the exclusive claim of a slot holds even for
\* consumers that race.  The bound MaxTakes stops them.
CONSTANTS
  p1 = p1  p2 = p2  c1 = c1  c2 = c2
  Producers <- OneProducer
  Consumers <- TwoConsumers
  Requested = 2
  Size <- CreatedSize
  CounterMod = 8
  MaxCalls <- JustTwo
  MaxTakes = 3
  NoItem = NoItem
SPECIFICATION Spec
INVARIANT ConsumersTurn
CHECK_DEADLOCK FALSE

\* One producer and two consumers: what the ring does when it is used as its
\* comments and its test program allow.
CONSTANTS
  p1 = p1  p2 = p2  c1 = c1  c2 = c2
  Producers <- OneProducer
  Consumers <- TwoConsumers
  Requested = 2
  Size <- CreatedSize
  CounterMod = 8
  MaxCalls <- JustTwo
  MaxTakes = 3
  NoItem = NoItem
SPECIFICATION Spec
INVARIANT MultiCoreSafe

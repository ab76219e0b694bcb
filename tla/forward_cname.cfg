\* An alias whose compressed target takes four octets.
SPECIFICATION Spec
CONSTANTS
  b1 = b1  b2 = b2  n1 = n1  n2 = n2  n3 = n3  u1 = u1
  Ptr <- Pointers
  Null = Null
  Bucket <- TwoBuckets
  BucketOf <- TwoIdens
  Node <- ThreeNodes
  Queries <- JustPlain
  Answers <- AnswersWithShortAlias
  MaxQueries = 2
  MaxDups = 0
  MayLose = FALSE
INVARIANT AddressRead
CHECK_DEADLOCK FALSE

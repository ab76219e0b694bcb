\* A query with an additional record behind its question.
SPECIFICATION Spec
CONSTANTS
  b1 = b1  b2 = b2  n1 = n1  n2 = n2  n3 = n3  u1 = u1
  Ptr <- Pointers
  Null = Null
  Bucket <- TwoBuckets
  BucketOf <- TwoIdens
  Node <- ThreeNodes
  Queries <- PlainAndEdns
  Answers <- SeveralAnswers
  MaxQueries = 2
  MaxDups = 0
  MayLose = FALSE
INVARIANT EveryReplyReadsBack
CHECK_DEADLOCK FALSE

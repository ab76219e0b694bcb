\* Up to three of five queries, two identifiers in one bucket, losses, a duplicate.
SPECIFICATION Spec
CONSTANTS
  b1 = b1  b2 = b2  n1 = n1  n2 = n2  n3 = n3  u1 = u1
  Ptr <- Pointers
  Null = Null
  Bucket <- TwoBuckets
  BucketOf <- FourIdens
  Node <- ThreeNodes
  Queries <- SeveralQueries
  Answers <- SeveralAnswers
  MaxQueries = 3
  MaxDups = 1
  MayLose = TRUE
SYMMETRY SymmetricNodes
INVARIANTS
  TypeOK
  QuestionRead
  AddressRead
  ReplyReadsBack
  NothingForgotten
  ListOpsSound
PROPERTY ImplementsPending
\* The clients stop asking, and the server may break.
CHECK_DEADLOCK FALSE

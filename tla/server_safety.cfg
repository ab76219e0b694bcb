\* Losses, one duplicated answer, small rings, junk datagrams.
SPECIFICATION Spec
CONSTANTS
  c1 = c1  c2 = c2  na = na  nb = nb  nc = nc  i1 = i1  i2 = i2  i3 = i3
  NoAddr = NoAddr
  Names <- AllNames
  Configured <- GoodRecord
  Unresolvable <- JustB
  Datagrams <- IdenPerNameAndMore
  Capacity = 2
  MaxQueries = 3
  MaxDups = 1
  MayLose = TRUE
  MayMisread = FALSE
INVARIANTS
  TypeOK
  NodeOwnedOnce
  CacheFaithful
  AnswerFaithful
PROPERTY ImplementsService
\* Every client may have had its say, and an unmatched answer ends the model.
CHECK_DEADLOCK FALSE

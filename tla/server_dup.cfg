\* An answer is delivered twice.
SPECIFICATION Spec
CONSTANTS
  c1 = c1  c2 = c2  na = na  nb = nb  nc = nc  i1 = i1  i2 = i2  i3 = i3
  NoAddr = NoAddr
  Names <- AllNames
  Configured <- GoodRecord
  Unresolvable <- NoName
  Datagrams <- IdenPerName
  Capacity = 5
  MaxQueries = 2
  MaxDups = 1
  MayLose = FALSE
  MayMisread = FALSE
INVARIANT EveryAnswerMatches
\* Every client may have had its say.
CHECK_DEADLOCK FALSE

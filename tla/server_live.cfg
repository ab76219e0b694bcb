\* Shared identifiers, room in every ring, an upstream server that answers once,
\* and answers that are read as empty.
SPECIFICATION FairSpec
CONSTANTS
  c1 = c1  c2 = c2  na = na  nb = nb  nc = nc  i1 = i1  i2 = i2  i3 = i3
  NoAddr = NoAddr
  Names <- AllNames
  Configured <- BadRecord
  Unresolvable <- NoName
  Datagrams <- SharedAndOwnIden
  Capacity = 5
  MaxQueries = 3
  MaxDups = 0
  MayLose = FALSE
  MayMisread = TRUE
INVARIANT EveryAnswerMatches
PROPERTY EveryQueryAnswered
\* Every client may have had its say.
CHECK_DEADLOCK FALSE

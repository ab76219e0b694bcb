\* Eight names in one bucket, inserted in every order, while one is searched.
SPECIFICATION Spec
CONSTANTS
  forwarder = forwarder  worker = worker  x = x  y = y
  Key <- Keys
  Nil = Nil
  Inserters <- OneInserter
  Searchers <- OneSearcher
  Bucket <- OneBucket
  Host <- EightNames
  Addr <- Addresses
  NoAddr = NoAddr
  Entries <- OneAddressButForTwo
  Queries <- JustTwo
INVARIANTS
  TypeOK
  TreesSound
  EraseSound
  WalkSound
  WriterAlone
PROPERTY ImplementsBook

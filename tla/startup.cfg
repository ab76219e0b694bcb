\* Anything may fail, a wait may return without a signal, and DNS.conf may
\* be missing, unreadable at first, as shipped, or not in order.
SPECIFICATION FairSpec
CONSTANTS
  Files <- SeveralFiles
  Addresses <- GoodAddresses
  Numbers <- Atoi
  LongNames <- OneLongName
  MayFail = TRUE
  MayWake = TRUE
INVARIANTS
  TypeOK
  NoNullRing
  ServesWithAllThreads
  SoundFileServed
PROPERTIES
  EveryThreadEntersLoop
  MainSettles
\* The program may exit or crash, and main may wait for itself.
CHECK_DEADLOCK FALSE

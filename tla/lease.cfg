\* Two handler threads, two owners; every call, every death, under fairness.
SPECIFICATION FairSpec
CONSTANTS
  Owners = {a, b}
  NoOwner = NoOwner
  TTL = 1
  Threads = {t1, t2}
INVARIANTS TypeOK HoldsCounted
PROPERTIES ExitSparesOthers ServiceSpec DeadHolderFreed

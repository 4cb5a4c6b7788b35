\* Two clients; faults in the backend; force-steals, expiry, teardown, shutdown.
SPECIFICATION Spec
CONSTANTS
  a = a  b = b  t1 = t1  t2 = t2
  Owners = {a, b}
  NoOwner = NoOwner
  TTL = 0
  Threads = {t1, t2}
  Loops = {l1}
  OwnerOf <- TwoClients
  Sends <- Everything
  Profiles = {p, q}
  Faulty = TRUE
  Free = Free  NoLoop = NoLoop  NoProfile = NoProfile
INVARIANTS TypeOK LockDiscipline LockedWritersExclusive LoopExcludesMotion ChunkProfileStable
PROPERTIES MotionKeepsLease
CHECK_DEADLOCK FALSE

\* One client on two connections: stops reach their motion, requests end, loops die.
SPECIFICATION FairSpec
CONSTANTS
  a = a  b = b  t1 = t1  t2 = t2
  Owners = {a}
  NoOwner = NoOwner
  TTL = 0
  Threads = {t1, t2}
  Loops = {l1}
  OwnerOf <- OneClient
  Sends <- Session
  Profiles = {p}
  Faulty = TRUE
  Free = Free  NoLoop = NoLoop  NoProfile = NoProfile
INVARIANTS StopHolds
PROPERTIES Answered PoppedLoopEnds

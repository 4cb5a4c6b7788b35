\* A forced acquire during the lift of go_home_safe.
SPECIFICATION Spec
CONSTANTS
  a = a  b = b  t1 = t1  t2 = t2
  Owners = {a, b}
  NoOwner = NoOwner
  TTL = 0
  Threads = {t1, t2}
  Loops = {l1}
  OwnerOf <- TwoClients
  Sends <- Ritual
  Profiles = {p}
  Faulty = FALSE
  Free = Free  NoLoop = NoLoop  NoProfile = NoProfile
INVARIANT StopHolds

\* A client that takes back the lease a rival took: no fault is needed.
SPECIFICATION Spec
CONSTANTS
  Owners = {me, rival}
  NoOwner = NoOwner
  TTL = 0
  Me = me
  Main = main
  UserCalls <- Calls
  Beats = {h1, h2}
  Free = Free
  Ids = 2
  Patience = 2
  MaxFaults = 0
  MaxQueue = 1
PROPERTY HeldIsRefreshed

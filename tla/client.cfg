\* One heartbeat thread, one rival, one fault of any kind, fair threads.
SPECIFICATION FairSpec
CONSTANTS
  Owners = {me, rival}
  NoOwner = NoOwner
  TTL = 0
  Me = me
  Main = main
  UserCalls <- Calls
  Beats = {h1}
  Free = Free
  Ids = 2
  Patience = 2
  MaxFaults = 1
  MaxQueue = 1
INVARIANTS TypeOK
PROPERTIES Attributed ExpiryRecovered HeartbeatEnds

\* Two setpoints sent at any time, stops of every kind, fair threads.
SPECIFICATION FairSpec
CONSTANTS
  Setpoints <- Sent
  Homes <- Starts
  Default = 1
  Lo = 0
  Hi = 2
  Step = 1
INVARIANTS TypeOK WholeSetpoint
PROPERTIES SilentAfterStop HoldWhenStale StopReachesRobot

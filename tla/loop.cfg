\* Producers of every kind, faults, profile swaps, stops and restarts; the
\* thread keeps its rate and time passes.
SPECIFICATION FairSpec
CONSTANTS
  Positions <- Line
  Targets <- Far
  Guided <- Near
  Profiles <- Shipped
  None = None
PROPERTIES SteadyWithinStep FaultStopsStream SilenceHolds

\* Two callbacks of any kinds at a time, with stops, cancels and faults.
SPECIFICATION Spec
CONSTANTS
  Workers = {w1, w2}
  Wanted <- Asked
  Ticks = 2
  MaxTrips = 1
CHECK_DEADLOCK FALSE
SYMMETRY Alike
INVARIANT TypeOK
PROPERTIES StopLands NeverMisled StreamsGuarded

\* A stop while two motions are under way; nobody sets a mode.
SPECIFICATION Spec
CONSTANTS
  Workers = {w1, w2}
  Wanted = {}
  Ticks = 2
  MaxTrips = 0
CHECK_DEADLOCK FALSE
SYMMETRY Alike
PROPERTY StopAnswered

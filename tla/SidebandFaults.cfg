SPECIFICATION Spec
CONSTANTS
  N = 1
  K = 4
  Faults = {"flush", "signal", "command", "pq_off", "race"}
INVARIANTS
  RingIsWindow
  DoPqIsSafe
CHECK_DEADLOCK FALSE

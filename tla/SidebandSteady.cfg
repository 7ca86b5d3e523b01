SPECIFICATION Spec
CONSTANTS
  N = 3
  K = 2
  Faults = {}
INVARIANTS
  FlushedIsDequeued
PROPERTIES
  RefinesQueue
  ScreenMoves
CHECK_DEADLOCK FALSE

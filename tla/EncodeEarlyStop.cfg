SPECIFICATION Spec
CONSTANTS
  R = 2
  Overlaps = {"early_stop", "slow_frame", "restart", "init_fails"}
  MaxPosts = 2
PROPERTIES
  ToldStopReturns
CHECK_DEADLOCK FALSE

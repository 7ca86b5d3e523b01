SPECIFICATION Spec
CONSTANTS
  R = 2
  Overlaps = {"restart", "frame_lost"}
  MaxPosts = 3
INVARIANTS
  OutlivedByServer
CHECK_DEADLOCK FALSE

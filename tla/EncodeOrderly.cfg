SPECIFICATION Spec
CONSTANTS
  R = 4
  Overlaps = {"init_fails"}
  MaxPosts = 3
INVARIANTS
  NotOverwritten
  NoSlotLost
PROPERTIES
  SlotComesBack
CHECK_DEADLOCK FALSE

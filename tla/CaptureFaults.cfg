SPECIFICATION Spec
CONSTANTS
  N = 3
  Faults = {"timeout", "signal", "ioctl", "requeue", "reorder"}
  MaxCount = 4
INVARIANTS
  AtMostTwoTickets

SPECIFICATION Spec
CONSTANTS
  N = 3
  Faults = {"timeout", "signal", "race"}
  MaxCount = 3
INVARIANTS
  HeldHasSlot
  SettledIsRunning

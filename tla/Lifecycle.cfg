SPECIFICATION Spec
CONSTANTS
  Sessions = {1, 2}
  FdNumbers = {1, 2, 3}
  Modes = {1, 2}
  MaxChanges = 2
  Faults = {"signal", "ioctl", "other", "absent"}
INVARIANTS
  OpenedHasDevice
  NoHandleLeak
  NoUseAfterDelete
  SizeIsCurrent
PROPERTIES
  ClosesOwnFiles
  CallsReturn
  EventsHandled
CHECK_DEADLOCK FALSE

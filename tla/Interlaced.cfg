SPECIFICATION Spec
CONSTANTS
  K = 4
  Stamps = 5
INVARIANTS
  FieldsInOrder
  ScreenNotWritten
PROPERTY
  KeepsShowing
CHECK_DEADLOCK FALSE

SPECIFICATION Spec
CONSTANTS
  Sizes <- MCSizes
  Modes <- MCModes
  Rates = {0, 1, 50}
  MaxChanges = 1
  None = None
INVARIANTS
  AccessesFit
  RecordedPictureIsRight
  WholePictureShown
PROPERTY
  RecordingStarts

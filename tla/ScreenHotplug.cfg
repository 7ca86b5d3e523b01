SPECIFICATION Spec
CONSTANTS
  Handles = {h1, h2}
  Fds = {f4, f5}
  FbIds = {1}
  Displays = {1}
  Renderers = {"work", "event"}
  Slots = {"capture", "preview", "record"}
  Faults = {"plug", "alloc", "addfb", "drm"}
INVARIANTS
  FbIsBuffer
  ScreenShowsLiveBuffer
  NoFbLeak
  AllFreedAtClose
  LocksBalanced
PROPERTIES
  ScreenComesBack
CHECK_DEADLOCK FALSE

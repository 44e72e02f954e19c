SPECIFICATION Spec
CONSTANTS
  Size = 6
  Closers = {"loop", "worker"}
INVARIANTS
  NothingLeftBehind
PROPERTIES
  FormatIsFound
CHECK_DEADLOCK FALSE

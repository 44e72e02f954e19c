SPECIFICATION Spec
CONSTANTS
  BUFFER_LIMIT = 1
  HARD_SEEK_THRESHOLD = 9
  StreamSize = 4
  ChunkSizes = {1}
  Lengths = {1}
  Offsets = {}
  MaxOff = 4
  Seekable = TRUE
  StreamErrors = {}
  PeekUse = "any"
  LetGo = "any"
INVARIANTS
  NeverResumedAfterCompleting

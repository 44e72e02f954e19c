SPECIFICATION Spec
CONSTANTS
  BUFFER_LIMIT = 1
  HARD_SEEK_THRESHOLD = 9
  StreamSize = 3
  ChunkSizes = {1}
  Lengths = {1, 2}
  Offsets = {1}
  MaxOff = 4
  Seekable = TRUE
  StreamErrors = {"SEEK"}
  PeekUse = "any"
  LetGo = "answered"
INVARIANTS
  TypeOK
  BufferInBounds

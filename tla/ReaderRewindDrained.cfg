SPECIFICATION Spec
CONSTANTS
  BUFFER_LIMIT = 2
  HARD_SEEK_THRESHOLD = 9
  StreamSize = 4
  ChunkSizes <- OneToTwo
  Lengths = {1}
  Offsets = {}
  MaxOff = 5
  Seekable = TRUE
  StreamErrors = {}
  PeekUse = "chunk"
  LetGo = "tidy"
PROPERTIES
  RewindRestoresHead

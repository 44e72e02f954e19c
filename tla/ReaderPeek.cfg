SPECIFICATION Spec
CONSTANTS
  BUFFER_LIMIT = 2
  HARD_SEEK_THRESHOLD = 1
  StreamSize = 5
  ChunkSizes = {1, 2, 5}
  Lengths <- OneToThree
  Offsets = {1}
  MaxOff = 6
  Seekable = TRUE
  StreamErrors = {"IO"}
  PeekUse = "short"
  LetGo = "tidy"
INVARIANTS
  
  ReadsTheStream
PROPERTIES
  RewindRestoresHead

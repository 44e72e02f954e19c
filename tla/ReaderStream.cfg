SPECIFICATION FairSpec
CONSTANTS
  BUFFER_LIMIT = 2
  HARD_SEEK_THRESHOLD = 1
  StreamSize = 5
  ChunkSizes <- OneToThree
  Lengths <- OneToThree
  Offsets = {0, 3}
  MaxOff = 7
  Seekable = TRUE
  StreamErrors = {"IO", "SEEK"}
  PeekUse = "none"
  LetGo = "tidy"
INVARIANTS
  NeverResumedAfterCompleting
  WritesFindReaderEmpty
  WritesAreWanted
  EofIsTheEnd
  ClosedOutsideWrite
PROPERTIES
  OnlyOwnerWakes
  ImplementsSource
  WaitEnds

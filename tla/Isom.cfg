SPECIFICATION Spec
CONSTANTS
  Files <- MCFiles
  Word = 8
  MaxChunks = 3
  MaxSamples = 2
CHECK_DEADLOCK FALSE
INVARIANTS
  CursorsInTables
  PacketsInTurn
  EndIsTheEnd
PROPERTY OnlyForward

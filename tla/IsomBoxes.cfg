SPECIFICATION FairSpec
CONSTANTS
  Styles <- AllStyles
  Objects = {1, 2}
  Word = 128
  HEADER = 2
  TAG = 1
  BODY = 1
CHECK_DEADLOCK FALSE
INVARIANTS
  TracksAreListed
  DefaultsArePassedOn
PROPERTIES
  BoxesAreNested
  WalkEnds

SPECIFICATION Spec
CONSTANTS
  Ids = {"MKV_SEGMENT", "MKV_TRACKS", "MKV_TRACK", "MKV_TRACK_AUDIO", "MKV_CUES", "MKV_CUE_POINT", "MKV_CLUSTER", "MKV_CLUSTER_TIMECODE", "MKV_CLUSTER_SIMPLE_BLOCK", "VOID"}
  HeaderSizes = {2}
  Sizes = {0, 1, 3, 8, 13}
  BlockHeader = 2
  UnknownIds = {"MKV_SEGMENT", "MKV_TRACKS", "MKV_TRACK", "MKV_TRACK_AUDIO", "MKV_CLUSTER"}
  Times = {1}
  Timecodes = {0, 2}
  Files = {"readable", "sized"}
  MaxOffset = 22
  MaxDamaged = 11
  UNKNOWN_LENGTH = 255
INVARIANTS
  StackIsNested
  ObjectsAreOpen
  NeverOutside
  FollowsFile
  BlocksInTurn
  EofIsTheEnd

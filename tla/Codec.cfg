SPECIFICATION Spec
CONSTANTS
  Blocks = {b1, b2, b3, b4, b5}
  Packets = {p1, p2, p3}
  Frames = {f1, f2}
  Decoders = {dec}
  Encoders = {enc, absent}
  NoBlock = null
  Depth = 2
  Slices = 2
  Library = {dec, enc}
SYMMETRY Names
INVARIANTS
  MemoryIsCounted
CHECK_DEADLOCK FALSE

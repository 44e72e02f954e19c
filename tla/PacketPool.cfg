SPECIFICATION Spec
CONSTANTS
  Buffers = {b1, b2, b3}
  Packets = {p1, p2, p3}
  Demuxers = {d1, d2}
  NoBuffer = null
  Sizes = {0, 3, 4, 14}
  XE_BUFFER_SIZE = 4
  XE_BUFFER_PADDING = 1
  Word = 16
  Keeps = {d1}
  MayFail = TRUE
SYMMETRY Names
INVARIANTS
  NeverNull
  PoolInv
PROPERTIES
  ImplementsMemory

CONSTANTS
  c1 = c1
  c2 = c2
  Central = {c1, c2}
  NoQueue = NoQueue
  Chunks = 2
  MaxFrames = 1
  MaxEvents = 2
  MaxPosts = 1
SPECIFICATION Spec
INVARIANT OwnChunksOnly
SYMMETRY Symmetry
CHECK_DEADLOCK FALSE

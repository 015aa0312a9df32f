CONSTANTS
  Kinds = {"fixed", "grown"}
  FixedSize = 2
  Sizes = {0, 2}
  Lengths = {2}
  Offsets <- BackAndForth
  Chunk = 1
  HalfChunk = 1
  MaxSize = 4
  MaxOther = 2
  MaxWritten = 2
  MaxBlocks = 2
  AllocFails = TRUE
SPECIFICATION Spec
INVARIANTS TypeOK Owned
PROPERTIES FailureKeeps IsFile

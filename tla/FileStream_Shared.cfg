CONSTANTS
  Threads = {1, 2}
  Texts <- TwoTexts
  Sources <- CopySources
  Lengths = {2}
  Positions = {1}
  Buf = 2
  Chunk = 2
  Wrap = 5
  MaxLen = 4
  MaxWrites = 2
SPECIFICATION Spec
CHECK_DEADLOCK FALSE
INVARIANTS RangeInStep
PROPERTIES TransferAlone CopyEnds

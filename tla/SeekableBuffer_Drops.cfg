CONSTANTS
  Kinds = {"both"}
  Capacities = {3}
  FileSize = 6
  Lengths = {2}
  Offsets = {0}
  MaxSize = 0
  MaxWritten = 0
  Careful = FALSE
SPECIFICATION Spec
PROPERTY ReadsInOrder
CHECK_DEADLOCK FALSE

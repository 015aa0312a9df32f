CONSTANTS
  Kinds = {"input", "output", "both"}
  Capacities = {0, 2, 3}
  FileSize = 3
  Lengths = {1, 2, 3}
  Offsets <- BackAndForth
  MaxSize = 4
  MaxWritten = 4
  Careful = TRUE
SPECIFICATION Spec
INVARIANTS TypeOK WindowIsFile
PROPERTY IsFile
\* A destroyed object does nothing.
CHECK_DEADLOCK FALSE

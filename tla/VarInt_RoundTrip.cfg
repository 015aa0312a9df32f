CONSTANTS
  Codes = {"uint32", "uint64", "int32", "int64", "uint30", "int30", "uint61", "int61",
           "string", "first", "diff"}
  Tops = {5, 6, 7, 14, 28, 31, 40, 48, 56, 60, 63}
  Words <- LedByTops
  Strings <- ShortStrings
  MaxValues = 2
  Careful = TRUE
SPECIFICATION Spec
INVARIANTS RoundTrip ErrorsMeanCut Backward FitsRoom
\* Everything written, everything read.
CHECK_DEADLOCK FALSE

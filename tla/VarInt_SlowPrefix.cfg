CONSTANTS
  Codes = {"uint30"}
  Tops = {5, 6, 7, 13, 14, 21, 22, 29}
  Words <- LedByTops
  Strings = {}
  MaxValues = 2
  Careful = FALSE
SPECIFICATION Spec
INVARIANT RoundTrip
CHECK_DEADLOCK FALSE

CONSTANTS
  Kinds = {"reader", "writer"}
  Sources <- Texts
  MaxLend = 3
  Lengths = {1, 2, 4}
  MaxGiven = 7
  MaxThrows = 2
  Careful = TRUE
SPECIFICATION Spec
INVARIANTS NeverStale Delivered LineExact
PROPERTY IsPipe
\* A destroyed writer does nothing.
CHECK_DEADLOCK FALSE

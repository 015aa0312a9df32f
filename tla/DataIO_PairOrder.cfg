SPECIFICATION Spec
CONSTANTS
  Types <- AllTypes
  Runs <- PairRuns
  Olds <- NewOrUsed
INVARIANT OneFormat
CHECK_DEADLOCK FALSE

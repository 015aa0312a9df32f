SPECIFICATION Spec
CONSTANTS
  Types <- AllTypes
  Runs <- AllRuns
  Olds <- NewOrUsed
INVARIANTS LoadsWhatWasSaved RefusesNewer CutIsNoticed OneFormat
CHECK_DEADLOCK FALSE

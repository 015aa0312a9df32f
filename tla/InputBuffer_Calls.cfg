CONSTANTS
  Sources <- LineSources
  Capacities = {0, 2, 3}
  Lengths = {0, 2, 6}
  Calls <- AllReaderCalls
  Growing = TRUE
  StreamThrows = FALSE
SPECIFICATION FairSpec
INVARIANTS TypeOK PointerOrder Contiguous EndIsTrue GetlineExact
PROPERTIES DroppedByThrow LoopsEnd

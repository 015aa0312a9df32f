CONSTANTS
  Capacities = {0, 2, 3}
  Lengths = {0, 2, 4}
  Calls <- FailCalls
  MaxBytes = 6
  MaxFailures = 1
  InputEnds = TRUE
SPECIFICATION FairSpec
INVARIANTS TypeOK ExactlyOnce NoGaps Delivered
PROPERTIES FlushedIsSent LoopsEnd
\* A destroyed object, or a client with nothing left to write, does nothing.
CHECK_DEADLOCK FALSE

CONSTANTS
  Page = 2
  Block = 2
  Contents <- OneFile
  Others <- OtherFiles
  Modes = {"read", "write", "trunc"}
  NewSizes = {1}
  MaxFaults = 1
  Lengths = {2, 3}
  Offsets <- Backwards
  Regions <- OneRegion
  Sizes = {3}
  MaxSize = 4
  MaxWritten = 3
  Builds = {"debug", "release"}
  Careful = TRUE
SPECIFICATION Spec
INVARIANTS TypeOK
PROPERTIES LosesOnlyOnFailedResize IsFile ComparesInOrder Returns

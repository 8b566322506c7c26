SPECIFICATION FairSpec
CONSTANTS
  N = 2
  Port = 55555
  OwnStreams = {0, 1, 2}
  Padding = 0
  Faults = TRUE
INVARIANTS TypeOK NormalEndIsRequested StreamsDoNotMix GoMeansCreated
PROPERTY ClientEnds
CHECK_DEADLOCK FALSE

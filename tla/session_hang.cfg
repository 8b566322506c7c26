SPECIFICATION FairSpec
CONSTANTS
  Duration = 1
  Interval = 1
  MaxElapsed = 2
  MaxLag = 0
  MaxQueue = 2
  Lossy = FALSE
  Faults = FALSE
PROPERTY ServerEnds
CHECK_DEADLOCK FALSE

SPECIFICATION FairSpec
CONSTANTS
  Second = 16
  Duration = 2
  Interval = 1
  Heap = 7
  Payload = 3
  Pointers <- anyPointer
  NtpLossy = TRUE
  NtpFails = TRUE
  MaxQueue = 2
  Step = 8
  MaxStart = 16
  MaxTime = 40
INVARIANTS TypeOK NormalEndIsComplete EstimateWithinExperiment
PROPERTIES ClientEnds EndsOnTermInTime
CHECK_DEADLOCK FALSE

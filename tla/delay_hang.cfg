SPECIFICATION FairSpec
CONSTANTS
  Second = 16
  Duration = 1
  Interval = 1
  Heap = 2
  Payload = 1
  Pointers <- mappedPointer
  NtpLossy = FALSE
  NtpFails = FALSE
  MaxQueue = 2
  Step = 8
  MaxStart = 16
  MaxTime = 40
PROPERTY ServerEnds
CHECK_DEADLOCK FALSE

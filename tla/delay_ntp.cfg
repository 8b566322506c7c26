SPECIFICATION FairSpec
CONSTANTS
  Second = 16
  Duration = 1
  Interval = 1
  Heap = 2
  Payload = 1
  Pointers <- mappedPointer
  NtpLossy = TRUE
  NtpFails = FALSE
  MaxQueue = 2
  Step = 8
  MaxStart = 16
  MaxTime = 40
PROPERTY ClientEndsAnyway
CHECK_DEADLOCK FALSE

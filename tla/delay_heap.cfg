SPECIFICATION Spec
CONSTANTS
  Second = 16
  Duration = 2
  Interval = 1
  Heap = 5
  Payload = 3
  Pointers <- mappedPointer
  NtpLossy = FALSE
  NtpFails = FALSE
  MaxQueue = 2
  Step = 8
  MaxStart = 16
  MaxTime = 56
INVARIANT ClientCompletes
CHECK_DEADLOCK FALSE
